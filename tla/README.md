# TLA+ specifications of the indoor service robot's motion path

The robot has two computers. A Raspberry Pi decides where to go
(`software/rpi`), an STM32 drives the wheels (`firmware/stm32`), and a UART
protocol (`protocol`) joins them. These specifications are about the path from
the operator's radio or a motion request on the Pi, over frames on the UART, to
the power on the wheels: who may move the robot, when may a wheel be powered,
what does an answer on the wire promise, and what is left after any failure.

Paths below are relative to the repository's root.

## The system's parts

| Part | State it keeps | Operations | What makes it correct |
|---|---|---|---|
| Reliable motion command receiver (`protocol/motion_reliable_receiver.c`, `motion_sequence.c`) | latest sequence number, pending transaction, cached last answer | classify, begin_pending, record_immediate_terminal, complete_pending, reset | a retransmission is recognised as one, also across the wrap of the 16 bit sequence number, and gets the same answer |
| Motion lifecycle coordinator (`protocol/motion_lifecycle_coordinator.c`) | session state, session id, operation counter, awaited operation | one handler per (state, command), complete_operation, reset | every accepted START or END is answered once, with the result of its own stop |
| Motion protocol manager (`App/Src/stm32_motion_protocol_manager.c`) | operation it executes, whether confirmation has begun | handle, update, reset | executes exactly the operation the coordinator awaits |
| Motion command guard and watchdog (`motion_command_guard.c`, `motion_watchdog.c`) | owed stop, watchdog | apply, stop, update | nothing powers a wheel past the command timeout; a failed stop is repeated before anything else |
| Stop confirmation (`motion_stop.c`) | operation, start, last movement, encoder counts | begin, update, cancel | SUCCESS means the wheels were still for the settle time |
| Link manager (`uart_link_manager.c`) | synchronized, last heartbeat | LINK_SYNC, heartbeat, update | losing the link stops the motors and ends the session |
| Main loop (`Core/Src/main.c`) | none of its own | update, receive, link update, recovery | composes the above in an order in which no result is stale |
| Receive path (`uart_rx_port_stm32.c`, `uart_rx_queue.c`, `uart_protocol_receiver.c`) | DMA position, ring with two counters, overflow flag | DMA callback (interrupt), push, pop, reset, poll | the decoder sees gapless pieces of the stream, and hears of every loss |
| Velocity codec and feedforward (`wheel_velocity_codec.c`, `byte_codec.c`, `wheel_velocity_feedforward.c`) | none | encode, decode, convert | sign, range and order survive byte packing, dead zone, saturation and rounding |
| DRI0041 motor driver (`motor_driver_dri0041.c` and its port) | direction and pending reversal per wheel | apply, stop | no wheel is switched straight across |
| Frame decoder and encoder (`protocol/protocol_frame_decoder.c`, `protocol_frame_encoder.c`) | search state, partial frame | feed_byte, reset | hands out what was sent, and finds the next frame after a broken one |
| Raspberry Pi motion session (`stm32_motion_session.cpp`) | state, next sequence, pending command, retries | start, end, ACK, response, retry, exhaustion, reset | the two ends agree on the session, or the Pi knows that it does not know |
| Raspberry Pi link session (`stm32_link_session.cpp`) | link state, heartbeat and answer times | synchronize, heartbeat, timeout | detects a dead or restarted STM32 |
| Raspberry Pi client runner (`stm32_client_runner.cpp`) | both sessions, held wheel command, reconnect time | poll, set_wheel_command | a stale wheel command never starts motion |
| Frame sender and serial port (`protocol_frame_sender.cpp`, `linux_serial_port.cpp`) | progress of one frame | send, wait, write_some | a call ends, by its deadline |
| Raspberry Pi motion coordinator (`motion_coordinator.cpp`, `control_state.cpp`, `safety_state.cpp`, `motion_watchdog.cpp`) | authority, safety state, watchdog, motor port | request/release, command, stop, fault | no motion without authority, watchdog always armed in motion |
| Manual control (`manual_control_probe_main.cpp`, `manual_input_guard.cpp`, `manual_control_input.cpp`) | arming state, place in the loop | one pass of the loop | neutral sticks before control is taken, no old stick position moves the wheels |
| Radio receiver (`crsf_frame_decoder.cpp`, `crsf_channels.cpp`) | partial frame | feed_byte, decode | no invented frame, no bit of a channel lost |

### How they interact

The STM32 main loop is one thread: it reads the tick once per round, calls the
manager's update, polls the receiver for at most one frame, gives the frame to
the manager and to the link manager, and runs the link's timeout. The only
concurrency on the STM32 is the receive interrupt, which shares the byte queue
with the loop without a lock.

The Pi talks to it only through frames, which may be lost, repeated by its retry,
or arrive after either side has reset or restarted. On the Pi, the application
thread calls the runner's `poll` over and over and gives it wheel commands in
between; one `poll` may block in several transmissions, and decides each thing at
its own reading of the clock. Manual control is such an application: it reads radio frames
from a serial port whose buffer fills while the process is held up, asks the
guard whether the operator has armed, and hands on a velocity or a stop.
The Pi's motion coordinator is driven by calls only (requests, reports, `tick`)
and drives the motors through an interface whose every call may fail.

What is hard to test in this: the exact interleaving of the interrupt and the
loop; a failing driver, transmitter, port or queue in each place where it can fail;
a supersession, completion, reset and retransmission in every order; a restart
of either computer with frames of before still on the line; a process
that is held up between reading something and using it; counters
that wrap (sequence numbers, operation identifiers, millisecond ticks, queue
counters, DMA position); and what must happen eventually. `PROJECT.json` lists
these hazards with the line where each bites.

## Modules

| Module | Models |
|---|---|
| `Optional` | the value `None` of an absent field (a `_valid` flag that is false) |
| `Ticks` | ages of recorded instants, modulo the tick counter |
| `MotionReliableReceiver` | the receiver: `latest_sequence`, `pending`, `terminal` |
| `MotionLifecycleCoordinator` | the coordinator on top of it; an abstract specification of what the rest of the firmware may see of it (`Spec`) |
| `MotionLifecycleHistory` | the coordinator with an adversarial peer and executor, and history variables |
| `MotionCommandGuard`, `MotionStop`, `UartLinkManager` | the components of these names |
| `Stm32Firmware` | manager and main loop, composing all the above |
| `UartRxQueue`, `UartReception` | the byte queue; DMA, interrupt, line errors and poll around it |
| `ProtocolFrameDecoder` | the streaming decoder, against the encoder |
| `WheelVelocity` | codec and feedforward, as operators |
| `Dri0041Driver` | the motor driver and its pins |
| `WheelDrive` | the last two composed: from the payload of a velocity frame to the pins |
| `Stm32MotionSession`, `Stm32LinkSession` | the Pi's two sessions: a lifecycle transaction with its retries, and the link with its heartbeats |
| `Stm32ClientRunner` | the Pi's client, composing the two: connection epochs and the steps of `poll` |
| `MotionClient` | what the client promises the STM32, without clocks: abstract specification |
| `WheelPort` | what the client promises the application that gives it wheel commands: abstract specification |
| `ClientRunnerRefinement` | the mappings under which `Stm32ClientRunner` implements both |
| `RobotLink` | both computers over the line: `MotionClient` with `MotionLifecycleCoordinator` |
| `FrameSender` | a frame written in pieces under a deadline |
| `ManualInputGuard`, `ManualControl` | the arming guard; the manual control loop around it, on a `WheelPort` |
| `CrsfFrameDecoder`, `CrsfChannels` | the radio's frames; the channels in one |
| `RpiMotionCoordinator` | the Pi's motion coordinator with its authority, safety state and watchdog |
| `MotionLifecycleProofs`, `Stm32FirmwareProofs`, `WheelDriveProofs`, `UartReceptionProofs`, `FrameProofs`, `RobotLinkProofs`, `RpiMotionProofs`, `RadioControlProofs` | theorems: of the coordinator, the firmware, the drive, the receive path, frames read and written on the line, both computers together, the Pi's coordinator and client, manual control with the radio's frames |
| `MC...` | instances for TLC |

The two abstract specifications in the middle tie the parts together. Firmware and runner
are each checked in full detail alone, and are each shown to implement
a smaller specification; the smaller ones are then composed.

    Stm32Firmware     ==>  MotionLifecycleCoordinator  \
                                                        RobotLink
    Stm32ClientRunner ==>  MotionClient                /
    Stm32ClientRunner ==>  WheelPort  --------------->  ManualControl

Definitions have the names of the functions they model where the functions are
of that size; the map in `PROJECT.json` gives the lines. Definitions whose
comment calls them a *faulty variant* belong to no specification: each is a
plausible bug of the definition after it, and putting it in that definition's
place must make a property fail.

Correspondence of state and code that is not one to one:

- A pair of a `_valid` flag and a value is one variable, `None` when the flag
  is false.
- A timestamp `x_ms` of the STM32 is its age `now_ms - x_ms` at the last clock reading,
  reduced modulo `ClockMod`, which stands for 2^32. The code never uses a
  timestamp in another way. `Sample(d)` makes all ages d older at once; `d` is
  at most `MaxStall`, the longest time one round of the loop takes.
- `action` in `MotionLifecycleCoordinator` is the value the last call returned;
  it is `NoAction` after every step that makes no call.
- In `Stm32Firmware` one step is one call the main loop makes (`pc` says which is
  next). Calls that can fail have a Boolean parameter (`sent`, `stopped`) that
  TLC and the proofs take both ways. A frame that `protocol_ingress_route` refuses
  is one of `ReceiveDropped`.
- `driven`, `rest`, `encoder_moved` are the physical side. `rest` is the time
  since the wheels last moved, saturated at `StopSettle`; the code cannot see it,
  only movement since its last encoder reading.
- In `UartReception` a byte is its position in the stream. A line error ends the
  reception (`receiving`) with bytes written that no event has reported. The main loop
  takes one step per memory access, the callback is preempted by nothing.
- In `ProtocolFrameDecoder` and `CrsfFrameDecoder`, a step feeds any byte. `stream` is
  the end of what was fed, as long as the longest frame, with what the
  decoder was looking for before each byte. The checksum is an arbitrary
  function of byte and checksum so far.
- In `WheelDrive`, a velocity goes through bytes and back, then through the
  conversion, then to the driver; `requested` and `motor` are what the driver took last.
- On the Pi, ages are counted only up to the limit they are compared with:
  each is looked at in every `poll`, so none comes near 2^32 ms. The runner's two
  deadlines are one variable, the time left, since they never run together.
  `late` is the time since `poll` read `now_ms`, which `heartbeat_if_due` uses
  after the transmissions in between; all other decisions read the clock anew.
- In `Stm32ClientRunner` one step is one decision of `poll` or the end of one
  transmission (`phase` says which). A frame from the STM32 is an action with
  any sequence number, session and result: the peer is not assumed to
  follow the protocol. A new session's random number is any number but 0.
  `sends` and `outdated` are history.
- In `RobotLink` every frame carries the token of its epoch as history; in the
  code only LINK_SYNC and LINK_SYNC_OK do, and only `SyncOkTaken` looks at it. The tokens
  are random 64 bit numbers; the model takes a new one that no frame on the line
  and neither computer still knows (`FreshToken`). A timeout
  or a failure is a step that may come at any time. Frames keep their order:
  it is one serial line.
- In `ManualControl` one step is one reading of the clock, the port or the runner's state. A
  frame ages from its arrival in the port's buffer. `rearmed` is history:
  which halves of the arming gesture the guard has been shown since the last
  interruption. The mixing of the sticks (floating point) is reduced to whether
  the rounded wheel command is zero; `"slight"` is a stick out of neutral whose
  command is.
- In `FrameSender`, time has ticks finer than `poll`'s milliseconds, as rounding
  the rest of the timeout up to whole ones is what the loop's end depends on.
- In `RpiMotionCoordinator`, `moving` says whether the motors turn. A failed
  call may have left them as they were or, for a velocity, in any state. The
  calls' return values are left out. They are functions of the old state.

## Runs

| Run | What it shows |
|---|---|
| `lifecycle_history` | The coordinator, with a peer that sends any transaction at any time and an executor that reports operations late, twice or after a reset. `OpenIffPending`: an accepted command stays pending until answered and no longer. `AnswersAgree`: the newest accepted transaction is recognised when it is repeated, and all answers to one accepted transaction are equal. `AwaitedIsNewest`: a completion the coordinator takes is of the operation it handed out last. |
| `firmware` | The whole main loop, with two wheels and any frames. `MotionAuthorised`, `CommandFresh`: power needs an active session, a link, and a velocity command younger than the timeout; otherwise a stop is owed. Nor does anything happen between an ACK or response that could not be sent and the recovery that ends the link epoch (part of `MotionAuthorised`). `OperationInStep`: manager, coordinator and confirmation agree on the operation. `RestBeforeOk`: OK is sent only at rest. `LifecycleImplemented`: the loop implements `MotionLifecycleCoordinator!Spec`. `OperationResolved`: every stop operation ends. `MotionNeedsCommands`: power stays on only while velocity commands keep coming. |
| `motor_driver` | Velocity frames through codec, conversion and driver to the pins, with failing port calls and tick wrap. `VelocityFaithful`: sign, range and order of the duty follow the requested velocities, and a powered wheel turns the way that was asked. `NeverStraightAcross`, `BrakeServed`: the reversal brake. |
| `motor_driver_port` | Expected to fail, see *Finding*. |
| `uart_reception` | `GaplessRun`: between two decoder resets every byte fed to the decoder is the one after the last, none lost and none repeated. `ReceptionInv`: a loss is reported before a frame that follows it; both also when a line error ends the reception in the middle. |
| `frame_decoder` | Every stream of bytes. `FramesAsSent`: a frame handed out was on the line, a frame that begins while the decoder searches is handed out, and the payload array is never overrun. `SearchResumed`: giving up a frame loses nothing of the next, even if its first bytes were taken for length or checksum of the broken one. |
| `client_runner` | The Pi's client with any peer and a port that fails anywhere. `SessionsInStep`: runner, link session and motion session agree, so the refusals for which the runner has error paths (`Failed to create ...`) never happen. `NoOutdatedMotion`: a wheel command of before the connection neither starts a session nor is sent. `ClientImplemented`, `PortImplemented`: the two refinements. `TransactionEnds`, also with a peer that repeats ACKs and never answers. `SessionNeedsCommands`, `LinkNeedsAnswers`: session and link are given up when nothing keeps them up. `AttemptsGoOn`: the runner always comes back to connecting. |
| `robot_link` | Both computers, losses, reconnects, and restarts of either at any moment. `EpochBarrier`: once LINK_SYNC_OK is taken, nothing of an earlier epoch is on the line or in the STM32. (What the STM32 sent in this epoch, before a restart of its own, may still arrive.) `SessionsAgree`: both ends agree on the session up to the command under way. `LineInv`: the client never provokes the answers meant for commands in conflict (SUPERSEDED, BUSY_STOPPING, SESSION_MISMATCH, ALREADY). `NoFalseLife`: an STM32 that lost its link does not keep answering the client as if it had not. |
| `frame_sender` | `SendEnds`: every call ends, over a port that never takes a byte too. `FailsEarlyOnlyFor`: the reasons for which it fails before its deadline, see *Observations*. |
| `manual_control` | The loop with stalls anywhere, frames gathering in the buffer, and a link that comes and goes. `MotionRearmed`: motion needs the whole arming gesture since the last silence, stall or loss of the link. `StickRecent`: how old a stick position can be when it moves the wheels. `SilenceStops`: when the radio falls silent the wheels stop, and stay so. |
| `radio_receiver` | Every stream of bytes. `RadioFramesAsSent`: as for the protocol's decoder, with two arrays of different size. `ChannelsExact`: whatever bytes a frame of channels holds, the channels are the digits of the number they form, and the accumulator loses no bit. |
| `rpi_motion_coordinator` | The Pi's coordinator with motors that may fail at every call. `MotionAttended`: turning motors have an armed watchdog or a fault on record. `NoAuthorityNoMotion`. `SafeAgainAtRest`: clearing emergency stop and fault, in any order, ends at rest. `MotionRenewedOrEnded`: motion that nobody renews ends, or ends in a fault. |

### Observations

What the runs make plain, as the code has it:

- A manual operator who takes over the Pi's motion coordinator does not stop an
  autonomous motion: it goes on until the first manual command, or until the
  watchdog ends it.
- A stop that fails in its `tick` is not tried again; the watchdog is disarmed,
  and only the recorded fault says that the motors may still turn. Hence
  `MotionAttended` and `MotionRenewedOrEnded` allow a fault.
- A framing, noise or overrun error makes the HAL abort the DMA reception, and
  nothing in the firmware starts it again. The decoder is fed nothing out of
  order, and from then on the firmware behaves as with a silent peer: the motors
  stop, the link goes down, and stays down until the STM32 is restarted.
- `LinuxSerialPort::wait` watches for input together with output. With input
  waiting and the output buffer full, it returns at once, and
  `send_protocol_frame` takes that for the end of its time: it gives up before
  its deadline, which costs the connection. `FailsEarlyOnlyFor` says that a broken
  port is the only other reason; it documents this case and excludes others, such as a
  last wait rounded down.
- The heartbeat may leave late: `now_ms` is read before the one blocking transmission
  that can precede it in an iteration. The runner's model has this (`late`). Whether it can cost the
  link depends on the two computers' periods and timeouts together, which no
  module has.
- In manual control, the reset of the guard after `runner.poll` on a lost connection
  repeats the one at the next decision; the model has both, and
  `MotionRearmed` needs the latter.

### Bounds, and why they are enough

- Sequence space 4 (`SequenceHalf = 2`): one newer step, the point of exact
  opposition, one stale step; the code only looks at the three-way relation. Over
  a behaviour the numbers wrap. `OperationMod = 3`: identifiers 1 and 2, so the
  counter skips 0 and reuses an identifier after two operations.
- Sessions 0 and 1: this one, and the 0 that also means none and another.
- Timeouts 2 to 4 ticks with rounds of 0 to 3: deadlines are met exactly, passed
  by more than one tick, and passed in the same round as each other. `ClockMod = 8`
  lets ages that nobody looks at wrap.
- Two wheels in `firmware`, so that a failed stop can leave one powered.
- The drive has words of 4 bits: the least velocity has no positive counterpart, some
  saturate, some are rounded to the same command. The brake time is no multiple
  of the delays, and the tick wraps while a reversal waits.
- Queue of 2 with counters modulo 4, DMA buffer of 4, 10 bytes: the queue fills and
  empties, both counters wrap twice, the DMA position wraps twice, and each
  callback can begin and end at each position. `StreamLength` cuts behaviours off.
- The decoders see streams without end. Bytes have few values, so that each
  field can look like the beginning of a frame, and payloads up to the limit, one
  more being refused. The checksum is one that every byte changes.
  Channels have 4 bits in bytes of 3, with an accumulator of exactly the size needed.
- The Pi's coordinator has its true timeout, in ticks of 100 ms.
- The Pi's client has three sequence numbers, two sessions and two retries. An
  answer is then current or stale, of this session or of another one, and a
  transaction has a first and a last retry. Timeouts are 1 to 3 ticks in the order of
  the real ones (ACK before response, heartbeat period before link timeout), and
  a `poll` may be delayed by a tick between a clock reading and its use. Nothing
  cuts behaviours off.
- `RobotLink` has two frames each way on the line, two tokens and one retry: a
  reconnect with frames of before on the line in both directions, and a repeated command whose
  first copy is still under way. One session number is used again and
  again, so that agreement does not rest on the numbers being different.
- In manual control guard timeout and stall limit are equal, as in the code, and two ticks:
  a pass may take a tick and be in time. Three frames in the buffer are the whole arming
  gesture and a deflection, so that a stale buffer could move the wheels by itself.
  `StickRecent` allows an age of 3; frames age up to 4. The age of the
  held command is left out (`Freshness = 0`), as manual control never looks at it. A
  frame that is none of the three the instance has acts on the guard like one of them
  or takes permission away; the proofs have all of them.
- The sender has a frame longer than the output buffer and a timeout of two
  milliseconds of two ticks.
- `lifecycle_history` watches a transaction with sequence number 0 only, the
  behaviours being the same up to rotation of the sequence space.

### Fairness

- The main loop never blocks: each call is bounded, UART transmission by a
  timeout. Hence weak fairness of the next step. The tick advances by an interrupt
  whatever the loop does. Hence strong fairness of a `Sample` in which time passes.
- `MotionNeedsCommands` also needs a driver that does not refuse to stop for ever
  (`DriverFairness`): the guard repeats an owed stop in every round, and can do no
  more. Without it, wheels may stay powered, and the model says so.
- The application goes on calling the runner's `poll`, and each `poll` ends:
  transmissions have a timeout of 100 ms, a read takes at most 128 bytes (weak
  fairness of the runner's own steps). Time passes (strong, since the model lets a
  `poll` be delayed only so long). Likewise for the manual control loop.
  `tick` of the Pi's coordinator is called.
- The frame sender: the process runs and time passes, no more (weak).
- `NoFalseLife` holds without any: it says that two things do not happen
  together. That time then ends the epoch is `LinkNeedsAnswers`.
- Nothing is assumed about the peer, the line, the serial port, the motors or
  the encoders. The run `uart_reception` has safety properties only.

### Finding

`motor_driver_port` checks a comment of
`firmware/stm32/Platform/NucleoF446RE/Port/motor_driver_dri0041_port_stm32.c:118`:
a reversal reaches the port only after the brake interval. It does not hold
for the command sequence forward, zero, reverse: `motor_driver_apply` stores
STOPPED as the wheel's direction on the zero command, so that the reverse command
is not recognised as a reversal, however soon it follows. The same holds
for `motor_driver_stop` in between, and for a zero command given while the
driver is braking. What does hold is checked by `motor_driver`.

## Proofs

Every theorem is for all values of the constants that satisfy the named
assumptions:

- sets are not empty, and `None` is no ordinary value;
- timeouts plus one loop delay are below the tick counter's range (500 ms
  against 2^32), and the product in the velocity conversion fits its 32 bits;
- both computers count sequence numbers in the same range, in which the number after a
  number is newer than it (16 bits);
- the receive queue's capacity divides the range of its counters (a power of two against 2^32);
- the bytes that arrive while one DMA event is served are fewer than half of `dma_buffer`;
- the protocol's first magic byte is neither the second nor the version (0xA5, 0x5A, 1), a
  checksum fits its field, and a radio frame's length fits a byte;
- all bits of the channels are those of the payload, and the accumulator has room for a
  byte above one bit less than a channel (18 of 32).

| Theorem | States |
|---|---|
| `MotionLifecycleProofs!CoordinatorInvariant` | `Spec => [](TypeOK /\ OperationOwnership /\ FrontierExplained)` |
| `...!AcceptedIsAnswered` | `OpenIffPending` |
| `...!AnswersNeverDiffer` | `AnswersAgree` |
| `...!StaleCompletionNeverAwaited` | `AwaitedIsNewest` |
| `...!HistoryTypes` | `HistoryTypeOK` |
| `Stm32FirmwareProofs!FirmwareTypes`, `MotionIsAuthorised`, `MotionIsFresh`, `OperationsStayInStep`, `OkMeansRest`, `SessionsNeedTheLink` | the invariants of `firmware`, and `NoLinkNoSession` |
| `...!FirmwareImplementsLifecycle` | `FirmwareSpec => Spec` |
| `WheelDriveProofs!DriverNeverStraightAcross`, `DriverBrakeServed` | `NeverStraightAcross`, `BrakeServed`, of the driver under any commands |
| `...!DriveFaithful` | `VelocityFaithful` |
| `...!DriveReversalsBraked` | the first two, of the driver under velocity frames |
| `UartReceptionProofs!ReceptionInvariant`, `FedGapless` | `ReceptionInv` (types, and a loss is heard of first), `GaplessRun` |
| `FrameProofs!FramesFaithful`, `SearchAlwaysResumed` | `FramesAsSent`, `SearchResumed` |
| `...!EarlyFailureJustified` | `FailsEarlyOnlyFor` |
| `RobotLinkProofs!BarrierHolds`, `LinePlain`, `SessionsAlwaysAgree` | `EpochBarrier`, `LineInv`, `SessionsAgree` |
| `RpiMotionProofs!MotionIsAttended` | `MotionAttended` |
| `...!MotionHasAnOwner` | `NoAuthorityNoMotion /\ EstopStops` |
| `...!SafetyRestoredAtRest` | `SafeAgainAtRest` |
| `...!RunnerSessionsInStep`, `RunnerNoOutdatedMotion` | `SessionsInStep`, `NoOutdatedMotion` |
| `...!RunnerRetriesBounded` | `TimerRuns /\ TransmissionsBounded` |
| `...!RunnerImplementsClient`, `RunnerImplementsPort` | `ClientImplemented`, `PortImplemented` |
| `RadioControlProofs!MotionIsRearmed`, `SticksAreRecent` | `MotionRearmed`, `StickRecent` |
| `...!RadioFramesFaithful`, `ChannelsFaithful` | `RadioFramesAsSent`, `ChannelsExact` |

*The coordinator.* `OperationOwnership` says that an operation is awaited
exactly in STARTING and ENDING, exactly while a transaction is pending, and
that the pending transaction is the kind of command that leads to that state.
`FrontierExplained` says that the latest sequence number belongs to the pending
transaction or to the cached answer, so that a retransmission of it is never
INVALID. Neither is inductive without the other: completing an operation
caches its answer only if the transaction is still the newest.

*Histories.* That the newest transaction is recognised (`NewestRecognised`) follows
from `FrontierExplained`. The verdict on the watched transaction is tied to the receiver's
cache by `VerdictCached` (once answered, a transaction that is still at the
frontier is cached with that answer). For stale completions the invariant is
arithmetical: an operation's identifier and the number of operations handed
out since determine the counter, modulo the identifier space without 0. An
operation is forgotten when its identifier comes around again, after 2^32 - 1
operations; a completion delayed by that many could be mistaken.

*The firmware.* The inductive invariant is

    FirmwareInv == LifecycleInv /\ ManagerInv /\ MotorInv /\ StopInv
                   /\ LinkTypeOK /\ LinkFresh /\ NoLinkNoSession /\ RestBeforeOk

where `ManagerInv` has `AnswersOut` (the history variable `unsent` is set by a
failed transmission and cleared by the manager's reset), and `MotorInv` and `StopInv` add three auxiliary facts to the
checked ones: `WatchdogMeaning` (an armed watchdog means power or an owed stop:
otherwise a session could end with the watchdog still armed, and its expiry would be that of no
command), `ConfirmationBounded` (a confirmation never outlives its deadline by more
than a round, so its age does not wrap), and `StillnessReal` (between two encoder
readings the confirmation never claims more stillness than there was, unless
the movement will be seen at the next reading). `RestBeforeOk` follows from the
last two. The step lemma has one step per action of the main loop. The
refinement follows from the invariant: the manager calls `complete_operation`
only with the awaited identifier, and resets the coordinator as a whole.

*The drive.* The driver's invariant adds to `DirectionRemembered` (the stored direction
is what the pins have, unless a reversal waits) that a wheel waiting to
reverse has been off for the age of its reversal (`OffSince`): the age wraps with the tick,
but only after the brake time is over. `DriveFaithful` rests
on lemmas about the operators: two bytes give back a signed word
(`FrameConverted`), division and the product below 2^32 keep the order, and the
conversion's result lies between the end of the dead zone and full scale. Every step of the drive
is one of the driver, so that what is proved of the driver holds of the drive.

*The receive path.* The invariant names four numbers that the program does not keep: the
ring's two counters as if they never wrapped, the distance from a counter to the
stream position of the byte it stands for, and the position of the byte that the next push
is for. `RingInv` says that the ring holds consecutive bytes of the stream up to that
one, unless one was refused, and that the decoder has had all before them;
`PortInv` that the bytes not yet pushed do not reach back over a half of
`dma_buffer`, so that a position and its predecessor tell how many there are; `FlagInv` that the
overflow flag is up exactly while a refused byte is not reported, also all through the
reset of the queue. The counters wrap in step with the slots because the
capacity divides their range.

*Frames on the line.* The decoder's invariant is about the bytes `s` of the frame it is reading
(`Reading(s)`): they are the last bytes of the line (`Latest`); state, fields, partial payload
and checksum are what `s` says (`Held`); and every beginning of a frame that
the decoder met while searching is `s` (`Tracked`), which
excludes that a frame is missed while another is read. `Tracked` needs that the first magic byte
is different from the second and from the version: otherwise a
beginning could hide in another. The encoder's checksum is a recursive
function of a whole message, the decoder's is kept byte by byte; that they
agree is proved by induction on the length, for a set of numbers (`Induction`, from the
least number not in the set), because the library's induction
theorems take an operator. For the sender (`SenderInv`) the deadline of a
wait, computed from what is left of the call's time and a clock read later, is never
before that of the call: rounding up to milliseconds shortens nothing.

*Both computers.* A line delivers in order and loses frames, so what is on it falls
into a part from before an event and a part from after it. `RobotInv` says so for three
events. LINK_SYNC: what is of a new epoch comes last on the line to the STM32, and is that
frame only (`OrderInv`, `PendingInv`). LINK_SYNC_OK: once it has been
taken, all frames on both lines are of the epoch (`BarrierInv`); this is `EpochBarrier`.
A new command: the commands on the line are repetitions of the newest
command the STM32 knows, and after them copies of the one under way, which it will accept
(`CommandsInv`, `UnderwayInv`); the answers are to the command before, and after
them to the one under way (`ResponsesInv`). From this the STM32 answers a session
command OK or STOP_FAILED only (`LineInv`), and an answer that the client takes describes
the session as it is (`SessionsAgree`). The invariant of the coordinator
is reused as it stands.

*The Pi's coordinator.* The conjunction of its type invariant and three safety
invariants is inductive. `NoAuthorityNoMotion` rests on the order in
`stop_and_release_control` (authority is given up only after a stop that succeeded), and
`SafeAgainAtRest` on clearing a fault only after one, with
`EstopStops` for the emergency stop.

*The Pi's client.* `SessionsInStep` speaks of states, and is inductive
only together with `PhaseInStep`, which ties `poll`'s position to them: a
transmission that fails must find runner and link in a state from which giving up the
epoch restores agreement. `SendsCounted` relates the history of sends to the retry
counter, one behind while a retry is being sent. `OutdatedDropped` says that an outdated
command is gone, and that no transmission of it is under way. Both refinements
follow from this invariant, one case per step: a decision of `poll` that
begins a transmission is the client's step, the end of the transmission is a stutter.

*Manual control.* `MotionRearmed` needs that the guard's state is justified by what it
was shown (`GuardJustified`). `StickRecent` needs a bound on the age of what is in the buffer.
`BufferRecent`: each pass that reads to the end leaves the buffer empty, so what is
in it is no older than the pass, unless the pass comes too late, in which case it is thrown
away. `ReceivedRecent`: a frame is decoded within the stall limit, and from then on
the guard's timeout counts.

*The radio's frames.* As for the protocol's decoder, the bytes kept are the last ones of the
line (`BufferLast`), and every beginning of a frame whose first byte was taken for an address is
what is being collected (`Tracked`), also if that byte came in the place of a length. The
checksum is computed over the bytes kept, so nothing about it is needed. For the channels,
`Unpacked` says what the accumulator holds after c channels: the number that the bytes loaded
so far make, divided by the weight of c channels. Loading a byte changes no channel
below it (`DigitKept`) and does not reach the accumulator's end, and taking a channel divides once
more (`QuotientTwice`). Both loops and the payload's number are recursive functions;
that they exist and keep what each step keeps is `ComputedKeeps`, for any step given as a
function.

Only model-checked are the liveness properties: `OperationResolved`,
`MotionNeedsCommands`, `MotionRenewedOrEnded`, `TransactionEnds`, `SessionNeedsCommands`,
`LinkNeedsAnswers`, `AttemptsGoOn`, `SilenceStops` and `SendEnds`, which rest on fairness, and
`NoFalseLife`, which speaks of what happens infinitely often. The prover
has no rules for either. Every other property of a passing run is stated by a theorem.

## Not modelled

- Payload codecs other than the velocity's: fixed-layout conversions without state.
- The UART transmit path: a blocking call that succeeds or fails, represented by the
  `sent` parameters of `Stm32Firmware`.
- The DRV8833 driver, which the build does not link; the speed estimator, which
  nothing in the control path reads; `motion_command_handler`, which only tests use.
- Kinematics and the mixing of the sticks (floating point), opening and configuring the
  serial port (operating system), and the probe programs `stm32_motion_probe`, which plays a
  fixed series of wheel commands, and `crsf_receiver_probe`, which prints what it receives.
- The HAL and CMSIS, vendored, which are the larger part of the repository's lines.
  `UartReception` models the part of the HAL's receive path that the firmware depends on:
  its events, and the abort at a line error.

## Plan

1. The safety part of the liveness properties as invariants with theorems: what bounds the
   time to the next step (deadlines in `Stm32ClientRunner`, `FrameSender`), so that only the progress of
   the clock is left to fairness.
2. The refinement of `MotionClient` and of the coordinator's `Spec` by `RobotLink`'s
   two halves, as theorems.
3. A composition of `FrameSender` with `ProtocolFrameDecoder`: a frame given up half-way and
   the next one on the same line.
