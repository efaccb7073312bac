---------------------------- MODULE FrameSender -----------------------------
(***************************************************************************)
(* Transmission of a frame by the Raspberry Pi                             *)
(* (software/rpi/src/protocol_frame_sender.cpp over linux_serial_port.cpp, *)
(* wait and write_some): poll and non-blocking writes of part of the rest, *)
(* up to an absolute deadline.  Nothing reads the port meanwhile.          *)
(*                                                                         *)
(* The serial port is external: its output buffer drains at any speed,     *)
(* input arrives at any time, it may break at any time.  A call            *)
(* interrupted by a signal is made again, which changes nothing here.      *)
(* Time is counted in ticks, of which Millisecond make one millisecond:    *)
(* poll waits for whole ones, rounded up.                                  *)
(***************************************************************************)
EXTENDS Naturals

CONSTANTS
  WireSize,     \* bytes of the frame
  OutputSize,   \* bytes the port's output buffer takes
  SendTimeout,  \* timeout
  Millisecond   \* ticks in a millisecond

ASSUME SenderAssumption ==
  /\ {WireSize, OutputSize, SendTimeout, Millisecond} \subseteq Nat \ {0}
  /\ SendTimeout % Millisecond = 0

VARIABLES
  at,           \* position in send_protocol_frame, wait and write_some
  bytes_sent,
  elapsed,      \* since the call, as far as it matters
  timeout_ms,   \* wait's argument, in ticks
  wait_end,     \* wait's deadline
  room,         \* free bytes of the output buffer
  readable,     \* input is waiting
  broken        \* the port is disconnected

call == <<at, bytes_sent, elapsed, timeout_ms, wait_end>>
serial == <<room, readable, broken>>
senderVars == <<call, serial>>

\* A stall of the process is bounded by this; beyond it nothing changes.
TimeCap == SendTimeout + Millisecond

Ended == at \in {"sent", "failed"}

SenderInit ==
  /\ at = "loop" /\ bytes_sent = 0 /\ elapsed = 0 /\ timeout_ms = 0 /\ wait_end = 0
  /\ room = OutputSize /\ readable = FALSE /\ broken = FALSE

\* Faulty variant: rounded down.
CeilMsDown(ticks) == (ticks \div Millisecond) * Millisecond

CeilMs(ticks) == ((ticks + Millisecond - 1) \div Millisecond) * Millisecond

\* The loop's condition and deadline.
Iterate ==
  /\ at = "loop"
  /\ \/ bytes_sent = WireSize /\ at' = "sent" /\ UNCHANGED timeout_ms
     \/ /\ bytes_sent < WireSize /\ elapsed >= SendTimeout
        /\ at' = "failed" /\ UNCHANGED timeout_ms
     \/ /\ bytes_sent < WireSize /\ elapsed < SendTimeout
        /\ at' = "wait" /\ timeout_ms' = CeilMs(SendTimeout - elapsed)
  /\ UNCHANGED <<bytes_sent, elapsed, wait_end, serial>>

\* wait computes a deadline of its own.
WaitEnter ==
  /\ at = "wait"
  /\ at' = "poll"
  /\ wait_end' = elapsed + timeout_ms
  /\ UNCHANGED <<bytes_sent, elapsed, timeout_ms, serial>>

\* Faulty variant: wait goes on until the port is ready.
WaitExpiredNever == FALSE

WaitExpired ==
  /\ at = "poll"
  /\ elapsed >= wait_end
  /\ at' = "failed"
  /\ UNCHANGED <<bytes_sent, elapsed, timeout_ms, wait_end, serial>>

\* POLLIN is waited for together with POLLOUT.
PollEvents == readable \/ room > 0 \/ broken

PollReturns ==
  /\ at = "poll"
  /\ PollEvents
  /\ at' = IF broken \/ room = 0 THEN "failed" ELSE "write"
  /\ UNCHANGED <<bytes_sent, elapsed, timeout_ms, wait_end, serial>>

\* Nothing (EAGAIN) or some of the rest is taken.
WriteSome(n) ==
  /\ at = "write"
  /\ ~broken
  /\ n <= room /\ n <= WireSize - bytes_sent
  /\ bytes_sent' = bytes_sent + n
  /\ room' = room - n
  /\ at' = "loop"
  /\ UNCHANGED <<elapsed, timeout_ms, wait_end, readable, broken>>

WriteFails ==
  /\ at = "write"
  /\ broken
  /\ at' = "failed"
  /\ UNCHANGED <<bytes_sent, elapsed, timeout_ms, wait_end, serial>>

\* The next frame, of a connection that may be a new one.
Call ==
  /\ Ended
  /\ at' = "loop" /\ bytes_sent' = 0 /\ elapsed' = 0 /\ timeout_ms' = 0 /\ wait_end' = 0
  /\ readable' \in BOOLEAN
  /\ broken' = FALSE
  /\ UNCHANGED room

Drain ==
  /\ room < OutputSize
  /\ room' = room + 1
  /\ UNCHANGED <<call, readable, broken>>

InputArrives == ~readable /\ readable' = TRUE /\ UNCHANGED <<call, room, broken>>

PortBreaks == ~broken /\ broken' = TRUE /\ UNCHANGED <<call, room, readable>>

Tick ==
  /\ ~Ended
  /\ elapsed < (IF at = "poll" /\ wait_end > TimeCap THEN wait_end ELSE TimeCap)
  /\ elapsed' = elapsed + 1
  /\ UNCHANGED <<at, bytes_sent, timeout_ms, wait_end, serial>>

Sender ==
  \/ Iterate \/ WaitEnter \/ WaitExpired \/ PollReturns \/ WriteFails
  \/ \E n \in 0 .. OutputSize : WriteSome(n)

SenderNext == Sender \/ Call \/ Drain \/ InputArrives \/ PortBreaks \/ Tick

\* The process runs and time passes; the port need not do anything.
SenderSpec ==
  /\ SenderInit /\ [][SenderNext]_senderVars
  /\ WF_senderVars(Sender) /\ WF_senderVars(Tick)

(***************************************************************************)
(* Properties                                                              *)
(***************************************************************************)

\* Every call ends, with a port that never becomes writable too, or that says so
\* and takes nothing.
SendEnds == []<>Ended

\* A call that fails before its deadline fails for a port that is broken, or for
\* input that waits while the output buffer is full: poll returns for the input,
\* and the sender takes that for the end of its patience.
FailsEarlyOnlyFor ==
  [][at # "failed" /\ at' = "failed" /\ elapsed < SendTimeout =>
       broken \/ (readable /\ room = 0)]_senderVars

=============================================================================
