--------------------------- MODULE UartReception ----------------------------
(***************************************************************************)
(* Reception on the STM32: the circular DMA buffer and its callback        *)
(* (Platform/NucleoF446RE/Port/uart_rx_port_stm32.c), the byte queue, and  *)
(* the main loop's uart_protocol_receiver_poll                             *)
(* (App/Src/uart_protocol_receiver.c), running concurrently.  The callback *)
(* preempts the main loop between any two of its memory accesses and runs  *)
(* to completion.                                                          *)
(*                                                                         *)
(* The DMA engine is external: it writes the stream round and round into   *)
(* dma_buffer, also while the callback runs.  The HAL                      *)
(* (stm32f4xx_hal_uart.c) raises an event at half, at the end, and when    *)
(* the line falls idle, and ends the reception at a line error.  The       *)
(* callback is over before the next event and before more than DmaLag      *)
(* further bytes.                                                          *)
(*                                                                         *)
(* The frame decoder is represented by the bytes it was fed since it was   *)
(* reset: any of them may complete a frame.                                *)
(***************************************************************************)
EXTENDS UartRxQueue

CONSTANTS
  DmaSize,       \* UART_RX_DMA_BUFFER_SIZE
  DmaLag,        \* bytes that may arrive between an event and its callback's end
  StreamLength   \* bound: bytes received in a behaviour

ASSUME DmaAssumption ==
  /\ DmaSize \in Nat \ {0} /\ DmaSize % 2 = 0
  /\ DmaLag \in Nat /\ 2 * DmaLag < DmaSize
  /\ StreamLength \in Nat

VARIABLES
  receiving,          \* the DMA reception has not been aborted
  arrived,            \* bytes the DMA has written
  event,              \* size reported by the event being handled, or None
  lag,                \* bytes that arrived since the event
  quiet,              \* no byte arrived since the line was seen idle
  previous_position,
  remaining,          \* bytes the running callback has yet to push, or None
  pc,                 \* position of the main loop in poll
  byte,               \* poll's local variable
  saved,              \* write_count as read by uart_rx_queue_reset
  fed,                \* last byte fed to the decoder since its reset, or None
  unreported          \* history: first byte refused since the queue was last
                      \* reopened, which no OVERFLOW result covers, or None

port == <<receiving, arrived, event, lag, quiet, previous_position, remaining>>
receiver == <<pc, byte, saved, fed>>
receptionVars == <<queue, port, receiver, unreported>>

PollSteps ==
  {"idle", "poll", "pop", "nonempty", "load", "advance", "frame", "drained",
   "discard", "snapshot", "restore", "reopen", "reset_decoder"}

ReceptionTypeOK ==
  /\ QueueTypeOK
  /\ receiving \in BOOLEAN
  /\ arrived \in Nat
  /\ event \in 1 .. DmaSize \cup {None}
  /\ lag \in 0 .. DmaLag
  /\ quiet \in BOOLEAN
  /\ previous_position \in 0 .. DmaSize
  /\ remaining \in 0 .. DmaSize \cup {None}
  /\ pc \in PollSteps
  /\ byte \in Nat
  /\ saved \in Counters
  /\ fed \in Nat \cup {None}
  /\ unreported \in Nat \cup {None}

ReceptionInit ==
  /\ queue_init
  /\ receiving = TRUE
  /\ arrived = 0
  /\ event = None
  /\ lag = 0
  /\ quiet = TRUE
  /\ previous_position = 0
  /\ remaining = None
  /\ pc = "idle"
  /\ byte = 0
  /\ saved = 0
  /\ fed = None
  /\ unreported = None

(***************************************************************************)
(* DMA engine and interrupt                                                *)
(***************************************************************************)

\* Half and full buffer raise an event.
DmaEvent(count) ==
  CASE count % DmaSize = 0 -> DmaSize
    [] count % DmaSize = DmaSize \div 2 -> DmaSize \div 2
    [] OTHER -> None

DmaReceive ==
  /\ receiving
  /\ arrived < StreamLength
  /\ arrived' = arrived + 1
  /\ quiet' = FALSE
  /\ \/ event = None /\ event' = DmaEvent(arrived + 1) /\ lag' = 0
     \/ /\ event # None /\ lag < DmaLag /\ DmaEvent(arrived + 1) = None
        /\ lag' = lag + 1 /\ UNCHANGED event
  /\ UNCHANGED <<queue, receiving, previous_position, remaining, receiver, unreported>>

\* The position reported is never 0: a full buffer counts as DmaSize.
LineIdle ==
  /\ receiving
  /\ event = None
  /\ ~quiet
  /\ quiet' = TRUE
  /\ event' = IF arrived % DmaSize = 0 THEN DmaSize ELSE arrived % DmaSize
  /\ lag' = 0
  /\ UNCHANGED <<queue, receiving, arrived, previous_position, remaining, receiver, unreported>>

\* A framing, noise or overrun error: the HAL aborts the reception, and an event
\* not yet served reports nothing.  The port has no HAL_UART_ErrorCallback:
\* nothing starts the reception again.
LineError ==
  /\ receiving
  /\ remaining = None
  /\ receiving' = FALSE
  /\ event' = None
  /\ lag' = 0
  /\ UNCHANGED <<queue, arrived, quiet, previous_position, remaining, receiver, unreported>>

\* dma_buffer[i]: the latest byte of the stream written there.
DmaBuffer(i) == arrived - 1 - ((arrived - 1 - i) % DmaSize)

\* Bytes from the previous position to the new one, round the end.
ToEnqueue(size) ==
  IF size >= previous_position
    THEN size - previous_position
    ELSE DmaSize - previous_position + size

\* HAL_UARTEx_RxEventCallback is entered with the event's size,
CallbackEnter ==
  /\ event # None
  /\ remaining = None
  /\ remaining' = ToEnqueue(event)
  /\ UNCHANGED <<queue, receiving, arrived, event, lag, quiet, previous_position, receiver, unreported>>

\* pushes the bytes one after the other (uart_rx_port_enqueue_range), counted
\* back from the new position,
NextByte == DmaBuffer((event - remaining + DmaSize) % DmaSize)

CallbackPush ==
  /\ remaining # None
  /\ remaining > 0
  /\ \/ push_accepted(NextByte) /\ remaining' = remaining - 1 /\ UNCHANGED unreported
     \/ /\ push_refused /\ remaining' = 0
        /\ unreported' = IF unreported = None THEN NextByte ELSE unreported
  /\ UNCHANGED <<receiving, arrived, event, lag, quiet, previous_position, receiver>>

\* Faulty variant: the position remembered is that of the last byte pushed.
CallbackLeaveBehind ==
  /\ remaining = 0
  /\ previous_position' = event - 1
  /\ event' = None
  /\ remaining' = None
  /\ lag' = 0
  /\ UNCHANGED <<queue, receiving, arrived, quiet, receiver, unreported>>

\* and returns with the new position remembered, whatever was refused.
CallbackLeave ==
  /\ remaining = 0
  /\ previous_position' = event
  /\ event' = None
  /\ remaining' = None
  /\ lag' = 0
  /\ UNCHANGED <<queue, receiving, arrived, quiet, receiver, unreported>>

(***************************************************************************)
(* uart_protocol_receiver_poll, one volatile access per step               *)
(***************************************************************************)

\* The main loop runs while no callback does.
Step(from, to) == remaining = None /\ pc = from /\ pc' = to

CallPoll ==
  /\ Step("idle", "poll")
  /\ UNCHANGED <<queue, port, byte, saved, fed, unreported>>

\* uart_protocol_receiver_handle_overflow reads the flag on entry, after a
\* frame and when the queue is drained; otherwise poll goes on or returns.
CheckOverflow(from, to) ==
  /\ Step(from, IF overflowed THEN "discard" ELSE to)
  /\ UNCHANGED <<queue, port, byte, saved, fed, unreported>>

\* uart_rx_queue_pop: the flag, the counters, the byte, the new read_count.
PopFlag ==
  /\ Step("pop", IF overflowed THEN "drained" ELSE "nonempty")
  /\ UNCHANGED <<queue, port, byte, saved, fed, unreported>>

PopEmpty ==
  /\ Step("nonempty", IF read_count = write_count THEN "drained" ELSE "load")
  /\ UNCHANGED <<queue, port, byte, saved, fed, unreported>>

PopLoad ==
  /\ Step("load", "advance")
  /\ byte' = data[Slot(read_count)]
  /\ UNCHANGED <<queue, port, saved, fed, unreported>>

\* The decoder takes the byte, which may complete a frame.
PopAdvance(next) ==
  /\ Step("advance", next)
  /\ read_count' = Increment(read_count)
  /\ fed' = byte
  /\ UNCHANGED <<data, write_count, overflowed, port, byte, saved, unreported>>

\* uart_rx_queue_reset, protocol_frame_decoder_reset.
ResetClose ==
  /\ Step("discard", "snapshot")
  /\ overflowed' = TRUE
  /\ UNCHANGED <<data, read_count, write_count, port, byte, saved, fed, unreported>>

ResetSnapshot ==
  /\ Step("snapshot", "restore")
  /\ saved' = write_count
  /\ UNCHANGED <<queue, port, byte, fed, unreported>>

ResetRead ==
  /\ Step("restore", "reopen")
  /\ read_count' = saved
  /\ UNCHANGED <<data, write_count, overflowed, port, byte, saved, fed, unreported>>

\* poll will return OVERFLOW for all that was refused until now.
ResetOpen ==
  /\ Step("reopen", "reset_decoder")
  /\ overflowed' = FALSE
  /\ unreported' = None
  /\ UNCHANGED <<data, read_count, write_count, port, byte, saved, fed>>

\* poll returns OVERFLOW.
ReportOverflow ==
  /\ Step("reset_decoder", "idle")
  /\ fed' = None
  /\ UNCHANGED <<queue, port, byte, saved, unreported>>

Interrupt == CallbackEnter \/ CallbackPush \/ CallbackLeave

Poll ==
  \/ CallPoll
  \/ CheckOverflow("poll", "pop")
  \/ PopFlag
  \/ PopEmpty
  \/ PopLoad
  \/ \E next \in {"pop", "frame"} : PopAdvance(next)
  \/ CheckOverflow("frame", "idle")
  \/ CheckOverflow("drained", "idle")
  \/ ResetClose
  \/ ResetSnapshot
  \/ ResetRead
  \/ ResetOpen
  \/ ReportOverflow

ReceptionNext == DmaReceive \/ LineIdle \/ LineError \/ Interrupt \/ Poll

ReceptionSpec == ReceptionInit /\ [][ReceptionNext]_receptionVars

(***************************************************************************)
(* Properties                                                              *)
(***************************************************************************)

\* Between two resets of the decoder every byte it is fed is the successor, in
\* the received stream, of the one before: none is lost, repeated, reordered or
\* overwritten unnoticed, wherever the interrupt strikes, wherever in dma_buffer
\* the events fall and however the counters wrap.
GaplessRun ==
  [][(\E next \in {"pop", "frame"} : PopAdvance(next)) /\ fed # None
       => fed' = fed + 1]_receptionVars

\* A frame is returned only when every byte of it came before the first byte
\* refused that no OVERFLOW result has covered: the main loop hears of a loss
\* before it sees anything that follows it.
LossHeardFirst ==
  pc = "frame" /\ ~overflowed => unreported = None \/ fed < unreported

\* The invariants of reception: that one, and the types.
ReceptionInv == ReceptionTypeOK /\ LossHeardFirst

=============================================================================
