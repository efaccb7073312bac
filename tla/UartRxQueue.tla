---------------------------- MODULE UartRxQueue -----------------------------
(***************************************************************************)
(* The byte queue between the receive interrupt and the main loop          *)
(* (firmware/stm32/App/Src/uart_rx_queue.c): a ring of QueueCapacity       *)
(* bytes with free-running uint32 counters and a sticky overflow flag, no  *)
(* locks.  The interrupt runs push to completion; the main loop's side is  *)
(* given one volatile access at a time, because the interrupt can come     *)
(* between any two of them.                                                *)
(*                                                                         *)
(* A byte is identified by its position in the received stream.            *)
(***************************************************************************)
EXTENDS Optional

CONSTANTS
  QueueCapacity,  \* UART_RX_QUEUE_CAPACITY
  CounterMod      \* number of values of the counters (2^32)

ASSUME QueueAssumption ==
  /\ QueueCapacity \in Nat \ {0}
  /\ CounterMod \in Nat
  /\ CounterMod > QueueCapacity
  /\ CounterMod % QueueCapacity = 0

VARIABLES
  data,         \* the ring
  read_count,
  write_count,
  overflowed

queue == <<data, read_count, write_count, overflowed>>

Counters == 0 .. CounterMod - 1
Slots == 0 .. QueueCapacity - 1

QueueTypeOK ==
  /\ data \in [Slots -> Nat]
  /\ read_count \in Counters
  /\ write_count \in Counters
  /\ overflowed \in BOOLEAN

queue_init ==
  /\ data = [i \in Slots |-> 0]
  /\ read_count = 0
  /\ write_count = 0
  /\ overflowed = FALSE

Slot(count) == count % QueueCapacity

Increment(count) == (count + 1) % CounterMod

\* write_count - read_count, as uint32.
Used(read, write) == (write - read + CounterMod) % CounterMod

Full == Used(read_count, write_count) >= QueueCapacity

Accept(b) ==
  /\ data' = [data EXCEPT ![Slot(write_count)] = b]
  /\ write_count' = Increment(write_count)
  /\ UNCHANGED <<read_count, overflowed>>

push_accepted(b) ==
  /\ ~overflowed
  /\ ~Full
  /\ Accept(b)

\* Faulty variant: a refused byte is not remembered.
push_refused_silently == (overflowed \/ Full) /\ UNCHANGED queue

\* Once refused, every byte is refused until the main loop resets the queue.
push_refused ==
  /\ overflowed \/ Full
  /\ overflowed' = TRUE
  /\ UNCHANGED <<data, read_count, write_count>>

=============================================================================
