------------------------ MODULE UartReceptionProofs -------------------------
(***************************************************************************)
(* Proofs about UartReception: for every size of the ring, of its counters *)
(* and of the DMA buffer, the decoder is fed gapless runs of the stream    *)
(* and a loss is heard before anything that follows it.                    *)
(*                                                                         *)
(* The inductive invariant speaks of four numbers the program does not     *)
(* keep: read and write, the ring's counters as if they never wrapped;     *)
(* offset, the distance from a counter to the stream position of the byte  *)
(* it stands for; and cursor, the stream position of the byte the next     *)
(* push is for.                                                            *)
(***************************************************************************)
EXTENDS UartReception, TLAPS

Half == DmaSize \div 2

\* Where the DMA engine writes next.
DmaPosition == arrived % DmaSize

\* Between callbacks, the bytes not yet pushed do not reach back over a half of
\* dma_buffer, and previous_position is where the first of them is.
IdlePort(cursor) ==
  /\ cursor <= arrived
  /\ arrived - cursor <= DmaPosition
  /\ DmaPosition >= Half => arrived - cursor <= DmaPosition - Half
  /\ \/ previous_position = DmaPosition - (arrived - cursor)
     \/ DmaPosition = arrived - cursor /\ previous_position = DmaSize
  /\ previous_position = 0 => cursor = 0

\* While an event is served, its size is the engine's position without the bytes
\* that came since, and what is left to push is at most half of dma_buffer.
BusyPort(cursor) ==
  /\ DmaPosition = (IF event = DmaSize THEN 0 ELSE event) + lag
  /\ event < Half => DmaPosition < Half
  /\ cursor + lag <= arrived
  /\ arrived - lag - cursor <= Half
  /\ arrived - lag - cursor = IF remaining = None THEN ToEnqueue(event) ELSE remaining

PortInv(cursor) ==
  /\ cursor \in Nat
  /\ ~quiet => arrived > 0
  /\ event = None => remaining = None
  /\ event = None /\ receiving => IdlePort(cursor)
  /\ event # None => BusyPort(cursor)

\* The ring holds consecutive bytes of the stream, the next of them is the
\* cursor's unless one was refused, and the decoder has had all before them.
RingInv(read, write, offset, cursor) ==
  /\ read \in Nat /\ write \in Nat /\ offset \in Int
  /\ read_count = read % CounterMod
  /\ write_count = write % CounterMod
  /\ read <= write /\ write <= read + QueueCapacity
  /\ \A n \in read .. write - 1 : data[Slot(n)] = n + offset
  /\ ~overflowed => write + offset = cursor
  /\ fed # None /\ pc \notin {"reopen", "reset_decoder"} => fed = read - 1 + offset
  /\ pc \in {"load", "advance"} => read < write
  /\ pc = "advance" => byte = read + offset
  /\ pc = "reopen" => read = write

\* The flag is up exactly while a refused byte is not reported, and all through
\* the reset of the queue.
FlagInv ==
  /\ overflowed <=> unreported # None
  /\ pc \in {"discard", "snapshot", "restore", "reopen"} => overflowed
  /\ pc = "restore" => saved = write_count

IInv ==
  /\ ReceptionTypeOK
  /\ FlagInv
  /\ \E read, write, offset, cursor \in Int :
       PortInv(cursor) /\ RingInv(read, write, offset, cursor)

(***************************************************************************)
(* Arithmetic                                                              *)
(***************************************************************************)

\* A number is a multiple of the divisor and the remainder.
LEMMA Remainder ==
  ASSUME NEW d \in Nat \ {0}, NEW n \in Int
  PROVE  /\ n % d \in 0 .. d - 1
         /\ \E k \in Int : n = k * d + (n % d)
<1>1. n = d * (n \div d) + (n % d) /\ n % d \in 0 .. d - 1
  BY Z3
<1>2. n \div d \in Int
  OBVIOUS
<1>3. \A q \in Int : d * q = q * d
  OBVIOUS
<1> QED BY <1>1, <1>2, <1>3, Zenon

\* There is only one remainder.
LEMMA RemainderUnique ==
  ASSUME NEW d \in Nat \ {0}, NEW k \in Int, NEW r \in 0 .. d - 1
  PROVE  (k * d + r) % d = r
<1> DEFINE n == k * d + r
<1>1. n \in Int
  OBVIOUS
<1>2. PICK q \in Int : n = q * d + (n % d)
  BY <1>1, Remainder
<1>3. n % d \in 0 .. d - 1
  BY <1>1, Remainder
<1> HIDE DEF n
<1>4. k * d + r = q * d + (n % d)
  BY <1>2 DEF n
<1>5. ~(k > q)
  <2>1. SUFFICES ASSUME k > q PROVE FALSE
    OBVIOUS
  <2>2. (k - q) * d >= d
    BY <2>1
  <2>3. (k - q) * d = k * d - q * d
    OBVIOUS
  <2> QED BY <1>3, <1>4, <2>2, <2>3
<1>6. ~(q > k)
  <2>1. SUFFICES ASSUME q > k PROVE FALSE
    OBVIOUS
  <2>2. (q - k) * d >= d
    BY <2>1
  <2>3. (q - k) * d = q * d - k * d
    OBVIOUS
  <2> QED BY <1>3, <1>4, <2>2, <2>3
<1>7. q = k
  BY <1>5, <1>6
<1>8. n % d = r
  BY <1>3, <1>4, <1>7
<1> QED BY <1>8 DEF n

\* Adding the divisor to a number leaves its remainder alone, and so does
\* taking it away.
LEMMA RemainderPeriod ==
  ASSUME NEW d \in Nat \ {0}, NEW n \in Int, NEW k \in Int
  PROVE  (n + k * d) % d = n % d
<1>1. PICK q \in Int : n = q * d + (n % d)
  BY Remainder
<1>2. n % d \in 0 .. d - 1
  BY Remainder
<1>3. n + k * d = (q + k) * d + (n % d)
  BY <1>1, <1>2
<1>4. q + k \in Int
  OBVIOUS
<1> QED BY <1>2, <1>3, <1>4, RemainderUnique

\* The remainder of the next number.
LEMMA RemainderNext ==
  ASSUME NEW d \in Nat \ {0}, NEW n \in Int
  PROVE  (n + 1) % d = IF n % d = d - 1 THEN 0 ELSE (n % d) + 1
<1>1. PICK q \in Int : n = q * d + (n % d)
  BY Remainder
<1>2. n % d \in 0 .. d - 1
  BY Remainder
<1>3. CASE n % d = d - 1
  <2>1. n + 1 = (q + 1) * d + 0
    BY <1>1, <1>3
  <2>2. (q + 1) * d + 0 = n + 1 /\ q + 1 \in Int /\ 0 \in 0 .. d - 1
    BY <2>1
  <2>3. ((q + 1) * d + 0) % d = 0
    BY <2>2, RemainderUnique
  <2> QED BY <1>3, <2>2, <2>3
<1>4. CASE n % d # d - 1
  <2>1. n + 1 = q * d + ((n % d) + 1)
    BY <1>1, <1>2
  <2>2. (n % d) + 1 \in 0 .. d - 1
    BY <1>2, <1>4
  <2> QED BY <1>4, <2>1, <2>2, RemainderUnique
<1> QED BY <1>3, <1>4

\* Numbers less than the divisor apart have different remainders.
LEMMA RemainderDistinct ==
  ASSUME NEW d \in Nat \ {0}, NEW m \in Int, NEW n \in Int, m < n, n < m + d
  PROVE  m % d # n % d
<1>1. PICK p \in Int : m = p * d + (m % d)
  BY Remainder
<1>2. PICK q \in Int : n = q * d + (n % d)
  BY Remainder
<1>3. SUFFICES ASSUME m % d = n % d PROVE FALSE
  OBVIOUS
<1>4. m % d \in 0 .. d - 1
  BY Remainder
<1>5. n - m = (q - p) * d
  <2>1. (q - p) * d = q * d - p * d
    OBVIOUS
  <2> QED BY <1>1, <1>2, <1>3, <1>4, <2>1
<1>6. CASE q > p
  <2>1. (q - p) * d >= d
    BY <1>6
  <2> QED BY <1>5, <2>1
<1>7. CASE q <= p
  <2>1. (q - p) * d <= 0
    BY <1>7
  <2> QED BY <1>5, <2>1
<1> QED BY <1>6, <1>7

\* The difference of two numbers less than the divisor apart, from their
\* remainders.
LEMMA RemainderDifference ==
  ASSUME NEW d \in Nat \ {0}, NEW m \in Int, NEW n \in Int, m <= n, n < m + d
  PROVE  ((n % d) - (m % d) + d) % d = n - m
<1>1. PICK p \in Int : m = p * d + (m % d)
  BY Remainder
<1>2. PICK q \in Int : n = q * d + (n % d)
  BY Remainder
<1>3. m % d \in 0 .. d - 1 /\ n % d \in 0 .. d - 1
  BY Remainder
<1>4. (n % d) - (m % d) + d = (p - q + 1) * d + (n - m)
  <2> DEFINE x == p * d
             y == q * d
             z == (p - q + 1) * d
             r == m % d
             s == n % d
  <2>1. z = x - y + d /\ x \in Int /\ y \in Int
    OBVIOUS
  <2>2. m = x + r /\ n = y + s /\ r \in Int /\ s \in Int
    BY <1>1, <1>2, <1>3
  <2>3. s - r + d = z + (n - m)
    <3> HIDE DEF x, y, z, r, s
    <3> QED BY <2>1, <2>2
  <2> QED BY <2>3
<1>5. n - m \in 0 .. d - 1 /\ p - q + 1 \in Int
  OBVIOUS
<1> QED BY <1>4, <1>5, RemainderUnique

\* Where one divisor divides another, the inner remainder does not matter.
LEMMA RemainderNested ==
  ASSUME NEW c \in Nat \ {0}, NEW d \in Nat \ {0}, d % c = 0, NEW n \in Int
  PROVE  (n % d) % c = n % c
<1>1. PICK k \in Int : d = k * c
  BY Remainder
<1>2. PICK q \in Int : n = q * d + (n % d)
  BY Remainder
<1>3. n % d \in Int
  BY Remainder
<1>4. n = (n % d) + (q * k) * c
  <2>1. q * (k * c) = (q * k) * c
    OBVIOUS
  <2> QED BY <1>1, <1>2, <1>3, <2>1
<1>5. q * k \in Int
  OBVIOUS
<1>6. ((n % d) + (q * k) * c) % c = (n % d) % c
  BY <1>3, <1>5, RemainderPeriod
<1> QED BY <1>4, <1>6
(***************************************************************************)
(* The port                                                                *)
(***************************************************************************)

\* The halves of dma_buffer.
LEMMA Halves ==
  /\ DmaSize \in Nat \ {0} /\ Half \in Nat \ {0} /\ DmaSize = 2 * Half
  /\ DmaLag \in Nat /\ DmaLag < Half
BY DmaAssumption DEF Half

\* The engine's position, and the one after the next byte.
LEMMA PositionNext ==
  ASSUME arrived \in Nat
  PROVE  /\ DmaPosition \in 0 .. DmaSize - 1
         /\ (arrived + 1) % DmaSize =
              IF DmaPosition = DmaSize - 1 THEN 0 ELSE DmaPosition + 1
<1>1. arrived \in Int
  OBVIOUS
<1> QED BY <1>1, Halves, Remainder, RemainderNext DEF DmaPosition

\* A state that leaves the port alone.
LEMMA PortKept ==
  ASSUME NEW cursor, PortInv(cursor), UNCHANGED port
  PROVE  PortInv(cursor)'
BY DEF PortInv, IdlePort, BusyPort, DmaPosition, ToEnqueue, port

\* A byte arrives.
LEMMA DmaReceiveKeepsPort ==
  ASSUME ReceptionTypeOK, NEW cursor, PortInv(cursor), DmaReceive
  PROVE  PortInv(cursor)'
<1>1. /\ arrived \in Nat /\ arrived' = arrived + 1 /\ cursor \in Nat
      /\ previous_position \in 0 .. DmaSize
      /\ UNCHANGED <<receiving, previous_position, remaining>> /\ receiving
  BY DEF ReceptionTypeOK, PortInv, DmaReceive
<1> DEFINE p == DmaPosition
           q == DmaPosition'
<1>2. p \in 0 .. DmaSize - 1 /\ q = IF p = DmaSize - 1 THEN 0 ELSE p + 1
  BY <1>1, PositionNext DEF DmaPosition
<1>3. DmaEvent(arrived + 1) = IF q = 0 THEN DmaSize ELSE IF q = Half THEN Half ELSE None
  <2>1. q = (arrived + 1) % DmaSize
    BY <1>1 DEF DmaPosition
  <2>2. q # 0 \/ q # Half
    BY Halves
  <2> HIDE DEF q
  <2>3. CASE q = 0
    BY <2>1, <2>2, <2>3 DEF DmaEvent, Half
  <2>4. CASE q = Half
    BY <2>1, <2>2, <2>4 DEF DmaEvent, Half
  <2>5. CASE q # 0 /\ q # Half
    BY <2>1, <2>5 DEF DmaEvent, Half
  <2> QED BY <2>3, <2>4, <2>5
<1>4. CASE event = None /\ event' = DmaEvent(arrived + 1) /\ lag' = 0
  <2>1. /\ cursor <= arrived /\ arrived - cursor <= p
        /\ p >= Half => arrived - cursor <= p - Half
        /\ \/ previous_position = p - (arrived - cursor)
           \/ p = arrived - cursor /\ previous_position = DmaSize
        /\ previous_position = 0 => cursor = 0
        /\ remaining = None
    BY <1>1, <1>4 DEF PortInv, IdlePort
  <2> HIDE DEF p, q
  <2>2. CASE q # 0 /\ q # Half
    <3>1. event' = None
      BY <1>3, <1>4, <2>2
    <3>2. /\ cursor <= arrived' /\ arrived' - cursor <= q
          /\ q >= Half => arrived' - cursor <= q - Half
          /\ \/ previous_position = q - (arrived' - cursor)
             \/ q = arrived' - cursor /\ previous_position = DmaSize
      BY <1>1, <1>2, <2>1, <2>2, Halves
    <3> QED BY <1>1, <2>1, <3>1, <3>2 DEF PortInv, IdlePort, q
  <2>3. CASE q = 0 \/ q = Half
    <3>1. event' = (IF q = 0 THEN DmaSize ELSE Half) /\ event' # None
      BY <1>3, <1>4, <2>3, Halves, NoneIsNoNumber
    <3>2. ToEnqueue(event)' = arrived' - cursor /\ arrived' - cursor <= Half
      BY <1>1, <1>2, <2>1, <2>3, <3>1, Halves DEF ToEnqueue
    <3>3. q = (IF event' = DmaSize THEN 0 ELSE event') /\ ~(event' < Half)
      BY <2>3, <3>1, Halves
    <3>4. cursor <= arrived' /\ arrived' > 0
      BY <1>1, <2>1
    <3> QED BY <1>1, <1>4, <2>1, <3>1, <3>2, <3>3, <3>4, Halves DEF PortInv, BusyPort, q
  <2> QED BY <2>2, <2>3
<1>5. CASE /\ event # None /\ lag < DmaLag /\ DmaEvent(arrived + 1) = None
           /\ lag' = lag + 1 /\ event' = event
  <2>1. q # 0 /\ q # Half
    BY <1>3, <1>5, Halves, NoneIsNoNumber
  <2>2. /\ event \in 1 .. DmaSize /\ lag \in Nat
        /\ p = (IF event = DmaSize THEN 0 ELSE event) + lag
        /\ event < Half => p < Half
        /\ cursor + lag <= arrived
        /\ arrived - lag - cursor <= Half
        /\ arrived - lag - cursor = IF remaining = None THEN ToEnqueue(event) ELSE remaining
    BY <1>5, Halves DEF ReceptionTypeOK, PortInv, BusyPort
  <2>3. ToEnqueue(event)' = ToEnqueue(event)
    BY <1>1, <1>5 DEF ToEnqueue
  <2> HIDE DEF p, q
  <2>4. /\ q = (IF event' = DmaSize THEN 0 ELSE event') + lag'
        /\ event' < Half => q < Half
        /\ cursor + lag' <= arrived'
        /\ arrived' - lag' - cursor = arrived - lag - cursor
        /\ arrived' > 0
    BY <1>1, <1>2, <1>5, <2>1, <2>2, Halves
  <2> QED BY <1>1, <1>5, <2>2, <2>3, <2>4 DEF PortInv, BusyPort, q
<1> QED BY <1>4, <1>5 DEF DmaReceive

\* The line falls idle.
LEMMA LineIdleKeepsPort ==
  ASSUME ReceptionTypeOK, NEW cursor, PortInv(cursor), LineIdle
  PROVE  PortInv(cursor)'
<1> DEFINE p == DmaPosition
<1>1. /\ arrived \in Nat /\ arrived' = arrived /\ cursor \in Nat
      /\ previous_position \in 0 .. DmaSize
      /\ UNCHANGED <<receiving, previous_position, remaining>>
      /\ arrived > 0 /\ remaining = None /\ lag' = 0 /\ p' = p
      /\ event' = IF p = 0 THEN DmaSize ELSE p
  BY DEF ReceptionTypeOK, PortInv, LineIdle, DmaPosition
<1>2. /\ cursor <= arrived /\ arrived - cursor <= p
      /\ p >= Half => arrived - cursor <= p - Half
      /\ \/ previous_position = p - (arrived - cursor)
         \/ p = arrived - cursor /\ previous_position = DmaSize
      /\ previous_position = 0 => cursor = 0
  BY DEF PortInv, IdlePort, LineIdle
<1>3. p \in 0 .. DmaSize - 1
  BY <1>1, PositionNext
<1>4. event' # None
  BY <1>1, <1>3, Halves, NoneIsNoNumber
<1> HIDE DEF p
<1>5. /\ p = (IF event' = DmaSize THEN 0 ELSE event') + lag'
      /\ event' < Half => p < Half
      /\ cursor + lag' <= arrived'
      /\ arrived' - lag' - cursor <= Half
  BY <1>1, <1>2, <1>3, Halves
<1>6. ToEnqueue(event)' = arrived' - lag' - cursor
  BY <1>1, <1>2, <1>3, Halves DEF ToEnqueue
<1> QED BY <1>1, <1>4, <1>5, <1>6 DEF PortInv, BusyPort, p

\* A line error ends the reception.
LEMMA LineErrorKeepsPort ==
  ASSUME NEW cursor, PortInv(cursor), LineError
  PROVE  PortInv(cursor)'
BY DEF PortInv, LineError

\* The callback is entered,
LEMMA CallbackEnterKeepsPort ==
  ASSUME ReceptionTypeOK, NEW cursor, PortInv(cursor), CallbackEnter
  PROVE  PortInv(cursor)' /\ remaining' \in 0 .. DmaSize
<1>1. BusyPort(cursor) /\ remaining = None
  BY DEF PortInv, CallbackEnter
<1>2. /\ cursor \in Nat /\ arrived \in Nat /\ event \in 1 .. DmaSize /\ lag \in Nat
      /\ event # None
  BY Halves DEF PortInv, CallbackEnter, ReceptionTypeOK
<1>3. remaining' = arrived - lag - cursor /\ remaining' \in 0 .. Half
  BY <1>1, <1>2, Halves DEF BusyPort, CallbackEnter
<1>4. remaining' # None
  BY <1>3, Halves, NoneIsNoNumber
<1>5. BusyPort(cursor)'
  BY <1>1, <1>3, <1>4 DEF BusyPort, CallbackEnter, DmaPosition
<1> QED BY <1>2, <1>3, <1>5, Halves DEF PortInv, CallbackEnter

\* pushes the byte at the cursor, which the engine has not overwritten,
LEMMA NextByteIsCursor ==
  ASSUME ReceptionTypeOK, NEW cursor, PortInv(cursor), remaining # None, remaining > 0
  PROVE  NextByte = cursor
<1>1. BusyPort(cursor) /\ event # None /\ cursor \in Nat
  BY DEF PortInv
<1>2. /\ arrived \in Nat /\ event \in 1 .. DmaSize /\ lag \in 0 .. DmaLag
      /\ remaining \in 1 .. Half
      /\ arrived - lag - cursor = remaining
  BY <1>1, Halves DEF BusyPort, ReceptionTypeOK
<1>3. PICK k \in Int : arrived = k * DmaSize + DmaPosition
  <2>1. arrived \in Int
    BY <1>2
  <2> QED BY <2>1, Halves, Remainder DEF DmaPosition
<1> DEFINE base == IF event = DmaSize THEN 0 ELSE event
           i == (event - remaining + DmaSize) % DmaSize
           r == lag + remaining - 1
<1>4. DmaPosition = base + lag /\ base \in 0 .. DmaSize - 1 /\ r \in 0 .. DmaSize - 1
  BY <1>1, <1>2, Halves DEF BusyPort
<1>5. PICK m \in Int : i = m * DmaSize + (base - remaining)
  <2>1. event - remaining + DmaSize \in Int
    BY <1>2, Halves
  <2>2. PICK j \in Int : event - remaining + DmaSize = j * DmaSize + i
    BY <2>1, Halves, Remainder
  <2>3. i \in Int
    BY <2>1, Halves, Remainder
  <2>4. event = base \/ event = base + DmaSize
    BY <1>2
  <2> HIDE DEF i, base
  <2>5. CASE event = base
    <3>1. (1 - j) * DmaSize = DmaSize - j * DmaSize
      BY Halves
    <3>2. i = (1 - j) * DmaSize + (base - remaining)
      BY <1>2, <1>4, <2>2, <2>3, <2>5, <3>1, Halves
    <3> QED BY <3>2
  <2>6. CASE event = base + DmaSize
    <3>1. (2 - j) * DmaSize = DmaSize + DmaSize - j * DmaSize
      BY Halves
    <3>2. i = (2 - j) * DmaSize + (base - remaining)
      BY <1>2, <1>4, <2>2, <2>3, <2>6, <3>1, Halves
    <3> QED BY <3>2
  <2> QED BY <2>4, <2>5, <2>6
<1>6. arrived - 1 - i = (k - m) * DmaSize + r
  <2> HIDE DEF i, base
  <2>1. (k - m) * DmaSize = k * DmaSize - m * DmaSize
    BY Halves
  <2> QED BY <1>2, <1>3, <1>4, <1>5, <2>1, Halves
<1>7. (arrived - 1 - i) % DmaSize = r
  <2> HIDE DEF i, r
  <2>1. k - m \in Int
    OBVIOUS
  <2> QED BY <1>4, <1>6, <2>1, Halves, RemainderUnique
<1>8. NextByte = arrived - 1 - r
  BY <1>7 DEF NextByte, DmaBuffer
<1> QED BY <1>1, <1>2, <1>8, Halves

\* and returns.
LEMMA CallbackLeaveKeepsPort ==
  ASSUME ReceptionTypeOK, NEW cursor, PortInv(cursor), CallbackLeave
  PROVE  PortInv(cursor)' /\ event \in 1 .. DmaSize
<1>1. remaining = 0 /\ remaining # None /\ event # None /\ BusyPort(cursor)
  BY NoneIsNoNumber DEF CallbackLeave, PortInv
<1>2. /\ arrived \in Nat /\ event \in 1 .. DmaSize /\ lag \in 0 .. DmaLag /\ cursor \in Nat
      /\ cursor = arrived - lag
      /\ DmaPosition = (IF event = DmaSize THEN 0 ELSE event) + lag
      /\ event < Half => DmaPosition < Half
  BY <1>1, Halves DEF BusyPort, ReceptionTypeOK, PortInv
<1>3. /\ previous_position' = event /\ event' = None /\ remaining' = None
      /\ UNCHANGED <<arrived, receiving, quiet>> /\ DmaPosition' = DmaPosition
  BY DEF CallbackLeave, DmaPosition
<1>4. IdlePort(cursor)'
  BY <1>2, <1>3, Halves DEF IdlePort
<1> QED BY <1>2, <1>3, <1>4 DEF PortInv
(***************************************************************************)
(* The ring                                                                *)
(***************************************************************************)

\* The counters and the slots.
LEMMA Sizes ==
  /\ QueueCapacity \in Nat \ {0} /\ CounterMod \in Nat \ {0}
  /\ QueueCapacity < CounterMod /\ CounterMod % QueueCapacity = 0
BY QueueAssumption

\* A counter that does not wrap and the one that does: the same slot, and the
\* successors correspond.
LEMMA CounterWraps ==
  ASSUME NEW n \in Nat
  PROVE  /\ n % CounterMod \in Counters
         /\ Slot(n % CounterMod) = Slot(n) /\ Slot(n) \in Slots
         /\ Increment(n % CounterMod) = (n + 1) % CounterMod
<1>1. n \in Int /\ n + 1 \in Int
  OBVIOUS
<1>2. n % CounterMod \in 0 .. CounterMod - 1 /\ n % QueueCapacity \in 0 .. QueueCapacity - 1
  BY <1>1, Sizes, Remainder
<1>3. Slot(n % CounterMod) = Slot(n)
  BY <1>1, Sizes, RemainderNested DEF Slot
<1>4. PICK k \in Int : n = k * CounterMod + (n % CounterMod)
  BY <1>1, Sizes, Remainder
<1>5. ((n % CounterMod) + 1 + k * CounterMod) % CounterMod = ((n % CounterMod) + 1) % CounterMod
  <2>1. (n % CounterMod) + 1 \in Int
    BY <1>2
  <2> QED BY <2>1, Sizes, RemainderPeriod
<1>6. (n % CounterMod) + 1 + k * CounterMod = n + 1
  <2> DEFINE x == k * CounterMod
             r == n % CounterMod
  <2>1. x \in Int /\ r \in Int /\ n = x + r
    BY <1>2, <1>4, Sizes
  <2> HIDE DEF x, r
  <2>2. r + 1 + x = n + 1
    BY <2>1
  <2> QED BY <2>2 DEF x, r
<1>7. ((n % CounterMod) + 1) % CounterMod = (n + 1) % CounterMod
  BY <1>5, <1>6
<1> QED BY <1>2, <1>3, <1>7 DEF Counters, Slots, Slot, Increment

\* The ring is full exactly when it holds QueueCapacity bytes.
LEMMA UsedCounts ==
  ASSUME NEW read, NEW write, NEW offset, NEW cursor, RingInv(read, write, offset, cursor)
  PROVE  Full <=> write = read + QueueCapacity
<1>1. /\ read \in Int /\ write \in Int /\ read <= write
      /\ write <= read + QueueCapacity
      /\ read_count = read % CounterMod /\ write_count = write % CounterMod
  BY DEF RingInv
<1>2. write < read + CounterMod
  BY <1>1, Sizes
<1>3. ((write % CounterMod) - (read % CounterMod) + CounterMod) % CounterMod = write - read
  BY <1>1, <1>2, Sizes, RemainderDifference
<1>4. Used(read_count, write_count) = write - read
  BY <1>1, <1>3 DEF Used
<1> QED BY <1>1, <1>4, Sizes DEF Full

\* A step that leaves the queue and the main loop's reading of it alone.
LEMMA RingKept ==
  ASSUME NEW read, NEW write, NEW offset, NEW cursor, RingInv(read, write, offset, cursor),
         UNCHANGED <<queue, pc, byte, fed>>
  PROVE  RingInv(read, write, offset, cursor)'
BY DEF RingInv, queue, Slot

\* An accepted byte takes a slot of its own.
LEMMA AcceptKeepsRing ==
  ASSUME ReceptionTypeOK, FlagInv,
         NEW read, NEW write, NEW offset, NEW cursor, RingInv(read, write, offset, cursor),
         push_accepted(cursor), UNCHANGED <<pc, byte, fed>>
  PROVE  RingInv(read, write + 1, offset, cursor + 1)'
<1>1. /\ read \in Nat /\ write \in Nat /\ offset \in Int /\ read <= write
      /\ read_count = read % CounterMod /\ write_count = write % CounterMod
      /\ write + offset = cursor /\ pc # "reopen"
  BY DEF RingInv, FlagInv, push_accepted
<1>2. write < read + QueueCapacity
  <2>1. ~Full
    BY DEF push_accepted
  <2>2. write # read + QueueCapacity
    BY <2>1, UsedCounts
  <2> QED BY <1>1, <2>2, Sizes DEF RingInv
<1>3. /\ data' = [data EXCEPT ![Slot(write)] = cursor]
      /\ write_count' = (write + 1) % CounterMod
      /\ UNCHANGED <<read_count, overflowed>> /\ ~overflowed
  BY <1>1, CounterWraps DEF push_accepted, Accept
<1>4. ASSUME NEW n \in read .. write + 1 - 1
      PROVE  data'[Slot(n)] = n + offset
  <2>1. n \in Nat /\ n <= write /\ data \in [Slots -> Nat]
    BY <1>1 DEF ReceptionTypeOK, QueueTypeOK
  <2>2. Slot(n) \in Slots /\ Slot(write) \in Slots
    BY <1>1, <2>1, CounterWraps
  <2>3. CASE n = write
    BY <1>1, <1>3, <2>1, <2>2, <2>3
  <2>4. CASE n # write
    <3>1. n \in Int /\ write \in Int /\ n < write /\ write < n + QueueCapacity
      BY <1>1, <1>2, <2>1, <2>4, Sizes
    <3>2. Slot(n) # Slot(write)
      BY <3>1, Sizes, RemainderDistinct DEF Slot
    <3>3. data[Slot(n)] = n + offset
      BY <1>1, <3>1 DEF RingInv
    <3> QED BY <1>3, <2>1, <2>2, <3>2, <3>3
  <2> QED BY <2>3, <2>4
<1>5. read <= write + 1 /\ write + 1 <= read + QueueCapacity /\ write + 1 \in Nat
  BY <1>1, <1>2, Sizes
<1>6. (write + 1) + offset = cursor + 1
  BY <1>1
<1>7. /\ fed' # None /\ pc' \notin {"reopen", "reset_decoder"} => fed' = read - 1 + offset
      /\ pc' = "advance" => byte' = read + offset
  BY DEF RingInv
<1>8. \A n \in read .. write + 1 - 1 : data'[Slot(n)] = n + offset
  BY <1>4
<1> QED BY <1>1, <1>3, <1>5, <1>6, <1>7, <1>8 DEF RingInv, Slot

\* The byte the main loop is about to load.
LEMMA NextToLoad ==
  ASSUME ReceptionTypeOK,
         NEW read, NEW write, NEW offset, NEW cursor, RingInv(read, write, offset, cursor),
         read < write
  PROVE  data[Slot(read_count)] = read + offset /\ data[Slot(read_count)] \in Nat
<1>1. read \in Nat /\ write \in Nat /\ read_count = read % CounterMod
  BY DEF RingInv
<1>2. Slot(read_count) = Slot(read) /\ Slot(read) \in Slots
  BY <1>1, CounterWraps
<1>3. read \in read .. write - 1
  BY <1>1
<1> QED BY <1>2, <1>3 DEF RingInv, ReceptionTypeOK, QueueTypeOK

(***************************************************************************)
(* The inductive invariant                                                 *)
(***************************************************************************)

\* It holds of the empty queue.
LEMMA InitIInv == ReceptionInit => IInv
<1>1. SUFFICES ASSUME ReceptionInit PROVE IInv
  OBVIOUS
<1>2. 0 % DmaSize = 0 /\ 0 % CounterMod = 0
  <2>1. 0 * DmaSize + 0 = 0 /\ 0 * CounterMod + 0 = 0
    BY Halves, Sizes
  <2>2. 0 \in Int /\ 0 \in 0 .. DmaSize - 1 /\ 0 \in 0 .. CounterMod - 1
    BY Halves, Sizes
  <2> QED BY <2>1, <2>2, Halves, Sizes, RemainderUnique
<1>3. ReceptionTypeOK
  <2>1. QueueTypeOK
    <3>1. overflowed \in BOOLEAN
      BY <1>1 DEF ReceptionInit, queue_init
    <3>2. 0 \in Nat /\ 0 \in Counters
      BY Sizes DEF Counters
    <3> QED BY <1>1, <3>1, <3>2 DEF ReceptionInit, queue_init, QueueTypeOK
  <2>2. receiving \in BOOLEAN /\ quiet \in BOOLEAN /\ pc \in PollSteps
    BY <1>1 DEF ReceptionInit, PollSteps
  <2>3. 0 \in 0 .. DmaLag /\ 0 \in 0 .. DmaSize /\ 0 \in Counters /\ 0 \in Nat
    BY Halves, Sizes DEF Counters
  <2> QED BY <1>1, <2>1, <2>2, <2>3 DEF ReceptionInit, ReceptionTypeOK
<1>4. PortInv(0)
  BY <1>1, <1>2, Halves DEF ReceptionInit, PortInv, IdlePort, DmaPosition
<1>5. RingInv(0, 0, 0, 0)
  BY <1>1, <1>2, Sizes DEF ReceptionInit, RingInv, queue_init
<1>6. FlagInv
  BY <1>1 DEF ReceptionInit, FlagInv, queue_init
<1> QED BY <1>3, <1>4, <1>5, <1>6 DEF IInv

\* The DMA engine and the line.
LEMMA DmaKeeps ==
  ASSUME IInv, DmaReceive \/ LineIdle \/ LineError
  PROVE  IInv'
<1>1. PICK read, write, offset, cursor \in Int :
        PortInv(cursor) /\ RingInv(read, write, offset, cursor)
  BY DEF IInv
<1>2. ReceptionTypeOK /\ FlagInv
  BY DEF IInv
<1>3. PortInv(cursor)'
  BY <1>1, <1>2, DmaReceiveKeepsPort, LineIdleKeepsPort, LineErrorKeepsPort
<1>4. UNCHANGED <<queue, receiver, unreported>>
  BY DEF DmaReceive, LineIdle, LineError
<1>5. RingInv(read, write, offset, cursor)'
  BY <1>1, <1>4, RingKept DEF receiver
<1>6. FlagInv'
  BY <1>2, <1>4 DEF FlagInv, queue, receiver
<1>7. receiving' \in BOOLEAN /\ quiet' \in BOOLEAN
  BY <1>2 DEF DmaReceive, LineIdle, LineError, ReceptionTypeOK
<1>8. /\ arrived' \in Nat /\ UNCHANGED <<previous_position, remaining>>
      /\ lag' \in 0 .. DmaLag /\ event' \in 1 .. DmaSize \cup {None}
  <2>1. CASE DmaReceive
    <3>1. DmaEvent(arrived + 1) \in 1 .. DmaSize \cup {None}
      BY Halves DEF DmaEvent, Half
    <3>2. /\ arrived \in Nat /\ lag \in 0 .. DmaLag /\ event \in 1 .. DmaSize \cup {None}
          /\ arrived' = arrived + 1 /\ UNCHANGED <<previous_position, remaining>>
          /\ \/ event' = DmaEvent(arrived + 1) /\ lag' = 0
             \/ event' = event /\ lag < DmaLag /\ lag' = lag + 1
      BY <1>2, <2>1 DEF DmaReceive, ReceptionTypeOK
    <3> QED BY <3>1, <3>2, Halves
  <2>2. CASE LineIdle
    <3>1. DmaPosition \in 0 .. DmaSize - 1
      BY <1>2, PositionNext DEF ReceptionTypeOK
    <3>2. event' = IF DmaPosition = 0 THEN DmaSize ELSE DmaPosition
      BY <2>2 DEF LineIdle, DmaPosition
    <3>3. event' \in 1 .. DmaSize
      BY <3>1, <3>2, Halves
    <3> QED BY <1>2, <2>2, <3>3, Halves DEF LineIdle, ReceptionTypeOK
  <2>3. CASE LineError
    BY <1>2, <2>3, Halves DEF LineError, ReceptionTypeOK
  <2> QED BY <2>1, <2>2, <2>3
<1>9. ReceptionTypeOK'
  BY <1>2, <1>4, <1>7, <1>8 DEF ReceptionTypeOK, QueueTypeOK, queue, receiver
<1> QED BY <1>3, <1>5, <1>6, <1>9 DEF IInv

\* The callback between its pushes.
LEMMA EnterLeaveKeeps ==
  ASSUME IInv, CallbackEnter \/ CallbackLeave
  PROVE  IInv'
<1>1. PICK read, write, offset, cursor \in Int :
        PortInv(cursor) /\ RingInv(read, write, offset, cursor)
  BY DEF IInv
<1>2. ReceptionTypeOK /\ FlagInv
  BY DEF IInv
<1>3. PortInv(cursor)'
  BY <1>1, <1>2, CallbackEnterKeepsPort, CallbackLeaveKeepsPort
<1>4. UNCHANGED <<queue, receiver, unreported>>
  BY DEF CallbackEnter, CallbackLeave
<1>5. RingInv(read, write, offset, cursor)'
  BY <1>1, <1>4, RingKept DEF receiver
<1>6. FlagInv'
  BY <1>2, <1>4 DEF FlagInv, queue, receiver
<1>7. /\ UNCHANGED <<arrived, receiving, quiet>>
      /\ previous_position' \in 0 .. DmaSize /\ remaining' \in 0 .. DmaSize \cup {None}
      /\ lag' \in 0 .. DmaLag /\ event' \in 1 .. DmaSize \cup {None}
  <2>1. CASE CallbackEnter
    <3>1. remaining' \in 0 .. DmaSize
      BY <1>1, <1>2, <2>1, CallbackEnterKeepsPort
    <3> QED BY <1>2, <2>1, <3>1 DEF CallbackEnter, ReceptionTypeOK
  <2>2. CASE CallbackLeave
    <3>1. event \in 1 .. DmaSize
      BY <1>1, <1>2, <2>2, CallbackLeaveKeepsPort
    <3> QED BY <1>2, <2>2, <3>1, Halves DEF CallbackLeave, ReceptionTypeOK
  <2> QED BY <2>1, <2>2
<1>8. ReceptionTypeOK'
  BY <1>2, <1>4, <1>7 DEF ReceptionTypeOK, QueueTypeOK, queue, receiver
<1> QED BY <1>3, <1>5, <1>6, <1>8 DEF IInv
\* A push: the byte at the cursor is taken, or the rest of the event is lost and
\* the flag says so.
LEMMA PushKeeps ==
  ASSUME IInv, CallbackPush
  PROVE  IInv'
<1>1. PICK read, write, offset, cursor \in Int :
        PortInv(cursor) /\ RingInv(read, write, offset, cursor)
  BY DEF IInv
<1>2. ReceptionTypeOK /\ FlagInv
  BY DEF IInv
<1>3. NextByte = cursor /\ cursor \in Nat
  BY <1>1, <1>2, NextByteIsCursor DEF CallbackPush, PortInv
<1>4. /\ remaining # None /\ remaining > 0 /\ remaining \in 0 .. DmaSize
      /\ event # None /\ BusyPort(cursor)
      /\ UNCHANGED <<receiving, arrived, event, lag, quiet, previous_position, receiver>>
  BY <1>1, <1>2 DEF CallbackPush, PortInv, ReceptionTypeOK
<1>5. /\ arrived \in Nat /\ lag \in Nat /\ remaining = arrived - lag - cursor
      /\ remaining <= Half /\ cursor + lag <= arrived
  BY <1>2, <1>4, Halves DEF ReceptionTypeOK, BusyPort
<1>6. ASSUME NEW next \in Nat, next + lag <= arrived, next >= cursor,
             remaining' = arrived - lag - next
      PROVE  PortInv(next)'
  <2>1. remaining' # None
    BY <1>5, <1>6, NoneIsNoNumber
  <2>2. arrived - lag - next <= Half
    BY <1>3, <1>5, <1>6, Halves
  <2>3. BusyPort(next)'
    BY <1>4, <1>6, <2>1, <2>2 DEF BusyPort, DmaPosition
  <2> QED BY <1>1, <1>4, <1>6, <2>3 DEF PortInv
<1>7. CASE push_accepted(NextByte) /\ remaining' = remaining - 1 /\ UNCHANGED unreported
  <2>1. cursor + 1 \in Nat /\ cursor + 1 \in Int /\ cursor + 1 + lag <= arrived
        /\ cursor + 1 >= cursor /\ remaining' = arrived - lag - (cursor + 1)
    BY <1>3, <1>4, <1>5, <1>7
  <2>2. PortInv(cursor + 1)'
    BY <1>6, <2>1
  <2>3. push_accepted(cursor)
    BY <1>3, <1>7
  <2>4. RingInv(read, write + 1, offset, cursor + 1)'
    BY <1>1, <1>2, <1>4, <2>3, AcceptKeepsRing DEF receiver
  <2>5. UNCHANGED <<overflowed, read_count>> /\ ~overflowed
    BY <2>3 DEF push_accepted, Accept
  <2>6. FlagInv'
    BY <1>2, <1>4, <1>7, <2>5 DEF FlagInv, receiver
  <2>7. write \in Nat /\ write_count = write % CounterMod
    BY <1>1 DEF RingInv
  <2>8. data' \in [Slots -> Nat] /\ write_count' \in Counters
    <3>1. Slot(write_count) \in Slots /\ Increment(write_count) \in Counters
      BY <2>7, CounterWraps
    <3> QED BY <1>2, <1>3, <2>3, <3>1
            DEF push_accepted, Accept, ReceptionTypeOK, QueueTypeOK
  <2>9. remaining' \in 0 .. DmaSize
    BY <1>4, <1>7, Halves
  <2>10. ReceptionTypeOK'
    BY <1>2, <1>4, <1>7, <2>5, <2>8, <2>9 DEF ReceptionTypeOK, QueueTypeOK, receiver
  <2>11. write + 1 \in Int
    BY <2>7
  <2> QED BY <2>1, <2>2, <2>4, <2>6, <2>10, <2>11 DEF IInv
<1>8. CASE /\ push_refused /\ remaining' = 0
           /\ unreported' = IF unreported = None THEN NextByte ELSE unreported
  <2>0. PICK next \in Int : next = arrived - lag
    BY <1>5
  <2>1. next \in Nat /\ next + lag <= arrived /\ next >= cursor
        /\ remaining' = arrived - lag - next
    BY <1>3, <1>5, <1>8, <2>0
  <2>2. PortInv(next)'
    BY <1>6, <2>1
  <2>3. UNCHANGED <<data, read_count, write_count>> /\ overflowed' = TRUE
    BY <1>8 DEF push_refused
  <2>4. RingInv(read, write, offset, next)'
    BY <1>1, <1>4, <2>3 DEF RingInv, receiver, Slot
  <2>5. unreported' \in Nat /\ unreported' # None
    BY <1>2, <1>3, <1>8, NoneIsNoNumber DEF ReceptionTypeOK
  <2>6. FlagInv'
    BY <1>2, <1>4, <2>3, <2>5 DEF FlagInv, receiver
  <2>7. overflowed' \in BOOLEAN
    BY <2>3
  <2>8. remaining' \in 0 .. DmaSize
    BY <1>8, Halves
  <2>9. ReceptionTypeOK'
    BY <1>2, <1>4, <2>3, <2>5, <2>7, <2>8 DEF ReceptionTypeOK, QueueTypeOK, receiver
  <2> QED BY <2>1, <2>2, <2>4, <2>6, <2>9 DEF IInv
<1> QED BY <1>7, <1>8 DEF CallbackPush

\* The steps of poll that only read, and go to another step.
LEMMA ReadingStepKeeps ==
  ASSUME IInv, UNCHANGED <<queue, port, byte, saved, fed, unreported>>,
         pc' \in PollSteps,
         pc' \in {"discard", "snapshot", "restore", "reopen"} => overflowed,
         pc' \notin {"advance", "reopen", "restore"},
         pc' = "load" => read_count # write_count,
         pc \notin {"reopen", "reset_decoder"}
  PROVE  IInv'
<1>1. PICK read, write, offset, cursor \in Int :
        PortInv(cursor) /\ RingInv(read, write, offset, cursor)
  BY DEF IInv
<1>2. ReceptionTypeOK /\ FlagInv
  BY DEF IInv
<1>3. PortInv(cursor)'
  BY <1>1, PortKept
<1>4. /\ read \in Nat /\ write \in Nat /\ read <= write
      /\ read_count = read % CounterMod /\ write_count = write % CounterMod
  BY <1>1 DEF RingInv
<1>5. read_count # write_count => read < write
  BY <1>4
<1>6. RingInv(read, write, offset, cursor)'
  BY <1>1, <1>5 DEF RingInv, queue, Slot
<1>7. FlagInv'
  BY <1>2 DEF FlagInv, queue
<1>8. ReceptionTypeOK'
  BY <1>2 DEF ReceptionTypeOK, QueueTypeOK, queue, port
<1> QED BY <1>3, <1>6, <1>7, <1>8 DEF IInv

\* Loading a byte and handing it to the decoder.
LEMMA PopKeeps ==
  ASSUME IInv, PopLoad \/ \E next \in {"pop", "frame"} : PopAdvance(next)
  PROVE  IInv'
<1>1. PICK read, write, offset, cursor \in Int :
        PortInv(cursor) /\ RingInv(read, write, offset, cursor)
  BY DEF IInv
<1>2. ReceptionTypeOK /\ FlagInv
  BY DEF IInv
<1>3. UNCHANGED <<port, data, write_count, overflowed, saved, unreported>>
  BY DEF PopLoad, PopAdvance, queue
<1>4. PortInv(cursor)'
  BY <1>1, <1>3, PortKept
<1>5. /\ read \in Nat /\ write \in Nat /\ read_count = read % CounterMod
      /\ pc \in {"load", "advance"} /\ read < write
  BY <1>1 DEF RingInv, PopLoad, PopAdvance, Step
<1>6. pc' \in {"advance", "pop", "frame"}
  BY DEF PopLoad, PopAdvance, Step
<1>7. FlagInv'
  BY <1>2, <1>3, <1>6 DEF FlagInv
<1>8. pc' \in PollSteps
  BY <1>6 DEF PollSteps
<1>9. CASE PopLoad
  <2>1. byte' = read + offset /\ byte' \in Nat
    BY <1>1, <1>2, <1>5, <1>9, NextToLoad DEF PopLoad
  <2>2. UNCHANGED <<queue, fed>> /\ pc = "load" /\ pc' = "advance"
    BY <1>9 DEF PopLoad, Step
  <2>3. RingInv(read, write, offset, cursor)'
    BY <1>1, <1>5, <2>1, <2>2 DEF RingInv, queue, Slot
  <2>4. ReceptionTypeOK'
    BY <1>2, <1>3, <1>8, <2>1, <2>2 DEF ReceptionTypeOK, QueueTypeOK, queue, port
  <2> QED BY <1>4, <1>7, <2>3, <2>4 DEF IInv
<1>10. CASE \E next \in {"pop", "frame"} : PopAdvance(next)
  <2>1. /\ pc = "advance" /\ pc' \in {"pop", "frame"} /\ fed' = byte
        /\ read_count' = Increment(read_count) /\ UNCHANGED byte
    BY <1>10 DEF PopAdvance, Step
  <2>2. byte = read + offset /\ offset \in Int
    BY <1>1, <2>1 DEF RingInv
  <2>3. /\ read_count' = (read + 1) % CounterMod /\ read_count' \in Counters
        /\ read + 1 \in Nat /\ read + 1 \in Int
    BY <1>5, <2>1, CounterWraps
  <2>4. /\ read + 1 <= write /\ write <= read + 1 + QueueCapacity
        /\ fed' = (read + 1) - 1 + offset
        /\ \A n \in read + 1 .. write - 1 : n \in read .. write - 1
    BY <1>1, <1>5, <2>1, <2>2, Sizes DEF RingInv
  <2>5. RingInv(read + 1, write, offset, cursor)'
    BY <1>1, <1>3, <2>1, <2>3, <2>4 DEF RingInv, Slot
  <2>6. ReceptionTypeOK'
    BY <1>2, <1>3, <1>8, <2>1, <2>3 DEF ReceptionTypeOK, QueueTypeOK, port
  <2> QED BY <1>4, <1>7, <2>3, <2>5, <2>6 DEF IInv
<1> QED BY <1>9, <1>10
\* Closing the queue, and remembering where it ends.
LEMMA CloseKeeps ==
  ASSUME IInv, ResetClose \/ ResetSnapshot
  PROVE  IInv'
<1>1. PICK read, write, offset, cursor \in Int :
        PortInv(cursor) /\ RingInv(read, write, offset, cursor)
  BY DEF IInv
<1>2. ReceptionTypeOK /\ FlagInv
  BY DEF IInv
<1>3. /\ UNCHANGED <<port, data, read_count, write_count, byte, fed, unreported>>
      /\ pc \in {"discard", "snapshot"} /\ pc' \in {"snapshot", "restore"}
  BY DEF ResetClose, ResetSnapshot, queue, Step
<1>4. overflowed /\ overflowed' = TRUE /\ overflowed' \in BOOLEAN
  BY <1>2, <1>3 DEF FlagInv, ResetClose, ResetSnapshot, queue, ReceptionTypeOK, QueueTypeOK
<1>5. saved' \in Counters /\ (pc' = "restore" => saved' = write_count')
  BY <1>2 DEF ResetClose, ResetSnapshot, queue, Step, ReceptionTypeOK, QueueTypeOK
<1>6. PortInv(cursor)'
  BY <1>1, <1>3, PortKept
<1>7. RingInv(read, write, offset, cursor)'
  BY <1>1, <1>3, <1>4 DEF RingInv, Slot
<1>8. FlagInv'
  BY <1>2, <1>3, <1>4, <1>5 DEF FlagInv
<1>9. pc' \in PollSteps
  BY <1>3 DEF PollSteps
<1>10. ReceptionTypeOK'
  BY <1>2, <1>3, <1>4, <1>5, <1>9 DEF ReceptionTypeOK, QueueTypeOK, port
<1> QED BY <1>6, <1>7, <1>8, <1>10 DEF IInv

\* Emptying the queue: nothing was pushed since its end was remembered.
LEMMA ResetReadKeeps ==
  ASSUME IInv, ResetRead
  PROVE  IInv'
<1>1. PICK read, write, offset, cursor \in Int :
        PortInv(cursor) /\ RingInv(read, write, offset, cursor)
  BY DEF IInv
<1>2. ReceptionTypeOK /\ FlagInv
  BY DEF IInv
<1>3. /\ UNCHANGED <<port, data, write_count, overflowed, byte, saved, fed, unreported>>
      /\ pc = "restore" /\ pc' = "reopen" /\ read_count' = saved
  BY DEF ResetRead, Step
<1>4. overflowed /\ saved = write_count
  BY <1>2, <1>3 DEF FlagInv
<1>5. PortInv(cursor)'
  BY <1>1, <1>3, PortKept
<1>6. write \in Nat /\ write <= write + QueueCapacity /\ write .. write - 1 = {}
  BY <1>1, Sizes DEF RingInv
<1>7. RingInv(write, write, offset, cursor)'
  BY <1>1, <1>3, <1>4, <1>6 DEF RingInv
<1>8. FlagInv'
  BY <1>2, <1>3, <1>4 DEF FlagInv
<1>9. pc' \in PollSteps
  BY <1>3 DEF PollSteps
<1>10. ReceptionTypeOK'
  BY <1>2, <1>3, <1>9 DEF ReceptionTypeOK, QueueTypeOK, port
<1> QED BY <1>5, <1>7, <1>8, <1>10 DEF IInv

\* Reopening it: the next byte taken starts a run of its own.
LEMMA ResetOpenKeeps ==
  ASSUME IInv, ResetOpen
  PROVE  IInv'
<1>1. PICK read, write, offset, cursor \in Int :
        PortInv(cursor) /\ RingInv(read, write, offset, cursor)
  BY DEF IInv
<1>2. ReceptionTypeOK /\ FlagInv
  BY DEF IInv
<1>3. /\ UNCHANGED <<port, data, read_count, write_count, byte, saved, fed>>
      /\ pc = "reopen" /\ pc' = "reset_decoder" /\ unreported' = None
      /\ overflowed' = FALSE /\ overflowed' \in BOOLEAN
  BY DEF ResetOpen, Step
<1>4. PortInv(cursor)'
  BY <1>1, <1>3, PortKept
<1>5. /\ read = write /\ write \in Nat /\ read .. write - 1 = {}
  BY <1>1, <1>3 DEF RingInv
<1>6. PICK start \in Int : write + start = cursor
  <2>1. cursor - write \in Int /\ write + (cursor - write) = cursor
    BY <1>5
  <2> QED BY <2>1
<1>7. RingInv(read, write, start, cursor)'
  BY <1>1, <1>3, <1>5, <1>6 DEF RingInv
<1>8. FlagInv'
  BY <1>3 DEF FlagInv
<1>9. pc' \in PollSteps
  BY <1>3 DEF PollSteps
<1>10. ReceptionTypeOK'
  BY <1>2, <1>3, <1>9 DEF ReceptionTypeOK, QueueTypeOK, port
<1> QED BY <1>4, <1>7, <1>8, <1>10 DEF IInv

\* The decoder is reset: it has been fed nothing.
LEMMA ReportKeeps ==
  ASSUME IInv, ReportOverflow
  PROVE  IInv'
<1>1. PICK read, write, offset, cursor \in Int :
        PortInv(cursor) /\ RingInv(read, write, offset, cursor)
  BY DEF IInv
<1>2. ReceptionTypeOK /\ FlagInv
  BY DEF IInv
<1>3. /\ UNCHANGED <<queue, port, byte, saved, unreported>>
      /\ pc = "reset_decoder" /\ pc' = "idle" /\ fed' = None
  BY DEF ReportOverflow, Step
<1>4. PortInv(cursor)'
  BY <1>1, <1>3, PortKept
<1>5. RingInv(read, write, offset, cursor)'
  BY <1>1, <1>3 DEF RingInv, queue, Slot
<1>6. FlagInv'
  BY <1>2, <1>3 DEF FlagInv, queue
<1>7. pc' \in PollSteps
  BY <1>3 DEF PollSteps
<1>8. ReceptionTypeOK'
  BY <1>2, <1>3, <1>7 DEF ReceptionTypeOK, QueueTypeOK, queue, port
<1> QED BY <1>4, <1>5, <1>6, <1>8 DEF IInv

\* Every step of poll.
LEMMA PollKeeps ==
  ASSUME IInv, Poll
  PROVE  IInv'
<1>1. pc \in PollSteps /\ overflowed \in BOOLEAN
  BY DEF IInv, ReceptionTypeOK, QueueTypeOK
<1>2. CASE CallPoll
  BY <1>2, ReadingStepKeeps DEF CallPoll, Step, PollSteps
<1>3. ASSUME NEW from \in {"poll", "frame", "drained"}, NEW to \in {"pop", "idle"},
             CheckOverflow(from, to)
      PROVE  IInv'
  BY <1>3, ReadingStepKeeps DEF CheckOverflow, Step, PollSteps
<1>4. CASE PopFlag
  BY <1>4, ReadingStepKeeps DEF PopFlag, Step, PollSteps
<1>5. CASE PopEmpty
  BY <1>5, ReadingStepKeeps DEF PopEmpty, Step, PollSteps
<1>6. CASE CheckOverflow("poll", "pop") \/ CheckOverflow("frame", "idle")
           \/ CheckOverflow("drained", "idle")
  BY <1>3, <1>6
<1> QED BY <1>2, <1>4, <1>5, <1>6, PopKeeps, CloseKeeps, ResetReadKeeps, ResetOpenKeeps,
           ReportKeeps DEF Poll

\* Stuttering.
LEMMA StutterKeeps ==
  ASSUME IInv, UNCHANGED receptionVars
  PROVE  IInv'
<1>1. PICK read, write, offset, cursor \in Int :
        PortInv(cursor) /\ RingInv(read, write, offset, cursor)
  BY DEF IInv
<1>2. UNCHANGED <<queue, port, receiver, unreported>>
  BY DEF receptionVars
<1>3. PortInv(cursor)' /\ RingInv(read, write, offset, cursor)'
  BY <1>1, <1>2, PortKept, RingKept DEF receiver
<1>4. FlagInv' /\ ReceptionTypeOK'
  BY <1>2 DEF IInv, FlagInv, ReceptionTypeOK, QueueTypeOK, queue, port, receiver
<1> QED BY <1>3, <1>4 DEF IInv

\* The invariant is inductive.
LEMMA NextKeeps == IInv /\ [ReceptionNext]_receptionVars => IInv'
BY DmaKeeps, EnterLeaveKeeps, PushKeeps, PollKeeps, StutterKeeps DEF ReceptionNext, Interrupt

(***************************************************************************)
(* The results                                                             *)
(***************************************************************************)

\* The invariant holds throughout.
LEMMA Inductive == ReceptionSpec => []IInv
BY InitIInv, NextKeeps, PTL DEF ReceptionSpec

\* For every ring, every width of its counters and every DMA buffer, the types
\* hold and the main loop hears of a refused byte before it is given a frame
\* that could contain a later one (uart_protocol_receiver_poll).
THEOREM ReceptionInvariant == ReceptionSpec => []ReceptionInv
<1>1. IInv => ReceptionInv
  BY DEF IInv, FlagInv, ReceptionInv, LossHeardFirst
<1> QED BY <1>1, Inductive, PTL

\* And every byte the decoder is fed between two resets follows the one before:
\* whatever the interrupt and the main loop do between two memory accesses,
\* uart_rx_queue_pop returns, each once and in order, the bytes that
\* uart_rx_port_enqueue_range read from dma_buffer, which are those the line
\* brought.
THEOREM FedGapless == ReceptionSpec => GaplessRun
<1>1. IInv => ((\E next \in {"pop", "frame"} : PopAdvance(next)) /\ fed # None
                 => fed' = fed + 1)
  <2>1. SUFFICES ASSUME IInv, NEW next \in {"pop", "frame"}, PopAdvance(next), fed # None
                 PROVE  fed' = fed + 1
    OBVIOUS
  <2>2. PICK read, write, offset, cursor \in Int : RingInv(read, write, offset, cursor)
    BY <2>1 DEF IInv
  <2>3. pc = "advance" /\ fed' = byte
    BY <2>1 DEF PopAdvance, Step
  <2>4. byte = read + offset /\ fed = read - 1 + offset
    BY <2>1, <2>2, <2>3 DEF RingInv
  <2> QED BY <2>2, <2>3, <2>4
<1> QED BY <1>1, Inductive, PTL DEF GaplessRun

=============================================================================
