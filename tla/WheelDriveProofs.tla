--------------------------- MODULE WheelDriveProofs --------------------------
(***************************************************************************)
(* From velocity frames to the pins: no wheel is switched straight across, *)
(* a reversal serves its brake time, and each wheel is driven as it was    *)
(* asked to, for every brake time, clock, word size and scale.             *)
(***************************************************************************)
EXTENDS WheelDrive, SequenceTheorems, TLAPS

(***************************************************************************)
(* The motor driver                                                        *)
(***************************************************************************)

\* A wheel waiting to reverse has been off since the reversal began.  Its age
\* wraps with the tick counter, but not before the brake time is over.
OffSince(w) ==
  reversal[w] # None =>
    /\ output[w] = "STOPPED"
    /\ braked[w] = BrakeTime \/ braked[w] >= reversal[w].age

DriverInv ==
  /\ DriverTypeOK
  /\ DirectionRemembered
  /\ \A w \in Wheels : OffSince(w)

\* What a new or an older reversal looks like.
LEMMA ReversalShape ==
  ASSUME NEW to \in Directions \ {"STOPPED"}, NEW age \in Ages
  PROVE  /\ MakeReversal(to, age) \in Reversals
         /\ MakeReversal(to, age) # None
         /\ MakeReversal(to, age).to = to
         /\ MakeReversal(to, age).age = age
BY NoneIsNoReversal DEF MakeReversal, Reversals

\* An age stays an age.
LEMMA LaterAge ==
  ASSUME NEW age \in Ages, NEW d \in 1 .. MaxStall
  PROVE  /\ Later(age, d) \in Ages
         /\ Later(age, d) = age + d \/ age + MaxStall >= ClockMod
BY ClockAssumption, NoneIsNoNumber DEF Ages, Later

\* A command the port takes.
LEMMA ApplyKeeps ==
  ASSUME DriverInv, NEW request \in [Wheels -> Directions], Apply(request)
  PROVE  DriverInv'
<1> DEFINE held(w) == HeldBack(w, request[w])
<1> USE DEF DriverInv
<1>1. ASSUME NEW w \in Wheels
      PROVE  /\ direction'[w] = IF held(w) THEN direction[w] ELSE request[w]
             /\ output'[w] = IF held(w) THEN "STOPPED" ELSE request[w]
             /\ braked'[w] = IF output'[w] = "STOPPED" THEN braked[w] ELSE 0
             /\ ~held(w) => reversal'[w] = None
             /\ held(w) /\ reversal[w] = None => reversal'[w] = MakeReversal(request[w], 0)
             /\ held(w) /\ reversal[w] # None => reversal'[w] = reversal[w]
  BY DEF Apply, port_apply
<1>2. ASSUME NEW w \in Wheels, held(w), reversal[w] = None
      PROVE  /\ request[w] \in Directions \ {"STOPPED"}
             /\ Opposite(direction[w], request[w])
  BY <1>2 DEF HeldBack, direction_reverses, Directions, Opposite, DriverTypeOK
<1>3. 0 \in Ages
  BY ClockAssumption DEF Ages
<1>4. ASSUME NEW w \in Wheels
      PROVE  reversal'[w] \in Reversals \cup {None}
  <2>1. CASE held(w) /\ reversal[w] = None
    BY <1>1, <1>2, <1>3, <2>1, ReversalShape
  <2>2. CASE ~(held(w) /\ reversal[w] = None)
    BY <1>1, <2>2 DEF DriverTypeOK
  <2> QED BY <2>1, <2>2
<1>5. DriverTypeOK'
  <2>1. /\ direction' \in [Wheels -> Directions]
        /\ output' \in [Wheels -> Directions]
        /\ facing' \in [Wheels -> Directions]
    BY DEF DriverTypeOK, Apply, port_apply, Directions
  <2>2. braked' \in [Wheels -> 0 .. BrakeTime]
    BY BrakeAssumption DEF DriverTypeOK, Apply, port_apply
  <2>3. reversal' \in [Wheels -> Reversals \cup {None}]
    BY <1>4 DEF Apply
  <2> QED BY <2>1, <2>2, <2>3 DEF DriverTypeOK
<1>6. ASSUME NEW w \in Wheels
      PROVE  /\ output'[w] # "STOPPED" => direction'[w] = output'[w] /\ reversal'[w] = None
             /\ reversal'[w] # None => Opposite(direction'[w], reversal'[w].to)
             /\ OffSince(w)'
  <2>1. CASE ~held(w)
    BY <1>1, <2>1 DEF OffSince
  <2>2. CASE held(w) /\ reversal[w] = None
    <3>1. /\ reversal'[w].to = request[w]
          /\ reversal'[w].age = 0
      BY <1>1, <1>2, <1>3, <2>2, ReversalShape
    <3>2. braked'[w] >= 0
      BY <1>5, BrakeAssumption DEF DriverTypeOK
    <3> QED BY <1>1, <1>2, <2>2, <3>1, <3>2 DEF OffSince
  <2>3. CASE held(w) /\ reversal[w] # None
    <3>1. /\ Opposite(direction[w], reversal[w].to)
          /\ OffSince(w)
      BY <2>3 DEF DirectionRemembered
    <3> QED BY <1>1, <2>3, <3>1 DEF OffSince
  <2> QED BY <2>1, <2>2, <2>3
<1> QED BY <1>5, <1>6 DEF DirectionRemembered

\* A command the port refuses: a reversal may be forgotten, nothing else.
LEMMA ApplyFailedKeeps ==
  ASSUME DriverInv, NEW request \in [Wheels -> Directions], ApplyFailed(request)
  PROVE  DriverInv'
<1>1. \A w \in Wheels : reversal'[w] \in {reversal[w], None}
  BY DEF ApplyFailed
<1>2. reversal' \in [Wheels -> Reversals \cup {None}]
  BY DEF DriverInv, DriverTypeOK, ApplyFailed
<1>3. DriverTypeOK'
  BY <1>2 DEF DriverInv, DriverTypeOK, ApplyFailed, pins
<1> QED BY <1>1, <1>3 DEF DriverInv, DirectionRemembered, OffSince, ApplyFailed, pins

\* Stopping both wheels.
LEMMA StopKeeps ==
  ASSUME DriverInv, motor_driver_stop
  PROVE  DriverInv'
<1>1. DriverTypeOK'
  BY DEF DriverInv, DriverTypeOK, motor_driver_stop, port_apply, Directions
<1> QED
  BY <1>1 DEF DriverInv, DirectionRemembered, OffSince, motor_driver_stop, port_apply

\* Time: a waiting reversal grows older, and its wheel is off as long.
LEMMA LaterKeeps ==
  ASSUME DriverInv, NEW d \in 1 .. MaxStall, DriverLater(d)
  PROVE  DriverInv'
<1> USE DEF DriverInv
<1>1. ASSUME NEW w \in Wheels
      PROVE  /\ reversal'[w] \in Reversals \cup {None}
             /\ reversal[w] = None <=> reversal'[w] = None
             /\ reversal[w] # None => /\ reversal'[w].to = reversal[w].to
                                      /\ reversal'[w].age = Later(reversal[w].age, d)
                                      /\ reversal[w].age \in Ages
  <2>1. CASE reversal[w] = None
    BY <2>1 DEF DriverLater, ReversalLater
  <2>2. CASE reversal[w] # None
    <3>1. /\ reversal[w].to \in Directions \ {"STOPPED"}
          /\ reversal[w].age \in Ages
      BY <2>2 DEF DriverTypeOK, Reversals
    <3>2. Later(reversal[w].age, d) \in Ages
      BY <3>1, LaterAge
    <3>3. reversal'[w] = MakeReversal(reversal[w].to, Later(reversal[w].age, d))
      BY <2>2 DEF DriverLater, ReversalLater
    <3> QED BY <2>2, <3>1, <3>2, <3>3, ReversalShape
  <2> QED BY <2>1, <2>2
<1>2. ASSUME NEW w \in Wheels
      PROVE  braked'[w] \in 0 .. BrakeTime
  BY BrakeAssumption, ClockAssumption DEF DriverTypeOK, DriverLater, Off
<1>3. DriverTypeOK'
  BY <1>1, <1>2 DEF DriverTypeOK, DriverLater
<1>4. ASSUME NEW w \in Wheels
      PROVE  OffSince(w)'
  <2>1. SUFFICES ASSUME reversal'[w] # None
                 PROVE  /\ output'[w] = "STOPPED"
                        /\ braked'[w] = BrakeTime \/ braked'[w] >= reversal'[w].age
    BY DEF OffSince
  <2>2. /\ output[w] = "STOPPED"
        /\ braked[w] = BrakeTime \/ braked[w] >= reversal[w].age
        /\ reversal[w].age \in Ages
        /\ reversal'[w].age = Later(reversal[w].age, d)
    BY <1>1, <2>1 DEF OffSince
  <2>3. braked'[w] = Off(w, d)
    BY <2>2 DEF DriverLater
  <2>4. CASE braked[w] = BrakeTime
    BY <2>2, <2>3, <2>4, BrakeAssumption, ClockAssumption DEF Off, DriverLater
  <2>5. CASE braked[w] # BrakeTime
    <3>1. braked[w] \in 0 .. BrakeTime - 1
      BY <2>5, BrakeAssumption DEF DriverTypeOK
    <3>2. reversal[w].age < BrakeTime
      BY <2>2, <2>5, <3>1, BrakeAssumption, ClockAssumption DEF Ages
    <3>3. reversal'[w].age = reversal[w].age + d
      BY <2>2, <3>2, LaterAge, BrakeAssumption, ClockAssumption DEF Ages
    <3> QED
      BY <2>2, <2>3, <2>5, <3>1, <3>3, BrakeAssumption, ClockAssumption
      DEF Off, Ages, DriverLater
  <2> QED BY <2>4, <2>5
<1> QED BY <1>1, <1>3, <1>4 DEF DirectionRemembered, DriverLater

\* Every call of the driver, and time, keep the invariant.
LEMMA DriverStep ==
  ASSUME DriverInv, [DriverNext]_driverVars
  PROVE  DriverInv'
<1>1. CASE DriverNext
  BY <1>1, ApplyKeeps, ApplyFailedKeeps, StopKeeps, LaterKeeps DEF DriverNext
<1>2. CASE UNCHANGED driverVars
  BY <1>2 DEF driverVars, driver, pins, DriverInv, DriverTypeOK, DirectionRemembered, OffSince
<1> QED BY <1>1, <1>2

\* The driver's memory is never less than what is on the pins.
THEOREM DriverInvariant == DriverSpec => []DriverInv
<1>1. motor_driver_init => DriverInv
  BY BrakeAssumption
  DEF motor_driver_init, DriverInv, DriverTypeOK, DirectionRemembered, OffSince, Directions
<1>2. DriverInv /\ [DriverNext]_driverVars => DriverInv'
  BY DriverStep
<1> QED BY <1>1, <1>2, PTL DEF DriverSpec

\* What a step does to a wheel's pins: driven as requested, switched off, or left.
LEMMA PinsStep ==
  ASSUME DriverInv, DriverNext, NEW w \in Wheels, output'[w] # "STOPPED"
  PROVE  \/ output'[w] = output[w] /\ reversal[w] = None
         \/ ~HeldBack(w, output'[w])
<1> USE DEF DriverInv
<1>1. ASSUME NEW request \in [Wheels -> Directions], Apply(request)
      PROVE  ~HeldBack(w, output'[w])
  BY <1>1 DEF Apply, port_apply
<1>2. ASSUME output' = output
      PROVE  output'[w] = output[w] /\ reversal[w] = None
  BY <1>2 DEF OffSince
<1>3. CASE motor_driver_stop
  BY <1>3 DEF motor_driver_stop, port_apply
<1>4. DriverNext => \/ \E request \in [Wheels -> Directions] : Apply(request)
                    \/ output' = output
                    \/ motor_driver_stop
  BY DEF DriverNext, ApplyFailed, DriverLater, pins
<1> QED BY <1>1, <1>2, <1>3, <1>4

\* No wheel is switched from one direction straight to the other.
THEOREM DriverNeverStraightAcross == DriverSpec => NeverStraightAcross
<1>1. ASSUME DriverInv, [DriverNext]_driverVars, NEW w \in Wheels, Opposite(output[w], output'[w])
      PROVE  FALSE
  <2>1. /\ output[w] # "STOPPED" /\ output'[w] # "STOPPED" /\ output'[w] # output[w]
    BY <1>1 DEF Opposite
  <2>2. direction[w] = output[w] /\ reversal[w] = None
    BY <1>1, <2>1 DEF DriverInv, DirectionRemembered
  <2>3. HeldBack(w, output'[w])
    BY <2>1, <2>2 DEF HeldBack, direction_reverses
  <2>4. CASE DriverNext
    BY <1>1, <2>1, <2>3, <2>4, PinsStep
  <2>5. CASE UNCHANGED driverVars
    BY <2>1, <2>5 DEF driverVars, pins
  <2> QED BY <1>1, <2>4, <2>5
<1>2. DriverInv /\ [DriverNext]_driverVars
        => [\A w \in Wheels : ~Opposite(output[w], output'[w])]_driverVars
  BY <1>1
<1> QED BY <1>2, DriverInvariant, PTL DEF DriverSpec, NeverStraightAcross

\* A reversal reaches the pins only after the wheel was off for BrakeTime.
THEOREM DriverBrakeServed == DriverSpec => BrakeServed
<1>1. ASSUME DriverInv, [DriverNext]_driverVars, NEW w \in Wheels,
             reversal[w] # None, output'[w] = reversal[w].to
      PROVE  braked[w] = BrakeTime
  <2>1. /\ reversal[w].to # "STOPPED"
        /\ reversal[w].age \in Ages
        /\ output[w] = "STOPPED"
        /\ braked[w] \in 0 .. BrakeTime
        /\ braked[w] = BrakeTime \/ braked[w] >= reversal[w].age
    BY <1>1 DEF DriverInv, DriverTypeOK, OffSince, Reversals
  <2>2. CASE DriverNext
    <3>1. ~HeldBack(w, output'[w])
      BY <1>1, <2>1, <2>2, PinsStep
    <3>2. ~(reversal[w].age < BrakeTime)
      BY <1>1, <3>1 DEF HeldBack
    <3> QED BY <2>1, <3>2, BrakeAssumption, ClockAssumption DEF Ages
  <2>3. CASE UNCHANGED driverVars
    BY <1>1, <2>1, <2>3 DEF driverVars, pins
  <2> QED BY <1>1, <2>2, <2>3
<1>2. DriverInv /\ [DriverNext]_driverVars
        => [\A w \in Wheels :
              reversal[w] # None /\ output'[w] = reversal[w].to
                => braked[w] = BrakeTime]_driverVars
  BY <1>1
<1> QED BY <1>2, DriverInvariant, PTL DEF DriverSpec, BrakeServed


(***************************************************************************)
(* Arithmetic                                                              *)
(***************************************************************************)

\* A number is its quotient times the divisor, and the remainder.
LEMMA DivMod ==
  ASSUME NEW x \in Nat, NEW b \in Nat \ {0}
  PROVE  x = (x \div b) * b + (x % b)
<1>1. x = b * (x \div b) + (x % b)
  BY Z3
<1>2. x \div b \in Int
  OBVIOUS
<1>3. \A q \in Int : b * q = q * b
  OBVIOUS
<1> QED BY <1>1, <1>2, <1>3, Zenon

\* Quotient and remainder of a natural number.
LEMMA ByteRange ==
  ASSUME NEW x \in Nat, NEW b \in Nat \ {0}
  PROVE  x \div b \in Nat /\ x % b \in 0 .. b - 1
OBVIOUS

\* Division keeps the order.
LEMMA DivMonotone ==
  ASSUME NEW x \in Nat, NEW y \in Nat, x <= y, NEW b \in Nat \ {0}
  PROVE  x \div b <= y \div b
OBVIOUS

\* So does multiplication.
LEMMA TimesMonotone ==
  ASSUME NEW x \in Nat, NEW y \in Nat, x <= y, NEW b \in Nat
  PROVE  x * b <= y * b
OBVIOUS

\* Division undoes multiplication.
LEMMA WholeQuotient ==
  ASSUME NEW k \in Nat, NEW b \in Nat \ {0}
  PROVE  (b * k) \div b = k
OBVIOUS

\* A signed number in w values, as an unsigned one.
LEMMA TwosComplement ==
  ASSUME NEW w \in Nat \ {0}, NEW v \in -(w \div 2) .. w \div 2 - 1
  PROVE  v % w = IF v >= 0 THEN v ELSE v + w
OBVIOUS

(***************************************************************************)
(* The codec                                                               *)
(***************************************************************************)

\* The number of words is even.
LEMMA WordRange ==
  /\ WordCount \in Nat \ {0}
  /\ WordCount \div 2 \in Nat
  /\ WordCount = 2 * (WordCount \div 2)
<1>1. PICK h \in Nat \ {0} : ByteCount = 2 * h
  BY VelocityAssumption
<1>2. WordCount = 2 * (h * ByteCount) /\ h * ByteCount \in Nat /\ WordCount \in Nat \ {0}
  BY <1>1 DEF WordCount
<1> QED BY <1>2

\* Two bytes hold a word,
LEMMA WordCoded ==
  ASSUME NEW x \in Nat
  PROVE  decode_u16_be(encode_u16_be(x)) = x
<1>1. ByteCount \in Nat \ {0}
  BY VelocityAssumption
<1>2. x = (x \div ByteCount) * ByteCount + (x % ByteCount)
  BY <1>1, DivMod
<1>3. decode_u16_be(encode_u16_be(x)) = (x \div ByteCount) * ByteCount + (x % ByteCount)
  <2>1. ASSUME NEW a, NEW b PROVE decode_u16_be(<<a, b>>) = a * ByteCount + b
    BY DEF decode_u16_be
  <2> QED BY <2>1, Zenon DEF encode_u16_be
<1> QED BY <1>2, <1>3

\* or a signed number,
LEMMA NumberCoded ==
  ASSUME NEW v \in Int16
  PROVE  decode_i16_be(encode_i16_be(v)) = v
<1>1. v % WordCount = IF v >= 0 THEN v ELSE v + WordCount
  BY WordRange, TwosComplement DEF Int16
<1>2. v % WordCount \in Nat
  BY <1>1, WordRange DEF Int16
<1>3. decode_u16_be(encode_i16_be(v)) = v % WordCount
  BY <1>2, WordCoded DEF encode_i16_be
<1> QED BY <1>1, <1>3, WordRange DEF decode_i16_be, Int16

\* Two pairs of bytes, one after the other.
LEMMA PairsApart ==
  ASSUME NEW a \in Int, NEW b \in Int, NEW c \in Int, NEW d \in Int
  PROVE  LET s == <<a, b>> \o <<c, d>>
         IN  /\ SubSeq(s, 1, 2)[1] = a /\ SubSeq(s, 1, 2)[2] = b
             /\ SubSeq(s, 3, 4)[1] = c /\ SubSeq(s, 3, 4)[2] = d
<1> DEFINE s == <<a, b>> \o <<c, d>>
<1>1. /\ <<a, b>> \in Seq(Int) /\ <<c, d>> \in Seq(Int)
      /\ Len(<<a, b>>) = 2 /\ Len(<<c, d>>) = 2
  OBVIOUS
<1>2. /\ s[1] = <<a, b>>[1] /\ s[2] = <<a, b>>[2]
      /\ s[3] = <<c, d>>[1] /\ s[4] = <<c, d>>[2]
  BY <1>1, ConcatProperties
<1>3. s[1] = a /\ s[2] = b /\ s[3] = c /\ s[4] = d
  BY <1>2
<1> HIDE DEF s
<1>4. (\A i \in 1 .. 2 : s[i] \in Int) /\ (\A i \in 3 .. 4 : s[i] \in Int)
  BY <1>3
<1>5. \A i \in 1 .. 2 : SubSeq(s, 1, 2)[i] = s[1 + i - 1]
  BY <1>4, SubSeqProperties
<1>6. \A i \in 1 .. 2 : SubSeq(s, 3, 4)[i] = s[3 + i - 1]
  BY <1>4, SubSeqProperties
<1>7. SubSeq(s, 1, 2)[1] = a /\ SubSeq(s, 1, 2)[2] = b
  BY <1>3, <1>5
<1>8. SubSeq(s, 3, 4)[1] = c /\ SubSeq(s, 3, 4)[2] = d
  BY <1>3, <1>6
<1> QED BY <1>7, <1>8 DEF s

\* and four of them the velocities of both wheels.
LEMMA VelocitiesCoded ==
  ASSUME NEW velocity \in [{"left", "right"} -> Int16]
  PROVE  Decoded(Encoded(velocity)) = [left |-> velocity["left"], right |-> velocity["right"]]
<1> DEFINE hi(v) == (v % WordCount) \div ByteCount
           lo(v) == (v % WordCount) % ByteCount
<1>1. /\ velocity.left = velocity["left"] /\ velocity.right = velocity["right"]
      /\ velocity["left"] \in Int16 /\ velocity["right"] \in Int16
  OBVIOUS
<1>2. ASSUME NEW v \in Int16
      PROVE  /\ hi(v) \in Int /\ lo(v) \in Int
             /\ encode_i16_be(v) = <<hi(v), lo(v)>>
  BY WordRange, VelocityAssumption DEF encode_i16_be, encode_u16_be, Int16
<1> HIDE DEF hi, lo
<1>3. ASSUME NEW s, NEW t, s[1] = t[1], s[2] = t[2]
      PROVE  decode_i16_be(s) = decode_i16_be(t)
  BY <1>3 DEF decode_i16_be, decode_u16_be
<1>4. ASSUME NEW v \in Int16
      PROVE  encode_i16_be(v)[1] = hi(v) /\ encode_i16_be(v)[2] = lo(v)
  BY <1>2
<1>5. Encoded(velocity) = <<hi(velocity["left"]), lo(velocity["left"])>>
                            \o <<hi(velocity["right"]), lo(velocity["right"])>>
  BY <1>1, <1>2, Zenon DEF Encoded
<1>6. /\ SubSeq(Encoded(velocity), 1, 2)[1] = hi(velocity["left"])
      /\ SubSeq(Encoded(velocity), 1, 2)[2] = lo(velocity["left"])
      /\ SubSeq(Encoded(velocity), 3, 4)[1] = hi(velocity["right"])
      /\ SubSeq(Encoded(velocity), 3, 4)[2] = lo(velocity["right"])
  BY <1>1, <1>2, <1>5, PairsApart
<1>7. decode_i16_be(SubSeq(Encoded(velocity), 1, 2)) = velocity["left"]
  <2>1. decode_i16_be(SubSeq(Encoded(velocity), 1, 2)) =
          decode_i16_be(encode_i16_be(velocity["left"]))
    BY <1>1, <1>3, <1>4, <1>6, Zenon
  <2> QED BY <1>1, <2>1, NumberCoded
<1>8. decode_i16_be(SubSeq(Encoded(velocity), 3, 4)) = velocity["right"]
  <2>1. decode_i16_be(SubSeq(Encoded(velocity), 3, 4)) =
          decode_i16_be(encode_i16_be(velocity["right"]))
    BY <1>1, <1>3, <1>4, <1>6, Zenon
  <2> QED BY <1>1, <2>1, NumberCoded
<1> QED BY <1>7, <1>8 DEF Decoded

(***************************************************************************)
(* The conversion                                                          *)
(***************************************************************************)

\* The product stays below ProductMod, and the command within its range.
LEMMA MagnitudeCommand ==
  ASSUME NEW s \in 0 .. MaxVelocity
  PROVE  /\ CommandMagnitude(s) = MinimumStart + (s * (CommandMax - MinimumStart)) \div MaxVelocity
         /\ CommandMagnitude(s) \in MinimumStart .. CommandMax
<1> DEFINE k == CommandMax - MinimumStart
<1>1. /\ k \in Nat /\ MaxVelocity \in Nat \ {0} /\ MaxVelocity <= WordCount - 1
      /\ WordCount \in Nat /\ CommandMax \in Nat /\ MinimumStart \in Nat /\ k <= CommandMax
      /\ ProductMod \in Nat /\ (WordCount - 1) * CommandMax < ProductMod
      /\ CommandMax = MinimumStart + k
  BY VelocityAssumption, WordRange
<1> HIDE DEF k
<1>2. s * k <= MaxVelocity * k /\ s * k \in Nat
  BY <1>1, TimesMonotone
<1>3. s * k < ProductMod
  <2>1. s * k <= (WordCount - 1) * k
    BY <1>1, TimesMonotone
  <2>2. k * (WordCount - 1) <= CommandMax * (WordCount - 1)
    BY <1>1, TimesMonotone
  <2>3. k * (WordCount - 1) = (WordCount - 1) * k
        /\ CommandMax * (WordCount - 1) = (WordCount - 1) * CommandMax
        /\ (WordCount - 1) * k \in Int /\ (WordCount - 1) * CommandMax \in Int
    BY <1>1
  <2> QED BY <1>1, <1>2, <2>1, <2>2, <2>3
<1>4. (s * k) % ProductMod = s * k
  BY <1>1, <1>2, <1>3
<1>5. /\ (s * k) \div MaxVelocity \in Nat
      /\ (s * k) \div MaxVelocity <= (MaxVelocity * k) \div MaxVelocity
      /\ (MaxVelocity * k) \div MaxVelocity = k
  BY <1>1, <1>2, DivMonotone, WholeQuotient
<1>6. CommandMagnitude(s) = MinimumStart + (s * k) \div MaxVelocity
  BY <1>4 DEF CommandMagnitude, k
<1>7. MinimumStart + (s * k) \div MaxVelocity \in MinimumStart .. CommandMax
  BY <1>1, <1>5
<1> QED BY <1>6, <1>7 DEF k

\* One wheel's conversion: sign and range,
LEMMA ConvertSuits ==
  ASSUME NEW v \in Int16
  PROVE  /\ convert_one(v) \in -CommandMax .. CommandMax
         /\ Suits(convert_one(v), v)
<1> DEFINE s == Saturated(Magnitude(v))
<1>1. Magnitude(v) \in Nat /\ s \in 0 .. MaxVelocity
  BY VelocityAssumption, WordRange DEF Magnitude, Saturated, Int16
<1> HIDE DEF s
<1>2. CommandMagnitude(s) \in MinimumStart .. CommandMax
  BY <1>1, MagnitudeCommand
<1>3. convert_one(v) = CASE v = 0 -> 0
                         [] v < 0 -> -CommandMagnitude(s)
                         [] OTHER -> CommandMagnitude(s)
  BY DEF convert_one, s
<1>4. v \in Int /\ CommandMax \in Nat /\ MinimumStart \in 1 .. CommandMax
  BY VelocityAssumption, WordRange DEF Int16
<1>5. CASE v = 0
  BY <1>3, <1>4, <1>5 DEF Suits
<1>6. CASE v < 0
  BY <1>2, <1>3, <1>4, <1>6 DEF Suits, Magnitude
<1>7. CASE v > 0
  BY <1>2, <1>3, <1>4, <1>7 DEF Suits, Magnitude
<1> QED BY <1>4, <1>5, <1>6, <1>7

\* and order.
LEMMA ConvertMonotone ==
  ASSUME NEW u \in Int16, NEW v \in Int16, u <= v
  PROVE  convert_one(u) <= convert_one(v)
<1>0. u \in Int /\ v \in Int /\ CommandMax \in Nat /\ MinimumStart \in 1 .. CommandMax
      /\ MaxVelocity \in Nat \ {0}
  BY VelocityAssumption, WordRange DEF Int16
<1>1. ASSUME NEW m \in Nat, NEW n \in Nat, m <= n
      PROVE  /\ CommandMagnitude(Saturated(m)) <= CommandMagnitude(Saturated(n))
             /\ CommandMagnitude(Saturated(m)) \in MinimumStart .. CommandMax
             /\ CommandMagnitude(Saturated(n)) \in MinimumStart .. CommandMax
  <2>1. /\ Saturated(m) \in 0 .. MaxVelocity /\ Saturated(n) \in 0 .. MaxVelocity
        /\ Saturated(m) <= Saturated(n)
    BY <1>0, <1>1 DEF Saturated
  <2> DEFINE k == CommandMax - MinimumStart
  <2>2. k \in Nat
    BY <1>0
  <2>3. /\ Saturated(m) * k <= Saturated(n) * k
        /\ Saturated(m) * k \in Nat /\ Saturated(n) * k \in Nat
    BY <2>1, <2>2, TimesMonotone
  <2>4. (Saturated(m) * k) \div MaxVelocity <= (Saturated(n) * k) \div MaxVelocity
    BY <1>0, <2>3, DivMonotone
  <2>5. /\ (Saturated(m) * k) \div MaxVelocity \in Int
        /\ (Saturated(n) * k) \div MaxVelocity \in Int
    BY <1>0, <2>3
  <2>6. /\ CommandMagnitude(Saturated(m)) = MinimumStart + (Saturated(m) * k) \div MaxVelocity
        /\ CommandMagnitude(Saturated(n)) = MinimumStart + (Saturated(n) * k) \div MaxVelocity
        /\ CommandMagnitude(Saturated(m)) \in MinimumStart .. CommandMax
        /\ CommandMagnitude(Saturated(n)) \in MinimumStart .. CommandMax
    BY <2>1, MagnitudeCommand
  <2> HIDE DEF k
  <2> QED BY <1>0, <2>4, <2>5, <2>6
<1>2. CASE u >= 0
  <2>1. CASE u = 0
    BY <1>0, <2>1, ConvertSuits DEF Suits, convert_one, Magnitude
  <2>2. CASE u > 0
    BY <1>0, <1>1, <2>2 DEF convert_one, Magnitude
  <2> QED BY <1>0, <1>2, <2>1, <2>2
<1>3. CASE v <= 0
  <2>1. CASE v = 0
    BY <1>0, <2>1, ConvertSuits DEF Suits, convert_one, Magnitude
  <2>2. CASE v < 0
    <3>1. CommandMagnitude(Saturated(-v)) <= CommandMagnitude(Saturated(-u))
          /\ CommandMagnitude(Saturated(-v)) \in Int /\ CommandMagnitude(Saturated(-u)) \in Int
      BY <1>0, <1>1, <2>2
    <3> QED BY <1>0, <2>2, <3>1 DEF convert_one, Magnitude
  <2> QED BY <1>0, <1>3, <2>1, <2>2
<1>4. CASE u < 0 /\ v > 0
  <2>1. convert_one(u) \in Int /\ convert_one(v) \in Int
    BY <1>0, ConvertSuits
  <2>2. convert_one(u) < 0 /\ ~(convert_one(v) < 0)
    BY <1>0, <1>4, ConvertSuits DEF Suits
  <2> QED BY <2>1, <2>2
<1> QED BY <1>0, <1>2, <1>3, <1>4

(***************************************************************************)
(* Driver and conversion together                                          *)
(***************************************************************************)

\* What the driver was given for the velocities of a frame.
LEMMA FrameConverted ==
  ASSUME NEW velocity \in [Wheels -> Velocities], NEW w \in Wheels
  PROVE  /\ velocity[w] \in Int16
         /\ convert(Decoded(Encoded(velocity)))[w] = convert_one(velocity[w])
<1>1. Wheels = {"left", "right"} /\ velocity \in [{"left", "right"} -> Int16]
  BY DriveAssumption
<1>2. convert(Decoded(Encoded(velocity))) =
        [left |-> convert_one(velocity["left"]), right |-> convert_one(velocity["right"])]
  BY <1>1, VelocitiesCoded DEF convert
<1> QED BY <1>1, <1>2

\* A command has the direction of its velocity.
LEMMA DirectionConverted ==
  ASSUME NEW v \in Int16
  PROVE  /\ direction_from_command(convert_one(v)) = direction_from_command(v)
         /\ direction_from_command(v) \in Directions
<1>1. v \in Int /\ convert_one(v) \in Int
  BY ConvertSuits, VelocityAssumption, WordRange DEF Int16
<1> QED BY <1>1, ConvertSuits DEF Suits, direction_from_command, Directions

\* The commands are what the last frame asked for, and so are the pins.
DriveInv ==
  /\ requested \in [Wheels -> Int16]
  /\ motor \in [Wheels -> Int]
  /\ \A w \in Wheels : motor[w] = convert_one(requested[w])
  /\ \A w \in Wheels :
       output[w] # "STOPPED" => output[w] = direction_from_command(requested[w])

\* A step of the drive keeps its invariant and is one of the driver.
LEMMA DriveStep ==
  ASSUME DriveInv, [DriveNext]_driveVars
  PROVE  DriveInv' /\ [DriverNext]_driverVars
<1>1. ASSUME NEW velocity \in [Wheels -> Velocities], WheelVelocityFrame(velocity)
      PROVE  DriveInv' /\ DriverNext
  <2> DEFINE command == convert(Decoded(Encoded(velocity)))
             request == [w \in Wheels |-> direction_from_command(command[w])]
  <2>1. ASSUME NEW w \in Wheels
        PROVE  /\ velocity[w] \in Int16
               /\ command[w] = convert_one(velocity[w])
               /\ command[w] \in Int
               /\ request[w] = direction_from_command(velocity[w])
               /\ request[w] \in Directions
    BY FrameConverted, DirectionConverted, ConvertSuits, VelocityAssumption
  <2>2. request \in [Wheels -> Directions]
    BY <2>1
  <2>3. \/ Apply(request) /\ requested' = velocity /\ motor' = command
        \/ ApplyFailed(request) /\ UNCHANGED <<requested, motor>>
    BY <1>1 DEF WheelVelocityFrame
  <2>4. command = [left |-> convert_one(velocity["left"]), right |-> convert_one(velocity["right"])]
    BY DriveAssumption, VelocitiesCoded DEF convert
  <2>5. command \in [Wheels -> Int]
    BY <2>1, <2>4, DriveAssumption
  <2> HIDE DEF command, request
  <2>6. CASE Apply(request) /\ requested' = velocity /\ motor' = command
    <3>1. \A w \in Wheels : output'[w] \in {"STOPPED", request[w]}
      BY <2>6 DEF Apply, port_apply
    <3>2. velocity \in [Wheels -> Int16]
      BY DriveAssumption
    <3> QED BY <2>1, <2>2, <2>5, <2>6, <3>1, <3>2 DEF DriveInv, DriverNext
  <2>7. CASE ApplyFailed(request) /\ UNCHANGED <<requested, motor>>
    BY <2>2, <2>7 DEF ApplyFailed, pins, DriveInv, DriverNext
  <2> QED BY <2>3, <2>6, <2>7
<1>2. ASSUME DriveStop
      PROVE  DriveInv' /\ DriverNext
  <2>1. 0 \in Int16 /\ convert_one(0) = 0
    BY WordRange DEF Int16, convert_one
  <2> QED BY <1>2, <2>1 DEF DriveStop, AtRest, motor_driver_stop, port_apply, DriveInv, DriverNext
<1>3. ASSUME NEW d \in 1 .. MaxStall, DriveLater(d)
      PROVE  DriveInv' /\ DriverNext
  BY <1>3 DEF DriveLater, DriverLater, DriveInv, DriverNext
<1>4. ASSUME UNCHANGED driveVars
      PROVE  DriveInv' /\ UNCHANGED driverVars
  BY <1>4 DEF driveVars, driverVars, pins, DriveInv
<1> QED BY <1>1, <1>2, <1>3, <1>4 DEF DriveNext

\* The drive implements the driver alone, with the conversion's results as its commands.
LEMMA DriveInvariant == DriveSpec => []DriveInv /\ DriverSpec
<1>1. DriveInit => DriveInv /\ motor_driver_init
  <2>1. 0 \in Int16 /\ convert_one(0) = 0
    BY WordRange DEF Int16, convert_one
  <2> QED BY <2>1 DEF DriveInit, AtRest, motor_driver_init, DriveInv
<1>2. DriveInv /\ [DriveNext]_driveVars => DriveInv' /\ [DriverNext]_driverVars
  BY DriveStep
<1> QED BY <1>1, <1>2, PTL DEF DriveSpec, DriverSpec

\* What the wheels do is what the Raspberry Pi asked for last: way, rest and order,
\* for every word size, dead zone and scale.
THEOREM DriveFaithful == DriveSpec => []VelocityFaithful
<1>1. DriveInv => VelocityFaithful
  <2> SUFFICES ASSUME DriveInv
               PROVE  VelocityFaithful
    OBVIOUS
  <2>1. ASSUME NEW w \in Wheels
        PROVE  requested[w] \in Int16 /\ motor[w] = convert_one(requested[w])
    BY DEF DriveInv
  <2>2. \A w \in Wheels : Suits(motor[w], requested[w])
    BY <2>1, ConvertSuits
  <2>3. \A v, w \in Wheels : requested[v] <= requested[w] => motor[v] <= motor[w]
    BY <2>1, ConvertMonotone
  <2> QED BY <2>2, <2>3 DEF DriveInv, VelocityFaithful
<1> QED BY <1>1, DriveInvariant, PTL

\* Under velocity frames the driver behaves as it is specified to, so no wheel is
\* switched straight across and every reversal serves its brake time.
THEOREM DriveReversalsBraked == DriveSpec => NeverStraightAcross /\ BrakeServed
BY DriveInvariant, DriverNeverStraightAcross, DriverBrakeServed, PTL

=============================================================================
