----------------------------- MODULE FrameProofs ----------------------------
(***************************************************************************)
(* Frames on the line between the two computers, for every payload size,   *)
(* checksum and byte range.                                                *)
(***************************************************************************)
EXTENDS ProtocolFrameDecoder, FrameSender, SequenceTheorems, WellFoundedInduction, TLAPS

(***************************************************************************)
(* Numbers                                                                 *)
(***************************************************************************)

\* Induction on the natural numbers, for a set: the least number not in it has a
\* predecessor in it.
LEMMA Induction ==
  ASSUME NEW T, 0 \in T, \A n \in Nat : n \in T => n + 1 \in T
  PROVE  Nat \subseteq T
<1> DEFINE R == {pair \in Nat \X Nat : pair[1] < pair[2]}
<1>1. IsWellFoundedOn(R, Nat)
  <2>1. OpToRel(<, Nat) = R
    BY DEF OpToRel
  <2> QED BY <2>1, NatLessThanWellFounded
<1>2. \A x, y \in Nat : y < x => <<y, x>> \in R
  OBVIOUS
<1> HIDE DEF R
<1> SUFFICES ASSUME NEW other \in Nat \ T
             PROVE  FALSE
  OBVIOUS
<1>3. Nat \ T \in SUBSET Nat /\ Nat \ T # {}
  OBVIOUS
<1>4. PICK x \in Nat \ T : \A y \in Nat \ T : ~(<<y, x>> \in R)
  BY <1>1, <1>3, WFMin
<1>5. x - 1 \in Nat /\ x - 1 < x /\ (x - 1) + 1 = x
  BY <1>4
<1>6. x - 1 \in T
  BY <1>2, <1>4, <1>5
<1> QED BY <1>4, <1>5, <1>6

\* Two bytes make a word and are its parts.
LEMMA WordOfBytes ==
  ASSUME NEW high \in Bytes, NEW low \in Bytes
  PROVE  /\ Word(high, low) \in Words /\ Word(high, 0) \in Words
         /\ Word(high, low) \in Nat
         /\ Word(high, 0) + low = Word(high, low)
         /\ High(Word(high, low)) = high
         /\ Low(Word(high, low)) = low
<1>1. ByteCount \in Nat /\ ByteCount > 0 /\ high \in Nat /\ low \in Nat
      /\ high <= ByteCount - 1 /\ low <= ByteCount - 1
  BY DecoderAssumption DEF Bytes
<1>2. PICK w : w = high * ByteCount + low
  OBVIOUS
<1>3. w \in Nat /\ high * ByteCount \in Nat
  BY <1>1, <1>2
<1>4. high * ByteCount <= (ByteCount - 1) * ByteCount
  BY <1>1
<1>5. /\ (ByteCount - 1) * ByteCount = ByteCount * ByteCount - ByteCount
      /\ ByteCount * ByteCount \in Nat
  BY <1>1
<1>6. w <= ByteCount * ByteCount - 1 /\ high * ByteCount <= ByteCount * ByteCount - 1
  BY <1>1, <1>2, <1>3, <1>4, <1>5
<1>7. PICK q, r : q = w \div ByteCount /\ r = w % ByteCount
  OBVIOUS
<1>8. /\ q \in Int /\ r \in Nat /\ r <= ByteCount - 1
      /\ w = ByteCount * q + r
  BY <1>1, <1>3, <1>7
<1>9. q = high
  <2>1. ~(q > high)
    <3>1. ASSUME q > high PROVE FALSE
      <4>1. ByteCount * q >= ByteCount * (high + 1)
        BY <1>1, <1>8, <3>1
      <4>2. ByteCount * (high + 1) = high * ByteCount + ByteCount
        BY <1>1
      <4> QED BY <1>1, <1>2, <1>3, <1>8, <4>1, <4>2
    <3> QED BY <3>1
  <2>2. ~(q < high)
    <3>1. ASSUME q < high PROVE FALSE
      <4>1. ByteCount * (q + 1) <= ByteCount * high
        BY <1>1, <1>8, <3>1
      <4>2. ByteCount * (q + 1) = ByteCount * q + ByteCount /\ ByteCount * high = high * ByteCount
        BY <1>1, <1>8
      <4> QED BY <1>1, <1>2, <1>3, <1>8, <4>1, <4>2
    <3> QED BY <3>1
  <2> QED BY <1>1, <1>8, <2>1, <2>2
<1>10. r = low
  <2>1. ByteCount * q = high * ByteCount
    BY <1>1, <1>9
  <2> QED BY <1>1, <1>2, <1>3, <1>8, <2>1
<1>11. Word(high, low) = w /\ Word(high, 0) = high * ByteCount
  BY <1>1, <1>2, <1>3 DEF Word
<1>12. High(w) = high /\ Low(w) = low
  BY <1>7, <1>9, <1>10 DEF High, Low
<1>13. w \in Words /\ high * ByteCount \in Words
  BY <1>3, <1>5, <1>6 DEF Words
<1> QED BY <1>2, <1>3, <1>11, <1>12, <1>13

\* The parts of a number make it up again.
LEMMA WordOfParts ==
  ASSUME NEW word \in Nat
  PROVE  Word(High(word), Low(word)) = word
<1>1. ByteCount \in Nat /\ ByteCount > 0
  BY DecoderAssumption
<1>2. word = ByteCount * (word \div ByteCount) + (word % ByteCount)
  BY <1>1
<1>3. word \div ByteCount \in Int
  BY <1>1
<1>4. ByteCount * (word \div ByteCount) = (word \div ByteCount) * ByteCount
  BY <1>1, <1>3
<1> QED BY <1>2, <1>4 DEF Word, High, Low

(***************************************************************************)
(* The checksum                                                            *)
(***************************************************************************)

\* The checksums of the beginnings of a sequence of bytes.
IsRun(run, bytes) ==
  run = [i \in 0 .. Len(bytes) |->
           IF i = 0 THEN InitialCrc ELSE CrcUpdate(run[i - 1], bytes[i])]

\* One more byte goes on from the last.
LEMMA RunExtends ==
  ASSUME NEW bytes \in Seq(Bytes), NEW byte \in Bytes, NEW run, IsRun(run, bytes),
         NEW longer, longer = Append(bytes, byte),
         NEW more,
         more = [i \in 0 .. Len(bytes) + 1 |->
                   IF i <= Len(bytes) THEN run[i] ELSE CrcUpdate(run[Len(bytes)], byte)]
  PROVE  IsRun(more, longer)
<1>1. /\ Len(bytes) \in Nat /\ Len(longer) = Len(bytes) + 1
      /\ \A i \in 1 .. Len(bytes) : longer[i] = bytes[i]
      /\ longer[Len(bytes) + 1] = byte
  OBVIOUS
<1>2. \A i \in 0 .. Len(bytes) :
        run[i] = IF i = 0 THEN InitialCrc ELSE CrcUpdate(run[i - 1], bytes[i])
  BY DEF IsRun
<1>3. ASSUME NEW i \in 0 .. Len(bytes) + 1
      PROVE  more[i] = IF i = 0 THEN InitialCrc ELSE CrcUpdate(more[i - 1], longer[i])
  <2>1. CASE i = 0
    BY <1>1, <1>2, <2>1
  <2>2. CASE i # 0 /\ i <= Len(bytes)
    <3>1. i \in 1 .. Len(bytes) /\ i - 1 \in 0 .. Len(bytes) + 1 /\ i - 1 <= Len(bytes)
      BY <1>1, <2>2
    <3>2. more[i] = run[i] /\ more[i - 1] = run[i - 1]
      BY <2>2, <3>1
    <3> QED BY <1>1, <1>2, <2>2, <3>1, <3>2
  <2>3. CASE i = Len(bytes) + 1
    <3>1. i - 1 = Len(bytes) /\ i - 1 \in 0 .. Len(bytes) + 1 /\ ~(i <= Len(bytes)) /\ i # 0
      BY <1>1, <2>3
    <3>2. more[i] = CrcUpdate(run[Len(bytes)], byte) /\ more[i - 1] = run[i - 1]
      BY <3>1
    <3> QED BY <1>1, <2>3, <3>1, <3>2
  <2> QED BY <1>1, <2>1, <2>2, <2>3
<1>4. more = [i \in 0 .. Len(bytes) + 1 |-> more[i]]
  OBVIOUS
<1> QED BY <1>1, <1>3, <1>4 DEF IsRun

\* Every sequence of bytes has its checksums.
LEMMA RunExists ==
  ASSUME NEW bytes \in Seq(Bytes)
  PROVE  \E run : IsRun(run, bytes)
<1> DEFINE T == {n \in Nat : \A s \in Seq(Bytes) : Len(s) = n => \E run : IsRun(run, s)}
<1>1. 0 \in T
  <2> SUFFICES ASSUME NEW s \in Seq(Bytes), Len(s) = 0
               PROVE  \E run : IsRun(run, s)
    OBVIOUS
  <2>1. IsRun([i \in 0 .. 0 |-> InitialCrc], s)
    BY DEF IsRun
  <2> QED BY <2>1
<1>2. ASSUME NEW n \in Nat, n \in T PROVE n + 1 \in T
  <2> SUFFICES ASSUME NEW s \in Seq(Bytes), Len(s) = n + 1
               PROVE  \E run : IsRun(run, s)
    OBVIOUS
  <2>1. PICK front : front = SubSeq(s, 1, n)
    OBVIOUS
  <2>2. /\ front \in Seq(Bytes) /\ Len(front) = n
        /\ \A i \in 1 .. n : front[i] = s[i]
    BY <2>1
  <2>3. PICK run : IsRun(run, front)
    BY <1>2, <2>2
  <2>4. s[n + 1] \in Bytes
    OBVIOUS
  <2>5. PICK longer : longer = Append(front, s[n + 1])
    OBVIOUS
  <2>6. longer = s
    <3>1. /\ longer \in Seq(Bytes) /\ Len(longer) = n + 1
          /\ \A i \in 1 .. n : longer[i] = front[i]
          /\ longer[n + 1] = s[n + 1]
      BY <2>2, <2>4, <2>5
    <3>2. ASSUME NEW i \in 1 .. Len(longer) PROVE longer[i] = s[i]
      <4>1. i = n + 1 \/ i \in 1 .. n
        BY <3>1
      <4> QED BY <2>2, <3>1, <4>1
    <3> QED BY <3>1, <3>2, SeqEqual
  <2>7. PICK more :
          more = [i \in 0 .. Len(front) + 1 |->
                    IF i <= Len(front) THEN run[i] ELSE CrcUpdate(run[Len(front)], s[n + 1])]
    OBVIOUS
  <2>8. IsRun(more, longer)
    BY <2>2, <2>3, <2>4, <2>5, <2>7, RunExtends
  <2> QED BY <2>6, <2>8
<1> HIDE DEF T
<1>3. Nat \subseteq T
  BY <1>1, <1>2, Induction
<1>4. Len(bytes) \in T
  BY <1>3
<1> QED BY <1>4 DEF T

\* And only those.
LEMMA RunUnique ==
  ASSUME NEW bytes \in Seq(Bytes), NEW run, NEW other, IsRun(run, bytes), IsRun(other, bytes)
  PROVE  run = other
<1> DEFINE T == {i \in Nat : i <= Len(bytes) => run[i] = other[i]}
<1>1. /\ Len(bytes) \in Nat
      /\ run = [i \in 0 .. Len(bytes) |-> run[i]] /\ other = [i \in 0 .. Len(bytes) |-> other[i]]
  BY DEF IsRun
<1>2. \A i \in 0 .. Len(bytes) :
        /\ run[i] = IF i = 0 THEN InitialCrc ELSE CrcUpdate(run[i - 1], bytes[i])
        /\ other[i] = IF i = 0 THEN InitialCrc ELSE CrcUpdate(other[i - 1], bytes[i])
  BY DEF IsRun
<1>3. Len(bytes) \in Nat
  OBVIOUS
<1>4. 0 \in T
  <2>1. 0 \in 0 .. Len(bytes)
    BY <1>3
  <2>2. run[0] = InitialCrc /\ other[0] = InitialCrc
    BY <1>2, <2>1
  <2> QED BY <2>2
<1>5. ASSUME NEW n \in Nat, n \in T PROVE n + 1 \in T
  <2> SUFFICES ASSUME n + 1 <= Len(bytes) PROVE run[n + 1] = other[n + 1]
    OBVIOUS
  <2>1. n + 1 \in 0 .. Len(bytes) /\ n + 1 # 0 /\ (n + 1) - 1 = n /\ n <= Len(bytes)
    BY <1>3
  <2>2. run[n] = other[n]
    BY <1>5, <2>1
  <2> QED BY <1>2, <2>1, <2>2
<1> HIDE DEF T
<1>6. Nat \subseteq T
  BY <1>4, <1>5, Induction
<1>7. \A i \in 0 .. Len(bytes) : run[i] = other[i]
  BY <1>1, <1>6 DEF T
<1> QED BY <1>1, <1>7

\* The checksum is the last of them.
LEMMA CrcOfRun ==
  ASSUME NEW bytes \in Seq(Bytes), NEW run, IsRun(run, bytes)
  PROVE  Crc(bytes) = run[Len(bytes)]
<1>1. PICK value : value = CHOOSE f : IsRun(f, bytes)
  OBVIOUS
<1>2. IsRun(value, bytes)
  BY <1>1
<1>3. value = run
  BY <1>2, RunUnique
<1>4. Crc(bytes) = value[Len(bytes)]
  BY <1>1 DEF Crc, IsRun
<1> QED BY <1>3, <1>4

\* What the checksum of a message is: byte by byte, from the initial value.
LEMMA CrcBytes ==
  /\ Crc(<<>>) = InitialCrc
  /\ \A bytes \in Seq(Bytes), byte \in Bytes :
       Crc(Append(bytes, byte)) = CrcUpdate(Crc(bytes), byte)
<1>1. Crc(<<>>) = InitialCrc
  <2>1. <<>> \in Seq(Bytes) /\ Len(<<>>) = 0
    OBVIOUS
  <2>2. PICK run : IsRun(run, <<>>)
    BY <2>1, RunExists
  <2>3. Crc(<<>>) = run[0]
    BY <2>1, <2>2, CrcOfRun
  <2> QED BY <2>1, <2>2, <2>3 DEF IsRun
<1>2. ASSUME NEW bytes \in Seq(Bytes), NEW byte \in Bytes
      PROVE  Crc(Append(bytes, byte)) = CrcUpdate(Crc(bytes), byte)
  <2>1. PICK run : IsRun(run, bytes)
    BY RunExists
  <2>2. PICK longer : longer = Append(bytes, byte)
    OBVIOUS
  <2>3. PICK more :
          more = [i \in 0 .. Len(bytes) + 1 |->
                    IF i <= Len(bytes) THEN run[i] ELSE CrcUpdate(run[Len(bytes)], byte)]
    OBVIOUS
  <2>4. IsRun(more, longer)
    BY <2>1, <2>2, <2>3, RunExtends
  <2>5. longer \in Seq(Bytes) /\ Len(longer) = Len(bytes) + 1
    BY <2>2
  <2>6. Crc(longer) = more[Len(bytes) + 1]
    BY <2>4, <2>5, CrcOfRun
  <2>7. more[Len(bytes) + 1] = CrcUpdate(run[Len(bytes)], byte)
    BY <2>3
  <2> QED BY <2>1, <2>2, <2>6, <2>7, CrcOfRun
<1> QED BY <1>1, <1>2

(***************************************************************************)
(* The invariant                                                           *)
(***************************************************************************)

\* The k-th byte of the line, counted back from the last, with its mark.
Back(k) == stream[Len(stream) + 1 - k]

\* How many bytes of a frame have been read, by the decoder's state.
Place(n) ==
  \/ state = "WAIT_MAGIC_0" /\ n = 0
  \/ state = "WAIT_MAGIC_1" /\ n = 1
  \/ state = "READ_VERSION" /\ n = 2
  \/ state = "READ_MESSAGE_TYPE" /\ n = 3
  \/ state = "READ_SEQUENCE_HIGH" /\ n = 4
  \/ state = "READ_SEQUENCE_LOW" /\ n = 5
  \/ state = "READ_LENGTH_HIGH" /\ n = 6
  \/ state = "READ_LENGTH_LOW" /\ n = 7
  \/ state = "READ_PAYLOAD" /\ n = 8 + Len(payload) /\ Len(payload) < length
  \/ state = "READ_CRC_HIGH" /\ n = 8 + Len(payload) /\ Len(payload) = length
  \/ state = "READ_CRC_LOW" /\ n = 9 + Len(payload) /\ Len(payload) = length

\* What has been read of a frame, s, is in the decoder's fields.
FieldsRead(s) ==
  /\ Len(s) >= 1 => s[1] = Magic0
  /\ Len(s) >= 2 => s[2] = Magic1
  /\ Len(s) >= 3 => s[3] = Version
  /\ Len(s) >= 4 => type = s[4]
  /\ Len(s) = 5 => sequence = Word(s[5], 0)
  /\ Len(s) >= 6 => sequence = Word(s[5], s[6])
  /\ Len(s) = 7 => length = Word(s[7], 0)
  /\ Len(s) <= 7 => payload = <<>>
  /\ Len(s) >= 8 => /\ length = Word(s[7], s[8]) /\ length <= MaxPayload
                    /\ \A i \in 1 .. Len(payload) : payload[i] = s[8 + i]
  /\ state = "READ_CRC_LOW" => crc_high = s[Len(s)]

\* The part of s that the checksum covers: not the magic, and not the checksum.
CoveredPart(s) == SubSeq(s, 3, IF state = "READ_CRC_LOW" THEN Len(s) - 1 ELSE Len(s))

Held(s) ==
  /\ s \in Seq(Bytes)
  /\ Place(Len(s))
  /\ FieldsRead(s)
  /\ Len(s) >= 2 => crc = Crc(CoveredPart(s))

\* s is what came last.
Latest(s) ==
  /\ Len(s) <= Len(stream)
  /\ \A k \in 1 .. Len(s) : s[Len(s) + 1 - k] = Back(k).byte

\* The last k bytes are the beginning of a frame, the first of them read while
\* the decoder was searching.
BeginsFrame(k) ==
  /\ Back(k).searching /\ Back(k).byte = Magic0
  /\ k >= 2 => Back(k - 1).byte = Magic1
  /\ k >= 3 => Back(k - 2).byte = Version
  /\ k >= 8 => LET size == Word(Back(k - 6).byte, Back(k - 7).byte)
               IN  size <= MaxPayload /\ k < Overhead + size

\* Such a beginning is what the decoder is reading.
Tracked(s) == \A k \in 1 .. Len(stream) : BeginsFrame(k) => Len(s) = k

StreamOK ==
  /\ stream \in Seq([byte : Bytes, searching : BOOLEAN])
  /\ Len(stream) <= MaxWire
  /\ delivered # None => state = "WAIT_MAGIC_0"

Reading(s) == Held(s) /\ Latest(s) /\ Tracked(s)

\* The decoder's inductive invariant.
DecoderInv == DecoderTypeOK /\ StreamOK /\ SearchResumed /\ \E s : Reading(s)

(***************************************************************************)
(* Bytes read                                                              *)
(***************************************************************************)

\* A part of a sequence of bytes.
LEMMA Part ==
  ASSUME NEW s \in Seq(Bytes), NEW m \in Nat, m >= 1, NEW n \in Nat, n <= Len(s), m <= n + 1,
         NEW part, part = SubSeq(s, m, n)
  PROVE  /\ part \in Seq(Bytes)
         /\ Len(part) = n + 1 - m
         /\ \A i \in 1 .. n + 1 - m : part[i] = s[(m - 1) + i]
<1>1. \A i \in m .. n : s[i] \in Bytes
  OBVIOUS
<1>2. /\ part \in Seq(Bytes)
      /\ Len(part) = IF m <= n THEN n - m + 1 ELSE 0
      /\ \A i \in 1 .. n - m + 1 : part[i] = s[m + i - 1]
  BY <1>1, SubSeqProperties
<1>3. Len(part) = n + 1 - m
  <2>1. Len(part) = IF m <= n THEN n - m + 1 ELSE 0
    BY <1>2
  <2> QED BY <2>1
<1>4. ASSUME NEW i \in 1 .. n + 1 - m PROVE part[i] = s[(m - 1) + i]
  <2>1. i \in 1 .. n - m + 1 /\ m + i - 1 = (m - 1) + i
    OBVIOUS
  <2> QED BY <1>2, <2>1
<1> QED BY <1>2, <1>3, <1>4

\* A byte more of a frame.
LEMMA Longer ==
  ASSUME NEW s \in Seq(Bytes), NEW byte \in Bytes, NEW t, t = Append(s, byte)
  PROVE  /\ t \in Seq(Bytes) /\ Len(t) = Len(s) + 1 /\ Len(s) \in Nat
         /\ t[Len(s) + 1] = byte
         /\ \A i \in 1 .. Len(s) : t[i] = s[i]
BY AppendProperties

\* The checksum takes it in, or leaves it out.
LEMMA LongerCrc ==
  ASSUME NEW s \in Seq(Bytes), Len(s) >= 2, NEW byte \in Bytes, NEW t, t = Append(s, byte)
  PROVE  /\ Crc(SubSeq(t, 3, Len(s) + 1)) = CrcUpdate(Crc(SubSeq(s, 3, Len(s))), byte)
         /\ SubSeq(t, 3, Len(s)) = SubSeq(s, 3, Len(s))
<1>1. PICK n : n = Len(s)
  OBVIOUS
<1>2. n \in Nat /\ n >= 2
  BY <1>1
<1>3. /\ t \in Seq(Bytes) /\ Len(t) = n + 1 /\ t[n + 1] = byte
      /\ \A i \in 1 .. n : t[i] = s[i]
  BY <1>1, Longer
<1>4. \A i \in 1 .. n : s[i] \in Bytes
  BY <1>1
<1>5. PICK u : u = SubSeq(s, 3, n)
  OBVIOUS
<1>6. u \in Seq(Bytes) /\ Len(u) = n + 1 - 3 /\ \A i \in 1 .. n + 1 - 3 : u[i] = s[(3 - 1) + i]
  BY <1>1, <1>2, <1>5, Part
<1>7. PICK v : v = SubSeq(t, 3, n)
  OBVIOUS
<1>8. v = u
  <2>1. v \in Seq(Bytes) /\ Len(v) = n + 1 - 3 /\ \A i \in 1 .. n + 1 - 3 : v[i] = t[(3 - 1) + i]
    <3>1. n <= Len(t) /\ 3 <= n + 1
      BY <1>2, <1>3
    <3> QED BY <1>2, <1>3, <1>7, <3>1, Part
  <2>2. ASSUME NEW i \in 1 .. Len(v) PROVE v[i] = u[i]
    <3>1. i \in 1 .. n + 1 - 3 /\ (3 - 1) + i \in 1 .. n
      BY <1>2, <2>1
    <3> QED BY <1>3, <1>6, <2>1, <3>1
  <2>3. Len(v) = Len(u)
    BY <1>6, <2>1
  <2> QED BY <1>6, <2>1, <2>2, <2>3, SeqEqual
<1>9. PICK w : w = SubSeq(t, 3, n + 1)
  OBVIOUS
<1>10. w = Append(u, byte)
  <2>1. SubSeq(t, 3, n + 1) = SubSeq(t, 3, (n + 1) - 1) \o <<t[n + 1]>>
    <3>1. 3 \in 1 .. Len(t) /\ n + 1 \in 3 .. Len(t)
      BY <1>2, <1>3
    <3> QED BY <1>3, <3>1, SubSeqRecursiveSecond
  <2>2. (n + 1) - 1 = n
    BY <1>2
  <2>3. w = u \o <<byte>>
    BY <1>3, <1>7, <1>8, <1>9, <2>1, <2>2
  <2> QED BY <1>6, <2>3, AppendIsConcat
<1>11. Crc(w) = CrcUpdate(Crc(u), byte)
  BY <1>6, <1>10, CrcBytes
<1> QED BY <1>1, <1>5, <1>7, <1>8, <1>9, <1>11

(***************************************************************************)
(* One byte                                                                *)
(***************************************************************************)

\* What was being read is given up, for a reason that the bytes give, and the
\* last two of them say where the next frame is.
GivenUp(s, byte) ==
  \/ Len(s) = 0 /\ byte # Magic0
  \/ Len(s) = 1 /\ byte # Magic1
  \/ Len(s) = 2 /\ byte # Version
  \/ Len(s) = 7 /\ Word(s[7], byte) > MaxPayload
  \/ Len(s) >= 9 /\ Len(s) = 9 + Word(s[7], s[8])

Restarted(s, byte) ==
  /\ GivenUp(s, byte)
  /\ payload' = <<>>
  /\ \/ /\ state' = "READ_VERSION" /\ crc' = InitialCrc
        /\ Len(s) > 0 /\ s[Len(s)] = Magic0 /\ byte = Magic1
     \/ state' = "WAIT_MAGIC_1" /\ byte = Magic0
     \/ /\ state' = "WAIT_MAGIC_0" /\ byte # Magic0
        /\ ~(Len(s) > 0 /\ s[Len(s)] = Magic0 /\ byte = Magic1)

\* The last byte of a frame.
Completed(byte) ==
  /\ state = "READ_CRC_LOW" /\ CrcMatches(byte)
  /\ state' = "WAIT_MAGIC_0" /\ payload' = <<>>

\* Of a sequence being read: its length and its elements.
LEMMA HeldBasics ==
  ASSUME DecoderTypeOK, NEW s, Held(s)
  PROVE  /\ s \in Seq(Bytes) /\ Len(s) \in Nat
         /\ Len(s) <= 9 + MaxPayload
         /\ Len(payload) \in Nat /\ length \in Nat /\ MaxPayload \in Nat
         /\ \A i \in 1 .. Len(s) : s[i] \in Bytes /\ s[i] \in Nat
<1>1. s \in Seq(Bytes) /\ Len(s) \in Nat /\ Len(payload) \in Nat /\ Len(payload) <= MaxPayload
  BY DEF Held, DecoderTypeOK
<1>2. length \in Nat /\ MaxPayload \in Nat
  BY DecoderAssumption DEF DecoderTypeOK, Words
<1>3. Len(s) <= 9 + MaxPayload
  <2>1. Place(Len(s))
    BY DEF Held
  <2>2. PICK n : n = Len(s)
    OBVIOUS
  <2>3. Place(n) => n <= 9 + MaxPayload
    BY <1>1, <1>2 DEF Place
  <2> QED BY <2>1, <2>2, <2>3
<1>4. ASSUME NEW i \in 1 .. Len(s) PROVE s[i] \in Bytes /\ s[i] \in Nat
  <2>1. s[i] \in Bytes
    BY <1>1, ElementOfSeq
  <2> QED BY <2>1 DEF Bytes
<1> QED BY <1>1, <1>2, <1>3, <1>4

\* A byte that goes into the checksum.
LEMMA TakeHeld ==
  ASSUME DecoderTypeOK, NEW s, Held(s), Len(s) >= 2, NEW byte \in Bytes,
         NEW t, t = Append(s, byte),
         state # "READ_CRC_LOW", state' # "READ_CRC_LOW", crc' = CrcUpdate(crc, byte),
         Place(Len(t))', FieldsRead(t)'
  PROVE  Held(t)'
<1>1. s \in Seq(Bytes) /\ t \in Seq(Bytes) /\ Len(t) = Len(s) + 1
  BY HeldBasics, Longer
<1>2. crc = Crc(SubSeq(s, 3, Len(s)))
  BY DEF Held, CoveredPart
<1>3. crc' = Crc(SubSeq(t, 3, Len(t)))
  BY <1>1, <1>2, LongerCrc
<1>4. crc' = Crc(CoveredPart(t)')
  BY <1>3 DEF CoveredPart
<1>5. (crc = Crc(CoveredPart(t)))'
  BY <1>4 DEF Crc
<1> QED BY <1>1, <1>5 DEF Held

\* The first two bytes.
LEMMA MagicHeld ==
  ASSUME DecoderTypeOK, NEW s, Held(s), NEW byte \in Bytes, WaitMagic0(byte) \/ WaitMagic1(byte),
         NEW t, t = Append(s, byte)
  PROVE  Held(t)' \/ Restarted(s, byte)
<1>1. /\ t \in Seq(Bytes) /\ Len(t) = Len(s) + 1 /\ Len(s) \in Nat
      /\ t[Len(s) + 1] = byte
      /\ \A i \in 1 .. Len(s) : t[i] = s[i]
  BY HeldBasics, Longer
<1>2. Magic0 # Magic1
  BY DecoderAssumption
<1>3. CASE WaitMagic0(byte)
  <2>1. Len(s) = 0 /\ payload = <<>>
    BY <1>1, <1>3 DEF WaitMagic0, Held, Place, FieldsRead
  <2>2. CASE byte = Magic0
    <3>1. state' = "WAIT_MAGIC_1" /\ payload' = payload
      BY <1>3, <2>2 DEF WaitMagic0, reading
    <3>2. Place(Len(t))'
      BY <1>1, <2>1, <3>1 DEF Place
    <3>3. FieldsRead(t)'
      BY <1>1, <2>1, <2>2, <3>1 DEF FieldsRead
    <3>4. ~(Len(t) >= 2)
      BY <1>1, <2>1
    <3> QED BY <1>1, <3>2, <3>3, <3>4 DEF Held
  <2>3. CASE byte # Magic0
    BY <1>3, <2>1, <2>3 DEF WaitMagic0, reading, Restarted, GivenUp
  <2> QED BY <2>2, <2>3
<1>4. CASE WaitMagic1(byte)
  <2>1. Len(s) = 1 /\ payload = <<>> /\ s[1] = Magic0
    <3>1. Len(s) = 1
      BY <1>4 DEF WaitMagic1, Held, Place
    <3>2. FieldsRead(s)
      BY DEF Held
    <3> QED BY <3>1, <3>2 DEF FieldsRead
  <2>2. CASE byte = Magic1
    <3>1. state' = "READ_VERSION" /\ payload' = <<>> /\ crc' = InitialCrc
      BY <1>2, <1>4, <2>2 DEF WaitMagic1, begin_frame, Cleared
    <3>2. Place(Len(t))'
      BY <1>1, <2>1, <3>1 DEF Place
    <3>3. FieldsRead(t)'
      BY <1>1, <2>1, <2>2, <3>1 DEF FieldsRead
    <3>4. crc' = Crc(SubSeq(t, 3, 2))
      <4>1. 3 \in Int /\ 2 \in Int /\ 2 < 3
        OBVIOUS
      <4>2. SubSeq(t, 3, 2) = <<>>
        BY <4>1, SubSeqEmpty
      <4> QED BY <3>1, <4>2, CrcBytes
    <3>5. (crc = Crc(CoveredPart(t)))'
      BY <1>1, <2>1, <3>1, <3>4 DEF CoveredPart, Crc
    <3> QED BY <1>1, <3>2, <3>3, <3>5 DEF Held
  <2>3. CASE byte # Magic1
    <3>1. payload' = <<>> /\ (byte = Magic0 => state' = "WAIT_MAGIC_1")
          /\ (byte # Magic0 => state' = "WAIT_MAGIC_0")
      BY <1>4, <2>1, <2>3 DEF WaitMagic1, reading
    <3> QED BY <2>1, <2>3, <3>1 DEF Restarted, GivenUp
  <2> QED BY <2>2, <2>3
<1> QED BY <1>3, <1>4

\* reset_search, told the byte before.
LEMMA ResetRestarts ==
  ASSUME NEW s, NEW byte, NEW previous, reset_search(previous, byte), GivenUp(s, byte),
         Len(s) > 0, s[Len(s)] = previous
  PROVE  Restarted(s, byte)
<1>1. Magic0 # Magic1
  BY DecoderAssumption
<1>2. payload' = <<>> /\ crc' = InitialCrc
  BY DEF reset_search, Cleared
<1>3. state' = CASE previous = Magic0 /\ byte = Magic1 -> "READ_VERSION"
                 [] byte = Magic0 -> "WAIT_MAGIC_1"
                 [] OTHER -> "WAIT_MAGIC_0"
  BY DEF reset_search
<1>4. CASE previous = Magic0 /\ byte = Magic1
  BY <1>1, <1>2, <1>3, <1>4 DEF Restarted
<1>5. CASE byte = Magic0
  BY <1>1, <1>2, <1>3, <1>5 DEF Restarted
<1>6. CASE byte # Magic0 /\ ~(previous = Magic0 /\ byte = Magic1)
  BY <1>2, <1>3, <1>6 DEF Restarted
<1> QED BY <1>4, <1>5, <1>6

\* Version and message type.
LEMMA VersionHeld ==
  ASSUME DecoderTypeOK, NEW s, Held(s), NEW byte \in Bytes, ReadVersion(byte) \/ ReadType(byte),
         NEW t, t = Append(s, byte)
  PROVE  Held(t)' \/ Restarted(s, byte)
<1>1. /\ t \in Seq(Bytes) /\ Len(t) = Len(s) + 1 /\ Len(s) \in Nat
      /\ t[Len(s) + 1] = byte
      /\ \A i \in 1 .. Len(s) : t[i] = s[i]
  BY HeldBasics, Longer
<1>2. Place(Len(s)) /\ FieldsRead(s)
  BY DEF Held
<1>3. CASE ReadVersion(byte)
  <2>1. state = "READ_VERSION" /\ Len(s) = 2
    BY <1>2, <1>3 DEF ReadVersion, Take, Place
  <2>2. s[1] = Magic0 /\ s[2] = Magic1 /\ payload = <<>>
    BY <1>2, <2>1 DEF FieldsRead
  <2>3. CASE byte = Version
    <3>1. state' = "READ_MESSAGE_TYPE" /\ crc' = CrcUpdate(crc, byte) /\ payload' = payload
      BY <1>3, <2>3 DEF ReadVersion, Take
    <3>2. Place(Len(t))'
      BY <1>1, <2>1, <3>1 DEF Place
    <3>3. t[1] = Magic0 /\ t[2] = Magic1 /\ t[3] = Version /\ Len(t) = 3
      BY <1>1, <2>1, <2>2, <2>3
    <3>4. FieldsRead(t)'
      BY <2>2, <3>1, <3>3 DEF FieldsRead
    <3>9. Len(s) >= 2 /\ state # "READ_CRC_LOW" /\ state' # "READ_CRC_LOW"
      BY <2>1, <3>1, <3>2, <3>4
    <3>10. Held(t)'
      BY <2>1, <3>1, <3>2, <3>4, <3>9, TakeHeld, Zenon
    <3> QED BY <3>10
  <2>4. CASE byte # Version
    <3>1. reset_search(Magic1, byte)
      BY <1>3, <2>4 DEF ReadVersion
    <3>2. GivenUp(s, byte)
      BY <2>1, <2>4 DEF GivenUp
    <3> QED BY <2>1, <2>2, <3>1, <3>2, ResetRestarts
  <2> QED BY <2>3, <2>4
<1>4. CASE ReadType(byte)
  <2>1. state = "READ_MESSAGE_TYPE" /\ Len(s) = 3
    BY <1>2, <1>4 DEF ReadType, Take, Place
  <2>2. s[1] = Magic0 /\ s[2] = Magic1 /\ s[3] = Version /\ payload = <<>>
    BY <1>2, <2>1 DEF FieldsRead
  <2>3. state' = "READ_SEQUENCE_HIGH" /\ crc' = CrcUpdate(crc, byte) /\ payload' = payload
        /\ type' = byte
    BY <1>4 DEF ReadType, Take
  <2>4. Place(Len(t))'
    BY <1>1, <2>1, <2>3 DEF Place
  <2>5. t[1] = Magic0 /\ t[2] = Magic1 /\ t[3] = Version /\ t[4] = byte /\ Len(t) = 4
    BY <1>1, <2>1, <2>2
  <2>6. FieldsRead(t)'
    BY <2>2, <2>3, <2>5 DEF FieldsRead
  <2>9. Len(s) >= 2 /\ state # "READ_CRC_LOW" /\ state' # "READ_CRC_LOW"
    BY <2>1, <2>3, <2>4, <2>6
  <2>10. Held(t)'
    BY <2>1, <2>3, <2>4, <2>6, <2>9, TakeHeld, Zenon
  <2> QED BY <2>10
<1> QED BY <1>3, <1>4

\* The sequence number.
LEMMA SequenceHeld ==
  ASSUME DecoderTypeOK, NEW s, Held(s), NEW byte \in Bytes, ReadSequence(byte),
         NEW t, t = Append(s, byte)
  PROVE  Held(t)'
<1>1. /\ t \in Seq(Bytes) /\ Len(t) = Len(s) + 1 /\ Len(s) \in Nat
      /\ t[Len(s) + 1] = byte
      /\ \A i \in 1 .. Len(s) : t[i] = s[i]
      /\ \A i \in 1 .. Len(s) : s[i] \in Bytes
  BY HeldBasics, Longer
<1>2. Place(Len(s)) /\ FieldsRead(s)
  BY DEF Held
<1>3. crc' = CrcUpdate(crc, byte) /\ payload' = payload /\ type' = type
  BY DEF ReadSequence, Take
<1>4. CASE state = "READ_SEQUENCE_HIGH"
  <2>1. Len(s) = 4 /\ state' = "READ_SEQUENCE_LOW" /\ sequence' = Word(byte, 0)
    BY <1>2, <1>4 DEF ReadSequence, Take, Place
  <2>2. s[1] = Magic0 /\ s[2] = Magic1 /\ s[3] = Version /\ payload = <<>> /\ type = s[4]
    BY <1>2, <2>1 DEF FieldsRead
  <2>3. Place(Len(t))'
    BY <1>1, <2>1 DEF Place
  <2>4. t[1] = Magic0 /\ t[2] = Magic1 /\ t[3] = Version /\ t[4] = s[4] /\ t[5] = byte /\ Len(t) = 5
    BY <1>1, <2>1, <2>2
  <2>5. FieldsRead(t)'
    BY <1>3, <2>1, <2>2, <2>4 DEF FieldsRead, Word
  <2>9. Len(s) >= 2 /\ state # "READ_CRC_LOW" /\ state' # "READ_CRC_LOW"
    BY <1>3, <1>4, <2>1, <2>3, <2>5
  <2>10. Held(t)'
    BY <1>3, <1>4, <2>1, <2>3, <2>5, <2>9, TakeHeld, Zenon
  <2> QED BY <2>10
<1>5. CASE state = "READ_SEQUENCE_LOW"
  <2>1. Len(s) = 5 /\ state' = "READ_LENGTH_HIGH" /\ sequence' = sequence + byte
    BY <1>2, <1>5 DEF ReadSequence, Take, Place
  <2>2. s[1] = Magic0 /\ s[2] = Magic1 /\ s[3] = Version /\ payload = <<>> /\ type = s[4]
        /\ sequence = Word(s[5], 0)
    BY <1>2, <2>1 DEF FieldsRead
  <2>3. Place(Len(t))'
    BY <1>1, <2>1 DEF Place
  <2>4. t[1] = Magic0 /\ t[2] = Magic1 /\ t[3] = Version /\ t[4] = s[4] /\ t[5] = s[5]
        /\ t[6] = byte /\ Len(t) = 6
    BY <1>1, <2>1, <2>2
  <2>5. s[5] \in Bytes
    BY <1>1, <2>1
  <2>6. sequence' = Word(t[5], t[6])
    BY <2>1, <2>2, <2>4, <2>5, WordOfBytes
  <2>7. FieldsRead(t)'
    BY <1>3, <2>1, <2>2, <2>4, <2>6 DEF FieldsRead, Word
  <2>9. Len(s) >= 2 /\ state # "READ_CRC_LOW" /\ state' # "READ_CRC_LOW"
    BY <1>3, <1>5, <2>1, <2>3, <2>7
  <2>10. Held(t)'
    BY <1>3, <1>5, <2>1, <2>3, <2>7, <2>9, TakeHeld, Zenon
  <2> QED BY <2>10
<1> QED BY <1>4, <1>5 DEF ReadSequence, Take

\* The length, which may be too large.
LEMMA LengthHeld ==
  ASSUME DecoderTypeOK, NEW s, Held(s), NEW byte \in Bytes,
         ReadLengthHigh(byte) \/ ReadLengthLow(byte),
         NEW t, t = Append(s, byte)
  PROVE  Held(t)' \/ Restarted(s, byte)
<1>1. /\ t \in Seq(Bytes) /\ Len(t) = Len(s) + 1 /\ Len(s) \in Nat
      /\ t[Len(s) + 1] = byte
      /\ \A i \in 1 .. Len(s) : t[i] = s[i]
      /\ \A i \in 1 .. Len(s) : s[i] \in Bytes
  BY HeldBasics, Longer
<1>2. Place(Len(s)) /\ FieldsRead(s)
  BY DEF Held
<1>3. CASE ReadLengthHigh(byte)
  <2>1. /\ Len(s) = 6 /\ state = "READ_LENGTH_HIGH" /\ state' = "READ_LENGTH_LOW"
        /\ crc' = CrcUpdate(crc, byte) /\ length' = Word(byte, 0)
        /\ type' = type /\ sequence' = sequence /\ payload' = payload
    BY <1>2, <1>3 DEF ReadLengthHigh, Take, Place
  <2>2. s[1] = Magic0 /\ s[2] = Magic1 /\ s[3] = Version /\ payload = <<>> /\ type = s[4]
        /\ sequence = Word(s[5], s[6])
    BY <1>2, <2>1 DEF FieldsRead
  <2>3. Place(Len(t))'
    BY <1>1, <2>1 DEF Place
  <2>4. t[1] = Magic0 /\ t[2] = Magic1 /\ t[3] = Version /\ t[4] = s[4] /\ t[5] = s[5]
        /\ t[6] = s[6] /\ t[7] = byte /\ Len(t) = 7
    BY <1>1, <2>1, <2>2
  <2>5. FieldsRead(t)'
    BY <2>1, <2>2, <2>4 DEF FieldsRead, Word
  <2>6. Len(s) >= 2 /\ state # "READ_CRC_LOW" /\ state' # "READ_CRC_LOW"
    BY <2>1
  <2>7. Held(t)'
    BY <2>1, <2>3, <2>5, <2>6, TakeHeld, Zenon
  <2> QED BY <2>7
<1>4. CASE ReadLengthLow(byte)
  <2>1. Len(s) = 7 /\ state = "READ_LENGTH_LOW"
    BY <1>2, <1>4 DEF ReadLengthLow, Take, Place
  <2>2. s[1] = Magic0 /\ s[2] = Magic1 /\ s[3] = Version /\ payload = <<>> /\ type = s[4]
        /\ sequence = Word(s[5], s[6]) /\ length = Word(s[7], 0)
    BY <1>2, <2>1 DEF FieldsRead
  <2>3. s[7] \in Bytes
    BY <1>1, <2>1
  <2>4. PICK size : size = length + byte
    OBVIOUS
  <2>5. size = Word(s[7], byte) /\ High(size) = s[7] /\ size \in Nat /\ MaxPayload \in Nat
    BY <2>2, <2>3, <2>4, WordOfBytes, DecoderAssumption
  <2>6. CASE TooLong(size)
    <3>1. reset_search(s[7], byte)
      BY <1>4, <2>4, <2>5, <2>6 DEF ReadLengthLow
    <3>2. GivenUp(s, byte)
      BY <2>1, <2>5, <2>6 DEF GivenUp, TooLong
    <3>3. PICK previous : previous = s[7]
      OBVIOUS
    <3>4. reset_search(previous, byte) /\ Len(s) > 0 /\ s[Len(s)] = previous
      BY <2>1, <3>1, <3>3
    <3> QED BY <3>2, <3>4, ResetRestarts
  <2>7. CASE ~TooLong(size)
    <3>1. /\ state' = IF size = 0 THEN "READ_CRC_HIGH" ELSE "READ_PAYLOAD"
          /\ crc' = CrcUpdate(crc, byte) /\ length' = size
          /\ type' = type /\ sequence' = sequence /\ payload' = payload
      BY <1>4, <2>4, <2>7 DEF ReadLengthLow, Take
    <3>2. Len(payload') = 0 /\ payload' = <<>> /\ size <= MaxPayload
      BY <2>2, <2>5, <2>7, <3>1 DEF TooLong
    <3>3. t[1] = Magic0 /\ t[2] = Magic1 /\ t[3] = Version /\ t[4] = s[4] /\ t[5] = s[5]
          /\ t[6] = s[6] /\ t[7] = s[7] /\ t[8] = byte /\ Len(t) = 8
      BY <1>1, <2>1, <2>2
    <3>4. Place(Len(t))'
      BY <2>5, <3>1, <3>2, <3>3 DEF Place
    <3>5. FieldsRead(t)'
      BY <2>2, <2>5, <3>1, <3>2, <3>3 DEF FieldsRead, Word
    <3>6. Len(s) >= 2 /\ state # "READ_CRC_LOW" /\ state' # "READ_CRC_LOW"
      BY <2>1, <3>1
    <3>7. Held(t)'
      BY <3>1, <3>4, <3>5, <3>6, TakeHeld, Zenon
    <3> QED BY <3>7
  <2> QED BY <2>6, <2>7
<1> QED BY <1>3, <1>4

\* A byte of the payload.
LEMMA PayloadHeld ==
  ASSUME DecoderTypeOK, NEW s, Held(s), NEW byte \in Bytes, ReadPayload(byte),
         NEW t, t = Append(s, byte)
  PROVE  Held(t)'
<1>1. /\ t \in Seq(Bytes) /\ Len(t) = Len(s) + 1 /\ Len(s) \in Nat
      /\ t[Len(s) + 1] = byte
      /\ \A i \in 1 .. Len(s) : t[i] = s[i]
      /\ Len(payload) \in Nat /\ length \in Nat
  BY HeldBasics, Longer
<1>2. Place(Len(s)) /\ FieldsRead(s)
  BY DEF Held
<1>3. /\ state = "READ_PAYLOAD" /\ crc' = CrcUpdate(crc, byte)
      /\ state' = IF Len(payload) + 1 >= length THEN "READ_CRC_HIGH" ELSE "READ_PAYLOAD"
      /\ payload' = Append(payload, byte)
      /\ type' = type /\ sequence' = sequence /\ length' = length
  BY DEF ReadPayload, Take
<1>4. Len(s) = 8 + Len(payload) /\ Len(payload) < length
  BY <1>2, <1>3 DEF Place
<1>5. s[1] = Magic0 /\ s[2] = Magic1 /\ s[3] = Version /\ type = s[4]
      /\ sequence = Word(s[5], s[6]) /\ length = Word(s[7], s[8]) /\ length <= MaxPayload
      /\ \A i \in 1 .. Len(payload) : payload[i] = s[8 + i]
  BY <1>1, <1>2, <1>4 DEF FieldsRead
<1>6. /\ Len(payload') = Len(payload) + 1
      /\ payload'[Len(payload) + 1] = byte
      /\ \A i \in 1 .. Len(payload) : payload'[i] = payload[i]
  <2>1. payload \in Seq(Bytes)
    BY DEF DecoderTypeOK
  <2> QED BY <1>3, <2>1, Longer
<1>7. Place(Len(t))'
  BY <1>1, <1>3, <1>4, <1>6 DEF Place
<1>8. t[1] = Magic0 /\ t[2] = Magic1 /\ t[3] = Version /\ t[4] = s[4] /\ t[5] = s[5]
      /\ t[6] = s[6] /\ t[7] = s[7] /\ t[8] = s[8] /\ Len(t) >= 9 /\ Len(t) = Len(payload) + 9
  <2>1. \A i \in 1 .. 8 : i \in 1 .. Len(s)
    BY <1>1, <1>4
  <2> QED BY <1>1, <1>4, <1>5, <2>1
<1>9. ASSUME NEW i \in 1 .. Len(payload') PROVE payload'[i] = t[8 + i]
  <2>1. CASE i = Len(payload) + 1
    BY <1>1, <1>4, <1>6, <2>1
  <2>2. CASE i # Len(payload) + 1
    <3>1. i \in 1 .. Len(payload) /\ 8 + i \in 1 .. Len(s)
      BY <1>1, <1>4, <1>6, <2>2
    <3> QED BY <1>1, <1>5, <1>6, <3>1
  <2> QED BY <2>1, <2>2
<1>10. FieldsRead(t)'
  <2>1. state' # "READ_CRC_LOW" /\ Len(t) # 5 /\ Len(t) # 7 /\ ~(Len(t) <= 7)
    BY <1>1, <1>3, <1>8
  <2>2. /\ type' = t[4] /\ sequence' = Word(t[5], t[6])
        /\ length' = Word(t[7], t[8]) /\ length' <= MaxPayload
    BY <1>3, <1>5, <1>8
  <2> QED BY <1>8, <1>9, <2>1, <2>2 DEF FieldsRead, Word
<1>11. Len(s) >= 2 /\ state # "READ_CRC_LOW" /\ state' # "READ_CRC_LOW"
  BY <1>1, <1>3, <1>4
<1> QED BY <1>3, <1>7, <1>10, <1>11, TakeHeld, Zenon

\* The checksum's bytes.
LEMMA CrcHeld ==
  ASSUME DecoderTypeOK, NEW s, Held(s), NEW byte \in Bytes, ReadCrcHigh(byte) \/ ReadCrcLow(byte),
         NEW t, t = Append(s, byte)
  PROVE  Held(t)' \/ Restarted(s, byte) \/ Completed(byte)
<1>1. /\ t \in Seq(Bytes) /\ Len(t) = Len(s) + 1 /\ Len(s) \in Nat
      /\ t[Len(s) + 1] = byte
      /\ \A i \in 1 .. Len(s) : t[i] = s[i]
      /\ Len(payload) \in Nat /\ length \in Nat
      /\ s \in Seq(Bytes)
  BY HeldBasics, Longer
<1>2. Place(Len(s)) /\ FieldsRead(s)
  BY DEF Held
<1>3. CASE ReadCrcHigh(byte)
  <2>1. /\ state = "READ_CRC_HIGH" /\ state' = "READ_CRC_LOW" /\ crc_high' = byte
        /\ type' = type /\ sequence' = sequence /\ length' = length /\ payload' = payload
        /\ crc' = crc
    BY <1>3 DEF ReadCrcHigh
  <2>2. Len(s) = 8 + Len(payload) /\ Len(payload) = length
    BY <1>2, <2>1 DEF Place
  <2>3. s[1] = Magic0 /\ s[2] = Magic1 /\ s[3] = Version /\ type = s[4]
        /\ sequence = Word(s[5], s[6]) /\ length = Word(s[7], s[8]) /\ length <= MaxPayload
        /\ \A i \in 1 .. Len(payload) : payload[i] = s[8 + i]
    BY <1>1, <1>2, <2>2 DEF FieldsRead
  <2>4. t[1] = Magic0 /\ t[2] = Magic1 /\ t[3] = Version /\ t[4] = s[4] /\ t[5] = s[5]
        /\ t[6] = s[6] /\ t[7] = s[7] /\ t[8] = s[8] /\ Len(t) >= 9 /\ Len(t) = Len(payload) + 9
        /\ t[Len(t)] = byte
    <3>1. \A i \in 1 .. 8 : i \in 1 .. Len(s)
      BY <1>1, <2>2
    <3>2. \A i \in 1 .. 8 : t[i] = s[i]
      BY <1>1, <3>1
    <3>3. /\ t[1] = s[1] /\ t[2] = s[2] /\ t[3] = s[3] /\ t[4] = s[4]
          /\ t[5] = s[5] /\ t[6] = s[6] /\ t[7] = s[7] /\ t[8] = s[8]
      <4>1. /\ 1 \in 1 .. 8 /\ 2 \in 1 .. 8 /\ 3 \in 1 .. 8 /\ 4 \in 1 .. 8
            /\ 5 \in 1 .. 8 /\ 6 \in 1 .. 8 /\ 7 \in 1 .. 8 /\ 8 \in 1 .. 8
        OBVIOUS
      <4> QED BY <3>2, <4>1, Zenon
    <3>4. Len(t) >= 9 /\ Len(t) = Len(payload) + 9 /\ t[Len(t)] = byte
      BY <1>1, <2>2
    <3> QED BY <2>3, <3>3, <3>4
  <2>5. ASSUME NEW i \in 1 .. Len(payload') PROVE payload'[i] = t[8 + i]
    <3>1. i \in 1 .. Len(payload) /\ 8 + i \in 1 .. Len(s)
      BY <1>1, <2>1, <2>2
    <3>2. payload[i] = s[8 + i]
      BY <2>3, <3>1
    <3>3. t[8 + i] = s[8 + i]
      BY <1>1, <3>1
    <3> QED BY <2>1, <3>2, <3>3
  <2>6. Place(Len(t))'
    BY <1>1, <2>1, <2>2, <2>4 DEF Place
  <2>7. FieldsRead(t)'
    <3>1. Len(t) # 5 /\ Len(t) # 7 /\ ~(Len(t) <= 7)
      BY <1>1, <2>4
    <3>2. type' = t[4] /\ sequence' = Word(t[5], t[6]) /\ length' = Word(t[7], t[8])
          /\ length' <= MaxPayload
      BY <2>1, <2>3, <2>4
    <3> QED BY <2>1, <2>4, <2>5, <3>1, <3>2 DEF FieldsRead, Word
  <2>8. (crc = Crc(CoveredPart(t)))'
    <3>1. crc = Crc(SubSeq(s, 3, Len(s)))
      BY <1>1, <2>1, <2>2 DEF Held, CoveredPart
    <3>2. SubSeq(t, 3, Len(s)) = SubSeq(s, 3, Len(s))
      BY <1>1, <2>2, LongerCrc
    <3>3. Len(t) - 1 = Len(s)
      BY <1>1
    <3>4. CoveredPart(t)' = SubSeq(t, 3, Len(s))
      BY <2>1, <3>3 DEF CoveredPart
    <3>5. crc' = Crc(SubSeq(t, 3, Len(s)))
      BY <2>1, <3>1, <3>2
    <3> QED BY <3>4, <3>5 DEF Crc
  <2> QED BY <1>1, <2>6, <2>7, <2>8 DEF Held
<1>4. CASE ReadCrcLow(byte)
  <2>1. state = "READ_CRC_LOW" /\ Len(s) = 9 + Len(payload) /\ Len(payload) = length
    BY <1>2, <1>4 DEF ReadCrcLow, Place
  <2>2. length = Word(s[7], s[8]) /\ crc_high = s[Len(s)]
    BY <1>1, <1>2, <2>1 DEF FieldsRead
  <2>3. CASE CrcMatches(byte)
    BY <1>4, <2>1, <2>3 DEF ReadCrcLow, Completed, Cleared
  <2>4. CASE ~CrcMatches(byte)
    <3>1. reset_search(crc_high, byte)
      BY <1>4, <2>4 DEF ReadCrcLow
    <3>2. GivenUp(s, byte) /\ Len(s) > 0
      BY <1>1, <2>1, <2>2 DEF GivenUp
    <3>3. PICK previous : previous = crc_high
      OBVIOUS
    <3> QED BY <2>2, <3>1, <3>2, <3>3, ResetRestarts
  <2> QED BY <2>3, <2>4
<1> QED BY <1>3, <1>4

\* There is no other outcome, whatever the byte and the state.
LEMMA FeedOutcome ==
  ASSUME DecoderTypeOK, NEW s, Held(s), NEW byte \in Bytes, feed_byte(byte),
         NEW t, t = Append(s, byte)
  PROVE  Held(t)' \/ Restarted(s, byte) \/ Completed(byte)
BY MagicHeld, VersionHeld, SequenceHeld, LengthHeld, PayloadHeld, CrcHeld DEF feed_byte

\* The types of everything but what is handed out.
FieldTypes ==
  /\ state \in {"WAIT_MAGIC_0", "WAIT_MAGIC_1", "READ_VERSION", "READ_MESSAGE_TYPE",
                "READ_SEQUENCE_HIGH", "READ_SEQUENCE_LOW", "READ_LENGTH_HIGH",
                "READ_LENGTH_LOW", "READ_PAYLOAD", "READ_CRC_HIGH", "READ_CRC_LOW"}
  /\ type \in Bytes /\ sequence \in Words /\ length \in Words
  /\ payload \in Seq(Bytes)
  /\ Len(payload) <= MaxPayload
  /\ state = "READ_PAYLOAD" => Len(payload) < MaxPayload
  /\ crc \in Words /\ crc_high \in Bytes

\* Outside of a frame the fields are clear.
LEMMA ClearedTypes ==
  ASSUME Cleared, state' \in {"WAIT_MAGIC_0", "WAIT_MAGIC_1", "READ_VERSION"}
  PROVE  FieldTypes'
<1>1. 0 \in Bytes /\ 0 \in Words /\ InitialCrc \in Words /\ MaxPayload \in Nat
  <2>1. ByteCount \in Nat /\ ByteCount >= 1
    BY DecoderAssumption
  <2>2. ByteCount * ByteCount \in Nat /\ ByteCount * ByteCount >= 1
    BY <2>1
  <2> QED BY <2>1, <2>2, DecoderAssumption DEF Bytes, Words
<1>2. <<>> \in Seq(Bytes) /\ Len(<<>>) = 0
  OBVIOUS
<1>3. /\ type' = 0 /\ sequence' = 0 /\ length' = 0 /\ payload' = <<>>
      /\ crc' = InitialCrc /\ crc_high' = 0
  BY DEF Cleared
<1> QED BY <1>1, <1>2, <1>3 DEF FieldTypes

\* Every byte keeps the types, and the payload within its array.
LEMMA FeedFieldTypes ==
  ASSUME DecoderTypeOK, NEW s, Held(s), NEW byte \in Bytes, feed_byte(byte)
  PROVE  FieldTypes'
<1>1. FieldTypes
  BY DEF DecoderTypeOK, FieldTypes
<1>2. Place(Len(s)) /\ FieldsRead(s)
  BY DEF Held
<1>3. /\ Len(s) \in Nat /\ Len(payload) \in Nat /\ length \in Nat /\ MaxPayload \in Nat
      /\ \A i \in 1 .. Len(s) : s[i] \in Bytes
  BY HeldBasics
<1>4. CrcUpdate(crc, byte) \in Words
  BY <1>1, DecoderAssumption DEF FieldTypes
<1>5. Word(byte, 0) \in Words
  BY WordOfBytes
<1>6. CASE WaitMagic0(byte) \/ WaitMagic1(byte)
  <2>1. CASE UNCHANGED reading /\ state' \in {"WAIT_MAGIC_0", "WAIT_MAGIC_1"}
    BY <1>1, <2>1 DEF reading, FieldTypes
  <2>2. CASE begin_frame
    BY <2>2, ClearedTypes DEF begin_frame
  <2> QED BY <1>6, <2>1, <2>2 DEF WaitMagic0, WaitMagic1
<1>7. CASE ReadVersion(byte) \/ ReadType(byte)
  <2>1. CASE reset_search(Magic1, byte)
    BY <2>1, ClearedTypes DEF reset_search
  <2>2. CASE ReadVersion(byte) /\ ~reset_search(Magic1, byte)
    BY <1>1, <1>4, <2>2 DEF ReadVersion, Take, FieldTypes
  <2>3. CASE ReadType(byte)
    BY <1>1, <1>4, <2>3 DEF ReadType, Take, FieldTypes
  <2> QED BY <1>7, <2>1, <2>2, <2>3
<1>8. CASE ReadSequence(byte)
  <2>1. CASE state = "READ_SEQUENCE_HIGH"
    BY <1>1, <1>4, <1>5, <1>8, <2>1 DEF ReadSequence, Take, FieldTypes
  <2>2. CASE state = "READ_SEQUENCE_LOW"
    <3>1. Len(s) = 5
      BY <1>2, <2>2 DEF Place
    <3>2. sequence = Word(s[5], 0) /\ s[5] \in Bytes
      BY <1>2, <1>3, <3>1 DEF FieldsRead
    <3>3. sequence + byte \in Words
      BY <3>2, WordOfBytes
    <3> QED BY <1>1, <1>4, <1>8, <2>2, <3>3 DEF ReadSequence, Take, FieldTypes
  <2> QED BY <1>8, <2>1, <2>2 DEF ReadSequence, Take
<1>9. CASE ReadLengthHigh(byte)
  BY <1>1, <1>4, <1>5, <1>9 DEF ReadLengthHigh, Take, FieldTypes
<1>10. CASE ReadLengthLow(byte)
  <2>1. Len(s) = 7
    BY <1>2, <1>10 DEF ReadLengthLow, Take, Place
  <2>2. length = Word(s[7], 0) /\ s[7] \in Bytes /\ payload = <<>>
    BY <1>2, <1>3, <2>1 DEF FieldsRead
  <2>3. length + byte \in Words /\ length + byte \in Nat
    BY <2>2, WordOfBytes
  <2>4. CASE TooLong(length + byte)
    <3>1. reset_search(High(length + byte), byte)
      BY <1>10, <2>4 DEF ReadLengthLow
    <3> QED BY <3>1, ClearedTypes DEF reset_search
  <2>5. CASE ~TooLong(length + byte)
    <3>1. /\ state' = IF length + byte = 0 THEN "READ_CRC_HIGH" ELSE "READ_PAYLOAD"
          /\ crc' = CrcUpdate(crc, byte) /\ length' = length + byte
          /\ UNCHANGED <<type, sequence, payload, crc_high>>
      BY <1>10, <2>5 DEF ReadLengthLow, Take
    <3>2. state' = "READ_PAYLOAD" => Len(payload') < MaxPayload
      <4>1. Len(payload') = 0
        BY <2>2, <3>1
      <4> QED BY <1>3, <2>3, <2>5, <3>1, <4>1 DEF TooLong
    <3> QED BY <1>1, <1>4, <2>3, <3>1, <3>2 DEF FieldTypes
  <2> QED BY <2>4, <2>5
<1>11. CASE ReadPayload(byte)
  <2>1. Len(s) = 8 + Len(payload) /\ Len(payload) < length
    BY <1>2, <1>11 DEF ReadPayload, Take, Place
  <2>2. length <= MaxPayload
    BY <1>2, <1>3, <2>1 DEF FieldsRead
  <2>3. payload' \in Seq(Bytes) /\ Len(payload') = Len(payload) + 1
    BY <1>1, <1>11, Longer DEF ReadPayload, FieldTypes
  <2>4. state' = IF Len(payload) + 1 >= length THEN "READ_CRC_HIGH" ELSE "READ_PAYLOAD"
    BY <1>11 DEF ReadPayload, Take
  <2>5. Len(payload') <= MaxPayload /\ (state' = "READ_PAYLOAD" => Len(payload') < MaxPayload)
    BY <1>3, <2>1, <2>2, <2>3, <2>4
  <2>6. crc' = CrcUpdate(crc, byte) /\ UNCHANGED <<type, sequence, length, crc_high>>
    BY <1>11 DEF ReadPayload, Take
  <2> QED BY <1>1, <1>4, <2>3, <2>4, <2>5, <2>6 DEF FieldTypes
<1>12. CASE ReadCrcHigh(byte)
  BY <1>1, <1>12 DEF ReadCrcHigh, FieldTypes
<1>13. CASE ReadCrcLow(byte)
  BY <1>13, ClearedTypes DEF ReadCrcLow, reset_search
<1> QED BY <1>6, <1>7, <1>8, <1>9, <1>10, <1>11, <1>12, <1>13 DEF feed_byte

\* A frame read is a frame.
LEMMA FrameReadTypes ==
  ASSUME DecoderTypeOK
  PROVE  FrameRead \in Frames
<1>1. type \in Bytes /\ sequence \in Words /\ payload \in Seq(Bytes) /\ Len(payload) <= MaxPayload
  BY DEF DecoderTypeOK
<1>2. Len(payload) \in 0 .. MaxPayload /\ payload \in [1 .. Len(payload) -> Bytes]
  BY <1>1, DecoderAssumption, LenProperties
<1>3. payload \in UNION {[1 .. n -> Bytes] : n \in 0 .. MaxPayload}
  BY <1>2
<1> QED BY <1>1, <1>3 DEF FrameRead, Frames

\* So the whole type invariant is kept.
LEMMA FeedTypes ==
  ASSUME DecoderTypeOK, NEW s, Held(s), NEW byte \in Bytes, feed_byte(byte)
  PROVE  DecoderTypeOK'
<1>1. FieldTypes'
  BY FeedFieldTypes
<1>2. delivered' \in Frames \cup {None}
  BY FrameReadTypes DEF feed_byte
<1> QED BY <1>1, <1>2 DEF FieldTypes, DecoderTypeOK

(***************************************************************************)
(* The line                                                                *)
(***************************************************************************)

\* The new byte is the last, the others are one further back, and only what
\* exceeds the limit is forgotten.
Moved(S, before, e, limit, after) ==
  /\ after \in Seq(S)
  /\ Len(after) \in 1 .. limit
  /\ Len(after) <= Len(before) + 1
  /\ Len(after) = Len(before) + 1 \/ Len(after) = limit
  /\ after[Len(after)] = e
  /\ \A k \in 2 .. Len(after) : after[Len(after) + 1 - k] = before[Len(before) + 1 - (k - 1)]

\* The history keeps the last bytes.
LEMMA Remembered ==
  ASSUME NEW S, NEW before \in Seq(S), NEW e \in S, NEW limit \in Nat \ {0}, Len(before) <= limit,
         NEW after,
         Len(before) < limit => after = Append(before, e),
         Len(before) = limit => after = Tail(Append(before, e))
  PROVE  Moved(S, before, e, limit, after)
<1>1. PICK longer : longer = Append(before, e)
  OBVIOUS
<1>2. /\ longer \in Seq(S) /\ Len(longer) = Len(before) + 1 /\ longer[Len(longer)] = e
      /\ \A i \in 1 .. Len(before) : longer[i] = before[i]
  BY <1>1
<1>3. CASE Len(longer) > limit
  <2>1. after = Tail(longer)
    BY <1>1, <1>2, <1>3
  <2>2. /\ after \in Seq(S) /\ Len(after) = Len(before)
        /\ \A i \in 1 .. Len(after) : after[i] = longer[i + 1]
    BY <1>2, <2>1
  <2>3. Len(after) = limit
    BY <1>2, <1>3, <2>2
  <2>4. after[Len(after)] = e
    <3>1. Len(after) \in Nat /\ Len(after) > 0 /\ Len(after) + 1 = Len(longer)
      BY <1>2, <2>2, <2>3
    <3>2. after[Len(after)] = longer[Len(after) + 1]
      BY <2>2, <3>1
    <3> QED BY <1>2, <3>1, <3>2
  <2>5. ASSUME NEW k \in 2 .. Len(after)
        PROVE  after[Len(after) + 1 - k] = before[Len(before) + 1 - (k - 1)]
    <3>1. PICK i : i = Len(after) + 1 - k
      OBVIOUS
    <3>2. i \in 1 .. Len(after) /\ i + 1 \in 1 .. Len(before)
          /\ i + 1 = Len(before) + 1 - (k - 1)
      BY <2>2, <3>1
    <3>3. after[i] = longer[i + 1]
      BY <2>2, <3>2
    <3>4. longer[i + 1] = before[i + 1]
      BY <1>2, <3>2
    <3> QED BY <3>1, <3>2, <3>3, <3>4
  <2>6. after \in Seq(S) /\ Len(after) \in Nat /\ Len(after) > 0 /\ Len(after) <= limit
    BY <2>2, <2>3
  <2> QED BY <2>3, <2>4, <2>5, <2>6 DEF Moved
<1>4. CASE ~(Len(longer) > limit)
  <2>1. after = longer
    BY <1>1, <1>2, <1>4
  <2> QED BY <1>2, <1>4, <2>1 DEF Moved
<1> QED BY <1>3, <1>4

\* A byte that arrives: it is the last of the line, and the ones before it are
\* kept as far as the decoder is reading them.
LEMMA FeedStream ==
  ASSUME DecoderTypeOK, StreamOK, NEW s, Held(s), Latest(s), NEW byte \in Bytes, feed_byte(byte)
  PROVE  /\ stream' \in Seq([byte : Bytes, searching : BOOLEAN])
         /\ Len(stream') \in Nat /\ 1 <= Len(stream') /\ Len(stream') <= MaxWire
         /\ Back(1)'.byte = byte /\ Back(1)'.searching = Searching
         /\ \A k \in 2 .. Len(stream') :
              delivered = None /\ k - 1 <= Len(stream) /\ Back(k)' = Back(k - 1)
         /\ delivered = None /\ Len(stream) > 0 => 2 <= Len(stream')
         /\ Len(s) + 1 <= Len(stream')
<1> DEFINE before == IF delivered = None THEN stream ELSE <<>>
           e == [byte |-> byte, searching |-> Searching]
           S == [byte : Bytes, searching : BOOLEAN]
<1>1. /\ Len(s) \in Nat /\ Len(s) <= 9 + MaxPayload /\ MaxPayload \in Nat
      /\ MaxWire = 10 + MaxPayload /\ MaxWire \in Nat /\ MaxWire \in Nat \ {0}
  BY HeldBasics DEF MaxWire, Overhead
<1>2. stream \in Seq(S) /\ Len(stream) <= MaxWire /\ Len(s) <= Len(stream) /\ Len(stream) \in Nat
  BY DEF StreamOK, Latest
<1>3. delivered # None => Len(s) = 0
  BY DEF StreamOK, Held, Place
<1>4. before \in Seq(S) /\ Len(before) <= Len(stream) /\ Len(before) <= MaxWire
      /\ Len(s) <= Len(before) /\ Len(before) \in Nat
  BY <1>1, <1>2, <1>3
<1>5. /\ delivered = None => before = stream
      /\ Len(before) > 0 => delivered = None
  OBVIOUS
<1>6. e \in S
  BY DEF Searching
<1>7. /\ Len(before) < MaxWire => stream' = Append(before, e)
      /\ Len(before) = MaxWire => stream' = Tail(Append(before, e))
  <2>1. stream' = IF Len(Append(before, e)) > MaxWire
                    THEN Tail(Append(before, e)) ELSE Append(before, e)
    BY DEF feed_byte
  <2>2. Len(Append(before, e)) = Len(before) + 1
    BY <1>4, <1>6
  <2> QED BY <1>1, <1>4, <2>1, <2>2
<1>8. e.byte = byte /\ e.searching = Searching
  OBVIOUS
<1> HIDE DEF before, e, S
<1>9. /\ stream' \in Seq(S)
      /\ Len(stream') \in 1 .. MaxWire
      /\ Len(stream') <= Len(before) + 1
      /\ Len(stream') = Len(before) + 1 \/ Len(stream') = MaxWire
      /\ stream'[Len(stream')] = e
      /\ \A k \in 2 .. Len(stream') :
           stream'[Len(stream') + 1 - k] = before[Len(before) + 1 - (k - 1)]
  <2>1. PICK limit, old, new, last, T :
          limit = MaxWire /\ old = before /\ new = stream' /\ last = e /\ T = S
    OBVIOUS
  <2>2. /\ old \in Seq(T) /\ last \in T /\ limit \in Nat \ {0} /\ Len(old) <= limit
        /\ Len(old) < limit => new = Append(old, last)
        /\ Len(old) = limit => new = Tail(Append(old, last))
    BY <1>1, <1>4, <1>6, <1>7, <2>1
  <2>3. Moved(T, old, last, limit, new)
    BY <2>2, Remembered, Zenon
  <2> QED BY <2>1, <2>3 DEF Moved
<1>10. Len(stream') \in Nat /\ 1 <= Len(stream') /\ Len(stream') <= MaxWire
  BY <1>1, <1>9
<1>11. Back(1)' = e
  <2>1. Len(stream') + 1 - 1 = Len(stream')
    BY <1>10
  <2> QED BY <1>9, <2>1 DEF Back
<1>12. ASSUME NEW k \in 2 .. Len(stream')
       PROVE  delivered = None /\ k - 1 <= Len(stream) /\ Back(k)' = Back(k - 1)
  <2>1. k - 1 <= Len(before) /\ Len(before) > 0
    BY <1>4, <1>9, <1>10
  <2>2. delivered = None /\ before = stream
    BY <1>5, <2>1
  <2> QED BY <1>9, <2>1, <2>2 DEF Back
<1>13. Len(s) + 1 <= Len(stream') /\ (Len(before) > 0 => 2 <= Len(stream'))
  <2>1. Len(stream') = Len(before) + 1 \/ Len(stream') = MaxWire
    BY <1>9
  <2> QED BY <1>1, <1>4, <1>10, <2>1
<1>14. stream' \in Seq([byte : Bytes, searching : BOOLEAN])
  BY <1>9 DEF S
<1> QED BY <1>5, <1>8, <1>10, <1>11, <1>12, <1>13, <1>14

\* So what has been read, with the byte, is what came last, and so is any end of it.
LEMMA FeedLatest ==
  ASSUME DecoderTypeOK, StreamOK, NEW s, Held(s), Latest(s), NEW byte \in Bytes, feed_byte(byte),
         NEW t, t = Append(s, byte), NEW u, Len(u) \in Nat, Len(u) <= Len(t),
         \A k \in 1 .. Len(u) : u[Len(u) + 1 - k] = t[Len(t) + 1 - k]
  PROVE  Latest(u)'
<1>1. /\ Len(t) = Len(s) + 1 /\ Len(s) \in Nat
      /\ t[Len(s) + 1] = byte
      /\ \A i \in 1 .. Len(s) : t[i] = s[i]
  BY HeldBasics, Longer
<1>2. /\ Len(stream') \in Nat /\ 1 <= Len(stream')
      /\ Back(1)'.byte = byte
      /\ \A k \in 2 .. Len(stream') : Back(k)' = Back(k - 1)
      /\ Len(s) + 1 <= Len(stream')
  BY FeedStream
<1>3. ASSUME NEW k \in 1 .. Len(t) PROVE t[Len(t) + 1 - k] = Back(k)'.byte
  <2>1. CASE k = 1
    <3>1. Len(t) + 1 - k = Len(s) + 1
      BY <1>1, <2>1
    <3> QED BY <1>1, <1>2, <2>1, <3>1
  <2>2. CASE k # 1
    <3>1. PICK j : j = k - 1
      OBVIOUS
    <3>2. j \in 1 .. Len(s) /\ k \in 2 .. Len(stream') /\ Len(t) + 1 - k = Len(s) + 1 - j
          /\ Len(s) + 1 - j \in 1 .. Len(s)
      BY <1>1, <1>2, <2>2, <3>1
    <3>3. s[Len(s) + 1 - j] = Back(j).byte
      BY <3>2 DEF Latest
    <3>4. Back(k)' = Back(j)
      BY <1>2, <3>1, <3>2
    <3> QED BY <1>1, <3>2, <3>3, <3>4
  <2> QED BY <2>1, <2>2
<1>4. ASSUME NEW k \in 1 .. Len(u) PROVE u[Len(u) + 1 - k] = Back(k)'.byte
  <2>1. k \in 1 .. Len(t)
    BY <1>1
  <2> QED BY <1>3, <2>1
<1>5. Len(u) <= Len(stream')
  BY <1>1, <1>2
<1> QED BY <1>4, <1>5 DEF Latest

\* What begins a frame with the new byte began it before, and is not given up; or
\* the byte is the first of it.
LEMMA FeedBegins ==
  ASSUME DecoderTypeOK, StreamOK, NEW s, Reading(s), NEW byte \in Bytes, feed_byte(byte),
         NEW k \in 1 .. Len(stream'), BeginsFrame(k)'
  PROVE  \/ Len(s) = k - 1 /\ ~GivenUp(s, byte)
         \/ k = 1 /\ byte = Magic0 /\ Len(s) = 1
<1>1. Held(s) /\ Latest(s) /\ Tracked(s)
  BY DEF Reading
<1>2. /\ Len(s) \in Nat /\ Len(stream) \in Nat /\ Len(stream') \in Nat /\ MaxPayload \in Nat
      /\ \A i \in 1 .. Len(s) : s[i] \in Bytes
  BY <1>1, HeldBasics, FeedStream DEF StreamOK
<1>3. /\ Back(1)'.byte = byte /\ Back(1)'.searching = Searching
      /\ \A j \in 2 .. Len(stream') : j - 1 <= Len(stream) /\ Back(j)' = Back(j - 1)
  BY <1>1, FeedStream
<1>4. /\ Back(k)'.searching /\ Back(k)'.byte = Magic0
      /\ k >= 2 => Back(k - 1)'.byte = Magic1
      /\ k >= 3 => Back(k - 2)'.byte = Version
      /\ k >= 8 => /\ Word(Back(k - 6)'.byte, Back(k - 7)'.byte) <= MaxPayload
                   /\ k < Overhead + Word(Back(k - 6)'.byte, Back(k - 7)'.byte)
  BY DEF BeginsFrame, Word
<1>5. CASE k = 1
  <2>1. Searching /\ byte = Magic0
    BY <1>3, <1>4, <1>5
  <2>2. Len(s) = 0 \/ Len(s) = 1
    BY <1>1, <2>1 DEF Searching, Held, Place
  <2>3. Len(s) = 0 => ~GivenUp(s, byte)
    BY <2>1 DEF GivenUp
  <2>4. k - 1 = 0
    BY <1>5
  <2> QED BY <1>5, <2>1, <2>2, <2>3, <2>4
<1>6. CASE k # 1
  <2>1. PICK j : j = k - 1
    OBVIOUS
  <2>2. j \in 1 .. Len(stream) /\ k = j + 1 /\ j \in Nat /\ k \in 2 .. Len(stream')
    BY <1>2, <1>3, <1>6, <2>1
  <2>3. Back(k)' = Back(j)
    BY <1>3, <2>1, <2>2
  <2>4. j >= 2 => Back(k - 1)' = Back(j - 1)
    <3>1. j >= 2 => k - 1 \in 2 .. Len(stream') /\ (k - 1) - 1 = j - 1
      BY <1>2, <2>2
    <3> QED BY <1>3, <3>1
  <2>5. j >= 3 => Back(k - 2)' = Back(j - 2)
    <3>1. j >= 3 => k - 2 \in 2 .. Len(stream') /\ (k - 2) - 1 = j - 2
      BY <1>2, <2>2
    <3> QED BY <1>3, <3>1
  <2>6. j >= 7 => Back(k - 6)' = Back(j - 6)
    <3>1. j >= 7 => k - 6 \in 2 .. Len(stream') /\ (k - 6) - 1 = j - 6
      BY <1>2, <2>2
    <3> QED BY <1>3, <3>1
  <2>7. j >= 8 => Back(k - 7)' = Back(j - 7)
    <3>1. j >= 8 => k - 7 \in 2 .. Len(stream') /\ (k - 7) - 1 = j - 7
      BY <1>2, <2>2
    <3> QED BY <1>3, <3>1
  <2>8. BeginsFrame(j)
    <3>1. j >= 2 => Back(j - 1).byte = Magic1
      BY <1>4, <2>2, <2>4
    <3>2. j >= 3 => Back(j - 2).byte = Version
      BY <1>4, <2>2, <2>5
    <3>3. j >= 8 => /\ Word(Back(j - 6).byte, Back(j - 7).byte) <= MaxPayload
                    /\ j < Overhead + Word(Back(j - 6).byte, Back(j - 7).byte)
      <4> SUFFICES ASSUME j >= 8
                   PROVE  /\ Word(Back(j - 6).byte, Back(j - 7).byte) <= MaxPayload
                          /\ j < Overhead + Word(Back(j - 6).byte, Back(j - 7).byte)
        OBVIOUS
      <4>1. /\ Word(Back(j - 6).byte, Back(j - 7).byte) <= MaxPayload
            /\ k < Overhead + Word(Back(j - 6).byte, Back(j - 7).byte)
        BY <1>4, <2>2, <2>6, <2>7
      <4>2. Back(j - 6).byte \in Bytes /\ Back(j - 7).byte \in Bytes
        <5>1. ASSUME NEW i \in 1 .. Len(stream) PROVE stream[i].byte \in Bytes
          <6>1. stream[i] \in [byte : Bytes, searching : BOOLEAN]
            BY ElementOfSeq DEF StreamOK
          <6> QED BY <6>1
        <5>2. /\ Len(stream) + 1 - (j - 6) \in 1 .. Len(stream)
              /\ Len(stream) + 1 - (j - 7) \in 1 .. Len(stream)
          BY <1>2, <2>2
        <5> QED BY <5>1, <5>2 DEF Back
      <4>3. Word(Back(j - 6).byte, Back(j - 7).byte) \in Nat
        BY <4>2, WordOfBytes
      <4>4. PICK w : w = Word(Back(j - 6).byte, Back(j - 7).byte)
        OBVIOUS
      <4>5. w \in Nat /\ k < Overhead + w => j < Overhead + w
        BY <2>2 DEF Overhead
      <4> QED BY <4>1, <4>3, <4>4, <4>5
    <3>4. Back(j).searching /\ Back(j).byte = Magic0
      BY <1>4, <2>3
    <3> QED BY <3>1, <3>2, <3>3, <3>4, Zenon DEF BeginsFrame
  <2>9. Len(s) = j
    BY <1>1, <2>2, <2>8 DEF Tracked
  <2>10. \A i \in 1 .. j : s[j + 1 - i] = Back(i).byte
    BY <1>1, <2>9 DEF Latest
  <2>11. j = 1 => byte = Magic1
    BY <1>3, <1>4, <2>2
  <2>12. j = 2 => byte = Version
    BY <1>3, <1>4, <2>2
  <2>13. j = 7 => Word(s[7], byte) <= MaxPayload
    <3> SUFFICES ASSUME j = 7 PROVE Word(s[7], byte) <= MaxPayload
      OBVIOUS
    <3>1. k - 6 = 2 /\ k - 7 = 1 /\ k >= 8 /\ j - 6 = 1
      BY <2>2
    <3>2. s[7] = Back(1).byte
      <4>1. 1 \in 1 .. j /\ j + 1 - 1 = 7
        OBVIOUS
      <4> QED BY <2>10, <4>1
    <3>3. Word(Back(2)'.byte, Back(1)'.byte) <= MaxPayload
      BY <1>4, <3>1
    <3>4. Back(2)' = Back(1)
      BY <2>6, <3>1
    <3> QED BY <1>3, <3>2, <3>3, <3>4, Zenon
  <2>14. j >= 9 => j # 9 + Word(s[7], s[8])
    <3> SUFFICES ASSUME j >= 9 PROVE j # 9 + Word(s[7], s[8])
      OBVIOUS
    <3>1. s[7] = Back(j - 6).byte /\ s[8] = Back(j - 7).byte
      <4>1. /\ j - 6 \in 1 .. j /\ j + 1 - (j - 6) = 7
            /\ j - 7 \in 1 .. j /\ j + 1 - (j - 7) = 8
        BY <2>2
      <4> QED BY <2>10, <4>1
    <3>2. k < Overhead + Word(s[7], s[8])
      BY <1>4, <2>2, <2>6, <2>7, <3>1
    <3>3. Word(s[7], s[8]) \in Nat
      BY <1>2, <2>2, <2>9, WordOfBytes
    <3>4. PICK w : w = Word(s[7], s[8])
      OBVIOUS
    <3>5. w \in Nat /\ k < Overhead + w => j # 9 + w
      BY <2>2 DEF Overhead
    <3> QED BY <3>2, <3>3, <3>4, <3>5
  <2>15. ~(j = 7 /\ Word(s[7], byte) > MaxPayload)
    <3> SUFFICES ASSUME j = 7 PROVE ~(Word(s[7], byte) > MaxPayload)
      OBVIOUS
    <3>1. Word(s[7], byte) \in Nat
      BY <1>2, <2>9, WordOfBytes
    <3> QED BY <1>2, <2>13, <3>1
  <2>16. ~GivenUp(s, byte)
    BY <2>2, <2>9, <2>11, <2>12, <2>14, <2>15 DEF GivenUp
  <2> QED BY <2>1, <2>9, <2>16
<1> QED BY <1>5, <1>6

\* A frame completed is no longer read, and the search begins without a byte.
LEMMA SearchHeld ==
  ASSUME NEW u, payload' = <<>>,
         \/ u = <<>> /\ state' = "WAIT_MAGIC_0"
         \/ u = <<Magic0>> /\ state' = "WAIT_MAGIC_1"
         \/ u = <<Magic0, Magic1>> /\ state' = "READ_VERSION" /\ crc' = InitialCrc
  PROVE  Held(u)'
<1>1. Magic0 \in Bytes /\ Magic1 \in Bytes
  BY DecoderAssumption
<1>2. CASE u = <<>> /\ state' = "WAIT_MAGIC_0"
  <2>1. u \in Seq(Bytes) /\ Len(u) = 0
    BY <1>2
  <2> QED BY <1>2, <2>1 DEF Held, Place, FieldsRead
<1>3. CASE u = <<Magic0>> /\ state' = "WAIT_MAGIC_1"
  <2>1. u \in Seq(Bytes) /\ Len(u) = 1 /\ u[1] = Magic0
    BY <1>1, <1>3
  <2> QED BY <1>3, <2>1 DEF Held, Place, FieldsRead
<1>4. CASE u = <<Magic0, Magic1>> /\ state' = "READ_VERSION" /\ crc' = InitialCrc
  <2>1. u \in Seq(Bytes) /\ Len(u) = 2 /\ u[1] = Magic0 /\ u[2] = Magic1
    BY <1>1, <1>4
  <2>2. crc' = Crc(SubSeq(u, 3, 2))
    <3>1. 3 \in Int /\ 2 \in Int /\ 2 < 3
      OBVIOUS
    <3>2. SubSeq(u, 3, 2) = <<>>
      BY <3>1, SubSeqEmpty
    <3> QED BY <1>4, <3>2, CrcBytes
  <2>3. (crc = Crc(CoveredPart(u)))'
    BY <1>4, <2>1, <2>2 DEF CoveredPart, Crc
  <2>4. Place(Len(u))'
    BY <1>4, <2>1 DEF Place
  <2>5. FieldsRead(u)'
    BY <1>4, <2>1 DEF FieldsRead
  <2> QED BY <2>1, <2>3, <2>4, <2>5 DEF Held
<1> QED BY <1>2, <1>3, <1>4

\* The last byte of a frame, right or wrong, ends it.
LEMMA CompleteLength ==
  ASSUME DecoderTypeOK, NEW s, Held(s), state = "READ_CRC_LOW", NEW byte
  PROVE  Len(s) >= 9 /\ Len(s) = 9 + Word(s[7], s[8]) /\ GivenUp(s, byte)
<1>1. Len(s) = 9 + Len(payload) /\ Len(payload) = length /\ Len(payload) \in Nat /\ Len(s) \in Nat
  BY HeldBasics DEF Held, Place
<1>2. length = Word(s[7], s[8])
  BY <1>1 DEF Held, FieldsRead
<1> QED BY <1>1, <1>2 DEF GivenUp

\* After every byte the decoder reads what came last, and what begins a frame is
\* what it reads.
LEMMA FeedReading ==
  ASSUME DecoderTypeOK, StreamOK, NEW s, Reading(s), NEW byte \in Bytes, feed_byte(byte)
  PROVE  \E u : Reading(u)'
<1>1. PICK t : t = Append(s, byte)
  OBVIOUS
<1>2. Held(s) /\ Latest(s) /\ Tracked(s)
  BY DEF Reading
<1>3. /\ t \in Seq(Bytes) /\ Len(t) = Len(s) + 1 /\ Len(s) \in Nat
      /\ t[Len(s) + 1] = byte
      /\ \A i \in 1 .. Len(s) : t[i] = s[i]
  BY <1>1, <1>2, HeldBasics, Longer
<1>4. Magic0 # Magic1
  BY DecoderAssumption
<1>5. ASSUME NEW k \in 1 .. Len(stream'), BeginsFrame(k)'
      PROVE  \/ Len(s) = k - 1 /\ ~GivenUp(s, byte)
             \/ k = 1 /\ byte = Magic0 /\ Len(s) = 1
  BY <1>5, FeedBegins
<1>6. Len(stream') \in Nat
  BY <1>2, FeedStream
<1>7. CASE Held(t)'
  <2>1. Latest(t)'
    <3>1. PICK u : u = t
      OBVIOUS
    <3>2. /\ Len(u) \in Nat /\ Len(u) <= Len(t)
          /\ \A k \in 1 .. Len(u) : u[Len(u) + 1 - k] = t[Len(t) + 1 - k]
      BY <1>3, <3>1
    <3>3. Latest(u)'
      BY <1>1, <1>2, <3>2, FeedLatest
    <3> QED BY <3>1, <3>3
  <2>2. ~(byte = Magic0 /\ Len(s) = 1)
    <3> SUFFICES ASSUME byte = Magic0, Len(s) = 1 PROVE FALSE
      OBVIOUS
    <3>1. Len(t) = 2 /\ t[2] = byte
      BY <1>3
    <3>2. FieldsRead(t)'
      BY <1>7 DEF Held
    <3>3. t[2] = Magic1
      BY <3>1, <3>2 DEF FieldsRead
    <3> QED BY <1>4, <3>1, <3>3
  <2>3. Tracked(t)'
    <3> SUFFICES ASSUME NEW k \in 1 .. Len(stream'), BeginsFrame(k)' PROVE Len(t) = k
      BY DEF Tracked
    <3>1. Len(s) = k - 1
      BY <1>5, <2>2
    <3> QED BY <1>3, <1>6, <3>1
  <2> QED BY <1>7, <2>1, <2>3 DEF Reading
<1>8. CASE Restarted(s, byte)
  <2>1. \A k \in 1 .. Len(stream') : BeginsFrame(k)' => k = 1 /\ byte = Magic0
    BY <1>5, <1>8 DEF Restarted
  <2>2. payload' = <<>>
    BY <1>8 DEF Restarted
  <2>3. CASE /\ state' = "READ_VERSION" /\ crc' = InitialCrc
             /\ Len(s) > 0 /\ s[Len(s)] = Magic0 /\ byte = Magic1
    <3>1. PICK u : u = <<Magic0, Magic1>>
      OBVIOUS
    <3>2. Len(u) = 2 /\ u[1] = Magic0 /\ u[2] = Magic1
      BY <3>1
    <3>3. Held(u)'
      BY <2>2, <2>3, <3>1, SearchHeld
    <3>4. ASSUME NEW k \in 1 .. Len(u) PROVE u[Len(u) + 1 - k] = t[Len(t) + 1 - k]
      <4>1. k = 1 \/ k = 2
        BY <3>2
      <4>2. CASE k = 1
        BY <1>3, <2>3, <3>2, <4>2
      <4>3. CASE k = 2
        <5>1. Len(u) + 1 - k = 1 /\ Len(t) + 1 - k = Len(s) /\ Len(s) \in 1 .. Len(s)
          BY <1>3, <2>3, <3>2, <4>3
        <5> QED BY <1>3, <2>3, <3>2, <5>1
      <4> QED BY <4>1, <4>2, <4>3
    <3>5. Len(u) \in Nat /\ Len(u) <= Len(t)
      BY <1>3, <2>3, <3>2
    <3>6. Latest(u)'
      BY <1>1, <1>2, <3>4, <3>5, FeedLatest
    <3>7. Tracked(u)'
      BY <1>4, <2>1, <2>3 DEF Tracked
    <3> QED BY <3>3, <3>6, <3>7 DEF Reading
  <2>4. CASE state' = "WAIT_MAGIC_1" /\ byte = Magic0
    <3>1. PICK u : u = <<Magic0>>
      OBVIOUS
    <3>2. Len(u) = 1 /\ u[1] = Magic0
      BY <3>1
    <3>3. Held(u)'
      BY <2>2, <2>4, <3>1, SearchHeld
    <3>4. ASSUME NEW k \in 1 .. Len(u) PROVE u[Len(u) + 1 - k] = t[Len(t) + 1 - k]
      <4>1. k = 1
        BY <3>2
      <4>2. Len(u) + 1 - k = 1 /\ Len(t) + 1 - k = Len(s) + 1
        BY <1>3, <3>2, <4>1
      <4> QED BY <1>3, <2>4, <3>2, <4>2
    <3>5. Len(u) \in Nat /\ Len(u) <= Len(t)
      BY <1>3, <3>2
    <3>6. Latest(u)'
      BY <1>1, <1>2, <3>4, <3>5, FeedLatest
    <3>7. Tracked(u)'
      BY <2>1, <3>2 DEF Tracked
    <3> QED BY <3>3, <3>6, <3>7 DEF Reading
  <2>5. CASE state' = "WAIT_MAGIC_0" /\ byte # Magic0
    <3>1. PICK u : u = <<>>
      OBVIOUS
    <3>2. Len(u) = 0
      BY <3>1
    <3>3. Held(u)'
      BY <2>2, <2>5, <3>1, SearchHeld
    <3>4. Latest(u)'
      BY <1>6, <3>2 DEF Latest
    <3>5. Tracked(u)'
      BY <2>1, <2>5 DEF Tracked
    <3> QED BY <3>3, <3>4, <3>5 DEF Reading
  <2> QED BY <1>8, <2>3, <2>4, <2>5 DEF Restarted
<1>9. CASE Completed(byte)
  <2>1. Len(s) >= 9 /\ GivenUp(s, byte)
    BY <1>2, <1>9, CompleteLength DEF Completed
  <2>2. PICK u : u = <<>>
    OBVIOUS
  <2>3. Len(u) = 0
    BY <2>2
  <2>4. Held(u)'
    BY <1>9, <2>2, SearchHeld DEF Completed
  <2>5. Latest(u)'
    BY <1>6, <2>3 DEF Latest
  <2>6. Len(s) # 1
    BY <1>3, <2>1
  <2>7. Tracked(u)'
    BY <1>5, <2>1, <2>6 DEF Tracked
  <2> QED BY <2>4, <2>5, <2>7 DEF Reading
<1>10. Held(t)' \/ Restarted(s, byte) \/ Completed(byte)
  BY <1>1, <1>2, FeedOutcome
<1> QED BY <1>7, <1>8, <1>9, <1>10

\* A frame is handed out by the step that completes it.
LEMMA HandedOut ==
  ASSUME NEW byte, feed_byte(byte), delivered' # None
  PROVE  /\ state = "READ_CRC_LOW" /\ CrcMatches(byte)
         /\ delivered' = FrameRead
         /\ state' = "WAIT_MAGIC_0"
<1>1. state = "READ_CRC_LOW" /\ CrcMatches(byte) /\ delivered' = FrameRead
  BY DEF feed_byte
<1>2. ReadCrcLow(byte)
  BY <1>1 DEF feed_byte, WaitMagic0, WaitMagic1, ReadVersion, ReadType, ReadSequence,
              ReadLengthHigh, ReadLengthLow, ReadPayload, ReadCrcHigh, Take
<1> QED BY <1>1, <1>2 DEF ReadCrcLow

\* The line as it is remembered after a byte.
LEMMA FeedStreamOK ==
  ASSUME DecoderTypeOK, StreamOK, NEW s, Reading(s), NEW byte \in Bytes, feed_byte(byte)
  PROVE  StreamOK'
<1>1. Held(s) /\ Latest(s)
  BY DEF Reading
<1>2. stream' \in Seq([byte : Bytes, searching : BOOLEAN]) /\ Len(stream') <= MaxWire
  BY <1>1, FeedStream
<1>3. delivered' # None => state' = "WAIT_MAGIC_0"
  BY HandedOut
<1> QED BY <1>2, <1>3 DEF StreamOK, MaxWire, Overhead

\* After every byte that completes no frame, the search is where the last two
\* bytes say.
LEMMA FeedResumes ==
  ASSUME DecoderTypeOK, StreamOK, SearchResumed, NEW s, Reading(s),
         NEW byte \in Bytes, feed_byte(byte)
  PROVE  SearchResumed'
<1> DEFINE magic == Len(stream') > 1 /\ Back(2)'.byte = Magic0 /\ byte = Magic1
<1>1. Held(s) /\ Latest(s)
  BY DEF Reading
<1>2. PICK t : t = Append(s, byte)
  OBVIOUS
<1>3. /\ t \in Seq(Bytes) /\ Len(t) = Len(s) + 1 /\ Len(s) \in Nat
      /\ t[Len(s) + 1] = byte
      /\ \A i \in 1 .. Len(s) : t[i] = s[i]
  BY <1>1, <1>2, HeldBasics, Longer
<1>4. Magic0 # Magic1
  BY DecoderAssumption
<1>5. /\ Len(stream') \in Nat /\ 1 <= Len(stream')
      /\ Back(1)'.byte = byte
      /\ \A k \in 2 .. Len(stream') :
           delivered = None /\ k - 1 <= Len(stream) /\ Back(k)' = Back(k - 1)
      /\ Len(s) + 1 <= Len(stream')
  BY <1>1, FeedStream
<1>6. Len(s) > 0 => s[Len(s)] = Back(1).byte
  <2>1. Len(s) > 0 => 1 \in 1 .. Len(s) /\ Len(s) + 1 - 1 = Len(s)
    BY <1>3
  <2> QED BY <1>1, <2>1 DEF Latest
<1>7. Len(stream') > 1 => delivered = None /\ Len(stream) > 0 /\ Back(2)' = Back(1)
  <2> SUFFICES ASSUME Len(stream') > 1
               PROVE  delivered = None /\ Len(stream) > 0 /\ Back(2)' = Back(1)
    OBVIOUS
  <2>1. 2 \in 2 .. Len(stream') /\ 2 - 1 = 1 /\ Len(stream) \in Nat
    BY <1>5 DEF StreamOK
  <2>2. delivered = None /\ 1 <= Len(stream) /\ Back(2)' = Back(1)
    BY <1>5, <2>1
  <2> QED BY <2>1, <2>2
<1>8. ASSUME delivered' = None
      PROVE  /\ state' = "READ_VERSION" => magic
             /\ Searching' => ~magic /\ (state' = "WAIT_MAGIC_1" <=> byte = Magic0)
  <2>1. CASE Held(t)'
    <3>1. Place(Len(t))' /\ FieldsRead(t)'
      BY <2>1 DEF Held
    <3>2. ASSUME state' = "READ_VERSION" PROVE magic
      <4>1. Len(t) = 2
        BY <3>1, <3>2 DEF Place
      <4>2. t[1] = Magic0 /\ t[2] = Magic1
        BY <3>1, <4>1 DEF FieldsRead
      <4>3. Len(s) = 1
        <5>1. PICK m : m = Len(s)
          OBVIOUS
        <5>2. m \in Nat /\ 2 = m + 1
          BY <1>3, <4>1, <5>1, Zenon
        <5>3. m = 1
          BY <5>2
        <5> QED BY <5>1, <5>3
      <4>4. s[1] = Magic0 /\ byte = Magic1 /\ Len(stream') > 1
        BY <1>3, <1>5, <4>2, <4>3
      <4> QED BY <1>6, <1>7, <4>3, <4>4
    <3>3. ASSUME Searching' PROVE ~magic /\ (state' = "WAIT_MAGIC_1" <=> byte = Magic0)
      <4>1. Len(t) = 1 /\ state' = "WAIT_MAGIC_1"
        BY <1>3, <3>1, <3>3 DEF Place, Searching
      <4>2. t[1] = Magic0
        BY <3>1, <4>1 DEF FieldsRead
      <4>3. byte = Magic0
        BY <1>3, <4>1, <4>2
      <4> QED BY <1>4, <4>1, <4>3
    <3> QED BY <3>2, <3>3
  <2>2. CASE Restarted(s, byte)
    <3>1. CASE /\ state' = "READ_VERSION"
               /\ Len(s) > 0 /\ s[Len(s)] = Magic0 /\ byte = Magic1
      <4>1. Len(stream') > 1
        BY <1>3, <1>5, <3>1
      <4> QED BY <1>6, <1>7, <3>1, <4>1 DEF Searching
    <3>2. CASE state' = "WAIT_MAGIC_1" /\ byte = Magic0
      BY <1>4, <3>2
    <3>3. CASE /\ state' = "WAIT_MAGIC_0" /\ byte # Magic0
               /\ ~(Len(s) > 0 /\ s[Len(s)] = Magic0 /\ byte = Magic1)
      <4>1. ~magic
        <5> SUFFICES ASSUME magic PROVE FALSE
          OBVIOUS
        <5>1. delivered = None /\ Len(stream) > 0 /\ Back(1).byte = Magic0
          BY <1>7
        <5>2. ~(Len(s) > 0)
          BY <1>6, <3>3, <5>1
        <5>3. Len(s) = 0
          BY <1>3, <5>2
        <5>4. state = "WAIT_MAGIC_0"
          BY <1>1, <5>3, HeldBasics DEF Held, Place
        <5>5. stream[Len(stream)].byte = Magic0
          <6>1. Len(stream) \in Nat /\ Len(stream) + 1 - 1 = Len(stream)
            BY DEF StreamOK
          <6> QED BY <5>1, <6>1 DEF Back
        <5> QED BY <5>1, <5>4, <5>5 DEF SearchResumed, Searching
      <4> QED BY <3>3, <4>1
    <3> QED BY <2>2, <3>1, <3>2, <3>3 DEF Restarted
  <2>3. CASE Completed(byte)
    <3>1. delivered' = FrameRead
      BY <2>3 DEF Completed, feed_byte
    <3> QED BY <1>8, <3>1, FrameReadTypes, DecoderAssumption
  <2> QED BY <1>1, <1>2, <2>1, <2>2, <2>3, FeedOutcome
<1>9. stream'[Len(stream')] = Back(1)' /\ stream'[Len(stream') - 1] = Back(2)'
  <2>1. Len(stream') + 1 - 1 = Len(stream') /\ Len(stream') + 1 - 2 = Len(stream') - 1
    BY <1>5
  <2> QED BY <2>1 DEF Back
<1>10. /\ Len(stream') > 0 /\ stream'[Len(stream')].byte = byte
       /\ magic <=> Len(stream') > 1 /\ stream'[Len(stream') - 1].byte = Magic0
                    /\ stream'[Len(stream')].byte = Magic1
  BY <1>5, <1>9
<1> HIDE DEF magic
<1> QED BY <1>8, <1>10 DEF SearchResumed, Searching

(***************************************************************************)
(* Frames                                                                  *)
(***************************************************************************)

\* Three sequences in a row.
LEMMA ThreeParts ==
  ASSUME NEW S, NEW a \in Seq(S), NEW b \in Seq(S), NEW c \in Seq(S), NEW w, w = (a \o b) \o c
  PROVE  /\ w \in Seq(S) /\ Len(w) = Len(a) + Len(b) + Len(c)
         /\ \A i \in 1 .. Len(a) : w[i] = a[i]
         /\ \A i \in 1 .. Len(b) : w[Len(a) + i] = b[i]
         /\ \A i \in 1 .. Len(c) : w[Len(a) + Len(b) + i] = c[i]
<1>1. Len(a) \in Nat /\ Len(b) \in Nat /\ Len(c) \in Nat
  OBVIOUS
<1>2. PICK d : d = a \o b
  OBVIOUS
<1>3. /\ d \in Seq(S) /\ Len(d) = Len(a) + Len(b)
      /\ \A i \in 1 .. Len(a) + Len(b) : d[i] = IF i <= Len(a) THEN a[i] ELSE b[i - Len(a)]
  BY <1>2, ConcatProperties
<1>4. /\ w \in Seq(S) /\ Len(w) = Len(d) + Len(c)
      /\ \A i \in 1 .. Len(d) + Len(c) : w[i] = IF i <= Len(d) THEN d[i] ELSE c[i - Len(d)]
  BY <1>2, <1>3, ConcatProperties
<1>5. ASSUME NEW i \in 1 .. Len(a) PROVE w[i] = a[i]
  <2>1. i \in 1 .. Len(a) + Len(b) /\ i \in 1 .. Len(d) + Len(c) /\ i <= Len(d) /\ i <= Len(a)
    BY <1>1, <1>3
  <2> QED BY <1>3, <1>4, <2>1
<1>6. ASSUME NEW i \in 1 .. Len(b) PROVE w[Len(a) + i] = b[i]
  <2>1. PICK j : j = Len(a) + i
    OBVIOUS
  <2>2. j \in 1 .. Len(a) + Len(b) /\ j \in 1 .. Len(d) + Len(c) /\ j <= Len(d) /\ ~(j <= Len(a))
        /\ j - Len(a) = i
    BY <1>1, <1>3, <2>1
  <2> QED BY <1>3, <1>4, <2>1, <2>2
<1>7. ASSUME NEW i \in 1 .. Len(c) PROVE w[Len(a) + Len(b) + i] = c[i]
  <2>1. PICK j : j = Len(a) + Len(b) + i
    OBVIOUS
  <2>2. j \in 1 .. Len(d) + Len(c) /\ ~(j <= Len(d)) /\ j - Len(d) = i
    BY <1>1, <1>3, <2>1
  <2> QED BY <1>4, <2>1, <2>2
<1>8. Len(w) = Len(a) + Len(b) + Len(c)
  BY <1>1, <1>3, <1>4
<1> QED BY <1>4, <1>5, <1>6, <1>7, <1>8

\* The part of the encoding that the checksum covers, byte by byte.
LEMMA CoveredBytes ==
  ASSUME NEW frame, frame.type \in Bytes, frame.sequence \in Words, frame.payload \in Seq(Bytes),
         NEW c, c = Covered(frame)
  PROVE  /\ c \in Seq(Int) /\ Len(c) = Len(frame.payload) + 6
         /\ c[1] = Version /\ c[2] = frame.type
         /\ c[3] = High(frame.sequence) /\ c[4] = Low(frame.sequence)
         /\ c[5] = High(Len(frame.payload)) /\ c[6] = Low(Len(frame.payload))
         /\ \A i \in 1 .. Len(frame.payload) : c[6 + i] = frame.payload[i]
<1>1. PICK t, q, p : t = frame.type /\ q = frame.sequence /\ p = frame.payload
  OBVIOUS
<1>2. /\ ByteCount \in Nat /\ ByteCount > 0 /\ Version \in Int /\ t \in Int /\ q \in Nat
      /\ p \in Seq(Bytes) /\ Len(p) \in Nat /\ Bytes \subseteq Int
  <2>1. Bytes \subseteq Int /\ Words \subseteq Nat
    BY DecoderAssumption DEF Bytes, Words
  <2>2. t \in Bytes /\ q \in Words /\ p \in Seq(Bytes)
    BY <1>1
  <2>3. ByteCount \in Nat /\ ByteCount > 0 /\ Version \in Bytes
    BY DecoderAssumption
  <2> QED BY <2>1, <2>2, <2>3
<1>3. High(q) \in Int /\ Low(q) \in Int /\ High(Len(p)) \in Int /\ Low(Len(p)) \in Int
  BY <1>2 DEF High, Low
<1>4. PICK head : head = <<Version, t, High(q), Low(q), High(Len(p)), Low(Len(p))>>
  OBVIOUS
<1>5. /\ head \in Seq(Int) /\ Len(head) = 6
      /\ head[1] = Version /\ head[2] = t /\ head[3] = High(q) /\ head[4] = Low(q)
      /\ head[5] = High(Len(p)) /\ head[6] = Low(Len(p))
  BY <1>2, <1>3, <1>4
<1>6. p \in Seq(Int)
  BY <1>2, SeqMonotonic
<1>7. c = head \o p
  BY <1>1, <1>4 DEF Covered
<1>8. /\ c \in Seq(Int) /\ Len(c) = Len(head) + Len(p)
      /\ \A i \in 1 .. Len(head) + Len(p) :
           c[i] = IF i <= Len(head) THEN head[i] ELSE p[i - Len(head)]
  <2>1. PICK I : I = Int
    OBVIOUS
  <2>2. head \in Seq(I) /\ p \in Seq(I)
    BY <1>5, <1>6, <2>1
  <2>3. /\ head \o p \in Seq(I) /\ Len(head \o p) = Len(head) + Len(p)
        /\ \A i \in 1 .. Len(head) + Len(p) :
             (head \o p)[i] = IF i <= Len(head) THEN head[i] ELSE p[i - Len(head)]
    BY <2>2, ConcatProperties
  <2> QED BY <1>7, <2>1, <2>3
<1>9. ASSUME NEW i \in 1 .. 6 PROVE c[i] = head[i]
  <2>1. i \in 1 .. Len(head) + Len(p) /\ i <= Len(head)
    BY <1>2, <1>5
  <2> QED BY <1>8, <2>1
<1>10. ASSUME NEW i \in 1 .. Len(p) PROVE c[6 + i] = p[i]
  <2>1. PICK j : j = 6 + i
    OBVIOUS
  <2>2. j \in 1 .. Len(head) + Len(p) /\ ~(j <= Len(head)) /\ j - Len(head) = i
    BY <1>2, <1>5, <2>1
  <2> QED BY <1>8, <2>1, <2>2
<1>11. Len(c) = Len(p) + 6
  BY <1>2, <1>5, <1>8
<1>12. /\ c[1] = Version /\ c[2] = t /\ c[3] = High(q) /\ c[4] = Low(q)
       /\ c[5] = High(Len(p)) /\ c[6] = Low(Len(p))
  <2>1. \A i \in {1, 2, 3, 4, 5, 6} : i \in 1 .. 6
    OBVIOUS
  <2> QED BY <1>5, <1>9, <2>1
<1> QED BY <1>1, <1>8, <1>10, <1>11, <1>12

\* The whole encoding: magic, that part, and its checksum.
Enclosed(w, c, sum) ==
  /\ w \in Seq(Int \cup {High(sum), Low(sum)}) /\ Len(w) = Len(c) + 4
  /\ w[1] = Magic0 /\ w[2] = Magic1
  /\ \A i \in 1 .. Len(c) : w[2 + i] = c[i]
  /\ w[Len(c) + 3] = High(sum) /\ w[Len(c) + 4] = Low(sum)

\* That is what the encoder makes, whatever the checksum is.
LEMMA EncodedBytes ==
  ASSUME NEW frame, frame.type \in Bytes, frame.sequence \in Words, frame.payload \in Seq(Bytes),
         NEW c, c = Covered(frame), NEW sum, sum = Crc(c),
         NEW w, w = protocol_frame_encode(frame)
  PROVE  Enclosed(w, c, sum)
<1>1. PICK h, l : h = High(sum) /\ l = Low(sum)
  OBVIOUS
<1>2. PICK S : S = Int \cup {h, l}
  OBVIOUS
<1>3. PICK magic, last : magic = <<Magic0, Magic1>> /\ last = <<h, l>>
  OBVIOUS
<1>4. w = (magic \o c) \o last
  BY <1>1, <1>3 DEF protocol_frame_encode
<1>5. Magic0 \in Int /\ Magic1 \in Int
  BY DecoderAssumption DEF Bytes
<1>6. /\ magic \in Seq(S) /\ Len(magic) = 2 /\ magic[1] = Magic0 /\ magic[2] = Magic1
  BY <1>2, <1>3, <1>5
<1>7. last \in Seq(S) /\ Len(last) = 2 /\ last[1] = h /\ last[2] = l
  BY <1>2, <1>3
<1>8. c \in Seq(Int) /\ Len(c) \in Nat
  BY CoveredBytes
<1>9. c \in Seq(S)
  <2>1. Int \subseteq S
    BY <1>2
  <2> QED BY <1>8, <2>1, SeqMonotonic
<1>10. /\ w \in Seq(S) /\ Len(w) = Len(magic) + Len(c) + Len(last)
       /\ \A i \in 1 .. Len(magic) : w[i] = magic[i]
       /\ \A i \in 1 .. Len(c) : w[Len(magic) + i] = c[i]
       /\ \A i \in 1 .. Len(last) : w[Len(magic) + Len(c) + i] = last[i]
  <2>1. magic \in Seq(S) /\ c \in Seq(S) /\ last \in Seq(S)
    BY <1>6, <1>7, <1>9
  <2> QED BY <1>4, <2>1, ThreeParts
<1>11. Len(w) = Len(c) + 4
  BY <1>6, <1>7, <1>8, <1>10
<1>12. w[1] = Magic0 /\ w[2] = Magic1 /\ \A i \in 1 .. Len(c) : w[2 + i] = c[i]
  BY <1>6, <1>10
<1>13. w[Len(c) + 3] = h /\ w[Len(c) + 4] = l
  <2>1. Len(magic) + Len(c) + 1 = Len(c) + 3 /\ Len(magic) + Len(c) + 2 = Len(c) + 4
        /\ 1 \in 1 .. Len(last) /\ 2 \in 1 .. Len(last)
    BY <1>6, <1>7, <1>8
  <2> QED BY <1>7, <1>10, <2>1
<1> QED BY <1>1, <1>2, <1>10, <1>11, <1>12, <1>13 DEF Enclosed

\* What has been read, with the byte, is the last of the line.
LEMMA FeedLast ==
  ASSUME DecoderTypeOK, StreamOK, NEW s, Reading(s), NEW byte \in Bytes, feed_byte(byte),
         NEW t, t = Append(s, byte), NEW n, n = Len(s) + 1
  PROVE  LastBytes(n)' = t /\ n <= Len(stream')
<1>1. Held(s) /\ Latest(s)
  BY DEF Reading
<1>2. /\ t \in Seq(Bytes) /\ Len(t) = n /\ n \in Nat
  <2>1. t \in Seq(Bytes) /\ Len(t) = Len(s) + 1 /\ Len(s) \in Nat
    BY <1>1, HeldBasics, Longer
  <2> QED BY <2>1
<1>3. Latest(t)'
  <2>1. PICK u : u = t
    OBVIOUS
  <2>2. /\ Len(u) \in Nat /\ Len(u) <= Len(t)
        /\ \A k \in 1 .. Len(u) : u[Len(u) + 1 - k] = t[Len(t) + 1 - k]
    BY <1>2, <2>1
  <2>3. Latest(u)'
    BY <1>1, <2>2, FeedLatest
  <2> QED BY <2>1, <2>3
<1>4. /\ n <= Len(stream')
      /\ \A k \in 1 .. n : t[n + 1 - k] = Back(k)'.byte
  BY <1>2, <1>3 DEF Latest
<1>5. Len(stream') \in Nat
  BY <1>1, FeedStream
<1>6. LastBytes(n)' = [i \in 1 .. n |-> stream'[Len(stream') - n + i].byte]
  BY DEF LastBytes
<1>7. ASSUME NEW i \in 1 .. n PROVE stream'[Len(stream') - n + i].byte = t[i]
  <2>1. PICK k : k = n + 1 - i
    OBVIOUS
  <2>2. k \in 1 .. n /\ Len(stream') - n + i = Len(stream') + 1 - k /\ n + 1 - k = i
    BY <1>2, <1>5, <2>1
  <2>3. stream'[Len(stream') - n + i] = Back(k)'
    BY <2>2 DEF Back
  <2> QED BY <1>4, <2>2, <2>3
<1>8. t = [i \in 1 .. n |-> t[i]]
  <2>1. t \in [1 .. n -> Bytes]
    BY <1>2, LenProperties
  <2> QED BY <2>1
<1> QED BY <1>4, <1>6, <1>7, <1>8

\* A frame is complete: the decoder's fields are what the last bytes encode, but for
\* the checksum.
LEMMA CompleteCovered ==
  ASSUME DecoderTypeOK, NEW s, Held(s), state = "READ_CRC_LOW"
  PROVE  /\ Len(s) = 9 + Len(payload)
         /\ type = s[4] /\ sequence = Word(s[5], s[6]) /\ crc_high = s[Len(s)]
         /\ s[1] = Magic0 /\ s[2] = Magic1
         /\ \A i \in 1 .. Len(payload) : payload[i] = s[8 + i]
         /\ Covered(FrameRead) = SubSeq(s, 3, Len(s) - 1)
         /\ crc = Crc(Covered(FrameRead))
<1>1. /\ s \in Seq(Bytes) /\ Len(s) = 9 + Len(payload) /\ Len(payload) = length
      /\ Len(payload) \in Nat /\ Len(s) \in Nat
      /\ \A i \in 1 .. Len(s) : s[i] \in Bytes
  BY HeldBasics DEF Held, Place
<1>2. /\ s[1] = Magic0 /\ s[2] = Magic1 /\ s[3] = Version /\ type = s[4]
      /\ sequence = Word(s[5], s[6]) /\ length = Word(s[7], s[8])
      /\ \A i \in 1 .. Len(payload) : payload[i] = s[8 + i]
      /\ crc_high = s[Len(s)]
  <2>1. FieldsRead(s)
    BY DEF Held
  <2>2. Len(s) >= 9
    BY <1>1
  <2> QED BY <1>1, <2>1, <2>2 DEF FieldsRead
<1>3. PICK frame : frame = FrameRead
  OBVIOUS
<1>4. frame.type = type /\ frame.sequence = sequence /\ frame.payload = payload
  BY <1>3 DEF FrameRead
<1>5. frame.type \in Bytes /\ frame.sequence \in Words /\ frame.payload \in Seq(Bytes)
  BY <1>4 DEF DecoderTypeOK
<1>6. PICK c : c = Covered(frame)
  OBVIOUS
<1>7. /\ c \in Seq(Int) /\ Len(c) = Len(payload) + 6
      /\ c[1] = Version /\ c[2] = type
      /\ c[3] = High(sequence) /\ c[4] = Low(sequence)
      /\ c[5] = High(Len(payload)) /\ c[6] = Low(Len(payload))
      /\ \A i \in 1 .. Len(payload) : c[6 + i] = payload[i]
  <2>1. /\ c \in Seq(Int) /\ Len(c) = Len(frame.payload) + 6
        /\ c[1] = Version /\ c[2] = frame.type
        /\ c[3] = High(frame.sequence) /\ c[4] = Low(frame.sequence)
        /\ c[5] = High(Len(frame.payload)) /\ c[6] = Low(Len(frame.payload))
        /\ \A i \in 1 .. Len(frame.payload) : c[6 + i] = frame.payload[i]
    BY <1>5, <1>6, CoveredBytes
  <2> QED BY <1>4, <2>1
<1>8. s[5] \in Bytes /\ s[6] \in Bytes /\ s[7] \in Bytes /\ s[8] \in Bytes
  <2>1. 5 \in 1 .. Len(s) /\ 6 \in 1 .. Len(s) /\ 7 \in 1 .. Len(s) /\ 8 \in 1 .. Len(s)
    BY <1>1
  <2> QED BY <1>1, <2>1
<1>9. High(sequence) = s[5] /\ Low(sequence) = s[6]
  BY <1>2, <1>8, WordOfBytes
<1>10. High(Len(payload)) = s[7] /\ Low(Len(payload)) = s[8]
  <2>1. Len(payload) = Word(s[7], s[8])
    BY <1>1, <1>2
  <2> QED BY <1>8, <2>1, WordOfBytes
<1>11. PICK d : d = SubSeq(s, 3, Len(s) - 1)
  OBVIOUS
<1>12. /\ d \in Seq(Bytes) /\ Len(d) = Len(payload) + 6
       /\ \A i \in 1 .. Len(payload) + 6 : d[i] = s[2 + i]
  <2>1. PICK m : m = Len(s) - 1
    OBVIOUS
  <2>2. m \in Nat /\ m <= Len(s) /\ 3 <= m + 1 /\ m + 1 - 3 = Len(payload) + 6 /\ 3 - 1 = 2
    BY <1>1, <2>1
  <2>3. /\ d \in Seq(Bytes) /\ Len(d) = m + 1 - 3
        /\ \A i \in 1 .. m + 1 - 3 : d[i] = s[(3 - 1) + i]
    BY <1>1, <1>11, <2>1, <2>2, Part
  <2> QED BY <2>2, <2>3
<1>13. ASSUME NEW i \in 1 .. Len(c) PROVE c[i] = d[i]
  <2>1. d[i] = s[2 + i]
    BY <1>7, <1>12
  <2>2. CASE i \in 1 .. 6
    <3>1. i = 1 \/ i = 2 \/ i = 3 \/ i = 4 \/ i = 5 \/ i = 6
      BY <2>2
    <3>2. 2 + 1 = 3 /\ 2 + 2 = 4 /\ 2 + 3 = 5 /\ 2 + 4 = 6 /\ 2 + 5 = 7 /\ 2 + 6 = 8
      OBVIOUS
    <3>3. /\ c[1] = s[3] /\ c[2] = s[4] /\ c[3] = s[5]
          /\ c[4] = s[6] /\ c[5] = s[7] /\ c[6] = s[8]
      BY <1>2, <1>7, <1>9, <1>10
    <3>4. c[i] = s[2 + i]
      BY <3>1, <3>2, <3>3
    <3> QED BY <2>1, <3>4
  <2>3. CASE i \notin 1 .. 6
    <3>1. PICK j : j = i - 6
      OBVIOUS
    <3>2. j \in 1 .. Len(payload) /\ 6 + j = i /\ 2 + i = 8 + j
      BY <1>1, <1>7, <2>3, <3>1
    <3> QED BY <1>2, <1>7, <2>1, <3>2
  <2> QED BY <2>2, <2>3
<1>14. c = d
  <2>1. Bytes \subseteq Int
    BY DecoderAssumption DEF Bytes
  <2>2. PICK I : I = Int
    OBVIOUS
  <2>3. c \in Seq(I) /\ d \in Seq(I) /\ Len(c) = Len(d)
    BY <1>7, <1>12, <2>1, <2>2, SeqMonotonic
  <2> QED BY <1>13, <2>3, SeqEqual
<1>15. crc = Crc(d)
  <2>1. Len(s) >= 2
    BY <1>1
  <2> QED BY <1>11, <2>1 DEF Held, CoveredPart
<1> QED BY <1>1, <1>2, <1>3, <1>6, <1>11, <1>14, <1>15

\* The checksum is right exactly if the frame read encodes to the last bytes.
LEMMA FeedComplete ==
  ASSUME DecoderTypeOK, StreamOK, NEW s, Reading(s), NEW byte \in Bytes, feed_byte(byte),
         state = "READ_CRC_LOW", NEW n, n = Len(s) + 1
  PROVE  /\ FrameIn(n)' = FrameRead
         /\ CrcMatches(byte) <=> protocol_frame_encode(FrameRead) = LastBytes(n)'
<1>1. Held(s)
  BY DEF Reading
<1>2. PICK t : t = Append(s, byte)
  OBVIOUS
<1>3. LastBytes(n)' = t
  BY <1>2, FeedLast
<1>4. /\ Len(s) = 9 + Len(payload)
      /\ type = s[4] /\ sequence = Word(s[5], s[6]) /\ crc_high = s[Len(s)]
      /\ s[1] = Magic0 /\ s[2] = Magic1
      /\ \A i \in 1 .. Len(payload) : payload[i] = s[8 + i]
      /\ Covered(FrameRead) = SubSeq(s, 3, Len(s) - 1)
      /\ crc = Crc(Covered(FrameRead))
  BY <1>1, CompleteCovered
<1>5. /\ s \in Seq(Bytes) /\ Len(payload) \in Nat /\ n = 10 + Len(payload) /\ n \in Nat
      /\ payload \in Seq(Bytes) /\ Len(s) = n - 1
  <2>1. s \in Seq(Bytes) /\ Len(payload) \in Nat /\ payload \in Seq(Bytes)
    BY <1>1, HeldBasics DEF DecoderTypeOK
  <2> QED BY <1>4, <2>1
<1>6. /\ t \in Seq(Bytes) /\ Len(t) = n /\ t[n] = byte
      /\ \A i \in 1 .. n - 1 : t[i] = s[i]
  <2>1. /\ t \in Seq(Bytes) /\ Len(t) = Len(s) + 1
        /\ t[Len(s) + 1] = byte
        /\ \A i \in 1 .. Len(s) : t[i] = s[i]
    <3>1. s \in Seq(Bytes)
      BY <1>5
    <3> QED BY <1>2, <3>1, Longer
  <2>2. Len(s) + 1 = n /\ Len(s) = n - 1
    BY <1>5
  <2> QED BY <2>1, <2>2
<1>7. t[4] = type /\ t[5] = s[5] /\ t[6] = s[6] /\ t[1] = Magic0 /\ t[2] = Magic1
  <2>1. \A i \in 1 .. 6 : i \in 1 .. n - 1
    BY <1>5
  <2> QED BY <1>4, <1>6, <2>1
<1>8. SubSeq(t, 9, n - 2) = payload
  <2>1. PICK q, m : q = SubSeq(t, 9, m) /\ m = n - 2
    OBVIOUS
  <2>2. m \in Nat /\ m <= Len(t) /\ 9 <= m + 1 /\ m + 1 - 9 = Len(payload) /\ 9 - 1 = 8
    BY <1>5, <1>6, <2>1
  <2>3. /\ q \in Seq(Bytes) /\ Len(q) = m + 1 - 9
        /\ \A i \in 1 .. m + 1 - 9 : q[i] = t[(9 - 1) + i]
    BY <1>6, <2>1, <2>2, Part
  <2>4. ASSUME NEW i \in 1 .. Len(q) PROVE q[i] = payload[i]
    <3>1. i \in 1 .. Len(payload) /\ 8 + i \in 1 .. n - 1
      BY <1>5, <2>2, <2>3
    <3> QED BY <1>4, <1>6, <2>2, <2>3, <3>1
  <2>5. Len(q) = Len(payload)
    BY <2>2, <2>3
  <2>6. q = payload
    BY <1>5, <2>3, <2>4, <2>5, SeqEqual
  <2> QED BY <2>1, <2>6
<1>9. FrameIn(n)' = [type |-> t[4], sequence |-> Word(t[5], t[6]), payload |-> SubSeq(t, 9, n - 2)]
  BY <1>3 DEF FrameIn, Word
<1>10. FrameIn(n)' = FrameRead
  BY <1>4, <1>7, <1>8, <1>9 DEF FrameRead
<1>11. PICK frame, c, w : frame = FrameRead /\ c = Covered(frame)
                          /\ w = protocol_frame_encode(frame)
  OBVIOUS
<1>12. /\ frame.type \in Bytes /\ frame.sequence \in Words /\ frame.payload \in Seq(Bytes)
       /\ frame.payload = payload
  BY <1>11 DEF FrameRead, DecoderTypeOK
<1>13. PICK sum : sum = Crc(c)
  OBVIOUS
<1>14. sum = crc /\ sum \in Words /\ sum \in Nat
  <2>1. Words \subseteq Nat /\ crc \in Words
    BY DecoderAssumption DEF Words, DecoderTypeOK
  <2> QED BY <1>4, <1>11, <1>13, <2>1
<1>15. /\ w \in Seq(Int \cup {High(sum), Low(sum)}) /\ Len(w) = Len(c) + 4
       /\ w[1] = Magic0 /\ w[2] = Magic1
       /\ \A i \in 1 .. Len(c) : w[2 + i] = c[i]
       /\ w[Len(c) + 3] = High(sum) /\ w[Len(c) + 4] = Low(sum)
  <2>1. c = Covered(frame) /\ sum = Crc(c) /\ w = protocol_frame_encode(frame)
    BY <1>11, <1>13
  <2>2. frame.type \in Bytes /\ frame.sequence \in Words /\ frame.payload \in Seq(Bytes)
    BY <1>12
  <2>3. Enclosed(w, c, sum)
    BY <2>1, <2>2, EncodedBytes, Zenon
  <2> QED BY <2>3 DEF Enclosed
<1>16. High(sum) \in Int /\ Low(sum) \in Int
  BY <1>14, DecoderAssumption DEF High, Low
<1>17. /\ Len(c) = n - 4
       /\ \A i \in 1 .. n - 4 : c[i] = s[2 + i]
  <2>1. PICK m : m = Len(s) - 1
    OBVIOUS
  <2>2. m \in Nat /\ m <= Len(s) /\ 3 <= m + 1 /\ m + 1 - 3 = n - 4 /\ 3 - 1 = 2
    BY <1>5, <2>1
  <2>3. c = SubSeq(s, 3, m)
    BY <1>4, <1>11, <2>1
  <2>4. /\ Len(c) = m + 1 - 3
        /\ \A i \in 1 .. m + 1 - 3 : c[i] = s[(3 - 1) + i]
    BY <1>5, <2>2, <2>3, Part
  <2> QED BY <2>2, <2>4
<1>18. Len(w) = n /\ w[n - 1] = High(sum) /\ w[n] = Low(sum)
  <2>1. Len(c) + 4 = n /\ Len(c) + 3 = n - 1
    BY <1>5, <1>17
  <2> QED BY <1>15, <2>1
<1>19. ASSUME NEW i \in 1 .. n - 2 PROVE w[i] = t[i]
  <2>1. CASE i = 1 \/ i = 2
    BY <1>7, <1>15, <2>1
  <2>2. CASE ~(i = 1 \/ i = 2)
    <3>1. PICK j : j = i - 2
      OBVIOUS
    <3>2. j \in 1 .. n - 4 /\ 2 + j = i /\ i \in 1 .. n - 1
      BY <1>5, <2>2, <3>1
    <3> QED BY <1>6, <1>15, <1>17, <3>2
  <2> QED BY <2>1, <2>2
<1>20. t[n - 1] = crc_high /\ n - 1 \in 1 .. n - 1
  <2>1. n - 1 \in 1 .. n - 1
    BY <1>5
  <2> QED BY <1>4, <1>5, <1>6, <2>1
<1>21. w = t <=> High(sum) = crc_high /\ Low(sum) = byte
  <2>1. ASSUME High(sum) = crc_high, Low(sum) = byte PROVE w = t
    <3>1. PICK I : I = Int
      OBVIOUS
    <3>2. w \in Seq(I) /\ t \in Seq(I)
      <4>1. Int \cup {High(sum), Low(sum)} = Int
        BY <1>16
      <4>2. Bytes \subseteq Int
        BY DecoderAssumption DEF Bytes
      <4> QED BY <1>6, <1>15, <3>1, <4>1, <4>2, SeqMonotonic
    <3>3. ASSUME NEW i \in 1 .. Len(w) PROVE w[i] = t[i]
      <4>1. i \in 1 .. n - 2 \/ i = n - 1 \/ i = n
        BY <1>5, <1>18
      <4> QED BY <1>6, <1>18, <1>19, <1>20, <2>1, <4>1
    <3>4. Len(w) = Len(t)
      BY <1>6, <1>18
    <3> QED BY <3>2, <3>3, <3>4, SeqEqual
  <2>2. ASSUME w = t PROVE High(sum) = crc_high /\ Low(sum) = byte
    BY <1>6, <1>18, <1>20, <2>2
  <2> QED BY <2>1, <2>2
<1>22. CrcMatches(byte) <=> High(sum) = crc_high /\ Low(sum) = byte
  <2>1. ASSUME CrcMatches(byte) PROVE High(sum) = crc_high /\ Low(sum) = byte
    <3>1. sum = Word(crc_high, byte) /\ crc_high \in Bytes
      BY <1>14, <2>1 DEF CrcMatches, DecoderTypeOK
    <3> QED BY <3>1, WordOfBytes
  <2>2. ASSUME High(sum) = crc_high, Low(sum) = byte PROVE CrcMatches(byte)
    BY <1>14, <2>2, WordOfParts DEF CrcMatches
  <2> QED BY <2>1, <2>2
<1> QED BY <1>3, <1>10, <1>11, <1>21, <1>22

\* What is handed out was sent.
LEMMA FeedDelivers ==
  ASSUME DecoderTypeOK, StreamOK, NEW s, Reading(s), NEW byte \in Bytes, feed_byte(byte)
  PROVE  DeliveredAsSent'
<1> SUFFICES ASSUME delivered' # None
             PROVE  (LET wire == protocol_frame_encode(delivered)
                     IN  Len(wire) <= Len(stream) /\ LastBytes(Len(wire)) = wire)'
  BY DEF DeliveredAsSent
<1>1. state = "READ_CRC_LOW" /\ CrcMatches(byte) /\ delivered' = FrameRead
  BY HandedOut
<1>2. PICK n, t : n = Len(s) + 1 /\ t = Append(s, byte)
  OBVIOUS
<1>3. LastBytes(n)' = t /\ n <= Len(stream')
  BY <1>2, FeedLast
<1>4. Len(t) = n
  <2>1. s \in Seq(Bytes)
    BY HeldBasics DEF Reading
  <2> QED BY <1>2, <2>1, Longer
<1>5. PICK frame : frame = FrameRead
  OBVIOUS
<1>6. protocol_frame_encode(frame) = t
  BY <1>1, <1>2, <1>3, <1>5, FeedComplete
<1>7. protocol_frame_encode(delivered)' = t
  <2>1. delivered' = frame
    BY <1>1, <1>5
  <2>2. protocol_frame_encode(delivered)' = protocol_frame_encode(frame)
    BY <2>1 DEF protocol_frame_encode, Covered, Crc, High, Low
  <2> QED BY <1>6, <2>2
<1>8. LastBytes(Len(protocol_frame_encode(delivered)))' = LastBytes(n)'
  BY <1>4, <1>7 DEF LastBytes
<1> QED BY <1>3, <1>4, <1>7, <1>8

\* The bytes that a frame's encoding has in any case.
LEMMA FrameBytes ==
  ASSUME NEW n \in Nat, n >= 10, NEW t \in Seq(Bytes), Len(t) = n,
         NEW frame,
         frame = [type |-> t[4], sequence |-> Word(t[5], t[6]), payload |-> SubSeq(t, 9, n - 2)],
         protocol_frame_encode(frame) = t
  PROVE  t[1] = Magic0 /\ t[2] = Magic1 /\ t[3] = Version /\ Word(t[7], t[8]) = n - 10
<1>1. \A i \in 1 .. n : t[i] \in Bytes
  OBVIOUS
<1>2. t[4] \in Bytes /\ t[5] \in Bytes /\ t[6] \in Bytes
  <2>1. 4 \in 1 .. n /\ 5 \in 1 .. n /\ 6 \in 1 .. n
    OBVIOUS
  <2> QED BY <1>1, <2>1
<1>3. PICK p, m : p = SubSeq(t, 9, m) /\ m = n - 2
  OBVIOUS
<1>4. p \in Seq(Bytes) /\ Len(p) = n - 10 /\ Len(p) \in Nat
  <2>1. m \in Nat /\ m <= Len(t) /\ 9 <= m + 1 /\ m + 1 - 9 = n - 10
    BY <1>3
  <2>2. p \in Seq(Bytes) /\ Len(p) = m + 1 - 9
    BY <1>3, <2>1, Part
  <2> QED BY <2>1, <2>2
<1>5. /\ frame.type = t[4] /\ frame.sequence = Word(t[5], t[6]) /\ frame.payload = p
  BY <1>3
<1>6. frame.type \in Bytes /\ frame.sequence \in Words /\ frame.payload \in Seq(Bytes)
  BY <1>2, <1>4, <1>5, WordOfBytes
<1>7. PICK c, sum : c = Covered(frame) /\ sum = Crc(c)
  OBVIOUS
<1>8. /\ Len(c) = Len(frame.payload) + 6 /\ c[1] = Version
      /\ c[5] = High(Len(frame.payload)) /\ c[6] = Low(Len(frame.payload))
  BY <1>6, <1>7, CoveredBytes
<1>9. Len(c) = Len(p) + 6 /\ c[1] = Version /\ c[5] = High(Len(p)) /\ c[6] = Low(Len(p))
  BY <1>5, <1>8
<1>10. Enclosed(t, c, sum)
  BY <1>6, <1>7, EncodedBytes, Zenon
<1>11. /\ t[1] = Magic0 /\ t[2] = Magic1
       /\ \A i \in 1 .. Len(c) : t[2 + i] = c[i]
  BY <1>10 DEF Enclosed
<1>12. t[3] = c[1] /\ t[7] = c[5] /\ t[8] = c[6]
  <2>1. /\ 1 \in 1 .. Len(c) /\ 5 \in 1 .. Len(c) /\ 6 \in 1 .. Len(c)
        /\ 2 + 1 = 3 /\ 2 + 5 = 7 /\ 2 + 6 = 8
    BY <1>4, <1>9
  <2> QED BY <1>11, <2>1
<1>13. Word(t[7], t[8]) = Len(p)
  BY <1>4, <1>9, <1>12, WordOfParts
<1> QED BY <1>4, <1>9, <1>11, <1>12, <1>13

\* What was sent is handed out.
LEMMA FeedMissesNothing ==
  ASSUME DecoderTypeOK, StreamOK, NEW s, Reading(s), NEW byte \in Bytes, feed_byte(byte)
  PROVE  NothingMissed'
<1>1. Held(s) /\ Latest(s) /\ Tracked(s)
  BY DEF Reading
<1>2. /\ stream' \in Seq([byte : Bytes, searching : BOOLEAN])
      /\ Len(stream') \in Nat /\ Len(stream) \in Nat
      /\ \A k \in 2 .. Len(stream') : k - 1 <= Len(stream) /\ Back(k)' = Back(k - 1)
      /\ MaxPayload \in Nat /\ MaxWire = 10 + MaxPayload
  <2>1. /\ stream' \in Seq([byte : Bytes, searching : BOOLEAN])
        /\ Len(stream') \in Nat
        /\ \A k \in 2 .. Len(stream') : k - 1 <= Len(stream) /\ Back(k)' = Back(k - 1)
    BY <1>1, FeedStream
  <2>2. Len(stream) \in Nat
    BY DEF StreamOK
  <2>3. MaxPayload \in Nat /\ MaxWire = 10 + MaxPayload
    BY DecoderAssumption DEF MaxWire, Overhead
  <2> QED BY <2>1, <2>2, <2>3
<1> SUFFICES ASSUME NEW n \in 10 .. MaxWire, n <= Len(stream'),
                    stream'[Len(stream') - n + 1].searching,
                    protocol_frame_encode(FrameIn(n)') = LastBytes(n)'
             PROVE  delivered' = FrameIn(n)'
  <2> SUFFICES ASSUME NEW n \in Overhead .. MaxWire,
                      (/\ n <= Len(stream)
                       /\ stream[Len(stream) - n + 1].searching
                       /\ protocol_frame_encode(FrameIn(n)) = LastBytes(n))'
               PROVE  (delivered = FrameIn(n))'
    BY DEF NothingMissed, MaxWire, Overhead
  <2>1. protocol_frame_encode(FrameIn(n))' = protocol_frame_encode(FrameIn(n)')
    BY DEF protocol_frame_encode, Covered, Crc, High, Low
  <2>2. n \in 10 .. MaxWire
    BY DEF Overhead
  <2> QED BY <2>1, <2>2
<1>3. n \in Nat /\ n >= 10 /\ n <= 10 + MaxPayload
  BY <1>2
<1>4. PICK t : t = LastBytes(n)'
  OBVIOUS
<1>5. t = [i \in 1 .. n |-> stream'[Len(stream') - n + i].byte]
  BY <1>4 DEF LastBytes
<1>6. ASSUME NEW i \in 1 .. n
      PROVE  t[i] = Back(n + 1 - i)'.byte /\ t[i] \in Bytes
  <2>1. /\ Len(stream') - n + i = Len(stream') + 1 - (n + 1 - i)
        /\ Len(stream') - n + i \in 1 .. Len(stream')
    BY <1>2, <1>3
  <2>2. t[i] = stream'[Len(stream') - n + i].byte
    BY <1>5
  <2>3. stream'[Len(stream') - n + i] = Back(n + 1 - i)'
    BY <2>1 DEF Back
  <2>4. stream'[Len(stream') - n + i] \in [byte : Bytes, searching : BOOLEAN]
    BY <1>2, <2>1, ElementOfSeq
  <2> QED BY <2>2, <2>3, <2>4
<1>7. t \in Seq(Bytes) /\ Len(t) = n
  <2>1. t \in [1 .. n -> Bytes]
    BY <1>5, <1>6
  <2> QED BY <1>3, <2>1
<1>8. t[1] = Magic0 /\ t[2] = Magic1 /\ t[3] = Version /\ Word(t[7], t[8]) = n - 10
  <2>1. PICK frame : frame = FrameIn(n)'
    OBVIOUS
  <2>2. frame = [type |-> t[4], sequence |-> Word(t[5], t[6]), payload |-> SubSeq(t, 9, n - 2)]
    BY <1>4, <2>1 DEF FrameIn, Word
  <2>3. protocol_frame_encode(frame) = t
    BY <1>4, <2>1
  <2> QED BY <1>3, <1>7, <2>2, <2>3, FrameBytes
<1>9. PICK k : k = n - 1
  OBVIOUS
<1>10. k \in 1 .. Len(stream) /\ k \in Nat /\ k >= 9 /\ n = k + 1
  <2>1. n \in 2 .. Len(stream')
    BY <1>2, <1>3
  <2>2. n - 1 <= Len(stream)
    BY <1>2, <2>1
  <2> QED BY <1>2, <1>3, <1>9, <2>2
<1>11. ASSUME NEW i \in 1 .. k PROVE t[i] = Back(k + 1 - i).byte
  <2>1. PICK j : j = n + 1 - i
    OBVIOUS
  <2>2. j \in 2 .. Len(stream') /\ j - 1 = k + 1 - i /\ i \in 1 .. n
    BY <1>2, <1>3, <1>10, <2>1
  <2>3. Back(j)' = Back(j - 1)
    BY <1>2, <2>2
  <2> QED BY <1>6, <2>1, <2>2, <2>3
<1>12. BeginsFrame(k)
  <2>1. Back(k).searching
    <3>1. Len(stream') - n + 1 = Len(stream') + 1 - n /\ n \in 2 .. Len(stream') /\ n - 1 = k
      BY <1>2, <1>3, <1>9
    <3>2. Back(n)' = Back(k)
      BY <1>2, <3>1
    <3> QED BY <3>1, <3>2 DEF Back
  <2>2. /\ 1 \in 1 .. k /\ 2 \in 1 .. k /\ 3 \in 1 .. k /\ 7 \in 1 .. k /\ 8 \in 1 .. k
        /\ k + 1 - 1 = k /\ k + 1 - 2 = k - 1 /\ k + 1 - 3 = k - 2
        /\ k + 1 - 7 = k - 6 /\ k + 1 - 8 = k - 7
    BY <1>10
  <2>3. /\ t[1] = Back(k).byte /\ t[2] = Back(k - 1).byte /\ t[3] = Back(k - 2).byte
        /\ t[7] = Back(k - 6).byte /\ t[8] = Back(k - 7).byte
    BY <1>11, <2>2
  <2>4. Word(Back(k - 6).byte, Back(k - 7).byte) = n - 10
    BY <1>8, <2>3
  <2>5. n - 10 <= MaxPayload /\ k < Overhead + (n - 10)
    BY <1>2, <1>3, <1>10 DEF Overhead
  <2>6. Back(k).byte = Magic0 /\ Back(k - 1).byte = Magic1 /\ Back(k - 2).byte = Version
    BY <1>8, <2>3
  <2> QED BY <2>1, <2>4, <2>5, <2>6, Zenon DEF BeginsFrame
<1>13. Len(s) = k
  BY <1>1, <1>10, <1>12 DEF Tracked
<1>14. state = "READ_CRC_LOW"
  <2>1. s[7] = t[7] /\ s[8] = t[8]
    <3>1. /\ 7 \in 1 .. k /\ 8 \in 1 .. k /\ k + 1 - 7 \in 1 .. Len(s) /\ k + 1 - 8 \in 1 .. Len(s)
          /\ Len(s) + 1 - (k + 1 - 7) = 7 /\ Len(s) + 1 - (k + 1 - 8) = 8
      BY <1>10, <1>13
    <3>2. s[7] = Back(k + 1 - 7).byte /\ s[8] = Back(k + 1 - 8).byte
      BY <1>1, <3>1 DEF Latest
    <3> QED BY <1>11, <3>1, <3>2
  <2>2. length = Word(s[7], s[8])
    BY <1>1, <1>10, <1>13 DEF Held, FieldsRead
  <2>3. length = n - 10 /\ Len(payload) \in Nat
    BY <1>1, <1>8, <2>1, <2>2, HeldBasics
  <2>4. Place(k)
    BY <1>1, <1>13 DEF Held
  <2> QED BY <1>10, <2>3, <2>4 DEF Place
<1>15. FrameIn(n)' = FrameRead
       /\ (CrcMatches(byte) <=> protocol_frame_encode(FrameRead) = LastBytes(n)')
  <2>1. n = Len(s) + 1
    BY <1>10, <1>13
  <2> QED BY <1>14, <2>1, FeedComplete
<1>16. CrcMatches(byte)
  BY <1>15
<1> QED BY <1>14, <1>15, <1>16 DEF feed_byte

(***************************************************************************)
(* The decoder                                                             *)
(***************************************************************************)

\* With nothing read and nothing on the line the invariant holds.
LEMMA FreshDecoder == DecoderInit => DecoderInv /\ DeliveredAsSent /\ NothingMissed
<1> SUFFICES ASSUME state = "WAIT_MAGIC_0", type = 0, sequence = 0, length = 0, payload = <<>>,
                    crc = InitialCrc, crc_high = 0, delivered = None, stream = <<>>
             PROVE  DecoderInv /\ DeliveredAsSent /\ NothingMissed
  BY DEF DecoderInit
<1>1. 0 \in Bytes /\ 0 \in Words /\ InitialCrc \in Words /\ MaxPayload \in Nat
  <2>1. ByteCount \in Nat /\ ByteCount >= 1
    BY DecoderAssumption
  <2>2. ByteCount * ByteCount \in Nat /\ ByteCount * ByteCount >= 1
    BY <2>1
  <2> QED BY <2>1, <2>2, DecoderAssumption DEF Bytes, Words
<1>2. /\ <<>> \in Seq(Bytes) /\ Len(<<>>) = 0
      /\ <<>> \in Seq([byte : Bytes, searching : BOOLEAN])
  OBVIOUS
<1>3. DecoderTypeOK
  BY <1>1, <1>2 DEF DecoderTypeOK
<1>4. StreamOK
  BY <1>1, <1>2 DEF StreamOK, MaxWire, Overhead
<1>5. SearchResumed
  BY <1>2 DEF SearchResumed, Searching
<1>6. Reading(<<>>)
  <2>1. Held(<<>>)
    BY <1>2 DEF Held, Place, FieldsRead
  <2> QED BY <1>2, <2>1 DEF Reading, Latest, Tracked
<1>7. DeliveredAsSent
  BY DEF DeliveredAsSent
<1>8. NothingMissed
  <2> SUFFICES ASSUME NEW n \in Overhead .. MaxWire PROVE ~(n <= Len(stream))
    BY DEF NothingMissed
  <2> QED BY <1>1, <1>2 DEF Overhead, MaxWire
<1> QED BY <1>3, <1>4, <1>5, <1>6, <1>7, <1>8 DEF DecoderInv

\* Every step keeps the invariant, and what is handed out is right after it.
LEMMA DecoderKeeps ==
  ASSUME DecoderInv, DeliveredAsSent, NothingMissed, [DecoderNext]_decoderVars
  PROVE  DecoderInv' /\ DeliveredAsSent' /\ NothingMissed'
<1>1. DecoderTypeOK /\ StreamOK /\ SearchResumed
  BY DEF DecoderInv
<1>2. PICK s : Reading(s)
  BY DEF DecoderInv
<1>3. ASSUME NEW byte \in Bytes, feed_byte(byte)
      PROVE  DecoderInv' /\ DeliveredAsSent' /\ NothingMissed'
  <2>1. Held(s)
    BY <1>2 DEF Reading
  <2>2. DecoderTypeOK'
    BY <1>1, <1>3, <2>1, FeedTypes
  <2>3. StreamOK'
    BY <1>1, <1>2, <1>3, FeedStreamOK
  <2>4. SearchResumed'
    BY <1>1, <1>2, <1>3, FeedResumes
  <2>5. \E u : Reading(u)'
    BY <1>1, <1>2, <1>3, FeedReading
  <2>6. DeliveredAsSent' /\ NothingMissed'
    BY <1>1, <1>2, <1>3, FeedDelivers, FeedMissesNothing
  <2>7. (\E u : Reading(u))'
    BY <2>5
  <2> QED BY <2>2, <2>3, <2>4, <2>6, <2>7 DEF DecoderInv
<1>4. CASE decoder_reset
  <2>1. /\ state' = "WAIT_MAGIC_0" /\ type' = 0 /\ sequence' = 0 /\ length' = 0
        /\ payload' = <<>> /\ crc' = InitialCrc /\ crc_high' = 0
        /\ delivered' = None /\ stream' = <<>>
    BY <1>4 DEF decoder_reset, Cleared
  <2>2. DecoderInit'
    BY <2>1 DEF DecoderInit
  <2> QED BY <2>2, FreshDecoder, PTL
<1>5. CASE UNCHANGED decoderVars
  <2>1. UNCHANGED <<state, type, sequence, length, payload, crc, crc_high, delivered, stream>>
    BY <1>5 DEF decoderVars, reading
  <2>2. DecoderTypeOK' /\ StreamOK'
    BY <1>1, <2>1 DEF DecoderTypeOK, StreamOK
  <2>3. SearchResumed'
    BY <1>1, <2>1 DEF SearchResumed, Searching
  <2>4. Held(s)' /\ Latest(s)' /\ Tracked(s)'
    <3>1. Held(s) /\ Latest(s) /\ Tracked(s)
      BY <1>2 DEF Reading
    <3>2. Latest(s)'
      BY <2>1, <3>1 DEF Latest, Back
    <3>3. Tracked(s)'
      BY <2>1, <3>1 DEF Tracked, BeginsFrame, Back, Word
    <3>4. Place(Len(s))' /\ FieldsRead(s)'
      BY <2>1, <3>1 DEF Held, Place, FieldsRead, Word
    <3>5. PICK covered : covered = CoveredPart(s)
      OBVIOUS
    <3>6. CoveredPart(s)' = covered
      BY <2>1, <3>5 DEF CoveredPart
    <3>7. Len(s) >= 2 => crc' = Crc(covered)
      BY <2>1, <3>1, <3>5 DEF Held
    <3>8. (Len(s) >= 2 => crc = Crc(CoveredPart(s)))'
      BY <3>6, <3>7 DEF Crc
    <3> QED BY <3>1, <3>2, <3>3, <3>4, <3>8 DEF Held
  <2>5. PICK frame : frame = delivered
    OBVIOUS
  <2>6. delivered' = frame
    BY <2>1, <2>5
  <2>7. protocol_frame_encode(delivered)' = protocol_frame_encode(frame)
    BY <2>6 DEF protocol_frame_encode, Covered, Crc, High, Low
  <2>8. ASSUME NEW n PROVE LastBytes(n)' = LastBytes(n)
    BY <2>1 DEF LastBytes
  <2>9. DeliveredAsSent'
    <3> SUFFICES ASSUME delivered' # None
                 PROVE  (LET wire == protocol_frame_encode(delivered)
                         IN  Len(wire) <= Len(stream) /\ LastBytes(Len(wire)) = wire)'
      BY DEF DeliveredAsSent
    <3>1. PICK wire : wire = protocol_frame_encode(frame)
      OBVIOUS
    <3>2. Len(wire) <= Len(stream') /\ LastBytes(Len(wire)) = wire
      BY <2>1, <2>5, <3>1 DEF DeliveredAsSent
    <3>3. protocol_frame_encode(delivered)' = wire
      BY <2>7, <3>1
    <3>4. LastBytes(Len(protocol_frame_encode(delivered)))' = LastBytes(Len(wire))'
      BY <3>3 DEF LastBytes
    <3>5. LastBytes(Len(wire))' = wire
      BY <2>8, <3>2
    <3> QED BY <3>2, <3>3, <3>4, <3>5
  <2>10. NothingMissed'
    <3> SUFFICES ASSUME NEW n \in Overhead .. MaxWire,
                        (/\ n <= Len(stream)
                         /\ stream[Len(stream) - n + 1].searching
                         /\ protocol_frame_encode(FrameIn(n)) = LastBytes(n))'
                 PROVE  (delivered = FrameIn(n))'
      BY DEF NothingMissed, MaxWire, Overhead
    <3>1. PICK other : other = FrameIn(n)
      OBVIOUS
    <3>2. FrameIn(n)' = other
      BY <2>1, <3>1 DEF FrameIn, LastBytes, Word
    <3>3. protocol_frame_encode(FrameIn(n))' = protocol_frame_encode(other)
      <4>1. protocol_frame_encode(FrameIn(n))' = protocol_frame_encode(FrameIn(n)')
        BY DEF protocol_frame_encode, Covered, Crc, High, Low
      <4> QED BY <3>2, <4>1
    <3>4. delivered = FrameIn(n)
      <4>1. n <= Len(stream) /\ stream[Len(stream) - n + 1].searching
        BY <2>1
      <4>2. LastBytes(n)' = LastBytes(n)
        BY <2>8
      <4>3. protocol_frame_encode(FrameIn(n)) = LastBytes(n)
        BY <3>1, <3>3, <4>2
      <4> QED BY <4>1, <4>3, Zenon DEF NothingMissed
    <3> QED BY <2>1, <3>1, <3>2, <3>4
  <2> QED BY <2>2, <2>3, <2>4, <2>9, <2>10 DEF DecoderInv, Reading
<1> QED BY <1>3, <1>4, <1>5 DEF DecoderNext

\* The decoder's invariant holds in every state.
LEMMA DecoderInvariant == DecoderSpec => [](DecoderInv /\ DeliveredAsSent /\ NothingMissed)
<1> DEFINE Inv == DecoderInv /\ DeliveredAsSent /\ NothingMissed
<1>1. DecoderInit => Inv
  BY FreshDecoder
<1>2. Inv /\ [DecoderNext]_decoderVars => Inv'
  BY DecoderKeeps
<1> QED BY <1>1, <1>2, PTL DEF DecoderSpec

\* Whatever bytes come over the line and whenever the receiver loses some, what the
\* frame decoder hands out is what was sent, what was sent while it searched is handed
\* out, and the payload stays within its array: for every size, byte range and checksum.
THEOREM FramesFaithful == DecoderSpec => []FramesAsSent
<1>1. DecoderInv /\ DeliveredAsSent /\ NothingMissed => FramesAsSent
  BY DEF DecoderInv, FramesAsSent
<1> QED BY <1>1, DecoderInvariant, PTL

\* After a frame that is given up, the search goes on where the last two bytes say.
THEOREM SearchAlwaysResumed == DecoderSpec => []SearchResumed
<1>1. DecoderInv /\ DeliveredAsSent /\ NothingMissed => SearchResumed
  BY DEF DecoderInv
<1> QED BY <1>1, DecoderInvariant, PTL

(***************************************************************************)
(* The sender                                                              *)
(***************************************************************************)

\* Rounding up to whole milliseconds shortens nothing.
LEMMA CeilMsUp ==
  ASSUME NEW ticks \in Nat
  PROVE  CeilMs(ticks) \in Nat /\ CeilMs(ticks) >= ticks
<1>1. Millisecond \in Nat /\ Millisecond > 0
  BY SenderAssumption
<1>2. PICK x, q, r : x = ticks + Millisecond - 1 /\ q = x \div Millisecond /\ r = x % Millisecond
  OBVIOUS
<1>3. x \in Nat
  BY <1>1, <1>2
<1>4. q \in Int /\ r \in Nat /\ r <= Millisecond - 1 /\ x = Millisecond * q + r
  BY <1>1, <1>2, <1>3
<1>5. q * Millisecond = Millisecond * q /\ Millisecond * q \in Int
  BY <1>1, <1>4
<1>6. q * Millisecond >= ticks
  BY <1>1, <1>2, <1>4, <1>5
<1>7. CeilMs(ticks) = q * Millisecond
  BY <1>2 DEF CeilMs
<1> QED BY <1>5, <1>6, <1>7

\* The deadline of wait, computed from the time that is left and a clock read later, is
\* never before the deadline of the call.
SenderInv ==
  /\ elapsed \in Nat /\ timeout_ms \in Nat /\ wait_end \in Nat
  /\ at = "wait" => elapsed + timeout_ms >= SendTimeout
  /\ at = "poll" => wait_end >= SendTimeout

\* Every step keeps it.
LEMMA SenderKeeps ==
  ASSUME SenderInv, [SenderNext]_senderVars
  PROVE  SenderInv'
<1>1. SendTimeout \in Nat
  BY SenderAssumption
<1>2. CASE Iterate
  <2>1. CASE UNCHANGED timeout_ms /\ at' \in {"sent", "failed"}
    BY <1>2, <2>1 DEF Iterate, SenderInv
  <2>2. CASE elapsed < SendTimeout /\ at' = "wait" /\ timeout_ms' = CeilMs(SendTimeout - elapsed)
    <3>1. PICK left : left = SendTimeout - elapsed
      OBVIOUS
    <3>2. elapsed \in Nat /\ left \in Nat /\ elapsed + left = SendTimeout
      <4>1. elapsed \in Nat /\ elapsed < SendTimeout
        BY <2>2 DEF SenderInv
      <4> QED BY <1>1, <3>1, <4>1
    <3>3. timeout_ms' \in Nat /\ timeout_ms' >= left
      <4>1. timeout_ms' = CeilMs(left) /\ left \in Nat
        BY <2>2, <3>1, <3>2
      <4> QED BY <4>1, CeilMsUp
    <3>4. elapsed + timeout_ms' >= SendTimeout
      <4>1. PICK e, t : e = elapsed /\ t = timeout_ms'
        OBVIOUS
      <4>2. e \in Nat /\ t \in Nat /\ t >= left /\ left \in Nat /\ e + left = SendTimeout
        BY <3>2, <3>3, <4>1
      <4>3. e + t >= e + left
        BY <4>2
      <4> QED BY <4>1, <4>2, <4>3
    <3> QED BY <1>2, <2>2, <3>3, <3>4 DEF Iterate, SenderInv
  <2> QED BY <1>2, <2>1, <2>2 DEF Iterate
<1>3. CASE WaitEnter
  BY <1>3 DEF WaitEnter, SenderInv
<1>4. CASE WaitExpired \/ PollReturns \/ WriteFails
  BY <1>4 DEF WaitExpired, PollReturns, WriteFails, SenderInv
<1>5. CASE \E n \in 0 .. OutputSize : WriteSome(n)
  BY <1>5 DEF WriteSome, SenderInv
<1>6. CASE Call
  BY <1>6 DEF Call, SenderInv
<1>7. CASE Drain \/ InputArrives \/ PortBreaks \/ UNCHANGED senderVars
  BY <1>7 DEF Drain, InputArrives, PortBreaks, senderVars, call, SenderInv
<1>8. CASE Tick
  <2>1. elapsed' = elapsed + 1 /\ UNCHANGED <<at, timeout_ms, wait_end>>
    BY <1>8 DEF Tick
  <2> QED BY <1>1, <2>1 DEF SenderInv
<1> QED BY <1>2, <1>3, <1>4, <1>5, <1>6, <1>7, <1>8 DEF SenderNext, Sender

\* A call of send_protocol_frame fails before its timeout only for a broken port, or for
\* input that waits while the output buffer is full: however long the process stalls
\* between the clock readings, for every timeout and resolution of the clock.
THEOREM EarlyFailureJustified == SenderSpec => FailsEarlyOnlyFor
<1>1. SenderInit => SenderInv
  BY DEF SenderInit, SenderInv
<1>2. SenderInv /\ [SenderNext]_senderVars => SenderInv'
  BY SenderKeeps
<1>3. SenderInv /\ [SenderNext]_senderVars
        => [at # "failed" /\ at' = "failed" /\ elapsed < SendTimeout =>
              broken \/ (readable /\ room = 0)]_senderVars
  <2> SUFFICES ASSUME SenderInv, SenderNext, at # "failed", at' = "failed", elapsed < SendTimeout
               PROVE  broken \/ (readable /\ room = 0)
    OBVIOUS
  <2>1. SendTimeout \in Nat /\ elapsed \in Nat /\ wait_end \in Nat
        /\ (at = "poll" => wait_end >= SendTimeout)
    BY SenderAssumption DEF SenderInv
  <2>2. CASE Iterate
    BY <2>1, <2>2 DEF Iterate
  <2>3. CASE WaitEnter
    BY <2>3 DEF WaitEnter
  <2>4. CASE WaitExpired
    BY <2>1, <2>4 DEF WaitExpired
  <2>5. CASE PollReturns
    BY <2>5 DEF PollReturns, PollEvents
  <2>6. CASE WriteFails
    BY <2>6 DEF WriteFails
  <2>7. CASE \E n \in 0 .. OutputSize : WriteSome(n)
    BY <2>7 DEF WriteSome
  <2>8. CASE Call \/ Drain \/ InputArrives \/ PortBreaks \/ Tick
    BY <2>8 DEF Call, Drain, InputArrives, PortBreaks, Tick, call
  <2> QED BY <2>2, <2>3, <2>4, <2>5, <2>6, <2>7, <2>8 DEF SenderNext, Sender
<1> QED BY <1>1, <1>2, <1>3, PTL DEF SenderSpec, FailsEarlyOnlyFor

=============================================================================
