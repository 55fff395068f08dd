----------------------- MODULE MQTTPacketReader_proofs -----------------------
(***************************************************************************)
(* DeliveredInOrder for packets of any number and any contents whose       *)
(* length the reader measures right, for a buffer of any size and however  *)
(* the stream is cut.  At any time the reader has done with k packets and  *)
(* stands in the next one.                                                 *)
(***************************************************************************)
EXTENDS MQTTPacketReader, FiniteSetTheorems, SequenceTheorems, TLAPS

-----------------------------------------------------------------------------
(* Where the i-th packet starts, the next one to be sent included.         *)
StartIn(ss, end, i) == IF i <= Len(ss) THEN ss[i] ELSE end

Start(i) == StartIn(starts, Len(stream), i)

StreamOK ==
    /\ sent \in Seq(Packets) /\ starts \in Seq(Nat) /\ stream \in Seq(Byte)
    /\ Len(starts) = Len(sent)
    /\ \A i \in 1 .. Len(sent) :
          /\ Start(i + 1) = Start(i) + Len(sent[i])
          /\ Start(i + 1) <= Len(stream)
          /\ \A j \in 1 .. Len(sent[i]) : stream[Start(i) + j] = sent[i][j]

ReaderOK ==
    /\ readPos \in Nat /\ arrived \in Nat /\ availableToRead \in Nat
    /\ readPos <= arrived /\ arrived <= Len(stream)
    /\ state \in {"READING_HEADER_START", "READING_LENGTH", "READING_PAYLOAD",
                  "SKIPPING_PAYLOAD", "IN_ERROR"}
    /\ buffer \in Seq(Byte)
    /\ remainingLength \in Nat
    /\ delivered \in Seq(Seq(Byte))

(* buf holds the bytes of p up to pos; p starts at start.                  *)
Holds(buf, p, start, pos) ==
    /\ Len(buf) <= Len(p)
    /\ \A j \in 1 .. Len(buf) : buf[j] = p[j]
    /\ pos = start + Len(buf)

(* The reader has done with k packets.                                     *)
StandsAfter(k) ==
    /\ Len(delivered) = Fitting(sent, k)
    /\ state # "READING_HEADER_START" => k < Len(sent)
    /\ state = "READING_HEADER_START" => buffer = <<>> /\ readPos = Start(k + 1)
    /\ state = "READING_LENGTH" =>
          /\ Holds(buffer, sent[k + 1], Start(k + 1), readPos)
          /\ Len(buffer) \in 1 .. MaxHeaderSize - 1
          /\ \A j \in MinHeaderSize .. Len(buffer) : Continues(buffer[j])
    /\ state = "READING_PAYLOAD" =>
          /\ Holds(buffer, sent[k + 1], Start(k + 1), readPos)
          /\ totalLength = Len(sent[k + 1])
          /\ Fits(sent[k + 1])
    /\ state = "SKIPPING_PAYLOAD" =>
          /\ readPos + remainingLength = Start(k + 2)
          /\ ~Fits(sent[k + 1])

IInv ==
    /\ StreamOK
    /\ ReaderOK
    /\ \E k \in 0 .. Len(sent) : StandsAfter(k)
    /\ DeliveredInOrder

-----------------------------------------------------------------------------
LEMMA Constants ==
    /\ LengthBase \in Nat /\ LengthBase >= 2
    /\ MaxPacketSize \in Nat /\ MaxPacketSize >= 5
    /\ Packets \subseteq Seq(Byte)
    /\ MinHeaderSize = 2 /\ MaxHeaderSize = 5
BY ReaderAssumption DEF MinHeaderSize, MaxHeaderSize

(* Fitting counts one packet after the other.                              *)
LEMMA FittingType ==
    ASSUME NEW ps, NEW i \in Nat
    PROVE  /\ IsFiniteSet({j \in 1 .. i : Fits(ps[j])})
           /\ Fitting(ps, i) \in Nat
<1>1. IsFiniteSet(1 .. i)
  BY FS_Interval
<1>2. IsFiniteSet({j \in 1 .. i : Fits(ps[j])})
  BY <1>1, FS_Subset
<1> QED
  BY <1>2, FS_CardinalityType DEF Fitting

LEMMA FittingStep ==
    ASSUME NEW ps, NEW i \in Nat
    PROVE  Fitting(ps, i + 1) = Fitting(ps, i) + (IF Fits(ps[i + 1]) THEN 1 ELSE 0)
<1> DEFINE S == {j \in 1 .. i : Fits(ps[j])}
           T == {j \in 1 .. i + 1 : Fits(ps[j])}
<1>1. IsFiniteSet(S) /\ Cardinality(S) \in Nat
  BY FittingType DEF Fitting
<1>2. i + 1 \notin S
  OBVIOUS
<1>3. CASE Fits(ps[i + 1])
  <2>1. T = S \cup {i + 1}
    BY <1>3
  <2> HIDE DEF S, T
  <2>2. Cardinality(T) = Cardinality(S) + 1
    BY <1>1, <1>2, <2>1, FS_AddElement
  <2> QED
    BY <1>3, <2>2 DEF Fitting, S, T
<1>4. CASE ~Fits(ps[i + 1])
  <2>1. T = S
    BY <1>4
  <2> QED
    BY <1>1, <1>4, <2>1 DEF Fitting
<1> QED
  BY <1>3, <1>4

LEMMA FittingMonotonic ==
    ASSUME NEW ps, NEW i \in Nat, NEW j \in Nat, i <= j
    PROVE  Fitting(ps, i) <= Fitting(ps, j)
<1> DEFINE S == {k \in 1 .. i : Fits(ps[k])}
           T == {k \in 1 .. j : Fits(ps[k])}
<1>1. S \in SUBSET T
  OBVIOUS
<1>2. IsFiniteSet(T)
  BY FittingType
<1> HIDE DEF S, T
<1>3. Cardinality(S) <= Cardinality(T)
  BY <1>1, <1>2, FS_Subset
<1> QED
  BY <1>3 DEF Fitting, S, T

(* The number of a packet that fits is its own.                            *)
LEMMA FittingStrict ==
    ASSUME NEW ps, NEW i \in Nat, NEW j \in Nat, i < j, Fits(ps[j])
    PROVE  Fitting(ps, i) < Fitting(ps, j)
<1>1. j - 1 \in Nat /\ i <= j - 1 /\ (j - 1) + 1 = j
  OBVIOUS
<1>2. Fitting(ps, j) = Fitting(ps, j - 1) + 1
  BY <1>1, FittingStep
<1>3. Fitting(ps, i) <= Fitting(ps, j - 1)
  BY <1>1, FittingMonotonic
<1>4. Fitting(ps, i) \in Nat /\ Fitting(ps, j - 1) \in Nat
  BY <1>1, FittingType
<1> QED
  BY <1>2, <1>3, <1>4

LEMMA FittingSame ==
    ASSUME NEW ps, NEW qs, NEW i \in Nat, \A j \in 1 .. i : ps[j] = qs[j]
    PROVE  Fitting(ps, i) = Fitting(qs, i)
<1>1. {j \in 1 .. i : Fits(ps[j])} = {j \in 1 .. i : Fits(qs[j])}
  OBVIOUS
<1> QED
  BY <1>1 DEF Fitting

(* A packet has one header.                                                *)
LEMMA HeaderStarts ==
    ASSUME NEW p, NEW h, HeaderIs(p, h), NEW n \in Nat, n >= 1, n < MaxHeaderSize,
           \A j \in MinHeaderSize .. n : Continues(p[j])
    PROVE  n < h
BY Constants DEF HeaderIs

-----------------------------------------------------------------------------
(* What the reader is given is the stream where it stands.                 *)
LEMMA IncomingIs ==
    ASSUME StreamOK, ReaderOK, NEW n \in Nat, NEW got, got = Incoming(n)
    PROVE  /\ got \in Seq(Byte)
           /\ Len(got) \in 0 .. n
           /\ Len(got) = Smaller(n, Unread)
           /\ readPos + Len(got) <= arrived
           /\ \A j \in 1 .. Len(got) : got[j] = stream[readPos + j]
<1>1. Unread \in Nat /\ readPos \in Nat /\ readPos + Unread <= Len(stream)
  BY DEF ReaderOK, Unread
<1>2. PICK m : m = Smaller(n, Unread)
  OBVIOUS
<1>3. m \in Nat /\ m <= n /\ m <= Unread
  BY <1>1, <1>2 DEF Smaller
<1>4. got = SubSeq(stream, readPos + 1, readPos + m)
  BY <1>2 DEF Incoming
<1>5. stream \in Seq(Byte)
  BY DEF StreamOK
<1>6. \A i \in readPos + 1 .. readPos + m : stream[i] \in Byte
  BY <1>1, <1>3, <1>5
<1>7. /\ got \in Seq(Byte) /\ Len(got) = m
      /\ \A j \in 1 .. m : got[j] = stream[readPos + j]
  BY <1>1, <1>3, <1>4, <1>6, SubSeqProperties
<1> QED
  BY <1>1, <1>2, <1>3, <1>7 DEF Unread, ReaderOK

(* Bytes of the packet the reader stands in go on with what it holds.      *)
LEMMA HoldsMore ==
    ASSUME StreamOK, ReaderOK, NEW k \in 0 .. Len(sent) - 1,
           Holds(buffer, sent[k + 1], Start(k + 1), readPos),
           NEW n \in Nat, n <= Len(sent[k + 1]) - Len(buffer)
    PROVE  /\ buffer \o Incoming(n) \in Seq(Byte)
           /\ Len(buffer \o Incoming(n)) = Len(buffer) + Len(Incoming(n))
           /\ \A j \in 1 .. Len(buffer) : (buffer \o Incoming(n))[j] = buffer[j]
           /\ Holds(buffer \o Incoming(n), sent[k + 1], Start(k + 1),
                    readPos + Len(Incoming(n)))
<1> SUFFICES ASSUME NEW p, p = sent[k + 1], NEW got, got = Incoming(n),
                    NEW buf, buf = buffer \o got
             PROVE  /\ buf \in Seq(Byte) /\ Len(buf) = Len(buffer) + Len(got)
                    /\ \A j \in 1 .. Len(buffer) : buf[j] = buffer[j]
                    /\ Holds(buf, p, Start(k + 1), readPos + Len(got))
  OBVIOUS
<1>1. /\ got \in Seq(Byte) /\ Len(got) \in 0 .. n
      /\ \A j \in 1 .. Len(got) : got[j] = stream[readPos + j]
  BY IncomingIs
<1>2. buffer \in Seq(Byte) /\ Len(buffer) \in Nat
  BY DEF ReaderOK
<1>3. p \in Seq(Byte) /\ Len(p) \in Nat
  BY Constants DEF StreamOK
<1>4. /\ buf \in Seq(Byte) /\ Len(buf) = Len(buffer) + Len(got)
      /\ \A i \in 1 .. Len(buffer) + Len(got) :
             buf[i] = IF i <= Len(buffer) THEN buffer[i] ELSE got[i - Len(buffer)]
  BY <1>1, <1>2, ConcatProperties
<1>5. Start(k + 1) \in Nat
  BY DEF Start, StartIn, StreamOK
<1>6. \A j \in 1 .. Len(p) : stream[Start(k + 1) + j] = p[j]
  BY DEF StreamOK
<1>7. /\ Len(buffer) <= Len(p) /\ readPos = Start(k + 1) + Len(buffer)
      /\ \A j \in 1 .. Len(buffer) : buffer[j] = p[j]
  BY DEF Holds
<1>8. ASSUME NEW j \in 1 .. Len(buf) PROVE buf[j] = p[j]
  <2>1. CASE j <= Len(buffer)
    BY <1>2, <1>4, <1>7, <2>1
  <2>2. CASE ~(j <= Len(buffer))
    <3>1. j - Len(buffer) \in 1 .. Len(got)
      BY <1>1, <1>2, <1>4, <2>2
    <3>2. buf[j] = stream[readPos + (j - Len(buffer))]
      BY <1>1, <1>4, <2>2, <3>1
    <3>3. readPos + (j - Len(buffer)) = Start(k + 1) + j
      BY <1>2, <1>5, <1>7
    <3> QED
      BY <1>1, <1>2, <1>3, <1>4, <1>6, <3>2, <3>3
  <2> QED
    BY <2>1, <2>2
<1>9. Len(buf) <= Len(p) /\ readPos + Len(got) = Start(k + 1) + Len(buf)
  BY <1>1, <1>2, <1>3, <1>4, <1>5, <1>7
<1>10. \A j \in 1 .. Len(buffer) : buf[j] = buffer[j]
  BY <1>1, <1>2, <1>4
<1> QED
  BY <1>4, <1>8, <1>9, <1>10 DEF Holds

-----------------------------------------------------------------------------
(* A length byte without the continuation bit is its digit.                *)
LEMMA Digit ==
    ASSUME NEW R \in Nat, NEW n \in Nat, n < R
    PROVE  n % R = n
BY SMT

(* One length byte is understood: for packets of less than 128 bytes, the  *)
(* header aside, ReaderDeliversInOrder holds without reservation.          *)
THEOREM ShortPacketUnderstood ==
    ASSUME NEW p \in Seq(Byte), Len(p) >= 2, p[2] < LengthBase, Len(p) = 2 + p[2]
    PROVE  Understood(p)
<1>1. p[2] \in Nat /\ p[2] % LengthBase = p[2] /\ ~Continues(p[2])
  <2>1. p[2] \in Byte
    OBVIOUS
  <2>2. p[2] \in Nat
    BY <2>1, Constants DEF Byte
  <2> QED
    BY <2>2, Constants, Digit DEF Continues
<1>2. PICK buf : buf = SubSeq(p, 1, 2)
  OBVIOUS
<1>3. Len(buf) = 2 /\ buf[2] = p[2]
  BY <1>2
<1>4. determineRemainingLength(buf) = p[2]
  BY <1>1, <1>3 DEF determineRemainingLength, LengthPart
<1>5. HeaderIs(p, 2)
  BY <1>1, Constants DEF HeaderIs
<1> QED
  BY <1>2, <1>4, <1>5, Constants DEF Understood

-----------------------------------------------------------------------------
(* The actions, one lemma each.  Only readPayload delivers, and only       *)
(* PeerSends changes what was sent.                                        *)
streamVars == <<sent, starts, stream>>

LEMMA PeerSendsIInv ==
    ASSUME IInv, NEW p \in Packets, PeerSends(p)
    PROVE  IInv'
<1>1. PICK k \in 0 .. Len(sent) : StandsAfter(k)
  BY DEF IInv
<1>2. /\ sent \in Seq(Packets) /\ Len(sent) \in Nat
      /\ starts \in Seq(Nat) /\ Len(starts) = Len(sent)
      /\ stream \in Seq(Byte) /\ Len(stream) \in Nat
      /\ p \in Seq(Byte) /\ Len(p) \in Nat
  BY Constants DEF IInv, StreamOK
<1>3. /\ sent' \in Seq(Packets) /\ Len(sent') = Len(sent) + 1
      /\ \A i \in 1 .. Len(sent) : sent'[i] = sent[i]
      /\ sent'[Len(sent) + 1] = p
  BY <1>2, AppendProperties DEF PeerSends
<1>4. /\ starts' \in Seq(Nat) /\ Len(starts') = Len(sent) + 1
      /\ \A i \in 1 .. Len(sent) : starts'[i] = starts[i]
      /\ starts'[Len(sent) + 1] = Len(stream)
  BY <1>2, AppendProperties DEF PeerSends
<1>5. /\ stream' \in Seq(Byte) /\ Len(stream') = Len(stream) + Len(p)
      /\ \A i \in 1 .. Len(stream) : stream'[i] = stream[i]
      /\ \A i \in 1 .. Len(p) : stream'[Len(stream) + i] = p[i]
  BY <1>2, ConcatProperties DEF PeerSends
<1> DEFINE NewStart(i) == StartIn(starts', Len(stream'), i)
<1>6. /\ \A i \in 1 .. Len(sent) + 1 : NewStart(i) = Start(i)
      /\ Start(Len(sent) + 1) = Len(stream)
      /\ NewStart(Len(sent) + 2) = Len(stream) + Len(p)
  BY <1>2, <1>4, <1>5 DEF Start, StartIn
<1> HIDE DEF NewStart
<1>7. StreamOK'
  <2>1. ASSUME NEW i \in 1 .. Len(sent')
        PROVE  /\ NewStart(i + 1) = NewStart(i) + Len(sent'[i])
               /\ NewStart(i + 1) <= Len(stream')
               /\ \A j \in 1 .. Len(sent'[i]) : stream'[NewStart(i) + j] = sent'[i][j]
    <3>1. CASE i = Len(sent) + 1
      <4>1. i \in 1 .. Len(sent) + 1 /\ i + 1 = Len(sent) + 2
        BY <1>2, <3>1
      <4>2. NewStart(i) = Len(stream) /\ NewStart(i + 1) = Len(stream) + Len(p)
        BY <1>6, <3>1, <4>1
      <4>3. sent'[i] = p
        BY <1>3, <3>1
      <4> QED
        BY <1>2, <1>5, <4>2, <4>3
    <3>2. CASE i # Len(sent) + 1
      <4>1. i \in 1 .. Len(sent) /\ i + 1 \in 1 .. Len(sent) + 1
            /\ i \in 1 .. Len(sent) + 1
        BY <1>2, <1>3, <3>2
      <4>2. NewStart(i) = Start(i) /\ NewStart(i + 1) = Start(i + 1) /\ sent'[i] = sent[i]
        BY <1>3, <1>6, <4>1
      <4>3. /\ Start(i + 1) = Start(i) + Len(sent[i])
            /\ Start(i + 1) <= Len(stream)
            /\ \A j \in 1 .. Len(sent[i]) : stream[Start(i) + j] = sent[i][j]
        BY <4>1 DEF IInv, StreamOK
      <4>4. Start(i) \in Nat /\ Len(sent[i]) \in Nat
        BY <1>2, <4>1, Constants DEF Start, StartIn
      <4>5. \A j \in 1 .. Len(sent[i]) : Start(i) + j \in 1 .. Len(stream)
        BY <1>2, <4>3, <4>4
      <4>6. Start(i + 1) <= Len(stream')
        BY <1>2, <1>5, <4>3, <4>4
      <4>7. \A j \in 1 .. Len(sent[i]) : stream'[Start(i) + j] = sent[i][j]
        BY <1>5, <4>3, <4>5
      <4> QED
        BY <4>2, <4>3, <4>6, <4>7
    <3> QED
      BY <3>1, <3>2
  <2> QED
    BY <1>3, <1>4, <1>5, <2>1 DEF StreamOK, Start, NewStart
<1>8. ReaderOK'
  <2>1. arrived \in Nat /\ arrived <= Len(stream')
    BY <1>2, <1>5 DEF IInv, ReaderOK
  <2> QED
    BY <2>1 DEF IInv, ReaderOK, PeerSends, lengthVars
<1>9. \A i \in 0 .. Len(sent) : Fitting(sent', i) = Fitting(sent, i)
  BY <1>2, <1>3, FittingSame
<1>10. StandsAfter(k)'
  <2>1. Fitting(sent', k) = Fitting(sent, k) /\ NewStart(k + 1) = Start(k + 1)
    BY <1>2, <1>6, <1>9
  <2>2. /\ readPos' = readPos /\ state' = state /\ buffer' = buffer
        /\ remainingLength' = remainingLength /\ totalLength' = totalLength
        /\ delivered' = delivered
    BY DEF PeerSends, lengthVars
  <2>3. CASE k < Len(sent)
    <3>1. sent'[k + 1] = sent[k + 1] /\ NewStart(k + 2) = Start(k + 2)
      BY <1>2, <1>3, <1>6, <2>3
    <3>2. k < Len(sent')
      BY <1>2, <1>3, <2>3
    <3> QED
      BY <1>1, <2>1, <2>2, <3>1, <3>2 DEF StandsAfter, Start, NewStart
  <2>4. CASE ~(k < Len(sent))
    <3>1. state = "READING_HEADER_START"
      BY <1>1, <2>4 DEF StandsAfter
    <3> QED
      BY <1>1, <2>1, <2>2, <3>1 DEF StandsAfter, Start, NewStart
  <2> QED
    BY <2>3, <2>4
<1>11. DeliveredInOrder'
  <2>1. /\ Len(delivered) = Fitting(sent, k) /\ delivered' = delivered
        /\ Len(delivered) <= Fitting(sent, Len(sent))
    BY <1>1 DEF IInv, DeliveredInOrder, StandsAfter, PeerSends
  <2>2. Fitting(sent', Len(sent) + 1) =
            Fitting(sent, Len(sent)) + (IF Fits(p) THEN 1 ELSE 0)
    <3>1. PICK n \in Nat : n = Len(sent)
      BY <1>2
    <3>2. Fitting(sent', n + 1) = Fitting(sent', n) + (IF Fits(sent'[n + 1]) THEN 1 ELSE 0)
      BY FittingStep
    <3> QED
      BY <1>3, <1>9, <3>1, <3>2
  <2>3. Fitting(sent, Len(sent)) \in Nat /\ Fitting(sent, k) \in Nat
    <3>1. Len(sent) \in Nat /\ k \in Nat
      BY <1>2
    <3> QED
      BY <3>1, FittingType
  <2>4. Len(delivered') <= Fitting(sent', Len(sent'))
    BY <1>3, <2>1, <2>2, <2>3
  <2>5. ASSUME NEW i \in 1 .. Len(sent'), Fits(sent'[i]),
               Fitting(sent', i) <= Len(delivered')
        PROVE  delivered'[Fitting(sent', i)] = sent'[i]
    <3>1. i # Len(sent) + 1
      BY <1>3, <2>1, <2>2, <2>3, <2>5
    <3>2. i \in 1 .. Len(sent) /\ i \in 0 .. Len(sent)
      BY <1>2, <1>3, <3>1
    <3>3. Fitting(sent', i) = Fitting(sent, i) /\ sent'[i] = sent[i]
      BY <1>3, <1>9, <3>2
    <3> QED
      BY <2>1, <2>5, <3>2, <3>3 DEF IInv, DeliveredInOrder
  <2> QED
    BY <2>4, <2>5 DEF DeliveredInOrder
<1>12. k \in 0 .. Len(sent')
  BY <1>2, <1>3
<1> QED
  BY <1>7, <1>8, <1>10, <1>11, <1>12 DEF IInv

(* The reader does not change the stream.                                  *)
LEMMA StreamKept ==
    ASSUME StreamOK, UNCHANGED streamVars
    PROVE  /\ StreamOK'
           /\ \A i : Start(i)' = Start(i)
BY DEF StreamOK, Start, streamVars

LEMMA StartType ==
    ASSUME StreamOK
    PROVE  \A i \in Nat \ {0} : Start(i) \in Nat
BY DEF StreamOK, Start, StartIn

LEMMA InOrderKept ==
    ASSUME DeliveredInOrder, UNCHANGED <<sent, delivered>>
    PROVE  DeliveredInOrder'
BY DEF DeliveredInOrder

LEMMA ArrivesIInv ==
    ASSUME IInv, NEW n \in 1 .. Len(stream) - arrived, Arrives(n)
    PROVE  IInv'
<1>1. UNCHANGED streamVars /\ UNCHANGED <<sent, delivered>>
  BY DEF Arrives, streamVars
<1>2. ReaderOK'
  BY DEF IInv, StreamOK, ReaderOK, Arrives, lengthVars
<1>3. PICK k \in 0 .. Len(sent) : StandsAfter(k)
  BY DEF IInv
<1>4. k \in 0 .. Len(sent') /\ StandsAfter(k)'
  BY <1>3 DEF StandsAfter, Start, Arrives, lengthVars
<1> QED
  BY <1>1, <1>2, <1>4, StreamKept, InOrderKept DEF IInv

LEMMA ReadInputIInv ==
    ASSUME IInv, ReadInput \/ inError
    PROVE  IInv'
<1>1. UNCHANGED streamVars /\ UNCHANGED <<sent, delivered>>
  BY DEF ReadInput, inError, InState, peerVars, streamVars
<1>2. ReaderOK'
  BY DEF IInv, ReaderOK, ReadInput, inError, InState, peerVars, lengthVars, Unread
<1>3. PICK k \in 0 .. Len(sent) : StandsAfter(k)
  BY DEF IInv
<1>4. k \in 0 .. Len(sent') /\ StandsAfter(k)'
  BY <1>3 DEF StandsAfter, Start, ReadInput, inError, InState, peerVars, lengthVars
<1> QED
  BY <1>1, <1>2, <1>4, StreamKept, InOrderKept DEF IInv

(* The packet the reader stands in starts where it has come to.            *)
LEMMA HeaderStartIInv ==
    ASSUME Readable, IInv, readHeaderStart
    PROVE  IInv'
<1>1. UNCHANGED streamVars /\ UNCHANGED <<sent, delivered>>
  BY DEF readHeaderStart, InState, peerVars, streamVars
<1>2. PICK k \in 0 .. Len(sent) : StandsAfter(k)
  BY DEF IInv
<1>3. PICK got : got = Incoming(amountToRead(1))
  OBVIOUS
<1>4. /\ state = "READING_HEADER_START" /\ buffer = <<>>
      /\ readPos = Start(k + 1) /\ availableToRead \in Nat \ {0}
  BY <1>2 DEF readHeaderStart, InState, StandsAfter, IInv, ReaderOK
<1>5. amountToRead(1) = 1
  BY <1>4 DEF amountToRead, Smaller
<1>6. /\ got \in Seq(Byte) /\ Len(got) \in 0 .. 1 /\ readPos + Len(got) <= arrived
      /\ \A j \in 1 .. Len(got) : got[j] = stream[readPos + j]
  BY <1>3, <1>5, IncomingIs DEF IInv
<1>7. buffer \o got = got
  BY <1>4, <1>6
<1>8. /\ buffer' = got /\ readPos' = readPos + Len(got)
      /\ availableToRead' = availableToRead - Len(got)
      /\ IF Len(got) = 1 THEN state' = "READING_LENGTH" ELSE state' = state
      /\ remainingLength' = remainingLength /\ delivered' = delivered
      /\ arrived' = arrived /\ stream' = stream
  BY <1>3, <1>7 DEF readHeaderStart, Consume, InState, peerVars
<1>9. ReaderOK'
  <2>1. /\ readPos \in Nat /\ arrived \in Nat /\ arrived <= Len(stream)
        /\ remainingLength \in Nat /\ delivered \in Seq(Seq(Byte))
    BY DEF IInv, ReaderOK
  <2>2. readPos' \in Nat /\ availableToRead' \in Nat /\ readPos' <= arrived'
    <3>1. PICK n \in 0 .. 1 : n = Len(got)
      BY <1>6
    <3>2. readPos' = readPos + n /\ availableToRead' = availableToRead - n
      BY <1>8, <3>1
    <3>3. availableToRead \in Nat /\ availableToRead >= 1
      BY <1>4
    <3>4. readPos + n <= arrived'
      BY <1>6, <1>8, <3>1
    <3> QED
      BY <2>1, <3>2, <3>3, <3>4
  <2>3. state' \in {"READING_HEADER_START", "READING_LENGTH"}
    BY <1>4, <1>8
  <2> QED
    BY <1>6, <1>8, <2>1, <2>2, <2>3 DEF ReaderOK
<1>10. StandsAfter(k)'
  <2>1. CASE Len(got) = 0
    <3>1. got = <<>>
      BY <1>6, <2>1
    <3>2. /\ readPos' = readPos /\ state' = state /\ buffer' = buffer
      BY <1>4, <1>6, <1>8, <2>1, <3>1 DEF IInv, ReaderOK
    <3> QED
      BY <1>1, <1>2, <1>4, <1>8, <3>2, StreamKept DEF StandsAfter, IInv
  <2>2. CASE Len(got) = 1
    <3>1. k < Len(sent)
      <4>1. Start(k + 1) < Len(stream)
        BY <1>4, <1>6, <2>2 DEF IInv, ReaderOK, StreamOK
      <4> QED
        BY <4>1 DEF Start, StartIn, IInv, StreamOK
    <3>2. PICK p : p = sent[k + 1] /\ p \in Packets
      BY <3>1 DEF IInv, StreamOK
    <3>3. Len(p) \in Nat /\ Len(p) >= 2
      BY <3>2, Constants DEF Readable, Understood, HeaderIs
    <3>4. Holds(buffer, p, Start(k + 1), readPos)
      BY <1>4, <3>3, StartType DEF Holds, IInv
    <3>5. Holds(got, p, Start(k + 1), readPos + 1)
      <4>1. k \in 0 .. Len(sent) - 1
        BY <3>1 DEF IInv, StreamOK
      <4>2. got = buffer \o got /\ 1 <= Len(p) - Len(buffer)
        BY <1>4, <1>7, <3>3
      <4> QED
        <5>1. StreamOK /\ ReaderOK
          BY DEF IInv
        <5>2. Holds(got, p, Start(k + 1), readPos + Len(got))
          BY <1>3, <1>5, <3>2, <3>4, <4>1, <4>2, <5>1, HoldsMore
        <5> QED
          BY <2>2, <5>2
    <3>6. state' = "READING_LENGTH" /\ buffer' = got /\ readPos' = readPos + 1
      BY <1>8, <2>2
    <3>7. \A j \in MinHeaderSize .. Len(got) : Continues(got[j])
      BY <2>2, Constants
    <3>8. Len(got) \in 1 .. MaxHeaderSize - 1
      BY <2>2, Constants
    <3> QED
      BY <1>1, <1>2, <1>8, <3>1, <3>2, <3>5, <3>6, <3>7, <3>8, StreamKept
      DEF StandsAfter, IInv
  <2> QED
    BY <1>6, <2>1, <2>2
<1> QED
  BY <1>1, <1>2, <1>9, <1>10, StreamKept, InOrderKept DEF IInv, streamVars

LEMMA LengthPartType ==
    ASSUME NEW b \in Byte, NEW n
    PROVE  LengthPart(b, n) \in Nat
<1>1. b \in Nat /\ b % LengthBase \in Nat /\ b % LengthBase <= b
  BY Constants DEF Byte
<1>2. b - (b % LengthBase) \in Nat
  BY <1>1
<1> QED
  BY <1>1, <1>2 DEF LengthPart

LEMMA RemainingLengthType ==
    ASSUME NEW buf \in Seq(Byte)
    PROVE  determineRemainingLength(buf) \in Nat
<1> DEFINE part(k) == IF k < Len(buf) THEN LengthPart(buf[k + 1], k) ELSE 0
<1>1. ASSUME NEW k \in 1 .. 4 PROVE part(k) \in Nat
  <2>1. CASE k < Len(buf)
    <3>1. buf[k + 1] \in Byte
      BY <2>1
    <3> QED
      BY <2>1, <3>1, LengthPartType
  <2> QED
    BY <2>1
<1>2. part(1) \in Nat /\ part(2) \in Nat /\ part(3) \in Nat /\ part(4) \in Nat
  BY <1>1
<1> QED
  BY <1>2 DEF determineRemainingLength

(* The length byte goes on with the header, or is its last.                *)
LEMMA ReadLengthIInv ==
    ASSUME Readable, IInv, readLength
    PROVE  IInv'
<1>1. UNCHANGED streamVars /\ UNCHANGED <<sent, delivered, arrived>>
  BY DEF readLength, InState, peerVars, streamVars
<1>2. PICK k \in 0 .. Len(sent) : StandsAfter(k)
  BY DEF IInv
<1>3. PICK got, buf : got = Incoming(1) /\ buf = buffer \o got
  OBVIOUS
<1>4. StreamOK /\ ReaderOK
  BY DEF IInv
<1>5. /\ state = "READING_LENGTH" /\ k < Len(sent)
      /\ Holds(buffer, sent[k + 1], Start(k + 1), readPos)
      /\ Len(buffer) \in 1 .. 4
      /\ \A j \in 2 .. Len(buffer) : Continues(buffer[j])
  BY <1>2, Constants DEF readLength, InState, StandsAfter
<1>6. k \in 0 .. Len(sent) - 1
  BY <1>4, <1>5 DEF StreamOK
<1>7. PICK p : p = sent[k + 1] /\ p \in Packets
  BY <1>4, <1>6 DEF StreamOK
<1>8. PICK h \in 2 .. 5 :
          /\ HeaderIs(p, h)
          /\ \/ Continues(p[h])
             \/ Len(p) = h + determineRemainingLength(SubSeq(p, 1, h))
  BY <1>7, Constants DEF Readable, Understood
<1>9. p \in Seq(Byte) /\ Len(p) \in Nat /\ h <= Len(p)
  BY <1>7, <1>8, Constants DEF HeaderIs
<1>10. Len(buffer) < h
  <2>1. \A j \in 2 .. Len(buffer) : Continues(p[j])
    BY <1>5, <1>7 DEF Holds
  <2> QED
    BY <1>5, <1>8, <2>1, HeaderStarts, Constants
<1>11. /\ got \in Seq(Byte) /\ Len(got) \in 0 .. 1 /\ readPos + Len(got) <= arrived
  BY <1>3, <1>4, IncomingIs
<1>12. /\ buf \in Seq(Byte) /\ Len(buf) = Len(buffer) + Len(got)
       /\ \A j \in 1 .. Len(buffer) : buf[j] = buffer[j]
       /\ Holds(buf, p, Start(k + 1), readPos + Len(got))
  <2>1. 1 <= Len(p) - Len(buffer)
    BY <1>5, <1>9, <1>10
  <2>2. Holds(buffer, p, Start(k + 1), readPos)
    BY <1>5, <1>7
  <2> QED
    BY <1>3, <1>4, <1>6, <1>7, <2>1, <2>2, HoldsMore
<1>13. Len(buf) \in 1 .. h
  <2>1. PICK m \in 0 .. 1 : m = Len(got)
    BY <1>11
  <2>2. PICK n \in 1 .. 4 : n = Len(buffer)
    BY <1>5
  <2>3. Len(buf) = n + m /\ n < h
    BY <1>10, <1>12, <2>1, <2>2
  <2>4. n + m \in 1 .. h
    BY <2>3
  <2> QED
    BY <2>3, <2>4
<1>14. PICK n \in Nat : n = determineRemainingLength(buf)
  BY <1>12, RemainingLengthType
<1>15. /\ buffer' = buf /\ readPos' = readPos + Len(got)
       /\ availableToRead' = availableToRead - Len(got)
       /\ \/ /\ ~remainingLengthComplete(buf)
             /\ UNCHANGED <<state, closed, remainingLength, totalLength>>
          \/ /\ remainingLengthComplete(buf) /\ Continues(buf[Len(buf)])
             /\ remainingLength' = n /\ state' = "IN_ERROR"
          \/ /\ remainingLengthComplete(buf) /\ ~Continues(buf[Len(buf)])
             /\ remainingLength' = n /\ totalLength' = Len(buf) + n
             /\ state' = IF TooBig(Len(buf) + n) THEN "SKIPPING_PAYLOAD"
                                                 ELSE "READING_PAYLOAD"
  BY <1>3, <1>14 DEF readLength, Consume
<1>16. ReaderOK'
  <2>1. readPos' \in Nat /\ availableToRead' \in Nat /\ readPos' <= arrived'
    <3>1. PICK m \in 0 .. 1 : m = Len(got)
      BY <1>11
    <3>2. readPos' = readPos + m /\ availableToRead' = availableToRead - m
      BY <1>15, <3>1
    <3>3. availableToRead \in Nat /\ availableToRead >= 1 /\ readPos \in Nat
      BY <1>4 DEF readLength, InState, ReaderOK
    <3>4. readPos + m <= arrived'
      BY <1>1, <1>11, <3>1
    <3> QED
      BY <1>1, <3>2, <3>3, <3>4
  <2>2. /\ state' \in {"READING_LENGTH", "IN_ERROR", "SKIPPING_PAYLOAD", "READING_PAYLOAD"}
        /\ remainingLength' \in Nat
    BY <1>4, <1>5, <1>15 DEF ReaderOK
  <2> QED
    BY <1>1, <1>4, <1>12, <1>15, <2>1, <2>2 DEF ReaderOK, streamVars
<1>17. StandsAfter(k)'
  <2>1. /\ sent' = sent /\ delivered' = delivered /\ \A i : Start(i)' = Start(i)
        /\ Len(delivered) = Fitting(sent, k)
    BY <1>1, <1>2, <1>4, StreamKept DEF StandsAfter
  <2>2. Holds(buffer', sent'[k + 1], Start(k + 1), readPos')
    BY <1>7, <1>12, <1>15, <2>1
  <2>3. CASE ~remainingLengthComplete(buf)
    <3>1. state' = "READING_LENGTH"
      BY <1>5, <1>15, <2>3
    <3>2. Len(buf) < 2 \/ (Len(buf) # 5 /\ Continues(buf[Len(buf)]))
      BY <1>13, <2>3, Constants DEF remainingLengthComplete
    <3>3. Len(buf) \in 1 .. 4
      <4>1. PICK l \in 1 .. h : l = Len(buf)
        BY <1>13
      <4>2. l # 5
        BY <3>2, <4>1
      <4> QED
        BY <4>1, <4>2
    <3>4. \A j \in 2 .. Len(buf) : Continues(buf[j])
      <4>1. PICK m \in 0 .. 1 : m = Len(got)
        BY <1>11
      <4>2. Len(buf) = Len(buffer) + m /\ Len(buffer) \in 1 .. 4
        BY <1>5, <1>12, <4>1
      <4>3. \A j \in 2 .. Len(buffer) : Continues(buf[j])
        BY <1>5, <1>12
      <4> QED
        BY <3>2, <4>2, <4>3
    <3> QED
      BY <1>5, <1>15, <2>1, <2>2, <3>1, <3>3, <3>4, Constants DEF StandsAfter
  <2>4. CASE remainingLengthComplete(buf) /\ Continues(buf[Len(buf)])
    BY <1>5, <1>15, <2>1, <2>4 DEF StandsAfter
  <2>5. CASE remainingLengthComplete(buf) /\ ~Continues(buf[Len(buf)])
    <3>1. Len(buf) >= 2 /\ buf[Len(buf)] = p[Len(buf)]
      BY <1>12, <1>13, <2>5, Constants DEF remainingLengthComplete, Holds
    <3>2. Len(buf) = h
      <4>1. ASSUME Len(buf) < h PROVE FALSE
        <5>1. Len(buf) \in MinHeaderSize .. h - 1
          BY <1>13, <3>1, <4>1, Constants
        <5> QED
          BY <1>8, <2>5, <3>1, <5>1 DEF HeaderIs
      <4> QED
        BY <1>13, <4>1
    <3>3. buf = SubSeq(p, 1, h)
      <4>1. /\ SubSeq(p, 1, h) \in Seq(Byte) /\ Len(SubSeq(p, 1, h)) = h
            /\ \A j \in 1 .. h : SubSeq(p, 1, h)[j] = p[j]
        BY <1>9
      <4>2. \A j \in 1 .. h : buf[j] = p[j]
        BY <1>12, <3>2 DEF Holds
      <4> QED
        BY <1>12, <3>2, <4>1, <4>2, SeqEqual
    <3>4. Len(p) = Len(buf) + n
      BY <1>8, <1>14, <2>5, <3>1, <3>2, <3>3
    <3>5. CASE TooBig(Len(p))
      <4>1. state' = "SKIPPING_PAYLOAD" /\ remainingLength' = n
        BY <1>15, <2>5, <3>4, <3>5
      <4>2. ~Fits(p)
        BY <1>9, <3>5, Constants DEF Fits, TooBig
      <4>3. Start(k + 2) = Start(k + 1) + Len(p)
        <5>1. k + 1 \in 1 .. Len(sent) /\ (k + 1) + 1 = k + 2
          BY <1>6
        <5> QED
          BY <1>4, <1>7, <5>1 DEF StreamOK
      <4>4. readPos' = Start(k + 1) + Len(buf)
        BY <1>12, <1>15 DEF Holds
      <4>5. Start(k + 1) \in Nat
        BY <1>4, <1>6, StartType
      <4>6. readPos' + remainingLength' = Start(k + 2)
        BY <1>9, <1>13, <3>4, <4>1, <4>3, <4>4, <4>5
      <4> QED
        BY <1>5, <1>7, <2>1, <4>1, <4>2, <4>6 DEF StandsAfter
    <3>6. CASE ~TooBig(Len(p))
      <4>1. state' = "READING_PAYLOAD" /\ totalLength' = Len(p)
        BY <1>15, <2>5, <3>4, <3>6
      <4>2. Fits(p)
        BY <1>9, <3>6, Constants DEF Fits, TooBig
      <4> QED
        BY <1>5, <1>7, <2>1, <2>2, <4>1, <4>2 DEF StandsAfter
    <3> QED
      BY <3>5, <3>6
  <2> QED
    BY <2>3, <2>4, <2>5
<1> QED
  BY <1>1, <1>2, <1>4, <1>16, <1>17, StreamKept, InOrderKept DEF IInv, streamVars

(* The packet after the k that are done is over.                           *)
LEMMA PacketEnds ==
    ASSUME StreamOK, UNCHANGED streamVars, NEW k \in 0 .. Len(sent) - 1,
           Len(delivered') = Fitting(sent, k) + (IF Fits(sent[k + 1]) THEN 1 ELSE 0),
           state' = "READING_HEADER_START", buffer' = <<>>,
           readPos' = Start(k + 1) + Len(sent[k + 1])
    PROVE  k + 1 \in 0 .. Len(sent') /\ StandsAfter(k + 1)'
<1>1. sent' = sent /\ \A i : Start(i)' = Start(i)
  BY StreamKept DEF streamVars
<1>2. Len(sent) \in Nat
  BY DEF StreamOK
<1>3. k \in Nat /\ k + 1 \in 1 .. Len(sent) /\ (k + 1) + 1 = k + 2
  BY <1>2
<1>4. Start((k + 1) + 1) = Start(k + 1) + Len(sent[k + 1])
  BY <1>3 DEF StreamOK
<1>5. Fitting(sent, k + 1) = Fitting(sent, k) + (IF Fits(sent[k + 1]) THEN 1 ELSE 0)
  BY <1>3, FittingStep
<1> QED
  BY <1>1, <1>2, <1>3, <1>4, <1>5 DEF StandsAfter

(* What is handed on is the whole packet, whose number is the next.        *)
LEMMA ReadPayloadIInv ==
    ASSUME Readable, IInv, readPayload
    PROVE  IInv'
<1>1. UNCHANGED streamVars /\ UNCHANGED <<sent, arrived>>
  BY DEF readPayload, InState, peerVars, streamVars
<1>2. PICK k \in 0 .. Len(sent) : StandsAfter(k)
  BY DEF IInv
<1>3. StreamOK /\ ReaderOK /\ DeliveredInOrder
  BY DEF IInv
<1>4. /\ state = "READING_PAYLOAD" /\ k < Len(sent)
      /\ Holds(buffer, sent[k + 1], Start(k + 1), readPos)
      /\ totalLength = Len(sent[k + 1]) /\ Fits(sent[k + 1])
      /\ Len(delivered) = Fitting(sent, k)
  BY <1>2 DEF readPayload, InState, StandsAfter
<1>5. k \in 0 .. Len(sent) - 1
  BY <1>3, <1>4 DEF StreamOK
<1>6. PICK p : p = sent[k + 1] /\ p \in Seq(Byte)
  BY <1>3, <1>5, Constants DEF StreamOK
<1>7. PICK n, got, buf :
          n = amountToRead(totalLength) /\ got = Incoming(n) /\ buf = buffer \o got
  OBVIOUS
<1>8. n \in Nat /\ n <= Len(sent[k + 1]) - Len(buffer)
  <2>1. PICK a, b \in Nat : a = Len(p) /\ b = Len(buffer) /\ b <= a
    BY <1>3, <1>4, <1>6 DEF ReaderOK, Holds
  <2>2. availableToRead \in Nat /\ n = Smaller(availableToRead, a - b)
    BY <1>3, <1>4, <1>6, <1>7, <2>1 DEF ReaderOK, amountToRead
  <2>3. n \in Nat /\ n <= a - b
    BY <2>1, <2>2 DEF Smaller
  <2> QED
    BY <1>6, <2>1, <2>3
<1>9. got \in Seq(Byte) /\ Len(got) \in Nat /\ readPos + Len(got) <= arrived
  BY <1>3, <1>7, <1>8, IncomingIs
<1>10. /\ buf \in Seq(Byte)
       /\ Holds(buf, sent[k + 1], Start(k + 1), readPos + Len(got))
  BY <1>3, <1>4, <1>5, <1>7, <1>8, HoldsMore
<1>11. /\ readPos' = readPos + Len(got) /\ availableToRead' = 0
       /\ \/ Len(buf) = Len(p) /\ delivered' = Append(delivered, buf) /\ reset
          \/ /\ Len(buf) # Len(p) /\ buffer' = buf
             /\ UNCHANGED <<state, lengthVars, delivered>>
  BY <1>4, <1>6, <1>7 DEF readPayload
<1>12. readPos' \in Nat /\ readPos' <= arrived' /\ arrived' <= Len(stream')
  <2>1. readPos \in Nat /\ arrived <= Len(stream)
    BY <1>3 DEF ReaderOK
  <2> QED
    BY <1>1, <1>9, <1>11, <2>1 DEF streamVars
<1>13. CASE Len(buf) # Len(p)
  <2>1. /\ buffer' = buf /\ state' = state /\ totalLength' = totalLength
        /\ remainingLength' = remainingLength /\ delivered' = delivered
    BY <1>11, <1>13 DEF lengthVars
  <2>2. ReaderOK'
    BY <1>1, <1>3, <1>10, <1>11, <1>12, <2>1 DEF ReaderOK
  <2>3. \A i : Start(i)' = Start(i)
    BY <1>1, <1>3, StreamKept
  <2>4. StandsAfter(k)'
    BY <1>1, <1>4, <1>10, <1>11, <2>1, <2>3 DEF StandsAfter
  <2> QED
    BY <1>1, <1>2, <1>3, <2>1, <2>2, <2>4, StreamKept, InOrderKept DEF IInv
<1>14. CASE Len(buf) = Len(p)
  <2>1. buf = p
    BY <1>6, <1>10, <1>14, SeqEqual DEF Holds
  <2>2. /\ delivered' = Append(delivered, p) /\ state' = "READING_HEADER_START"
        /\ buffer' = <<>> /\ remainingLength' = 0
    BY <1>11, <1>14, <2>1 DEF reset
  <2>3. /\ delivered' \in Seq(Seq(Byte)) /\ Len(delivered') = Len(delivered) + 1
        /\ \A i \in 1 .. Len(delivered) : delivered'[i] = delivered[i]
        /\ delivered'[Len(delivered) + 1] = p
    BY <1>3, <1>6, <2>2, AppendProperties DEF ReaderOK
  <2>4. ReaderOK'
    BY <1>1, <1>3, <1>11, <1>12, <2>2, <2>3 DEF ReaderOK
  <2>5. k + 1 \in 0 .. Len(sent') /\ StandsAfter(k + 1)'
    <3>1. readPos' = Start(k + 1) + Len(sent[k + 1])
      BY <1>6, <1>10, <1>11, <2>1 DEF Holds
    <3>2. Len(delivered') = Fitting(sent, k) + (IF Fits(sent[k + 1]) THEN 1 ELSE 0)
      BY <1>4, <2>3
    <3> QED
      BY <1>1, <1>3, <1>5, <2>2, <3>1, <3>2, PacketEnds
  <2>6. DeliveredInOrder'
    <3>1. k \in Nat /\ k + 1 \in Nat /\ Len(sent) \in Nat /\ k + 1 <= Len(sent)
      BY <1>3, <1>5 DEF StreamOK
    <3>2. Fitting(sent, k + 1) = Len(delivered) + 1
      <4>1. Fitting(sent, k + 1) = Fitting(sent, k) + (IF Fits(sent[k + 1]) THEN 1 ELSE 0)
        BY <3>1, FittingStep
      <4> QED
        BY <1>4, <4>1
    <3>3. Len(delivered') <= Fitting(sent', Len(sent'))
      BY <1>1, <2>3, <3>1, <3>2, FittingMonotonic
    <3>4. Len(delivered) \in Nat
      BY <1>3 DEF ReaderOK
    <3>5. ASSUME NEW i \in 1 .. Len(sent), Fits(sent[i]),
                 Fitting(sent, i) <= Len(delivered) + 1
          PROVE  delivered'[Fitting(sent, i)] = sent[i]
      <4>1. i \in Nat /\ 0 < i /\ Fitting(sent, i) \in Nat
        <5>1. i \in Nat /\ 0 < i
          BY <3>1
        <5> QED
          BY <5>1, FittingType
      <4>2. CASE i = k + 1
        BY <1>6, <2>3, <3>2, <4>2
      <4>3. CASE i < k + 1
        <5>1. Fitting(sent, i) < Fitting(sent, k + 1)
          BY <1>4, <3>1, <4>1, <4>3, FittingStrict
        <5>2. 0 < Fitting(sent, i)
          <6>1. Fitting(sent, 0) \in Nat
            BY FittingType
          <6>2. Fitting(sent, 0) < Fitting(sent, i)
            BY <3>5, <4>1, FittingStrict
          <6> QED
            BY <4>1, <6>1, <6>2
        <5>3. Fitting(sent, i) \in 1 .. Len(delivered)
          BY <3>2, <3>4, <4>1, <5>1, <5>2
        <5>4. delivered[Fitting(sent, i)] = sent[i]
          BY <1>3, <3>4, <3>5, <5>3 DEF DeliveredInOrder
        <5> QED
          BY <2>3, <5>3, <5>4
      <4>4. CASE k + 1 < i
        <5>1. Fitting(sent, k + 1) < Fitting(sent, i)
          BY <3>1, <3>5, <4>1, <4>4, FittingStrict
        <5> QED
          BY <3>2, <3>4, <3>5, <4>1, <5>1
      <4> QED
        BY <3>1, <4>1, <4>2, <4>3, <4>4
    <3> QED
      BY <1>1, <2>3, <3>3, <3>5 DEF DeliveredInOrder
  <2> QED
    BY <1>1, <1>3, <2>4, <2>5, <2>6, StreamKept DEF IInv
<1> QED
  BY <1>13, <1>14

(* Nothing of a packet that does not fit is handed on.                     *)
LEMMA SkippingIInv ==
    ASSUME IInv, skippingPayload
    PROVE  IInv'
<1>1. UNCHANGED streamVars /\ UNCHANGED <<sent, delivered, arrived, availableToRead>>
  BY DEF skippingPayload, InState, peerVars, streamVars
<1>2. PICK k \in 0 .. Len(sent) : StandsAfter(k)
  BY DEF IInv
<1>3. StreamOK /\ ReaderOK
  BY DEF IInv
<1>4. /\ state = "SKIPPING_PAYLOAD" /\ k < Len(sent) /\ ~Fits(sent[k + 1])
      /\ readPos + remainingLength = Start(k + 2)
      /\ Len(delivered) = Fitting(sent, k)
  BY <1>2 DEF skippingPayload, InState, StandsAfter
<1>5. k \in 0 .. Len(sent) - 1
  BY <1>3, <1>4 DEF StreamOK
<1>6. PICK n : n = Smaller(Smaller(availableToRead, remainingLength), Unread)
  OBVIOUS
<1>7. /\ readPos \in Nat /\ arrived \in Nat /\ availableToRead \in Nat
      /\ remainingLength \in Nat /\ readPos <= arrived
  BY <1>3 DEF ReaderOK
<1>8. n \in Nat /\ n <= remainingLength /\ readPos + n <= arrived
  BY <1>6, <1>7 DEF Smaller, Unread
<1>9. /\ readPos' = readPos + n
      /\ \/ remainingLength = n /\ reset
         \/ /\ remainingLength # n /\ remainingLength' = remainingLength - n
            /\ UNCHANGED <<state, buffer, totalLength>>
  BY <1>6 DEF skippingPayload
<1>10. ReaderOK'
  <2>1. readPos' \in Nat /\ readPos' <= arrived'
    BY <1>1, <1>7, <1>8, <1>9
  <2>2. /\ remainingLength' \in Nat /\ buffer' \in Seq(Byte)
        /\ state' \in {"READING_HEADER_START", "SKIPPING_PAYLOAD"}
    <3>1. CASE reset
      BY <3>1 DEF reset
    <3>2. CASE ~reset
      <4>1. remainingLength - n \in Nat
        BY <1>7, <1>8
      <4> QED
        BY <1>3, <1>4, <1>9, <3>2, <4>1 DEF ReaderOK
    <3> QED
      BY <3>1, <3>2
  <2> QED
    BY <1>1, <1>3, <2>1, <2>2 DEF ReaderOK, streamVars
<1>11. CASE remainingLength = n
  <2>1. /\ readPos' = Start(k + 2) /\ state' = "READING_HEADER_START" /\ buffer' = <<>>
    BY <1>4, <1>9, <1>11 DEF reset
  <2>2. Start(k + 2) = Start(k + 1) + Len(sent[k + 1])
    <3>1. k + 1 \in 1 .. Len(sent) /\ (k + 1) + 1 = k + 2
      BY <1>5
    <3> QED
      BY <1>3, <3>1 DEF StreamOK
  <2>3. Len(delivered') = Fitting(sent, k) + (IF Fits(sent[k + 1]) THEN 1 ELSE 0)
    <3>1. k \in Nat
      BY <1>5
    <3>2. Fitting(sent, k) \in Nat
      BY <3>1, FittingType
    <3> QED
      BY <1>1, <1>4, <3>2
  <2>4. k + 1 \in 0 .. Len(sent') /\ StandsAfter(k + 1)'
    BY <1>1, <1>3, <1>5, <2>1, <2>2, <2>3, PacketEnds
  <2> QED
    BY <1>1, <1>3, <1>10, <2>4, StreamKept, InOrderKept DEF IInv
<1>12. CASE remainingLength # n
  <2>1. readPos' + remainingLength' = Start(k + 2) /\ state' = state
    BY <1>4, <1>7, <1>8, <1>9, <1>12
  <2>2. \A i : Start(i)' = Start(i)
    BY <1>1, <1>3, StreamKept
  <2>3. StandsAfter(k)'
    BY <1>1, <1>4, <2>1, <2>2 DEF StandsAfter
  <2> QED
    BY <1>1, <1>2, <1>3, <1>10, <2>3, StreamKept, InOrderKept DEF IInv
<1> QED
  BY <1>11, <1>12

LEMMA InitIInv == Init => IInv
<1> SUFFICES ASSUME Init PROVE IInv
  OBVIOUS
<1>1. Len(sent) = 0 /\ StreamOK /\ ReaderOK
  BY DEF Init, StreamOK, ReaderOK, Start, StartIn
<1>2. Fitting(sent, 0) = 0
  <2>1. {j \in 1 .. 0 : Fits(sent[j])} = {}
    OBVIOUS
  <2> QED
    BY <2>1, FS_EmptySet DEF Fitting
<1>3. StandsAfter(0) /\ DeliveredInOrder
  BY <1>1, <1>2 DEF Init, StandsAfter, DeliveredInOrder, Start, StartIn
<1> QED
  BY <1>1, <1>3 DEF IInv

LEMMA NextIInv == Readable /\ IInv /\ [Next]_vars => IInv'
<1> SUFFICES ASSUME Readable, IInv, [Next]_vars PROVE IInv'
  OBVIOUS
<1>1. CASE Next
  BY <1>1, PeerSendsIInv, ArrivesIInv, ReadInputIInv, HeaderStartIInv, ReadLengthIInv,
     ReadPayloadIInv, SkippingIInv DEF Next, Reader
<1>2. CASE UNCHANGED vars
  <2>1. UNCHANGED streamVars /\ UNCHANGED <<sent, delivered>>
    BY <1>2 DEF vars, streamVars
  <2>2. PICK k \in 0 .. Len(sent) : StandsAfter(k)
    BY DEF IInv
  <2>3. k \in 0 .. Len(sent') /\ StandsAfter(k)'
    BY <1>2, <2>2 DEF vars, StandsAfter, Start
  <2>4. ReaderOK'
    BY <1>2 DEF IInv, ReaderOK, vars
  <2> QED
    BY <2>1, <2>3, <2>4, StreamKept, InOrderKept DEF IInv
<1> QED
  BY <1>1, <1>2

(* Packets whose length the reader measures right are handed to the        *)
(* connection in the order they were sent and byte for byte, those too     *)
(* large for the buffer left out, whatever pieces the stream comes in and  *)
(* however the calls of readInput fall between them.                       *)
THEOREM ReaderDeliversInOrder ==
    ASSUME Readable
    PROVE  Spec => []DeliveredInOrder
<1>1. Init => IInv
  BY InitIInv
<1>2. IInv /\ [Next]_vars => IInv'
  BY NextIInv
<1>3. IInv => DeliveredInOrder
  BY DEF IInv
<1> QED
  BY <1>1, <1>2, <1>3, PTL DEF Spec
=============================================================================
