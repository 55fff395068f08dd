-------------------------- MODULE MQTTAnswers_proofs --------------------------
(***************************************************************************)
(* CountersMatchStream, OnlyLogFollowsBrokenAnswer and ServedAsMeant, for  *)
(* any packets, any publications and any room on the stream.  What the     *)
(* first two need of a message is Honest: the length the client reads is   *)
(* that of all the writes, and the last write succeeds exactly if all of   *)
(* it was written.  The third needs that the parsers find the strings of a *)
(* packet where BodyOf laid them out (IsLaidOut), and none where a byte is *)
(* missing or left.                                                        *)
(***************************************************************************)
EXTENDS MQTTAnswers, SequenceTheorems, FiniteSetTheorems, TLAPS

-----------------------------------------------------------------------------
(* Induction, for a set of numbers in the place of a predicate: were k not *)
(* in T, the numbers of T up to k would be as many as those but 0.         *)
LEMMA Induction ==
    ASSUME NEW T, 0 \in T, \A n \in Nat : n \in T => n + 1 \in T
    PROVE  Nat \subseteq T
<1>1. ASSUME NEW k \in Nat, k \notin T PROVE FALSE
  <2> DEFINE S == {n \in 0 .. k : n \in T}
             f == [n \in S |-> n + 1]
  <2>1. IsFiniteSet(S)
    <3>1. IsFiniteSet(0 .. k) /\ S \subseteq 0 .. k
      BY FS_Interval
    <3> QED
      BY <3>1, FS_Subset
  <2>2. /\ IsFiniteSet(S \ {0})
        /\ Cardinality(S \ {0}) = Cardinality(S) - 1
    <3>1. 0 \in S
      OBVIOUS
    <3> QED
      BY <2>1, <3>1, FS_RemoveElement
  <2>3. Cardinality(S) \in Nat
    BY <2>1, FS_CardinalityType
  <2>4. f \in [S -> S \ {0}]
    <3>1. ASSUME NEW n \in S PROVE n + 1 \in S \ {0}
      BY <1>1
    <3> QED
      BY <3>1
  <2>5. \E x, y \in S : x # y /\ f[x] = f[y]
    <3>1. Cardinality(S \ {0}) < Cardinality(S)
      BY <2>2, <2>3
    <3> HIDE DEF S, f
    <3> QED
      BY <2>1, <2>2, <2>4, <3>1, FS_PigeonHole
  <2> QED
    BY <2>5
<1> QED
  BY <1>1

(* A function defined by recursion up to n is one.                         *)
IsRecursive(f, n, S, start, step) ==
    /\ f \in [0 .. n -> S]
    /\ f[0] = start
    /\ \A i \in 1 .. n : f[i] = step[i][f[i - 1]]

LEMMA Recursion ==
    ASSUME NEW n \in Nat, NEW S, NEW start \in S, NEW step \in [1 .. n -> [S -> S]]
    PROVE  \E f : IsRecursive(f, n, S, start, step)
<1> DEFINE Upto(m, f) == /\ f \in [0 .. m -> S]
                         /\ f[0] = start
                         /\ \A i \in 1 .. m : f[i] = step[i][f[i - 1]]
           T == {m \in Nat : m <= n => \E f : Upto(m, f)}
<1>1. 0 \in T
  <2>1. Upto(0, [i \in 0 .. 0 |-> start])
    OBVIOUS
  <2> QED
    BY <2>1
<1>2. ASSUME NEW m \in Nat, m \in T PROVE m + 1 \in T
  <2> SUFFICES ASSUME m + 1 <= n PROVE \E f : Upto(m + 1, f)
    <3> HIDE DEF Upto
    <3> QED
      OBVIOUS
  <2>0. m <= n /\ m + 1 \in 1 .. n
    OBVIOUS
  <2>1. PICK f : Upto(m, f)
    BY <1>2, <2>0
  <2> DEFINE y == step[m + 1][f[m]]
             g == [i \in 0 .. m + 1 |-> IF i = m + 1 THEN y ELSE f[i]]
  <2>2. y \in S
    BY <2>0, <2>1
  <2>3. g \in [0 .. m + 1 -> S] /\ g[0] = start
    <3> HIDE DEF y
    <3> QED
      BY <2>1, <2>2
  <2>4. ASSUME NEW i \in 1 .. m + 1 PROVE g[i] = step[i][g[i - 1]]
    <3>1. i - 1 \in 0 .. m /\ g[i - 1] = f[i - 1]
      OBVIOUS
    <3>2. CASE i = m + 1
      <4>1. g[i] = y /\ i - 1 = m
        BY <3>2
      <4> HIDE DEF g
      <4> QED
        BY <3>1, <3>2, <4>1
    <3>3. CASE i # m + 1
      <4>1. i \in 1 .. m /\ g[i] = f[i]
        BY <3>3
      <4> QED
        BY <2>1, <3>1, <4>1
    <3> QED
      BY <3>2, <3>3
  <2>5. Upto(m + 1, g)
    BY <2>3, <2>4
  <2> QED
    BY <2>5
<1>3. n \in T
  <2> HIDE DEF T
  <2> QED
    BY <1>1, <1>2, Induction
<1>4. PICK f : Upto(n, f)
  BY <1>3
<1> QED
  BY <1>4 DEF IsRecursive

-----------------------------------------------------------------------------
(***************************************************************************)
(* The remaining length.                                                   *)
(***************************************************************************)
LEMMA MaxRemainingLengthIs ==
    /\ MaxRemainingLength \in Nat
    /\ MaxRemainingLength + 1 = 128 * (128 * 128 * 128)
BY SMT DEF MaxRemainingLength

LEMMA RemainingLengthBytesIs ==
    ASSUME NEW n \in 0 .. MaxRemainingLength
    PROVE  /\ n < 128 => RemainingLengthBytes[n] = <<n>>
           /\ n >= 128 => RemainingLengthBytes[n] =
                             <<128 + (n % 128)>> \o RemainingLengthBytes[n \div 128]
<1> DEFINE M == MaxRemainingLength
           Is(f, i) == f[i] = IF i < 128 THEN <<i>> ELSE <<128 + (i % 128)>> \o f[i \div 128]
           Upto(m, f) == f = [i \in 0 .. m |-> f[i]] /\ \A i \in 0 .. m : Is(f, i)
           T == {m \in Nat : m <= M => \E f : Upto(m, f)}
<1>0. M \in Nat
  BY MaxRemainingLengthIs
<1>1. 0 \in T
  <2> DEFINE f == [i \in 0 .. 0 |-> <<i>>]
  <2>1. Upto(0, f)
    OBVIOUS
  <2> QED
    BY <2>1
<1>2. ASSUME NEW m \in Nat, m \in T PROVE m + 1 \in T
  <2> SUFFICES ASSUME m + 1 <= M PROVE \E f : Upto(m + 1, f)
    <3> HIDE DEF Upto, M
    <3> QED
      OBVIOUS
  <2>0. m <= M
    BY <1>0
  <2>1. PICK f : Upto(m, f)
    BY <1>2, <2>0
  <2> DEFINE k == m + 1
             y == IF k < 128 THEN <<k>> ELSE <<128 + (k % 128)>> \o f[k \div 128]
             g == [i \in 0 .. m + 1 |-> IF i = m + 1 THEN y ELSE f[i]]
  <2>2. ASSUME NEW i \in 0 .. m + 1 PROVE Is(g, i)
    <3>1. i >= 128 => i \div 128 \in 0 .. m
      OBVIOUS
    <3>2. i >= 128 => g[i \div 128] = f[i \div 128]
      <4> HIDE DEF y
      <4> QED
        BY <3>1
    <3>3. CASE i = m + 1
      BY <3>2, <3>3
    <3>4. CASE i # m + 1
      <4>1. i \in 0 .. m /\ g[i] = f[i]
        BY <3>4
      <4>2. Is(f, i)
        BY <2>1, <4>1
      <4> HIDE DEF g
      <4> QED
        BY <3>2, <4>1, <4>2
    <3> QED
      BY <3>3, <3>4
  <2>3. Upto(m + 1, g)
    BY <2>2
  <2> QED
    BY <2>3
<1>3. M \in T
  <2> HIDE DEF T, M
  <2> QED
    BY <1>0, <1>1, <1>2, Induction
<1>4. PICK f : Upto(M, f)
  BY <1>3
<1> DEFINE Def(g) == g = [i \in 0 .. M |-> IF i < 128 THEN <<i>>
                                           ELSE <<128 + (i % 128)>> \o g[i \div 128]]
<1>5. Def(f)
  <2>1. /\ f = [i \in 0 .. M |-> f[i]]
        /\ \A i \in 0 .. M : Is(f, i)
    BY <1>4
  <2> HIDE DEF M
  <2> QED
    BY <2>1
<1>6. Def(CHOOSE g : Def(g))
  <2> HIDE DEF Def
  <2> QED
    BY <1>5
<1>7. RemainingLengthBytes = CHOOSE g : Def(g)
  BY DEF RemainingLengthBytes
<1>8. Def(RemainingLengthBytes)
  <2> HIDE DEF Def
  <2> QED
    BY <1>6, <1>7
<1>9. RemainingLengthBytes[n] =
        IF n < 128 THEN <<n>> ELSE <<128 + (n % 128)>> \o RemainingLengthBytes[n \div 128]
  <2> HIDE DEF M
  <2>1. n \in 0 .. M
    BY DEF M
  <2> QED
    BY <1>8, <2>1
<1>10. n \in Nat
  BY <1>0
<1>11. n >= 128 <=> ~(n < 128)
  BY <1>10
<1> QED
  BY <1>9, <1>11

(* What the client makes of the bytes of a remaining length.               *)
Bits(lb, i) == IF i <= Len(lb) THEN lb[i] % 128 ELSE 0

Read(lb) == Bits(lb, 1) + 128 * (Bits(lb, 2) + 128 * (Bits(lb, 3) + 128 * Bits(lb, 4)))

LEMMA ReadOne ==
    ASSUME NEW n \in 0 .. MaxRemainingLength, n < 128
    PROVE  LET lb == RemainingLengthBytes[n] IN
           lb \in Seq(Nat) /\ Len(lb) = 1 /\ Read(lb) = n
<1>1. RemainingLengthBytes[n] = <<n>>
  BY RemainingLengthBytesIs
<1>2. n \in Nat
  BY MaxRemainingLengthIs
<1> QED
  BY <1>1, <1>2 DEF Read, Bits

LEMMA ReadMore ==
    ASSUME NEW n \in 0 .. MaxRemainingLength, n >= 128,
           RemainingLengthBytes[n \div 128] \in Seq(Nat),
           Len(RemainingLengthBytes[n \div 128]) <= 3,
           Read(RemainingLengthBytes[n \div 128]) = n \div 128
    PROVE  LET lb == RemainingLengthBytes[n] IN
           /\ lb \in Seq(Nat)
           /\ Len(lb) = 1 + Len(RemainingLengthBytes[n \div 128])
           /\ Read(lb) = n
<1> DEFINE rest == RemainingLengthBytes[n \div 128]
           b == 128 + (n % 128)
           lb == RemainingLengthBytes[n]
<1>1. n \in Nat /\ b \in Nat /\ b % 128 = n % 128 /\ n = 128 * (n \div 128) + (n % 128)
  BY MaxRemainingLengthIs
<1>2. lb = <<b>> \o rest
  BY RemainingLengthBytesIs
<1>3. rest \in Seq(Nat) /\ Len(rest) \in Nat /\ Len(rest) <= 3 /\ Read(rest) = n \div 128
  OBVIOUS
<1> HIDE DEF rest, b, lb
<1>4. /\ lb \in Seq(Nat)
      /\ Len(lb) = 1 + Len(rest)
      /\ lb[1] = b
      /\ \A i \in 1 .. Len(rest) : lb[i + 1] = rest[i]
  BY <1>1, <1>2, <1>3
<1>5. Bits(lb, 1) = n % 128
  BY <1>1, <1>3, <1>4 DEF Bits
<1>6. ASSUME NEW i \in 1 .. 3 PROVE Bits(lb, i + 1) = Bits(rest, i)
  BY <1>3, <1>4 DEF Bits
<1>7. Bits(lb, 2) = Bits(rest, 1) /\ Bits(lb, 3) = Bits(rest, 2) /\ Bits(lb, 4) = Bits(rest, 3)
  <2>1. 1 + 1 = 2 /\ 2 + 1 = 3 /\ 3 + 1 = 4 /\ {1, 2, 3} \subseteq 1 .. 3
    OBVIOUS
  <2> QED
    BY <1>6, <2>1
<1>8. Bits(rest, 4) = 0
  BY <1>3 DEF Bits
<1>9. \A i \in 1 .. 3 : Bits(rest, i) \in Nat
  <2>1. ASSUME NEW i \in 1 .. 3 PROVE Bits(rest, i) \in Nat
    <3>1. CASE i <= Len(rest)
      <4>1. rest[i] \in Nat
        BY <1>3, <3>1
      <4> QED
        BY <3>1, <4>1 DEF Bits
    <3>2. CASE ~(i <= Len(rest))
      BY <3>2 DEF Bits
    <3> QED
      BY <3>1, <3>2
  <2> QED
    BY <2>1
<1>10. Read(lb) = (n % 128) + 128 * Read(rest)
  BY <1>5, <1>7, <1>8, <1>9 DEF Read
<1>11. Read(lb) = n
  BY <1>1, <1>3, <1>10
<1> QED
  BY <1>4, <1>11 DEF lb, rest

LEMMA ReadLengthIs ==
    ASSUME NEW lb \in Seq(Nat)
    PROVE  ReadLength(lb) = 1 + Len(lb) + Read(lb)
<1> DEFINE b1 == Bits(lb, 1)
           b2 == Bits(lb, 2)
           b3 == Bits(lb, 3)
           b4 == Bits(lb, 4)
<1>1. ASSUME NEW i \in 1 .. 4 PROVE Bits(lb, i) \in Nat
  <2>1. CASE i <= Len(lb)
    <3>1. lb[i] \in Nat
      BY <2>1
    <3> QED
      BY <2>1, <3>1 DEF Bits
  <2>2. CASE ~(i <= Len(lb))
    BY <2>2 DEF Bits
  <2> QED
    BY <2>1, <2>2
<1>2. b1 \in Nat /\ b2 \in Nat /\ b3 \in Nat /\ b4 \in Nat /\ Len(lb) \in Nat
  <2>1. {1, 2, 3, 4} \subseteq 1 .. 4
    OBVIOUS
  <2> QED
    BY <1>1, <2>1
<1>3. ReadLength(lb) = 1 + Len(lb) + b1 + 128 * (b2 + 128 * (b3 + 128 * b4))
  BY DEF ReadLength, Bits
<1>4. Read(lb) = b1 + 128 * (b2 + 128 * (b3 + 128 * b4))
  BY DEF Read
<1> HIDE DEF b1, b2, b3, b4
<1> QED
  BY <1>2, <1>3, <1>4

LEMMA LengthIsRead ==
    ASSUME NEW n \in 0 .. MaxRemainingLength
    PROVE  LET lb == RemainingLengthBytes[n] IN
           /\ lb \in Seq(Nat)
           /\ Len(lb) \in 1 .. 4
           /\ ReadLength(lb) = 1 + Len(lb) + n
<1> DEFINE lb(m) == RemainingLengthBytes[m]
           OK(m, k) == lb(m) \in Seq(Nat) /\ Len(lb(m)) \in 1 .. k /\ Read(lb(m)) = m
<1> USE MaxRemainingLengthIs
<1>1. ASSUME NEW m \in 0 .. MaxRemainingLength, m < 128 PROVE OK(m, 1)
  BY <1>1, ReadOne
<1>2. ASSUME NEW m \in 0 .. MaxRemainingLength, NEW k \in 1 .. 3,
             m >= 128, OK(m \div 128, k)
      PROVE  OK(m, k + 1)
  BY <1>2, ReadMore
<1>3. ASSUME NEW m \in 0 .. MaxRemainingLength, NEW k \in 1 .. 3, OK(m, k) PROVE OK(m, k + 1)
  BY <1>3
<1> HIDE DEF OK
<1>4. ASSUME NEW m \in 0 .. MaxRemainingLength, m >= 128
      PROVE  m \div 128 \in 0 .. MaxRemainingLength
  BY <1>4
<1>5. ASSUME NEW m \in 0 .. MaxRemainingLength, m < 128 * 128 PROVE OK(m, 2)
  <2>1. CASE m < 128
    BY <1>1, <1>3, <2>1
  <2>2. CASE ~(m < 128)
    <3>1. m >= 128 /\ m \div 128 < 128
      BY <1>5, <2>2
    <3> QED
      BY <1>1, <1>2, <1>4, <3>1
  <2> QED
    BY <2>1, <2>2
<1>6. ASSUME NEW m \in 0 .. MaxRemainingLength, m < 128 * 128 * 128 PROVE OK(m, 3)
  <2>1. CASE m < 128
    BY <1>5, <1>3, <2>1
  <2>2. CASE ~(m < 128)
    <3>1. m >= 128 /\ m \div 128 < 128 * 128
      BY <1>6, <2>2
    <3> QED
      BY <1>5, <1>2, <1>4, <3>1
  <2> QED
    BY <2>1, <2>2
<1>7. OK(n, 4)
  <2>1. CASE n < 128
    BY <1>6, <1>3, <2>1
  <2>2. CASE ~(n < 128)
    <3>1. n >= 128 /\ n \div 128 < 128 * 128 * 128
      BY <2>2
    <3> QED
      BY <1>6, <1>2, <1>4, <3>1
  <2> QED
    BY <2>1, <2>2
<1> QED
  BY <1>7, ReadLengthIs DEF OK

-----------------------------------------------------------------------------
(***************************************************************************)
(* Writing.                                                                *)
(***************************************************************************)
Progress == [room : Nat, bytes : Nat, ok : BOOLEAN]

LEMMA WriteType ==
    ASSUME NEW w \in Progress, NEW length \in Nat
    PROVE  /\ Write(w, length) \in Progress
           /\ Write(w, length).bytes <= w.bytes + length
           /\ Write(w, length).ok <=> w.ok /\ Write(w, length).bytes = w.bytes + length
<1> DEFINE v == Write(w, length)
           k == IF length < w.room THEN length ELSE w.room
<1>1. w.room \in Nat /\ w.bytes \in Nat /\ w.ok \in BOOLEAN
  BY DEF Progress
<1>2. k \in Nat /\ k <= length /\ w.room - k \in Nat
  BY <1>1
<1> HIDE DEF k
<1>3. CASE w.ok
  <2>1. v = [room |-> w.room - k, bytes |-> w.bytes + k, ok |-> k = length]
    BY <1>3 DEF Write, k
  <2>2. v \in Progress
    BY <1>1, <1>2, <2>1 DEF Progress
  <2>3. v.bytes = w.bytes + k /\ (v.ok <=> k = length)
    <3>1. v.bytes = w.bytes + k /\ v.ok = (k = length)
      BY <2>1
    <3> HIDE DEF v
    <3> QED
      BY <3>1
  <2> HIDE DEF v
  <2>4. v.bytes <= w.bytes + length /\ (k = length <=> v.bytes = w.bytes + length)
    BY <1>1, <1>2, <2>3
  <2>5. v.ok <=> w.ok /\ v.bytes = w.bytes + length
    BY <1>3, <2>3, <2>4
  <2> QED
    BY <2>2, <2>4, <2>5 DEF v
<1>4. CASE ~w.ok
  <2>1. v = w
    BY <1>4 DEF Write
  <2> QED
    BY <1>1, <1>4, <2>1
<1> QED
  BY <1>1, <1>3, <1>4

(* Up to each of its writes, a message is written whole exactly if they    *)
(* all succeeded.                                                          *)
LEMMA WrittenWhole ==
    ASSUME NEW message, Writes(message) \in Seq(Nat), NEW room \in Nat,
           NEW sums, sums[0] = 0,
           \A i \in 1 .. Len(Writes(message)) :
                sums[i] \in Nat /\ sums[i] = sums[i - 1] + Writes(message)[i]
    PROVE  LET w == Written(message, room)
               n == Len(Writes(message)) IN
           w \in Progress /\ w.bytes <= sums[n] /\ (w.ok <=> w.bytes = sums[n])
<1> DEFINE writes == Writes(message)
           n == Len(writes)
           start == [room |-> room, bytes |-> 0, ok |-> TRUE]
           Is(f) == f = [i \in 0 .. n |-> IF i = 0 THEN start ELSE Write(f[i - 1], writes[i])]
           after == CHOOSE f : Is(f)
<1>1. n \in Nat /\ \A i \in 1 .. n : writes[i] \in Nat
  OBVIOUS
<1>2. start \in Progress
  BY DEF Progress
<1> HIDE DEF writes, n, start
<1>3. \E f : Is(f)
  <2> DEFINE step == [i \in 1 .. n |-> [w \in Progress |-> Write(w, writes[i])]]
  <2>1. step \in [1 .. n -> [Progress -> Progress]]
    <3>1. ASSUME NEW w \in Progress, NEW i \in 1 .. n PROVE Write(w, writes[i]) \in Progress
      BY <1>1, WriteType
    <3> QED
      BY <3>1
  <2>2. PICK f : IsRecursive(f, n, Progress, start, step)
    <3>1. n \in Nat
      BY <1>1
    <3> HIDE DEF step, Is
    <3> QED
      BY <1>2, <2>1, <3>1, Recursion
  <2>3. ASSUME NEW i \in 1 .. n PROVE f[i] = Write(f[i - 1], writes[i])
    <3>1. i - 1 \in 0 .. n
      BY <1>1
    <3>2. f[i - 1] \in Progress
      BY <2>2, <3>1 DEF IsRecursive
    <3>3. step[i][f[i - 1]] = Write(f[i - 1], writes[i])
      BY <3>2
    <3> HIDE DEF step
    <3> QED
      BY <2>2, <3>3 DEF IsRecursive
  <2> HIDE DEF step
  <2>4. ASSUME NEW i \in 0 .. n
        PROVE  f[i] = IF i = 0 THEN start ELSE Write(f[i - 1], writes[i])
    <3>1. i = 0 \/ i \in 1 .. n
      BY <1>1
    <3>2. i \in 1 .. n => i # 0
      BY <1>1
    <3> QED
      BY <2>2, <2>3, <3>1, <3>2 DEF IsRecursive
  <2>5. Is(f)
    <3>1. f = [i \in 0 .. n |-> f[i]]
      BY <2>2 DEF IsRecursive
    <3> QED
      BY <2>4, <3>1
  <2> QED
    BY <2>5
<1>4. Is(after)
  <2> HIDE DEF Is
  <2> QED
    BY <1>3
<1>5. Written(message, room) = after[n]
  BY DEF Written, n, writes, start
<1> HIDE DEF after
<1> DEFINE OK(i) == /\ after[i] \in Progress
                    /\ sums[i] \in Nat
                    /\ after[i].bytes <= sums[i]
                    /\ after[i].ok <=> after[i].bytes = sums[i]
           T == {i \in Nat : i <= n => OK(i)}
<1>6. 0 \in T
  <2>1. after[0] = start
    BY <1>1, <1>4
  <2> QED
    BY <1>2, <2>1 DEF start
<1>7. ASSUME NEW i \in Nat, i \in T PROVE i + 1 \in T
  <2> SUFFICES ASSUME i + 1 <= n PROVE OK(i + 1)
    <3> HIDE DEF OK
    <3> QED
      OBVIOUS
  <2>1. OK(i) /\ i + 1 \in 1 .. n /\ (i + 1) - 1 = i
    <3> HIDE DEF OK
    <3> QED
      BY <1>1, <1>7
  <2>2. after[i + 1] = Write(after[i], writes[i + 1])
    <3>1. i + 1 \in 0 .. n /\ i + 1 # 0 /\ (i + 1) - 1 = i
      BY <1>1, <2>1
    <3> QED
      BY <1>4, <3>1
  <2>3. sums[i + 1] \in Nat /\ sums[i + 1] = sums[i] + writes[i + 1] /\ writes[i + 1] \in Nat
    BY <1>1, <2>1 DEF n, writes
  <2> DEFINE w == after[i]
             v == after[i + 1]
             k == writes[i + 1]
  <2>4. /\ v \in Progress
        /\ v.bytes <= w.bytes + k
        /\ v.ok <=> w.ok /\ v.bytes = w.bytes + k
    <3>1. w \in Progress /\ k \in Nat /\ v = Write(w, k)
      BY <2>1, <2>2, <2>3
    <3> HIDE DEF w, v, k
    <3> QED
      BY <3>1, WriteType
  <2>5. w.bytes \in Nat /\ v.bytes \in Nat
    BY <2>1, <2>4 DEF Progress
  <2> HIDE DEF w, v, k
  <2>6. v.bytes <= sums[i + 1] /\ (v.ok <=> v.bytes = sums[i + 1])
    BY <2>1, <2>3, <2>4, <2>5 DEF w, k
  <2> QED
    BY <2>3, <2>4, <2>6 DEF v
<1>8. n \in T
  <2> HIDE DEF T
  <2> QED
    BY <1>1, <1>6, <1>7, Induction
<1> QED
  BY <1>1, <1>5, <1>8 DEF n, writes

(* What every message of the broker is: the client reads the length it     *)
(* has, and knows it whole exactly if its sender does.                     *)
Honest(message, room) ==
    LET e == OnStream(message, room) IN
    /\ e.expected \in Nat
    /\ e.written \in Nat
    /\ e.written <= e.expected
    /\ IsSent(message, room) <=> e.written = e.expected

(* The sum of a message's first i writes after its length, of at most      *)
(* three.                                                                  *)
First(writes, i) ==
    CASE i = 0 -> 0
      [] i = 1 -> writes[1]
      [] i = 2 -> writes[1] + writes[2]
      [] i = 3 -> writes[1] + writes[2] + writes[3]

LEMMA MessageHonest ==
    ASSUME NEW kind, NEW answer, NEW remaining \in 0 .. MaxRemainingLength,
           NEW writes \in Seq(Nat), Len(writes) <= 3, First(writes, Len(writes)) = remaining,
           NEW room \in Nat
    PROVE  Honest(Message(kind, answer, remaining, writes), room)
<1> DEFINE m == Message(kind, answer, remaining, writes)
           lb == RemainingLengthBytes[remaining]
           k == Len(lb)
           l == Len(writes)
           ones == [i \in DOMAIN lb |-> 1]
           W == <<1>> \o ones \o writes
           n == 1 + k + l
           sums == [i \in 0 .. n |-> IF i <= 1 + k THEN i ELSE 1 + k + First(writes, i - 1 - k)]
<1>1. m.lengthBytes = lb /\ m.writes = writes /\ m.kind = kind /\ m.answer = answer
  BY DEF Message
<1>2. lb \in Seq(Nat) /\ k \in 1 .. 4 /\ ReadLength(lb) = 1 + k + remaining /\ remaining \in Nat
  BY LengthIsRead, MaxRemainingLengthIs
<1>3. Writes(m) = W
  BY <1>1 DEF Writes
<1> HIDE DEF lb, m
<1>4. l \in 0 .. 3 /\ writes \in Seq(Nat) /\ \A j \in 1 .. l : writes[j] \in Nat
  <2>1. l \in Nat /\ l <= 3 /\ writes \in Seq(Nat)
    OBVIOUS
  <2>2. \A j \in 1 .. l : writes[j] \in Nat
    OBVIOUS
  <2> HIDE DEF l
  <2> QED
    BY <2>1, <2>2
<1>5. /\ W \in Seq(Nat)
      /\ Len(W) = n
      /\ \A i \in 1 .. 1 + k : W[i] = 1
      /\ \A j \in 1 .. l : W[1 + k + j] = writes[j]
  <2>1. ones \in Seq(Nat) /\ Len(ones) = k /\ \A i \in 1 .. k : ones[i] = 1
    BY <1>2
  <2> DEFINE head == <<1>> \o ones
  <2> HIDE DEF ones
  <2>2. /\ head \in Seq(Nat) /\ Len(head) = 1 + k
        /\ head[1] = 1 /\ \A i \in 1 .. k : head[1 + i] = 1
    BY <1>2, <2>1
  <2>3. \A i \in 1 .. 1 + k : head[i] = 1
    <3>1. ASSUME NEW i \in 1 .. 1 + k PROVE head[i] = 1
      <4>1. CASE i = 1
        BY <2>2, <4>1
      <4>2. CASE i # 1
        <5>1. i - 1 \in 1 .. k /\ 1 + (i - 1) = i
          BY <1>2, <4>2
        <5> QED
          BY <2>2, <5>1
      <4> QED
        BY <4>1, <4>2
    <3> QED
      BY <3>1
  <2>4. W = head \o writes
    OBVIOUS
  <2> HIDE DEF head, W
  <2>5. /\ W \in Seq(Nat)
        /\ Len(W) = Len(head) + l
        /\ \A i \in 1 .. Len(head) : W[i] = head[i]
        /\ \A j \in 1 .. l : W[Len(head) + j] = writes[j]
    <3>1. W \in Seq(Nat) /\ Len(W) = Len(head) + Len(writes)
      BY <1>4, <2>2, <2>4
    <3>2. \A i \in 1 .. Len(head) : W[i] = head[i]
      BY <1>4, <2>2, <2>4
    <3>3. \A j \in 1 .. Len(writes) : W[Len(head) + j] = writes[j]
      BY <1>4, <2>2, <2>4
    <3> QED
      BY <3>1, <3>2, <3>3
  <2>6. Len(head) = 1 + k /\ k \in Nat /\ l \in Nat
    BY <1>2, <1>4, <2>2
  <2> HIDE DEF l, k
  <2> QED
    BY <2>3, <2>5, <2>6
<1>6. /\ First(writes, 0) = 0
      /\ \A j \in 1 .. l :
            First(writes, j) \in Nat /\ First(writes, j) = First(writes, j - 1) + writes[j]
  BY <1>4 DEF First
<1>6a. First(writes, l) = remaining
  OBVIOUS
<1> HIDE DEF W, l, k
<1>7. sums[0] = 0
  BY <1>2, <1>4
<1>8. ASSUME NEW i \in 1 .. Len(Writes(m))
      PROVE  sums[i] \in Nat /\ sums[i] = sums[i - 1] + Writes(m)[i]
  <2>0. i \in 1 .. n /\ i - 1 \in 0 .. n /\ Writes(m)[i] = W[i]
    BY <1>2, <1>3, <1>4, <1>5
  <2>1. CASE i <= 1 + k
    <3>1. sums[i] = i /\ sums[i - 1] = i - 1 /\ W[i] = 1
      BY <1>2, <1>5, <2>0, <2>1
    <3> QED
      BY <2>0, <3>1
  <2>2. CASE ~(i <= 1 + k)
    <3> DEFINE j == i - 1 - k
    <3>1. j \in 1 .. l /\ 1 + k + j = i
      BY <1>2, <1>4, <2>0, <2>2
    <3>2. sums[i] = 1 + k + First(writes, j)
      BY <2>0, <2>2
    <3>3. W[i] = writes[j]
      BY <1>5, <3>1
    <3>4. sums[i - 1] = 1 + k + First(writes, j - 1)
      <4>1. CASE j = 1
        <5>1. i - 1 = 1 + k
          BY <1>2, <2>0, <4>1
        <5>2. sums[i - 1] = i - 1
          BY <2>0, <5>1, <1>2
        <5> QED
          BY <1>2, <1>6, <4>1, <5>1, <5>2
      <4>2. CASE j # 1
        <5>1. ~(i - 1 <= 1 + k) /\ (i - 1) - 1 - k = j - 1
          BY <1>2, <2>0, <3>1, <4>2
        <5> QED
          BY <2>0, <5>1
      <4> QED
        BY <4>1, <4>2
    <3>5. /\ First(writes, j) \in Nat /\ First(writes, j) = First(writes, j - 1) + writes[j]
          /\ First(writes, j - 1) \in Int /\ writes[j] \in Nat
      <4>1. CASE j = 1
        BY <1>4, <1>6, <3>1, <4>1
      <4>2. CASE j # 1
        <5>1. j - 1 \in 1 .. l
          BY <1>4, <3>1, <4>2
        <5> HIDE DEF j
        <5> QED
          BY <1>4, <1>6, <3>1, <5>1
      <4> QED
        BY <4>1, <4>2
    <3> HIDE DEF j, sums
    <3> QED
      <4>1. k \in Nat /\ Writes(m)[i] = writes[j]
        BY <1>2, <2>0, <3>3
      <4> DEFINE a == First(writes, j)
                 b == First(writes, j - 1)
                 c == writes[j]
      <4>2. sums[i] = 1 + k + a /\ sums[i - 1] = 1 + k + b
        BY <3>2, <3>4
      <4>3. a \in Nat /\ b \in Int /\ a = b + c /\ Writes(m)[i] = c /\ c \in Nat
        BY <3>5, <4>1
      <4> HIDE DEF a, b, c
      <4>4. 1 + k + a \in Nat /\ 1 + k + a = (1 + k + b) + c
        BY <4>1, <4>3
      <4> QED
        BY <4>2, <4>3, <4>4
  <2> QED
    BY <2>1, <2>2
<1>9. sums[n] = 1 + k + remaining
  <2>1. CASE l = 0
    <3>1. n = 1 + k
      BY <1>2, <2>1
    <3> QED
      BY <1>2, <1>6, <1>6a, <2>1, <3>1
  <2>2. CASE l # 0
    <3>1. ~(n <= 1 + k) /\ n - 1 - k = l /\ n \in 0 .. n
      BY <1>2, <1>4, <2>2
    <3> QED
      BY <1>6a, <3>1
  <2> QED
    BY <1>6a, <2>1, <2>2
<1> HIDE DEF sums, n
<1> DEFINE w == Written(m, room)
<1>10. w \in Progress /\ w.bytes <= sums[n] /\ (w.ok <=> w.bytes = sums[n])
  BY <1>3, <1>5, <1>7, <1>8, WrittenWhole
<1> QED
  <2>1. OnStream(m, room).expected = sums[n] /\ OnStream(m, room).written = w.bytes
    BY <1>1, <1>2, <1>9 DEF OnStream, k
  <2>2. sums[n] \in Nat /\ w.bytes \in Nat
    BY <1>2, <1>9, <1>10 DEF Progress
  <2> QED
    BY <1>10, <2>1, <2>2 DEF Honest, IsSent, m

-----------------------------------------------------------------------------
(***************************************************************************)
(* Cursors, and the walks over strings and filters step by step.           *)
(***************************************************************************)
Cursors == [pos : Nat \ {0}, ok : BOOLEAN, lengths : Seq(Nat)]

LEMMA FailType == ASSUME NEW c \in Cursors PROVE Fail(c) \in Cursors
BY DEF Cursors, Fail

LEMMA ParseStringType ==
    ASSUME NEW body \in Seq(Nat), NEW c \in Cursors
    PROVE  parseString(body, c) \in Cursors
<1>1. c.pos \in Nat /\ c.pos > 0 /\ c.lengths \in Seq(Nat) /\ Len(body) \in Nat
  BY DEF Cursors
<1>2. CASE ~c.ok \/ Remaining(body, c) < 2 \/ 2 + UInt16At(body, c.pos) > Remaining(body, c)
  BY <1>2, FailType DEF parseString
<1>3. CASE /\ c.ok
           /\ ~(Remaining(body, c) < 2)
           /\ ~(2 + UInt16At(body, c.pos) > Remaining(body, c))
  <2>1. c.pos \in 1 .. Len(body) /\ c.pos + 1 \in 1 .. Len(body)
    BY <1>1, <1>3 DEF Remaining
  <2>2. body[c.pos] \in Nat /\ body[c.pos + 1] \in Nat
    BY <2>1
  <2> DEFINE l == UInt16At(body, c.pos)
  <2>3. l \in Nat
    BY <2>2 DEF UInt16At
  <2> HIDE DEF l
  <2>4. parseString(body, c) = [c EXCEPT !.pos = @ + 2 + l, !.lengths = Append(@, l)]
    BY <1>3 DEF parseString, grabString, l
  <2>5. c.pos + 2 + l \in Nat \ {0} /\ Append(c.lengths, l) \in Seq(Nat)
    BY <1>1, <2>3
  <2> QED
    BY <2>4, <2>5 DEF Cursors
<1> QED
  BY <1>2, <1>3

LEMMA ParseFilterType ==
    ASSUME NEW p, p.body \in Seq(Nat), NEW c \in Cursors
    PROVE  parseTopicFilter(p, c) \in Cursors
<1> DEFINE d == parseString(p.body, c)
<1>1. d \in Cursors
  BY ParseStringType
<1> HIDE DEF d
<1>2. QoSBytes(p) \in Nat
  BY DEF QoSBytes
<1>3. [d EXCEPT !.pos = @ + QoSBytes(p)] \in Cursors
  <2>1. d.pos + QoSBytes(p) \in Nat \ {0}
    BY <1>1, <1>2 DEF Cursors
  <2> QED
    BY <1>1, <2>1 DEF Cursors
<1>4. parseTopicFilter(p, c) \in {Fail(d), [d EXCEPT !.pos = @ + QoSBytes(p)]}
  BY DEF parseTopicFilter, d
<1> QED
  BY <1>1, <1>3, <1>4, FailType

(* Two functions that take the same steps from the same start are one.     *)
LEMMA SameSteps ==
    ASSUME NEW n \in Nat, NEW f, NEW g, f[0] = g[0],
           \A i \in 1 .. n : f[i - 1] = g[i - 1] => f[i] = g[i]
    PROVE  f[n] = g[n]
<1> DEFINE T == {i \in Nat : i <= n => f[i] = g[i]}
<1>1. 0 \in T
  OBVIOUS
<1>2. ASSUME NEW i \in Nat, i \in T PROVE i + 1 \in T
  <2> SUFFICES ASSUME i + 1 <= n PROVE f[i + 1] = g[i + 1]
    OBVIOUS
  <2>1. i + 1 \in 1 .. n /\ (i + 1) - 1 = i /\ i <= n
    OBVIOUS
  <2> QED
    BY <1>2, <2>1
<1>3. n \in T
  <2> HIDE DEF T
  <2> QED
    BY <1>1, <1>2, Induction
<1> QED
  BY <1>3

(* A step from set to set, taken n times.                                  *)
Repeats(f, n, S, start, step) ==
    /\ f \in [0 .. n -> S]
    /\ f[0] = start
    /\ \A i \in 1 .. n : f[i] = step[f[i - 1]]

LEMMA Repeated ==
    ASSUME NEW n \in Nat, NEW S, NEW start \in S, NEW step \in [S -> S]
    PROVE  \E f : Repeats(f, n, S, start, step)
<1> DEFINE steps == [i \in 1 .. n |-> step]
<1>1. steps \in [1 .. n -> [S -> S]] /\ \A i \in 1 .. n : steps[i] = step
  OBVIOUS
<1> HIDE DEF steps
<1>2. PICK f : IsRecursive(f, n, S, start, steps)
  BY <1>1, Recursion
<1> QED
  BY <1>1, <1>2 DEF IsRecursive, Repeats

(* The strings one after the other.                                        *)
LEMMA ParseStringsSteps ==
    ASSUME NEW body \in Seq(Nat), NEW c \in Cursors, NEW n \in Nat
    PROVE  \E f :
              /\ f \in [0 .. n -> Cursors]
              /\ f[0] = c
              /\ \A i \in 1 .. n : f[i] = parseString(body, f[i - 1])
              /\ parseStrings(body, c, n) = f[n]
<1> DEFINE Is(f) == f = [i \in 0 .. n |-> IF i = 0 THEN c ELSE parseString(body, f[i - 1])]
           parsed == CHOOSE f : Is(f)
           take == [d \in Cursors |-> parseString(body, d)]
<1>1. take \in [Cursors -> Cursors] /\ \A d \in Cursors : take[d] = parseString(body, d)
  BY ParseStringType
<1> HIDE DEF take
<1>2a. PICK f : Repeats(f, n, Cursors, c, take)
  BY <1>1, Repeated
<1>2. /\ f \in [0 .. n -> Cursors]
      /\ f[0] = c
      /\ \A i \in 1 .. n : f[i] = take[f[i - 1]]
  BY <1>2a DEF Repeats
<1>3. ASSUME NEW i \in 1 .. n PROVE f[i] = parseString(body, f[i - 1])
  <2>1. i - 1 \in 0 .. n /\ i \in 0 .. n /\ i # 0
    OBVIOUS
  <2>2. f[i - 1] \in Cursors
    BY <1>2, <2>1
  <2> QED
    BY <1>1, <1>2, <2>2
<1>4. f[0] = c
  BY <1>2
<1>5. Is(f)
  <2>1. ASSUME NEW i \in 0 .. n
        PROVE  f[i] = IF i = 0 THEN c ELSE parseString(body, f[i - 1])
    <3>1. i = 0 \/ i \in 1 .. n
      OBVIOUS
    <3> QED
      BY <1>3, <1>4, <3>1
  <2>2. f = [i \in 0 .. n |-> f[i]]
    BY <1>2
  <2> QED
    BY <2>1, <2>2, Zenon
<1>6. Is(parsed)
  <2> HIDE DEF Is
  <2> QED
    BY <1>5
<1>7. parseStrings(body, c, n) = parsed[n]
  BY DEF parseStrings
<1> HIDE DEF parsed
<1>8. parsed[n] = f[n]
  <2>1. parsed[0] = f[0]
    BY <1>4, <1>6
  <2>2. ASSUME NEW i \in 1 .. n, parsed[i - 1] = f[i - 1] PROVE parsed[i] = f[i]
    <3>1. i \in 0 .. n /\ i # 0
      OBVIOUS
    <3> QED
      BY <1>3, <1>6, <2>2, <3>1
  <2> QED
    BY <2>1, <2>2, SameSteps
<1> QED
  BY <1>2, <1>3, <1>4, <1>7, <1>8

(* The loop over the filters.                                              *)
More(p, c) == ~(~c.ok \/ Remaining(p.body, c) = 0)

LEMMA FiltersParseSteps ==
    ASSUME NEW p, p.body \in Seq(Nat), FilterHeaderParses(p)
    PROVE  \E f :
              /\ f \in [0 .. Len(p.body) -> Cursors]
              /\ f[0] = Cursor(3)
              /\ \A i \in 1 .. Len(p.body) :
                    f[i] = IF More(p, f[i - 1]) THEN parseTopicFilter(p, f[i - 1]) ELSE f[i - 1]
              /\ FiltersParse(p) = f[Len(p.body)]
<1> DEFINE n == Len(p.body)
           more(c) == IF ~c.ok \/ Remaining(p.body, c) = 0 THEN c ELSE parseTopicFilter(p, c)
           Is(f) == f = [i \in 0 .. n |-> IF i = 0 THEN Cursor(3) ELSE more(f[i - 1])]
           parsed == CHOOSE f : Is(f)
           take == [d \in Cursors |-> more(d)]
<1>0. n \in Nat
  OBVIOUS
<1>1. /\ take \in [Cursors -> Cursors] /\ \A d \in Cursors : take[d] = more(d)
      /\ Cursor(3) \in Cursors
  <2>1. ASSUME NEW c \in Cursors PROVE more(c) \in Cursors
    BY ParseFilterType
  <2>2. Cursor(3) \in Cursors
    BY DEF Cursor, Cursors
  <2> HIDE DEF more
  <2> QED
    BY <2>1, <2>2
<1>a. \A c : more(c) = IF More(p, c) THEN parseTopicFilter(p, c) ELSE c
  BY DEF More
<1>b. FiltersParse(p) = parsed[n]
  BY DEF FiltersParse
<1> HIDE DEF n, more, take
<1>2a. PICK f : Repeats(f, n, Cursors, Cursor(3), take)
  BY <1>0, <1>1, Repeated
<1>2. /\ f \in [0 .. n -> Cursors]
      /\ f[0] = Cursor(3)
      /\ \A i \in 1 .. n : f[i] = take[f[i - 1]]
  BY <1>2a DEF Repeats
<1>3. ASSUME NEW i \in 1 .. n PROVE f[i] = more(f[i - 1])
  <2>1. i - 1 \in 0 .. n /\ i \in 0 .. n /\ i # 0
    BY <1>0
  <2>2. f[i - 1] \in Cursors
    BY <1>2, <2>1
  <2> QED
    BY <1>1, <1>2, <2>2
<1>4. f[0] = Cursor(3)
  BY <1>0, <1>2
<1>5. Is(f)
  <2>1. ASSUME NEW i \in 0 .. n PROVE f[i] = IF i = 0 THEN Cursor(3) ELSE more(f[i - 1])
    <3>1. i = 0 \/ i \in 1 .. n
      BY <1>0
    <3> QED
      BY <1>3, <1>4, <3>1
  <2>2. f = [i \in 0 .. n |-> f[i]]
    BY <1>2
  <2> QED
    BY <2>1, <2>2, Zenon
<1>6. Is(parsed)
  <2> HIDE DEF Is
  <2> QED
    BY <1>5
<1> HIDE DEF parsed
<1>8. parsed[n] = f[n]
  <2>1. parsed[0] = f[0]
    BY <1>0, <1>4, <1>6
  <2>2. ASSUME NEW i \in 1 .. n, parsed[i - 1] = f[i - 1] PROVE parsed[i] = f[i]
    <3>1. i \in 0 .. n /\ i # 0
      BY <1>0
    <3> QED
      BY <1>3, <1>6, <2>2, <3>1
  <2> QED
    BY <1>0, <2>1, <2>2, SameSteps
<1> QED
  BY <1>2, <1>3, <1>4, <1>a, <1>b, <1>8 DEF n

LEMMA FiltersParseType ==
    ASSUME NEW p, p.body \in Seq(Nat)
    PROVE  FiltersParse(p) \in Cursors
<1>1. CASE FilterHeaderParses(p)
  <2>1. PICK f : /\ f \in [0 .. Len(p.body) -> Cursors]
                 /\ FiltersParse(p) = f[Len(p.body)]
    BY <1>1, FiltersParseSteps
  <2> QED
    BY <2>1
<1>2. CASE ~FilterHeaderParses(p)
  <2>1. Cursor(3) \in Cursors
    BY DEF Cursor, Cursors
  <2> QED
    BY <1>2, <2>1, FailType DEF FiltersParse
<1> QED
  BY <1>1, <1>2

-----------------------------------------------------------------------------
(***************************************************************************)
(* The messages sent.                                                      *)
(***************************************************************************)
LEMMA AnswersHonest ==
    ASSUME NEW room \in Nat
    PROVE  /\ \A code : Honest(ConnectAck(code), room)
           /\ Honest(UnsubscribeAck, room)
           /\ Honest(PingResponse, room)
<1>0. 0 \in 0 .. MaxRemainingLength /\ 2 \in 0 .. MaxRemainingLength
  BY MaxRemainingLengthIs
<1>1. <<2>> \in Seq(Nat) /\ Len(<<2>>) = 1 /\ <<>> \in Seq(Nat) /\ Len(<<>>) = 0
  OBVIOUS
<1>2. First(<<2>>, 1) = 2 /\ First(<<>>, 0) = 0
  BY DEF First
<1>3. 1 <= 3 /\ 0 <= 3
  OBVIOUS
<1>4. ASSUME NEW kind, NEW answer PROVE Honest(Message(kind, answer, 2, <<2>>), room)
  BY <1>0, <1>1, <1>2, <1>3, MessageHonest
<1>5. Honest(Message("PINGRESP", 0, 0, <<>>), room)
  BY <1>0, <1>1, <1>2, <1>3, MessageHonest
<1> QED
  BY <1>4, <1>5 DEF ConnectAck, UnsubscribeAck, PingResponse

LEMMA SubscribeAckHonest ==
    ASSUME NEW results, Len(results) \in 0 .. maxTopicsPerSubscribeMessage, NEW room \in Nat
    PROVE  Honest(SubscribeAck(results), room)
<1> DEFINE n == Len(results)
           writes == <<2, n>>
<1>1. n \in Nat /\ n <= 253
  BY TopicsAssumption
<1>2. 2 + n \in 0 .. MaxRemainingLength
  BY <1>1, MaxRemainingLengthIs
<1> HIDE DEF n
<1>3. writes \in Seq(Nat) /\ Len(writes) = 2 /\ 2 <= 3
  BY <1>1
<1>4. First(writes, 2) = 2 + n
  BY <1>1 DEF First
<1> HIDE DEF writes
<1>5. Honest(Message("SUBACK", results, 2 + n, writes), room)
  BY <1>2, <1>3, <1>4, MessageHonest
<1> QED
  BY <1>5 DEF SubscribeAck, n, writes

LEMMA PublishHonest ==
    ASSUME NEW publication \in Publications, NEW room \in Nat
    PROVE  Honest(PublishMessage(publication), room)
<1> DEFINE t == publication.topic
           v == publication.value
           writes == <<2, t, v>>
<1>1. t \in Nat /\ v \in Nat /\ t + 2 + v <= MaxRemainingLength
  <2>1. t \in 0 .. 256 * 256 - 1 /\ v \in Nat /\ t + 2 + v <= MaxRemainingLength
    BY LengthsAssumption
  <2> HIDE DEF t
  <2>2. t \in Nat
    BY <2>1
  <2> QED
    BY <2>1, <2>2
<1>2. t + 2 + v \in 0 .. MaxRemainingLength
  BY <1>1, MaxRemainingLengthIs
<1> HIDE DEF t, v
<1>3. writes \in Seq(Nat) /\ Len(writes) = 3 /\ 3 <= 3
  BY <1>1
<1>4. First(writes, 3) = t + 2 + v
  BY <1>1 DEF First
<1> HIDE DEF writes
<1>5. Honest(Message("PUBLISH", 0, t + 2 + v, writes), room)
  BY <1>2, <1>3, <1>4, MessageHonest
<1> QED
  BY <1>5 DEF PublishMessage, t, v, writes

-----------------------------------------------------------------------------
(***************************************************************************)
(* The stream and what is counted of it.                                   *)
(***************************************************************************)
PlainKinds == {"CONNACK", "SUBACK", "UNSUBACK", "PINGRESP"}

Kinds == {"CONNACK", "SUBACK", "UNSUBACK", "PINGRESP", "PUBLISH"}

WholeOf(s, kinds) ==
    {i \in DOMAIN s : s[i].kind \in kinds /\ s[i].written = s[i].expected}

PublishesOf(s) == {i \in DOMAIN s : s[i].kind = "PUBLISH"}

IsStream(s) == \E S : s \in Seq(S)

Counters(o) == o = [stream |-> o.stream, connection |-> o.connection, session |-> o.session,
                    publishSent |-> o.publishSent, publishDropped |-> o.publishDropped]

Counted(o) ==
    /\ IsStream(o.stream)
    /\ Counters(o)
    /\ o.connection \in Nat /\ o.session \in Nat
    /\ o.publishSent \in Nat /\ o.publishDropped \in Nat
    /\ o.connection + o.session = Cardinality(WholeOf(o.stream, Kinds))
    /\ o.publishSent = Cardinality(WholeOf(o.stream, {"PUBLISH"}))
    /\ o.publishSent + o.publishDropped = Cardinality(PublishesOf(o.stream))

LEMMA AppendIs ==
    ASSUME NEW s, IsStream(s), NEW e
    PROVE  /\ IsStream(Append(s, e))
           /\ Len(s) \in Nat
           /\ DOMAIN s = 1 .. Len(s)
           /\ DOMAIN Append(s, e) = DOMAIN s \cup {Len(s) + 1}
           /\ Len(Append(s, e)) = Len(s) + 1
           /\ Len(s) + 1 \notin DOMAIN s
           /\ Append(s, e)[Len(s) + 1] = e
           /\ \A i \in DOMAIN s : Append(s, e)[i] = s[i]
<1>1. PICK S : s \in Seq(S)
  BY DEF IsStream
<1> DEFINE U == S \cup {e}
<1>2. s \in Seq(U) /\ e \in U
  BY <1>1
<1> HIDE DEF U
<1>3. /\ Append(s, e) \in Seq(U)
      /\ Len(s) \in Nat
      /\ DOMAIN s = 1 .. Len(s)
      /\ Len(Append(s, e)) = Len(s) + 1
      /\ DOMAIN Append(s, e) = 1 .. Len(s) + 1
      /\ Append(s, e)[Len(s) + 1] = e
      /\ \A i \in 1 .. Len(s) : Append(s, e)[i] = s[i]
  BY <1>2
<1>4. 1 .. Len(s) + 1 = (1 .. Len(s)) \cup {Len(s) + 1} /\ Len(s) + 1 \notin 1 .. Len(s)
  BY <1>3
<1> QED
  BY <1>3, <1>4 DEF IsStream

LEMMA OneMore ==
    ASSUME NEW n \in Nat, NEW A \in SUBSET (1 .. n)
    PROVE  Cardinality(A) \in Nat /\ Cardinality(A \cup {n + 1}) = Cardinality(A) + 1
<1>1. IsFiniteSet(A)
  <2>1. IsFiniteSet(1 .. n) /\ A \subseteq 1 .. n
    BY FS_Interval
  <2> QED
    BY <2>1, FS_Subset
<1>2. n + 1 \notin A
  OBVIOUS
<1> QED
  BY <1>1, <1>2, FS_CardinalityType, FS_AddElement

LEMMA CountsAfter ==
    ASSUME NEW s, IsStream(s), NEW e, NEW kinds
    PROVE  /\ Cardinality(WholeOf(s, kinds)) \in Nat
           /\ Cardinality(WholeOf(Append(s, e), kinds)) = Cardinality(WholeOf(s, kinds))
                + (IF e.kind \in kinds /\ e.written = e.expected THEN 1 ELSE 0)
           /\ Cardinality(PublishesOf(s)) \in Nat
           /\ Cardinality(PublishesOf(Append(s, e))) = Cardinality(PublishesOf(s))
                + (IF e.kind = "PUBLISH" THEN 1 ELSE 0)
<1> DEFINE t == Append(s, e)
           n == Len(s)
<1>1. /\ n \in Nat /\ DOMAIN s = 1 .. n /\ DOMAIN t = DOMAIN s \cup {n + 1}
      /\ n + 1 \notin DOMAIN s /\ t[n + 1] = e
      /\ \A i \in DOMAIN s : t[i] = s[i]
  BY AppendIs
<1> HIDE DEF t, n
<1>2. WholeOf(s, kinds) \in SUBSET (1 .. n) /\ PublishesOf(s) \in SUBSET (1 .. n)
  BY <1>1 DEF WholeOf, PublishesOf
<1>3. WholeOf(t, kinds) = IF e.kind \in kinds /\ e.written = e.expected
                          THEN WholeOf(s, kinds) \cup {n + 1} ELSE WholeOf(s, kinds)
  BY <1>1 DEF WholeOf
<1>4. PublishesOf(t) = IF e.kind = "PUBLISH" THEN PublishesOf(s) \cup {n + 1}
                       ELSE PublishesOf(s)
  BY <1>1 DEF PublishesOf
<1>5. /\ Cardinality(WholeOf(s, kinds)) \in Nat
      /\ Cardinality(WholeOf(s, kinds) \cup {n + 1}) = Cardinality(WholeOf(s, kinds)) + 1
      /\ Cardinality(PublishesOf(s)) \in Nat
      /\ Cardinality(PublishesOf(s) \cup {n + 1}) = Cardinality(PublishesOf(s)) + 1
  BY <1>1, <1>2, OneMore
<1>6. Cardinality(WholeOf(t, kinds)) = Cardinality(WholeOf(s, kinds))
                + (IF e.kind \in kinds /\ e.written = e.expected THEN 1 ELSE 0)
  BY <1>3, <1>5
<1>7. Cardinality(PublishesOf(t)) = Cardinality(PublishesOf(s))
                + (IF e.kind = "PUBLISH" THEN 1 ELSE 0)
  BY <1>4, <1>5
<1> QED
  BY <1>5, <1>6, <1>7 DEF t

(* A message is counted by its sender, not being a PUBLISH, if it is whole. *)
LEMMA SendCounts ==
    ASSUME NEW o, Counted(o), NEW message, message.kind \in PlainKinds,
           NEW room, Honest(message, room), NEW sender \in {"connection", "session"}
    PROVE  /\ Counted(Send(o, sender, message, room))
           /\ Send(o, sender, message, room).stream = Append(o.stream, OnStream(message, room))
<1> DEFINE e == OnStream(message, room)
           sent == IsSent(message, room)
           d == IF sent THEN 1 ELSE 0
           s == Append(o.stream, e)
           q == Send(o, sender, message, room)
<1>1. e.kind \in PlainKinds /\ (sent <=> e.written = e.expected)
  BY DEF OnStream, Honest
<1>2. q = [o EXCEPT !.stream = s, ![sender] = IF sent THEN @ + 1 ELSE @]
  BY DEF Send
<1> HIDE DEF e, sent, q
<1>3. d \in Nat
  OBVIOUS
<1>4. /\ o.connection \in Nat /\ o.session \in Nat
      /\ o.publishSent \in Nat /\ o.publishDropped \in Nat
      /\ o = [stream |-> o.stream, connection |-> o.connection, session |-> o.session,
              publishSent |-> o.publishSent, publishDropped |-> o.publishDropped]
  BY DEF Counted, Counters
<1>5. /\ Counters(q) /\ q.stream = s
      /\ q.connection \in Nat /\ q.session \in Nat
      /\ q.publishSent = o.publishSent /\ q.publishDropped = o.publishDropped
      /\ q.connection + q.session = o.connection + o.session + d
  <2> HIDE DEF s
  <2>1. CASE sender = "connection"
    <3>1. q = [stream |-> s, connection |-> IF sent THEN o.connection + 1 ELSE o.connection,
               session |-> o.session, publishSent |-> o.publishSent,
               publishDropped |-> o.publishDropped]
      BY <1>2, <1>4, <2>1
    <3> QED
      BY <1>4, <3>1 DEF Counters
  <2>2. CASE sender = "session"
    <3>1. q = [stream |-> s, connection |-> o.connection,
               session |-> IF sent THEN o.session + 1 ELSE o.session,
               publishSent |-> o.publishSent, publishDropped |-> o.publishDropped]
      BY <1>2, <1>4, <2>2
    <3> QED
      BY <1>4, <3>1 DEF Counters
  <2> QED
    BY <2>1, <2>2
<1>6. /\ Cardinality(WholeOf(o.stream, Kinds)) \in Nat
      /\ Cardinality(WholeOf(s, Kinds)) = Cardinality(WholeOf(o.stream, Kinds)) + d
      /\ Cardinality(WholeOf(s, {"PUBLISH"})) = Cardinality(WholeOf(o.stream, {"PUBLISH"}))
      /\ Cardinality(PublishesOf(s)) = Cardinality(PublishesOf(o.stream))
      /\ IsStream(s)
  <2>1. IsStream(o.stream)
    BY DEF Counted
  <2>2. e.kind \in Kinds /\ e.kind \notin {"PUBLISH"} /\ e.kind # "PUBLISH"
    BY <1>1 DEF PlainKinds, Kinds
  <2>3. IsStream(s)
    BY <2>1, AppendIs
  <2>4. /\ Cardinality(WholeOf(o.stream, Kinds)) \in Nat
        /\ Cardinality(WholeOf(s, Kinds)) = Cardinality(WholeOf(o.stream, Kinds))
             + (IF e.kind \in Kinds /\ e.written = e.expected THEN 1 ELSE 0)
        /\ Cardinality(PublishesOf(o.stream)) \in Nat
        /\ Cardinality(PublishesOf(s)) = Cardinality(PublishesOf(o.stream))
             + (IF e.kind = "PUBLISH" THEN 1 ELSE 0)
    BY <2>1, CountsAfter
  <2>5. /\ Cardinality(WholeOf(o.stream, {"PUBLISH"})) \in Nat
        /\ Cardinality(WholeOf(s, {"PUBLISH"})) = Cardinality(WholeOf(o.stream, {"PUBLISH"}))
             + (IF e.kind \in {"PUBLISH"} /\ e.written = e.expected THEN 1 ELSE 0)
    BY <2>1, CountsAfter
  <2> HIDE DEF s
  <2> QED
    BY <1>1, <2>2, <2>3, <2>4, <2>5
<1> HIDE DEF s, d
<1>7. Counted(q)
  BY <1>3, <1>4, <1>5, <1>6 DEF Counted
<1> QED
  BY <1>5, <1>7 DEF q, s, e

(* A PUBLISH is sent or dropped.                                           *)
LEMMA PublishIs ==
    ASSUME NEW o, Counters(o), o.connection \in Nat, o.session \in Nat,
           o.publishSent \in Nat, o.publishDropped \in Nat, NEW publication, NEW room
    PROVE  LET sent == IsSent(PublishMessage(publication), room) IN
           sendPublishMessage(o, publication, room) =
               [stream |-> Append(o.stream, OnStream(PublishMessage(publication), room)),
                connection |-> o.connection,
                session |-> IF sent THEN o.session + 1 ELSE o.session,
                publishSent |-> IF sent THEN o.publishSent + 1 ELSE o.publishSent,
                publishDropped |-> IF sent THEN o.publishDropped ELSE o.publishDropped + 1]
<1> DEFINE m == PublishMessage(publication)
           sent == IsSent(m, room)
           s == Append(o.stream, OnStream(m, room))
           q == sendPublishMessage(o, publication, room)
<1>1. q = [[o EXCEPT !.stream = s, !["session"] = IF sent THEN @ + 1 ELSE @] EXCEPT
              !.publishSent = IF sent THEN @ + 1 ELSE @,
              !.publishDropped = IF sent THEN @ ELSE @ + 1]
  BY DEF sendPublishMessage, Send
<1> HIDE DEF sent, q, m, s
<1>2. /\ o.connection \in Nat /\ o.session \in Nat
      /\ o.publishSent \in Nat /\ o.publishDropped \in Nat
      /\ o = [stream |-> o.stream, connection |-> o.connection, session |-> o.session,
              publishSent |-> o.publishSent, publishDropped |-> o.publishDropped]
  BY DEF Counters
<1>3. q = [stream |-> s, connection |-> o.connection,
           session |-> IF sent THEN o.session + 1 ELSE o.session,
           publishSent |-> IF sent THEN o.publishSent + 1 ELSE o.publishSent,
           publishDropped |-> IF sent THEN o.publishDropped ELSE o.publishDropped + 1]
  BY <1>1, <1>2
<1> QED
  BY <1>3 DEF q, s, sent, m

(* The counters stay right.                                                *)
LEMMA PublishCounts ==
    ASSUME NEW o, Counted(o), NEW publication \in Publications, NEW room \in Nat
    PROVE  LET q == sendPublishMessage(o, publication, room) IN
           /\ Counted(q)
           /\ q.stream = Append(o.stream, OnStream(PublishMessage(publication), room))
<1> DEFINE m == PublishMessage(publication)
           e == OnStream(m, room)
           sent == IsSent(m, room)
           d == IF sent THEN 1 ELSE 0
           s == Append(o.stream, e)
           q == sendPublishMessage(o, publication, room)
<1>1. e.kind = "PUBLISH" /\ (sent <=> e.written = e.expected)
  BY PublishHonest DEF OnStream, Honest, PublishMessage, Message
<1>2. q = [stream |-> s, connection |-> o.connection,
           session |-> IF sent THEN o.session + 1 ELSE o.session,
           publishSent |-> IF sent THEN o.publishSent + 1 ELSE o.publishSent,
           publishDropped |-> IF sent THEN o.publishDropped ELSE o.publishDropped + 1]
  BY PublishIs DEF Counted
<1> HIDE DEF e, sent, q, m
<1>3. d \in 0 .. 1 /\ (sent <=> d = 1)
  OBVIOUS
<1>4. /\ o.connection \in Nat /\ o.session \in Nat
      /\ o.publishSent \in Nat /\ o.publishDropped \in Nat
      /\ o = [stream |-> o.stream, connection |-> o.connection, session |-> o.session,
              publishSent |-> o.publishSent, publishDropped |-> o.publishDropped]
  BY DEF Counted, Counters
<1>5. /\ Counters(q) /\ q.stream = s
      /\ q.connection = o.connection
      /\ q.session = o.session + d
      /\ q.publishSent = o.publishSent + d
      /\ q.publishDropped = o.publishDropped + (1 - d)
  <2> HIDE DEF s
  <2> QED
    BY <1>2, <1>4 DEF Counters
<1>6. /\ Cardinality(WholeOf(s, Kinds)) = Cardinality(WholeOf(o.stream, Kinds)) + d
      /\ Cardinality(WholeOf(s, {"PUBLISH"})) = Cardinality(WholeOf(o.stream, {"PUBLISH"})) + d
      /\ Cardinality(PublishesOf(s)) = Cardinality(PublishesOf(o.stream)) + 1
      /\ IsStream(s)
  <2>1. IsStream(o.stream)
    BY DEF Counted
  <2>2. e.kind \in Kinds /\ e.kind \in {"PUBLISH"}
    BY <1>1 DEF Kinds
  <2>3. IsStream(s)
    BY <2>1, AppendIs
  <2>4. /\ Cardinality(WholeOf(s, Kinds)) = Cardinality(WholeOf(o.stream, Kinds))
             + (IF e.kind \in Kinds /\ e.written = e.expected THEN 1 ELSE 0)
        /\ Cardinality(PublishesOf(s)) = Cardinality(PublishesOf(o.stream))
             + (IF e.kind = "PUBLISH" THEN 1 ELSE 0)
    BY <2>1, CountsAfter
  <2>5. Cardinality(WholeOf(s, {"PUBLISH"})) = Cardinality(WholeOf(o.stream, {"PUBLISH"}))
             + (IF e.kind \in {"PUBLISH"} /\ e.written = e.expected THEN 1 ELSE 0)
    BY <2>1, CountsAfter
  <2> HIDE DEF s
  <2> QED
    BY <1>1, <2>2, <2>3, <2>4, <2>5
<1> HIDE DEF s, d
<1>7. Counted(q)
  <2>1. /\ q.session \in Nat /\ q.publishSent \in Nat /\ q.publishDropped \in Nat
        /\ q.connection \in Nat
        /\ q.connection + q.session = (o.connection + o.session) + d
        /\ q.publishSent + q.publishDropped = (o.publishSent + o.publishDropped) + 1
    BY <1>3, <1>4, <1>5
  <2> QED
    BY <1>5, <1>6, <2>1 DEF Counted
<1> QED
  BY <1>5, <1>7 DEF q, s, e, m

-----------------------------------------------------------------------------
(***************************************************************************)
(* What is published while a handler works.                                *)
(***************************************************************************)
(* Of two streams: up to n PUBLISHes were put behind the first.            *)
Adds(s, t, n) ==
    /\ IsStream(t)
    /\ Len(s) <= Len(t) /\ Len(t) <= Len(s) + n
    /\ \A i \in DOMAIN s : t[i] = s[i]
    /\ \A i \in Len(s) + 1 .. Len(t) : t[i].kind = "PUBLISH" /\ t[i].written <= t[i].expected

LEMMA StreamIs == ASSUME NEW s, IsStream(s) PROVE Len(s) \in Nat /\ DOMAIN s = 1 .. Len(s)
BY AppendIs

LEMMA AddsNone == ASSUME NEW s, IsStream(s) PROVE Adds(s, s, 0)
BY StreamIs DEF Adds

LEMMA AddsOne ==
    ASSUME NEW s, IsStream(s), NEW t, NEW n \in Nat, Adds(s, t, n),
           NEW e, e.kind = "PUBLISH", e.written <= e.expected
    PROVE  Adds(s, Append(t, e), n + 1) /\ Adds(s, t, n + 1)
<1> DEFINE u == Append(t, e)
           k == Len(s)
           l == Len(t)
<1>1. /\ k \in Nat /\ DOMAIN s = 1 .. k
      /\ l \in Nat /\ DOMAIN t = 1 .. l
      /\ IsStream(t) /\ k <= l /\ l <= k + n
      /\ \A i \in 1 .. k : t[i] = s[i]
      /\ \A i \in k + 1 .. l : t[i].kind = "PUBLISH" /\ t[i].written <= t[i].expected
  BY StreamIs DEF Adds
<1>2. /\ IsStream(u) /\ Len(u) = l + 1 /\ u[l + 1] = e
      /\ \A i \in 1 .. l : u[i] = t[i]
  BY <1>1, AppendIs
<1> HIDE DEF u, k, l
<1>3. k <= Len(u) /\ Len(u) <= k + (n + 1) /\ l <= k + (n + 1)
  BY <1>1, <1>2
<1>4. \A i \in 1 .. k : u[i] = s[i]
  BY <1>1, <1>2
<1>5. ASSUME NEW i \in k + 1 .. Len(u) PROVE u[i].kind = "PUBLISH" /\ u[i].written <= u[i].expected
  <2>1. i \in k + 1 .. l \/ i = l + 1
    BY <1>1, <1>2
  <2>2. i \in k + 1 .. l => u[i] = t[i]
    BY <1>1, <1>2
  <2> QED
    BY <1>1, <1>2, <2>1, <2>2
<1> QED
  BY <1>1, <1>2, <1>3, <1>4, <1>5 DEF Adds, u, k, l

(* What one PUBLISH more makes of outputs.                                 *)
OnePublished(A) ==
    {sendPublishMessage(before, publication, room) :
        before \in A, publication \in Publications, room \in Rooms}

IsUpTo(f, o, n) == f = [i \in 0 .. n |-> IF i = 0 THEN {o} ELSE f[i - 1] \cup OnePublished(f[i - 1])]

(* The outputs that can come of o are a set, so that the recursion over    *)
(* sets of them is one.                                                    *)
LEMMA UpToExists == ASSUME NEW o, Counted(o), NEW n \in Nat PROVE \E f : IsUpTo(f, o, n)
<1>1. PICK S : o.stream \in Seq(S)
  BY DEF Counted, IsStream
<1> DEFINE M == {OnStream(PublishMessage(publication), room) :
                    publication \in Publications, room \in Rooms}
           E == S \cup M
           U == [stream : Seq(E), connection : Nat, session : Nat,
                 publishSent : Nat, publishDropped : Nat]
           step == [A \in SUBSET U |-> A \cup OnePublished(A)]
<1>2. o \in U
  <2>1. o.stream \in Seq(E)
    BY <1>1
  <2> HIDE DEF E
  <2> QED
    BY <2>1 DEF Counted, Counters
<1>3. ASSUME NEW q \in U, NEW publication \in Publications, NEW room \in Rooms
      PROVE  sendPublishMessage(q, publication, room) \in U
  <2> DEFINE e == OnStream(PublishMessage(publication), room)
             sent == IsSent(PublishMessage(publication), room)
  <2>1. e \in E
    OBVIOUS
  <2> HIDE DEF E
  <2>2. Append(q.stream, e) \in Seq(E)
    BY <2>1
  <2> HIDE DEF e, sent
  <2> DEFINE r == [stream |-> Append(q.stream, e), connection |-> q.connection,
                   session |-> IF sent THEN q.session + 1 ELSE q.session,
                   publishSent |-> IF sent THEN q.publishSent + 1 ELSE q.publishSent,
                   publishDropped |-> IF sent THEN q.publishDropped ELSE q.publishDropped + 1]
  <2>3. sendPublishMessage(q, publication, room) = r
    <3>1. /\ q.connection \in Nat /\ q.session \in Nat
          /\ q.publishSent \in Nat /\ q.publishDropped \in Nat
          /\ Counters(q)
      BY DEF Counters
    <3> QED
      BY <3>1, PublishIs DEF e, sent
  <2>4. /\ q.connection \in Nat
        /\ (IF sent THEN q.session + 1 ELSE q.session) \in Nat
        /\ (IF sent THEN q.publishSent + 1 ELSE q.publishSent) \in Nat
        /\ (IF sent THEN q.publishDropped ELSE q.publishDropped + 1) \in Nat
    OBVIOUS
  <2>5. r \in U
    BY <2>2, <2>4
  <2> QED
    BY <2>3, <2>5
<1> HIDE DEF U
<1>4. \A A \in SUBSET U : OnePublished(A) \subseteq U
  BY <1>3 DEF OnePublished
<1>5. step \in [SUBSET U -> SUBSET U] /\ {o} \in SUBSET U
      /\ \A A \in SUBSET U : step[A] = A \cup OnePublished(A)
  BY <1>2, <1>4
<1> HIDE DEF step
<1>6. PICK f : Repeats(f, n, SUBSET U, {o}, step)
  BY <1>5, Repeated
<1>7. ASSUME NEW i \in 0 .. n
      PROVE  f[i] = IF i = 0 THEN {o} ELSE f[i - 1] \cup OnePublished(f[i - 1])
  <2>1. i = 0 \/ (i \in 1 .. n /\ i - 1 \in 0 .. n)
    OBVIOUS
  <2>2. i \in 1 .. n => f[i] = step[f[i - 1]] /\ f[i - 1] \in SUBSET U
    BY <1>6, <2>1 DEF Repeats
  <2>3. i \in 1 .. n => i # 0
    OBVIOUS
  <2> QED
    BY <1>5, <1>6, <2>1, <2>2, <2>3 DEF Repeats
<1>8. f = [i \in 0 .. n |-> f[i]]
  BY <1>6 DEF Repeats
<1> QED
  BY <1>7, <1>8, Zenon DEF IsUpTo

(* The counters stay right, and only PUBLISHes are put on the stream.      *)
LEMMA PublishedAdds ==
    ASSUME NEW o, Counted(o), NEW n \in Nat, NEW q \in Published(o, n)
    PROVE  Counted(q) /\ Adds(o.stream, q.stream, n)
<1> DEFINE f == CHOOSE g : IsUpTo(g, o, n)
           s == o.stream
           Good(r, i) == Counted(r) /\ Adds(s, r.stream, i)
           T == {i \in Nat : i <= n => \A r \in f[i] : Good(r, i)}
<1>1. IsUpTo(f, o, n)
  BY UpToExists
<1>2. q \in f[n]
  BY DEF Published, IsUpTo, OnePublished
<1> HIDE DEF f
<1>3. IsStream(s)
  BY DEF Counted
<1>4. f[0] = {o} /\ \A i \in 1 .. n : f[i] = f[i - 1] \cup OnePublished(f[i - 1])
  <2>1. \A i \in 0 .. n : f[i] = IF i = 0 THEN {o} ELSE f[i - 1] \cup OnePublished(f[i - 1])
    BY <1>1, Zenon DEF IsUpTo
  <2>2. 0 \in 0 .. n /\ \A i \in 1 .. n : i \in 0 .. n /\ i # 0
    OBVIOUS
  <2>3. f[0] = {o}
    BY <2>1, <2>2
  <2>4. ASSUME NEW i \in 1 .. n PROVE f[i] = f[i - 1] \cup OnePublished(f[i - 1])
    <3>1. i \in 0 .. n /\ i # 0
      OBVIOUS
    <3> QED
      BY <2>1, <3>1, Zenon
  <2> QED
    BY <2>3, <2>4
<1>5. 0 \in T
  BY <1>3, <1>4, AddsNone
<1>6. ASSUME NEW i \in Nat, i \in T PROVE i + 1 \in T
  <2> SUFFICES ASSUME i + 1 <= n, NEW r \in f[i + 1] PROVE Good(r, i + 1)
    <3> HIDE DEF Good
    <3> QED
      OBVIOUS
  <2>1. f[i + 1] = f[i] \cup OnePublished(f[i])
    <3>1. i + 1 \in 1 .. n /\ (i + 1) - 1 = i
      OBVIOUS
    <3> QED
      BY <1>4, <3>1
  <2>2. \A b \in f[i] : Good(b, i)
    BY <1>6
  <2> DEFINE none == [kind |-> "PUBLISH", written |-> 0, expected |-> 0]
  <2>3. CASE r \in f[i]
    <3>1. none.kind = "PUBLISH" /\ none.written <= none.expected
      OBVIOUS
    <3> HIDE DEF none
    <3> QED
      BY <1>3, <2>2, <2>3, <3>1, AddsOne
  <2>4. CASE r \in OnePublished(f[i])
    <3>1. PICK b \in f[i], publication \in Publications, room \in Rooms :
            r = sendPublishMessage(b, publication, room)
      BY <2>4 DEF OnePublished
    <3>2. Counted(b) /\ Adds(s, b.stream, i)
      BY <2>2
    <3> DEFINE e == OnStream(PublishMessage(publication), room)
    <3>3. room \in Nat
      BY LengthsAssumption
    <3>4. Counted(r) /\ r.stream = Append(b.stream, e)
      BY <3>1, <3>2, <3>3, PublishCounts
    <3>5. e.written <= e.expected /\ e.kind = "PUBLISH"
      BY <3>3, PublishHonest DEF Honest, OnStream, PublishMessage, Message
    <3> HIDE DEF e, s
    <3>6. Adds(s, Append(b.stream, e), i + 1)
      BY <1>3, <3>2, <3>5, AddsOne
    <3> QED
      BY <3>4, <3>6
  <2> QED
    BY <2>1, <2>3, <2>4
<1>7. n \in T
  <2> HIDE DEF T
  <2> QED
    BY <1>5, <1>6, Induction
<1> QED
  BY <1>2, <1>7

LEMMA AddsKeepsRange ==
    ASSUME NEW s, IsStream(s), NEW t, NEW n \in Nat, Adds(s, t, n)
    PROVE  Range(s) \subseteq Range(t)
<1>1. /\ DOMAIN s = 1 .. Len(s) /\ DOMAIN t = 1 .. Len(t)
      /\ Len(s) \in Nat /\ Len(t) \in Nat /\ Len(s) <= Len(t)
      /\ \A i \in DOMAIN s : t[i] = s[i]
  BY StreamIs DEF Adds
<1>2. DOMAIN s \subseteq DOMAIN t
  BY <1>1
<1> QED
  BY <1>1, <1>2 DEF Range

-----------------------------------------------------------------------------
Gone == {"ended", "waiting"}

(* Of message i of a stream: at most logDepth messages follow it, all      *)
(* PUBLISHes.                                                              *)
OnlyLogBehind(s, i) ==
    /\ Len(s) - i <= logDepth
    /\ \A j \in i + 1 .. Len(s) : s[j].kind = "PUBLISH"

(* A session or connection that goes on has no broken answer behind it.    *)
Followed(s, state) ==
    \A i \in DOMAIN s :
        /\ s[i].written <= s[i].expected
        /\ IsBrokenAnswer(s[i]) => state \in Gone /\ OnlyLogBehind(s, i)

LEMMA AppendFollowed ==
    ASSUME NEW s, IsStream(s), Followed(s, "open"), NEW e, e.written <= e.expected,
           ~IsBrokenAnswer(e), NEW state
    PROVE  Followed(Append(s, e), state)
<1> DEFINE t == Append(s, e)
           n == Len(s)
<1>1. /\ DOMAIN t = DOMAIN s \cup {n + 1} /\ t[n + 1] = e
      /\ \A i \in DOMAIN s : t[i] = s[i]
  BY AppendIs
<1>2. \A i \in DOMAIN s : s[i].written <= s[i].expected /\ ~IsBrokenAnswer(s[i])
  BY DEF Followed, Gone
<1> HIDE DEF t, n
<1>3. \A i \in DOMAIN t : t[i].written <= t[i].expected /\ ~IsBrokenAnswer(t[i])
  BY <1>1, <1>2
<1> QED
  BY <1>3 DEF Followed, t

(* PUBLISHes behind a stream without a broken answer bring none.           *)
LEMMA AddsFollowed ==
    ASSUME NEW s, IsStream(s), Followed(s, "open"), NEW t, NEW n \in Nat, Adds(s, t, n), NEW state
    PROVE  Followed(t, state)
<1>1. /\ DOMAIN s = 1 .. Len(s) /\ DOMAIN t = 1 .. Len(t)
      /\ Len(s) \in Nat /\ Len(t) \in Nat
      /\ \A i \in DOMAIN s : t[i] = s[i]
      /\ \A i \in Len(s) + 1 .. Len(t) : t[i].kind = "PUBLISH" /\ t[i].written <= t[i].expected
  BY StreamIs DEF Adds
<1>2. \A i \in DOMAIN s : s[i].written <= s[i].expected /\ ~IsBrokenAnswer(s[i])
  BY DEF Followed, Gone
<1>3. ASSUME NEW i \in DOMAIN t PROVE t[i].written <= t[i].expected /\ ~IsBrokenAnswer(t[i])
  <2>1. i \in DOMAIN s \/ i \in Len(s) + 1 .. Len(t)
    BY <1>1
  <2> QED
    BY <1>1, <1>2, <2>1 DEF IsBrokenAnswer
<1> QED
  BY <1>3 DEF Followed

(* A line of the log behind an answer that may be broken.                  *)
LEMMA LogFollowed ==
    ASSUME NEW s, IsStream(s), Followed(s, "open"), NEW e, e.written <= e.expected,
           NEW t, Adds(Append(s, e), t, logDepth), NEW state \in Gone
    PROVE  Followed(t, state)
<1> DEFINE a == Append(s, e)
           n == Len(s)
<1>1. /\ IsStream(a) /\ n \in Nat /\ DOMAIN s = 1 .. n
      /\ Len(a) = n + 1 /\ a[n + 1] = e /\ DOMAIN a = 1 .. n + 1
      /\ \A i \in 1 .. n : a[i] = s[i]
  BY AppendIs, StreamIs
<1> HIDE DEF a
<1>2. /\ Len(t) \in Nat /\ DOMAIN t = 1 .. Len(t)
      /\ n + 1 <= Len(t) /\ Len(t) <= n + 1 + logDepth
      /\ \A i \in 1 .. n + 1 : t[i] = a[i]
      /\ \A i \in n + 2 .. Len(t) : t[i].kind = "PUBLISH" /\ t[i].written <= t[i].expected
  <2>1. IsStream(t) /\ Adds(a, t, logDepth)
    BY DEF Adds, a
  <2>2. (n + 1) + 1 = n + 2
    BY <1>1
  <2> QED
    BY <1>1, <2>1, <2>2, StreamIs DEF Adds
<1> HIDE DEF n
<1>3. \A i \in DOMAIN s : s[i].written <= s[i].expected /\ ~IsBrokenAnswer(s[i])
  BY DEF Followed, Gone
<1>4. ASSUME NEW i \in DOMAIN t
      PROVE  /\ t[i].written <= t[i].expected
             /\ IsBrokenAnswer(t[i]) => OnlyLogBehind(t, i)
  <2>1. CASE i \in 1 .. n
    <3>1. t[i] = s[i] /\ i \in DOMAIN s
      BY <1>1, <1>2, <2>1
    <3> QED
      BY <1>3, <3>1
  <2>2. CASE i = n + 1
    <3>1. t[i] = e
      BY <1>1, <1>2, <2>2
    <3>2. Len(t) - i <= logDepth /\ i + 1 = n + 2
      BY <1>1, <1>2, <2>2, LogAssumption
    <3> QED
      BY <1>2, <3>1, <3>2 DEF OnlyLogBehind
  <2>3. CASE i \in n + 2 .. Len(t)
    BY <1>2, <2>3 DEF IsBrokenAnswer
  <2> QED
    BY <1>1, <1>2, <2>1, <2>2, <2>3
<1> QED
  BY <1>4 DEF Followed

Inv(o, state) ==
    /\ Counted(o)
    /\ state \in {"none", "open", "ended", "waiting"}
    /\ Followed(o.stream, state)

IInv == Inv(output, session)

LEMMA InvImplies == IInv => CountersMatchStream /\ OnlyLogFollowsBrokenAnswer
<1> SUFFICES ASSUME IInv PROVE CountersMatchStream /\ OnlyLogFollowsBrokenAnswer
  OBVIOUS
<1>1. CountersMatchStream
  BY DEF IInv, Inv, Counted, CountersMatchStream, WholeOf, PublishesOf, Kinds
<1>2. OnlyLogFollowsBrokenAnswer
  BY DEF IInv, Inv, Followed, OnlyLogBehind, Gone, OnlyLogFollowsBrokenAnswer
<1> QED
  BY <1>1, <1>2

LEMMA InitInv == Init => IInv
<1> SUFFICES ASSUME Init PROVE IInv
  OBVIOUS
<1>1. output.stream = <<>> /\ IsStream(output.stream) /\ DOMAIN output.stream = {}
  <2>1. output.stream = <<>> /\ <<>> \in Seq({}) /\ DOMAIN <<>> = {}
    BY DEF Init
  <2> QED
    BY <2>1 DEF IsStream
<1>2. /\ Cardinality(WholeOf(output.stream, Kinds)) = 0
      /\ Cardinality(WholeOf(output.stream, {"PUBLISH"})) = 0
      /\ Cardinality(PublishesOf(output.stream)) = 0
  <2>1. /\ WholeOf(output.stream, Kinds) = {} /\ WholeOf(output.stream, {"PUBLISH"}) = {}
        /\ PublishesOf(output.stream) = {}
    BY <1>1 DEF WholeOf, PublishesOf
  <2> QED
    BY <2>1, FS_EmptySet
<1>3. /\ Counters(output)
      /\ output.connection = 0 /\ output.session = 0
      /\ output.publishSent = 0 /\ output.publishDropped = 0
  BY DEF Init, Counters
<1>4. Counted(output)
  BY <1>1, <1>2, <1>3 DEF Counted
<1>5. Followed(output.stream, session) /\ session \in {"none", "open"}
  BY <1>1 DEF Followed, Init
<1> QED
  BY <1>4, <1>5 DEF IInv, Inv

-----------------------------------------------------------------------------
(* What an operation starts from: no broken answer on the stream.          *)
Clear(o) == Counted(o) /\ Followed(o.stream, "open")

LEMMA ClearKeeps ==
    ASSUME NEW o, Clear(o), NEW state \in {"none", "open", "ended", "waiting"}
    PROVE  Inv(o, state)
BY DEF Clear, Followed, Gone, Inv

LEMMA PublishKeeps ==
    ASSUME NEW o, Clear(o), NEW publication \in Publications, NEW room \in Nat
    PROVE  Clear(sendPublishMessage(o, publication, room))
<1> DEFINE e == OnStream(PublishMessage(publication), room)
           q == sendPublishMessage(o, publication, room)
<1>1. Counted(q) /\ q.stream = Append(o.stream, e)
  BY PublishCounts DEF Clear
<1>2. e.written <= e.expected /\ e.kind = "PUBLISH"
  BY PublishHonest DEF Honest, OnStream, PublishMessage, Message
<1>3. IsStream(o.stream) /\ Followed(o.stream, "open")
  BY DEF Clear, Counted
<1> HIDE DEF e, q
<1>4. Followed(q.stream, "open")
  BY <1>1, <1>2, <1>3, AppendFollowed DEF IsBrokenAnswer
<1> QED
  BY <1>1, <1>4 DEF Clear, q

LEMMA PublishedClear ==
    ASSUME NEW o, Clear(o), NEW n \in Nat, NEW q \in Published(o, n)
    PROVE  Clear(q)
<1>1. Counted(q) /\ Adds(o.stream, q.stream, n)
  BY PublishedAdds DEF Clear
<1>2. IsStream(o.stream) /\ Followed(o.stream, "open")
  BY DEF Clear, Counted
<1>3. Followed(q.stream, "open")
  BY <1>1, <1>2, AddsFollowed
<1> QED
  BY <1>1, <1>3 DEF Clear

LEMMA MeanwhileClear ==
    ASSUME NEW o, Clear(o), NEW q, q \in Meanwhile(o) \/ q \in LogLine(o)
    PROVE  Clear(q)
BY PublishedClear, LogAssumption DEF Meanwhile, LogLine

(* What is on the stream behind a message, and what the client can read.   *)
LEMMA SendIs ==
    ASSUME NEW o, Clear(o), NEW message, message.kind \in PlainKinds,
           NEW room, Honest(message, room), NEW sender \in {"connection", "session"}
    PROVE  LET q == Send(o, sender, message, room)
               e == OnStream(message, room)
           IN  /\ Counted(q) /\ q.stream = Append(o.stream, e)
               /\ IsStream(o.stream) /\ Followed(o.stream, "open") /\ IsStream(q.stream)
               /\ e.written <= e.expected
               /\ IsBrokenAnswer(e) <=> /\ ~IsSent(message, room)
                                        /\ message.kind = "CONNACK" => message.answer = Accepted
<1> DEFINE e == OnStream(message, room)
           q == Send(o, sender, message, room)
<1>1. Counted(q) /\ q.stream = Append(o.stream, e)
  BY SendCounts DEF Clear
<1>2. /\ e.expected \in Nat /\ e.written \in Nat /\ e.written <= e.expected
      /\ IsSent(message, room) <=> e.written = e.expected
      /\ e.kind = message.kind /\ e.answer = message.answer
  BY DEF Honest, OnStream
<1>3. IsStream(o.stream) /\ Followed(o.stream, "open") /\ IsStream(q.stream)
  BY <1>1 DEF Clear, Counted
<1> HIDE DEF e, q
<1>4. e.written < e.expected <=> ~IsSent(message, room)
  BY <1>2
<1>5. e.kind # "PUBLISH"
  BY <1>2 DEF PlainKinds
<1>6. IsBrokenAnswer(e) <=> /\ ~IsSent(message, room)
                            /\ message.kind = "CONNACK" => message.answer = Accepted
  BY <1>2, <1>4, <1>5 DEF IsBrokenAnswer
<1> QED
  BY <1>1, <1>2, <1>3, <1>6 DEF e, q

LEMMA SendKeeps ==
    ASSUME NEW o, Clear(o), NEW message, message.kind \in PlainKinds,
           NEW room, Honest(message, room), NEW sender \in {"connection", "session"}
    PROVE  LET q == Send(o, sender, message, room) IN
           /\ IsSent(message, room) \/ (message.kind = "CONNACK" /\ message.answer # Accepted)
                => \A state \in {"none", "open", "ended", "waiting"} : Inv(q, state)
           /\ \A r \in LogLine(q), state \in Gone : Inv(r, state)
<1> DEFINE e == OnStream(message, room)
           q == Send(o, sender, message, room)
<1>1. /\ Counted(q) /\ q.stream = Append(o.stream, e)
      /\ IsStream(o.stream) /\ Followed(o.stream, "open") /\ IsStream(q.stream)
      /\ e.written <= e.expected
      /\ IsBrokenAnswer(e) <=> /\ ~IsSent(message, room)
                               /\ message.kind = "CONNACK" => message.answer = Accepted
  BY SendIs
<1> HIDE DEF e, q
<1>2. ASSUME IsSent(message, room) \/ (message.kind = "CONNACK" /\ message.answer # Accepted),
             NEW state \in {"none", "open", "ended", "waiting"}
      PROVE  Inv(q, state)
  <2>1. ~IsBrokenAnswer(e)
    BY <1>1, <1>2
  <2>2. Followed(q.stream, state)
    BY <1>1, <2>1, AppendFollowed
  <2> QED
    BY <1>1, <2>2 DEF Inv
<1>3. ASSUME NEW r \in LogLine(q), NEW state \in Gone PROVE Inv(r, state)
  <2>1. Counted(r) /\ Adds(q.stream, r.stream, logDepth)
    BY <1>1, PublishedAdds, LogAssumption DEF LogLine
  <2>2. Followed(r.stream, state)
    BY <1>1, <2>1, LogFollowed
  <2> QED
    BY <2>1, <2>2 DEF Inv, Gone
<1> QED
  BY <1>2, <1>3 DEF q

LEMMA AnswerKeeps ==
    ASSUME NEW o, Clear(o), NEW message, message.kind \in PlainKinds,
           NEW room, Honest(message, room), Answer(o, message, room)
    PROVE  IInv'
<1> DEFINE q == Send(o, "session", message, room)
<1>1. CASE IsSent(message, room)
  <2>1. output' = q /\ session' = "open"
    BY <1>1 DEF Answer
  <2>2. Inv(q, "open")
    BY <1>1, SendKeeps
  <2> QED
    BY <2>1, <2>2 DEF IInv
<1>2. CASE ~IsSent(message, room)
  <2>1. output' \in LogLine(q) /\ session' \in Gone
    BY <1>2 DEF Answer, Left, Gone
  <2>2. Inv(output', session')
    BY <2>1, SendKeeps
  <2> QED
    BY <2>2 DEF IInv
<1> QED
  BY <1>1, <1>2

LEMMA ConnectAckIs ==
    ASSUME NEW code, NEW room \in Nat
    PROVE  /\ ConnectAck(code).kind = "CONNACK" /\ "CONNACK" \in PlainKinds
           /\ ConnectAck(code).answer = code
           /\ Honest(ConnectAck(code), room)
BY AnswersHonest DEF ConnectAck, Message, PlainKinds

LEMMA ConnectKeeps ==
    ASSUME session \in {"none", "open"}, NEW o, Clear(o), NEW p, NEW room \in Nat,
           connectMessageReceived(o, p, room)
    PROVE  IInv'
<1>1. CASE Answer(o, ConnectAck(Accepted), room)
  BY <1>1, ConnectAckIs, AnswerKeeps
<1>2. CASE output' \in Meanwhile(o) /\ session' = session
  <2>1. Inv(output', session')
    BY <1>2, MeanwhileClear, ClearKeeps
  <2> QED
    BY <2>1 DEF IInv
<1> QED
  BY <1>1, <1>2 DEF connectMessageReceived

LEMMA RefuseKeeps ==
    ASSUME Clear(output), session \in {"none", "open"},
           NEW code, code # Accepted, NEW room \in Nat, Refuse(code, room)
    PROVE  IInv'
<1>1. /\ output' = Send(output, "connection", ConnectAck(code), room)
      /\ session' = session
  BY DEF Refuse
<1>2. Inv(Send(output, "connection", ConnectAck(code), room), session)
  BY ConnectAckIs, SendKeeps
<1> QED
  BY <1>1, <1>2 DEF IInv

LEMMA ShutdownKeeps ==
    ASSUME Clear(output), session' = "ended", output' \in Meanwhile(output)
    PROVE  IInv'
BY MeanwhileClear, ClearKeeps DEF IInv

LEMMA SubscribeKeeps ==
    ASSUME Clear(output), NEW p, p.body \in Seq(Nat), NEW room \in Nat,
           subscribeMessageReceived(p, room)
    PROVE  IInv'
<1> DEFINE c == FiltersParse(p)
           n == Len(c.lengths)
<1>1. n \in Nat
  BY FiltersParseType DEF Cursors
<1>2. CASE shutdown
  BY <1>2, ShutdownKeeps DEF shutdown
<1>3. CASE session' = "ended" /\ output' \in Meanwhile(output)
  BY <1>3, ShutdownKeeps
<1>4. ASSUME NEW o \in Meanwhile(output), NEW refused \in SUBSET (1 .. n),
             NEW filters, n <= maxTopicsPerSubscribeMessage,
             Answer(o, SubscribeAck(SubscribeResults(n, filters, refused)), room)
      PROVE  IInv'
  <2> DEFINE results == SubscribeResults(n, filters, refused)
  <2> HIDE DEF n
  <2>1. Len(results) = n
    <3>1. results \in [1 .. n -> {0, 128}]
      BY DEF SubscribeResults
    <3> HIDE DEF results
    <3> QED
      BY <1>1, <3>1
  <2> HIDE DEF results
  <2>2. Len(results) \in 0 .. maxTopicsPerSubscribeMessage
    BY <1>1, <1>4, <2>1, TopicsAssumption
  <2>3. Honest(SubscribeAck(results), room) /\ SubscribeAck(results).kind \in PlainKinds
    BY <2>2, SubscribeAckHonest DEF SubscribeAck, Message, PlainKinds
  <2>4. Clear(o)
    BY MeanwhileClear
  <2> QED
    BY <1>4, <2>3, <2>4, AnswerKeeps DEF results
<1>5. n > maxTopicsPerSubscribeMessage \/ n <= maxTopicsPerSubscribeMessage
  BY <1>1, TopicsAssumption
<1> QED
  BY <1>2, <1>3, <1>4, <1>5 DEF subscribeMessageReceived

(* What a session makes of a packet.                                       *)
SessionStep(p, room) ==
    \/ connectMessageReceived(output, p, room)
    \/ subscribeMessageReceived(p, room)
    \/ unsubscribeMessageReceived(p, room)
    \/ pingRequestMessageReceived(p, room)
    \/ shutdown
    \/ output' \in LogLine(output) /\ UNCHANGED session

LEMMA SessionKeeps ==
    ASSUME Clear(output), session = "open", NEW p, p.body \in Seq(Nat), NEW room \in Nat,
           SessionStep(p, room)
    PROVE  IInv'
<1>1. CASE unsubscribeMessageReceived(p, room)
  <2>1. ASSUME NEW o \in Meanwhile(output), Answer(o, UnsubscribeAck, room) PROVE IInv'
    <3>1. UnsubscribeAck.kind \in PlainKinds /\ Honest(UnsubscribeAck, room)
      BY AnswersHonest DEF UnsubscribeAck, Message, PlainKinds
    <3>2. Clear(o)
      BY MeanwhileClear
    <3> QED
      BY <2>1, <3>1, <3>2, AnswerKeeps
  <2> QED
    BY <1>1, <2>1, ShutdownKeeps DEF unsubscribeMessageReceived, shutdown
<1>2. CASE pingRequestMessageReceived(p, room)
  <2>1. ASSUME Answer(output, PingResponse, room) PROVE IInv'
    <3>1. PingResponse.kind \in PlainKinds /\ Honest(PingResponse, room)
      BY AnswersHonest DEF PingResponse, Message, PlainKinds
    <3> QED
      BY <2>1, <3>1, AnswerKeeps
  <2> QED
    BY <1>2, <2>1, ShutdownKeeps DEF pingRequestMessageReceived, shutdown
<1>3. CASE output' \in LogLine(output) /\ UNCHANGED session
  BY <1>3, MeanwhileClear, ClearKeeps DEF IInv
<1>4. CASE shutdown
  BY <1>4, ShutdownKeeps DEF shutdown
<1> QED
  BY <1>1, <1>2, <1>3, <1>4, ConnectKeeps, SubscribeKeeps DEF SessionStep

LEMMA SequencesGrow ==
    ASSUME NEW S, NEW T, S \subseteq T, NEW s \in Seq(S)
    PROVE  s \in Seq(T)
OBVIOUS

LEMMA ArrivesAsBytes ==
    ASSUME NEW meant \in FirstPackets \cup LaterPackets
    PROVE  Encoded(meant).body \in Seq(Nat)
<1>1. Encoded(meant).body \in Seq(0 .. 255)
  BY PacketAssumption
<1>2. 0 .. 255 \subseteq Nat
  BY SMT
<1> QED
  BY <1>1, <1>2, SequencesGrow

Types == {"CONNECT", "SUBSCRIBE", "UNSUBSCRIBE", "PINGREQ"} \cup Ending \cup Ignored

LEMMA SessionMessageIs ==
    ASSUME NEW p, p.type \in Types, NEW room, SessionMessage(p, room)
    PROVE  SessionStep(p, room)
<1>1. CASE p.type = "CONNECT"
  BY <1>1 DEF SessionMessage, SessionStep, Ending, Ignored
<1>2. CASE p.type = "SUBSCRIBE"
  BY <1>2 DEF SessionMessage, SessionStep, Ending, Ignored
<1>3. CASE p.type = "UNSUBSCRIBE"
  BY <1>3 DEF SessionMessage, SessionStep, Ending, Ignored
<1>4. CASE p.type = "PINGREQ"
  BY <1>4 DEF SessionMessage, SessionStep, Ending, Ignored
<1>5. CASE p.type \in Ending
  BY <1>5 DEF SessionMessage, SessionStep, Ending, Ignored
<1>6. CASE p.type \in Ignored
  BY <1>6 DEF SessionMessage, SessionStep, Ending, Ignored
<1> QED
  BY <1>1, <1>2, <1>3, <1>4, <1>5, <1>6 DEF Types

LEMMA ConnectionKeeps ==
    ASSUME IInv, session = "none", NEW p, NEW room \in Nat, NEW paired,
           processConnectMessage(p, room, paired)
    PROVE  IInv'
<1>1. Clear(output)
  BY DEF IInv, Inv, Clear, Followed, Gone
<1>2. CASE UNCHANGED <<session, output>>
  BY <1>2 DEF IInv
<1>3. ASSUME NEW code, code # Accepted, Refuse(code, room) PROVE IInv'
  BY <1>1, <1>3, RefuseKeeps
<1>4. RefusedUnavailable # Accepted
  BY DEF RefusedUnavailable, Accepted
<1>5. ASSUME NEW o \in LogLine(output), connectMessageReceived(o, p, room) PROVE IInv'
  <2>1. Clear(o)
    BY <1>1, MeanwhileClear
  <2> QED
    BY <1>5, <2>1, ConnectKeeps
<1> QED
  BY <1>2, <1>3, <1>4, <1>5 DEF processConnectMessage

LEMMA ServiceKeeps == ASSUME IInv, service PROVE IInv'
<1>0. session \in {"none", "open"}
  BY DEF service
<1>1. Clear(output)
  BY <1>0 DEF IInv, Inv, Clear, Followed, Gone
<1>2. PICK meant \in FirstPackets \cup LaterPackets, room \in Rooms, paired \in BOOLEAN :
        processMessage(Encoded(meant), room, paired)
  BY DEF service
<1> DEFINE p == Encoded(meant)
<1>3. room \in Nat
  BY LengthsAssumption
<1>4. p.body \in Seq(Nat)
  BY ArrivesAsBytes
<1>4a. p.type \in Types
  BY PacketAssumption DEF Types
<1> HIDE DEF p
<1>5. processMessage(p, room, paired)
  BY <1>2 DEF p
<1>6. CASE session = "open"
  <2>1. SessionMessage(p, room)
    BY <1>5, <1>6 DEF processMessage
  <2>2. SessionStep(p, room)
    BY <1>4a, <2>1, SessionMessageIs
  <2> QED
    BY <1>1, <1>3, <1>4, <1>6, <2>2, SessionKeeps
<1>7. CASE session = "none"
  <2>1. CASE processConnectMessage(p, room, paired)
    BY <1>3, <1>7, <2>1, ConnectionKeeps
  <2>2. CASE UNCHANGED <<session, output>>
    BY <2>2 DEF IInv
  <2> QED
    BY <1>5, <1>7, <2>1, <2>2 DEF processMessage
<1> QED
  BY <1>0, <1>6, <1>7

LEMMA PublicationKeeps == ASSUME IInv, publish PROVE IInv'
<1>1. session = "open" /\ session' = session
  BY DEF publish
<1>2. Clear(output)
  BY <1>1 DEF IInv, Inv, Clear
<1>3. PICK publication \in Publications, room \in Rooms :
        output' = sendPublishMessage(output, publication, room)
  BY DEF publish
<1>4. Clear(output')
  BY <1>2, <1>3, PublishKeeps, LengthsAssumption
<1> QED
  BY <1>1, <1>4 DEF IInv, Inv, Clear

LEMMA NextInv == IInv /\ [Next]_vars => IInv'
<1> SUFFICES ASSUME IInv, [Next]_vars PROVE IInv'
  OBVIOUS
<1>1. CASE service
  BY <1>1, ServiceKeeps
<1>2. CASE publish
  BY <1>2, PublicationKeeps
<1>3. CASE UNCHANGED vars
  BY <1>3 DEF vars, IInv
<1> QED
  BY <1>1, <1>2, <1>3 DEF Next

THEOREM AnswersInvariance == Spec => []IInv
BY InitInv, NextInv, PTL DEF Spec

(* MQTTSession and MQTTConnection count a message as sent exactly if the   *)
(* client can read it whole, and a PUBLISH as sent or dropped: the code    *)
(* counts after the last write of each message.                            *)
THEOREM AnswersCounted == Spec => []CountersMatchStream
BY AnswersInvariance, InvImplies, PTL

(* handleConnectionSendFailure ends the session whose client could not be  *)
(* answered: of a broken answer the client takes at most the PUBLISHes of  *)
(* one line of the log for the rest, and no further answer.                *)
THEOREM AnswersFollowed == Spec => []OnlyLogFollowsBrokenAnswer
BY AnswersInvariance, InvImplies, PTL

-----------------------------------------------------------------------------
(***************************************************************************)
(* What BodyOf puts together: strings one behind the other, each with its  *)
(* length in front.                                                        *)
(***************************************************************************)
(* What comes of sequences put one behind the other.                       *)
Joined(ss, f) ==
    /\ f \in [0 .. Len(ss) -> Seq(Nat)]
    /\ f[0] = <<>>
    /\ \A i \in 1 .. Len(ss) : f[i] = f[i - 1] \o ss[i]

LEMMA JoinedExist == ASSUME NEW ss \in Seq(Seq(Nat)) PROVE \E f : Joined(ss, f)
<1> DEFINE n == Len(ss)
           S == Seq(Nat)
           step == [i \in 1 .. n |-> [s \in S |-> s \o ss[i]]]
<1>1. n \in Nat /\ <<>> \in S
  OBVIOUS
<1>2. step \in [1 .. n -> [S -> S]] /\ \A i \in 1 .. n : \A s \in S : step[i][s] = s \o ss[i]
  <2>1. ASSUME NEW i \in 1 .. n, NEW s \in S PROVE s \o ss[i] \in S
    BY ConcatProperties
  <2> HIDE DEF S, n
  <2> QED
    BY <2>1
<1> HIDE DEF step, n, S
<1>3. PICK f : IsRecursive(f, n, S, <<>>, step)
  BY <1>1, <1>2, Recursion
<1>4. ASSUME NEW i \in 1 .. n PROVE f[i] = f[i - 1] \o ss[i]
  <2>1. i - 1 \in 0 .. n
    BY <1>1
  <2>2. f[i - 1] \in S
    BY <1>3, <2>1 DEF IsRecursive
  <2>3. f[i] = step[i][f[i - 1]]
    BY <1>3 DEF IsRecursive
  <2> QED
    BY <1>2, <2>2, <2>3
<1>5. f \in [0 .. n -> S] /\ f[0] = <<>>
  BY <1>3 DEF IsRecursive
<1> QED
  BY <1>4, <1>5 DEF Joined, n, S

LEMMA JoinedAt ==
    ASSUME NEW ss \in Seq(Seq(Nat)), NEW f, Joined(ss, f), NEW i \in 1 .. Len(ss)
    PROVE  /\ f[i - 1] \in Seq(Nat) /\ f[i] \in Seq(Nat) /\ ss[i] \in Seq(Nat)
           /\ f[i] = f[i - 1] \o ss[i]
<1> DEFINE S == Seq(Nat)
<1>1. f \in [0 .. Len(ss) -> S] /\ ss \in Seq(S) /\ f[i] = f[i - 1] \o ss[i]
  BY DEF Joined
<1> HIDE DEF S
<1>2. i - 1 \in 0 .. Len(ss) /\ i \in 0 .. Len(ss)
  BY <1>1
<1>3. f[i - 1] \in S /\ f[i] \in S
  BY <1>1, <1>2, Zenon
<1>4. ss[i] \in S
  BY <1>1
<1> QED
  BY <1>1, <1>3, <1>4 DEF S

LEMMA Appended ==
    ASSUME NEW s \in Seq(Nat), NEW t \in Seq(Nat)
    PROVE  /\ Len(s) \in Nat /\ Len(t) \in Nat /\ Len(s \o t) = Len(s) + Len(t)
           /\ \A j \in 1 .. Len(s) : (s \o t)[j] = s[j]
           /\ \A j \in 1 .. Len(t) : (s \o t)[Len(s) + j] = t[j]
           /\ s \o t \in Seq(Nat)
OBVIOUS

LEMMA JoinedIs ==
    ASSUME NEW ss \in Seq(Seq(Nat)), NEW f, Joined(ss, f)
    PROVE  FlattenSeq(ss) = f[Len(ss)]
<1> DEFINE n == Len(ss)
           Is(g) == g = [i \in 1 .. n |-> IF i = 1 THEN ss[i] ELSE g[i - 1] \o ss[i]]
           flatten == CHOOSE g : Is(g)
           h == [i \in 1 .. n |-> f[i]]
<1>0. CASE n = 0
  BY <1>0 DEF FlattenSeq, Joined
<1>1. CASE n # 0
  <2>1. n \in Nat /\ n >= 1
    BY <1>1
  <2>2. f[1] = ss[1]
    <3>1. 1 \in 1 .. Len(ss) /\ 1 - 1 = 0
      BY <2>1
    <3>2. f[1] = f[0] \o ss[1] /\ ss[1] \in Seq(Nat)
      BY <3>1, JoinedAt
    <3>3. <<>> \o ss[1] = ss[1]
      BY <3>2, ConcatEmptySeq
    <3> QED
      BY <3>2, <3>3 DEF Joined
  <2>3. Is(h)
    <3>1. ASSUME NEW i \in 1 .. n
          PROVE  h[i] = IF i = 1 THEN ss[i] ELSE h[i - 1] \o ss[i]
      <4>1. CASE i = 1
        BY <2>2, <4>1
      <4>2. CASE i # 1
        <5>1. i - 1 \in 1 .. n
          BY <2>1, <4>2
        <5> QED
          BY <4>2, <5>1 DEF Joined
      <4> QED
        BY <4>1, <4>2
    <3> QED
      BY <3>1
  <2>4. Is(flatten)
    <3> HIDE DEF h
    <3> QED
      BY <2>3
  <2>5. FlattenSeq(ss) = flatten[n]
    BY <2>1 DEF FlattenSeq
  <2> DEFINE T == {k \in Nat : k \in 1 .. n => flatten[k] = f[k]}
  <2> HIDE DEF flatten
  <2>6. 0 \in T
    BY <2>1
  <2>7. ASSUME NEW k \in Nat, k \in T PROVE k + 1 \in T
    <3> SUFFICES ASSUME k + 1 \in 1 .. n PROVE flatten[k + 1] = f[k + 1]
      OBVIOUS
    <3>1. CASE k = 0
      <4>1. flatten[1] = ss[1]
        BY <2>1, <2>4
      <4> QED
        BY <2>2, <3>1, <4>1
    <3>2. CASE k # 0
      <4>1. k \in 1 .. n /\ (k + 1) - 1 = k /\ k + 1 # 1
        BY <2>1, <3>2
      <4>2. flatten[k] = f[k]
        BY <2>7, <4>1
      <4>3. flatten[k + 1] = flatten[k] \o ss[k + 1]
        BY <2>4, <4>1
      <4>4. f[k + 1] = f[k] \o ss[k + 1]
        BY <4>1 DEF Joined
      <4> QED
        BY <4>2, <4>3, <4>4
    <3> QED
      BY <3>1, <3>2
  <2>8. n \in T
    <3> HIDE DEF T, n
    <3> QED
      BY <2>1, <2>6, <2>7, Induction
  <2> QED
    BY <2>1, <2>5, <2>8
<1> QED
  BY <1>0, <1>1

(* Each is found again behind those before it.                             *)
IsKept(ss, f, i) ==
    /\ Len(f[i - 1]) \in Nat
    /\ Len(f[i]) = Len(f[i - 1]) + Len(ss[i])
    /\ Len(f[i]) <= Len(f[Len(ss)])
    /\ \A j \in 1 .. Len(ss[i]) : f[Len(ss)][Len(f[i - 1]) + j] = ss[i][j]

LEMMA JoinedKeeps ==
    ASSUME NEW ss \in Seq(Seq(Nat)), NEW f, Joined(ss, f), NEW i \in 1 .. Len(ss)
    PROVE  IsKept(ss, f, i)
<1> DEFINE n == Len(ss)
           before == f[i - 1]
           Kept(k) == /\ Len(f[i]) <= Len(f[k])
                      /\ \A j \in 1 .. Len(f[i]) : f[k][j] = f[i][j]
           T == {k \in Nat : i + k <= n => Kept(i + k)}
<1>1. n \in Nat /\ i \in Nat /\ i - 1 \in 0 .. n /\ i \in 0 .. n /\ i <= n
  OBVIOUS
<1>2. before \in Seq(Nat) /\ ss[i] \in Seq(Nat) /\ f[i] = before \o ss[i]
  BY JoinedAt
<1>3. /\ Len(before) \in Nat
      /\ Len(f[i]) = Len(before) + Len(ss[i])
      /\ \A j \in 1 .. Len(ss[i]) : f[i][Len(before) + j] = ss[i][j]
  <2> HIDE DEF before
  <2> QED
    BY <1>2
<1>4. 0 \in T
  <2>1. Len(f[i]) \in Nat
    BY <1>2, Appended
  <2> QED
    BY <1>1, <2>1
<1>5. ASSUME NEW k \in Nat, k \in T PROVE k + 1 \in T
  <2> SUFFICES ASSUME i + (k + 1) <= n PROVE Kept(i + (k + 1))
    OBVIOUS
  <2> DEFINE m == i + k
  <2>1. m \in 0 .. n /\ m + 1 \in 1 .. n /\ (m + 1) - 1 = m /\ i + (k + 1) = m + 1
    BY <1>1
  <2>2. Kept(m)
    <3>1. m <= n
      BY <2>1
    <3> HIDE DEF Kept
    <3> QED
      BY <1>5, <3>1
  <2> HIDE DEF m
  <2>3. f[m] \in Seq(Nat) /\ ss[m + 1] \in Seq(Nat) /\ f[m + 1] = f[m] \o ss[m + 1]
    <3>1. (m + 1) - 1 = m
      BY <2>1
    <3> QED
      BY <2>1, <3>1, JoinedAt
  <2>4. /\ Len(f[m + 1]) >= Len(f[m])
        /\ \A j \in 1 .. Len(f[m]) : f[m + 1][j] = f[m][j]
    <3> DEFINE s == f[m]
               t == ss[m + 1]
    <3>1. s \in Seq(Nat) /\ t \in Seq(Nat) /\ f[m + 1] = s \o t
      BY <2>3
    <3> HIDE DEF s, t
    <3>2. /\ Len(s) \in Nat /\ Len(t) \in Nat /\ Len(s \o t) = Len(s) + Len(t)
          /\ \A j \in 1 .. Len(s) : (s \o t)[j] = s[j]
      BY <3>1, Appended
    <3>3. Len(f[m + 1]) >= Len(s) /\ \A j \in 1 .. Len(s) : f[m + 1][j] = s[j]
      BY <3>1, <3>2
    <3> QED
      BY <3>3 DEF s
  <2>5. Len(f[m]) \in Nat /\ Len(f[m + 1]) \in Nat /\ Len(f[i]) \in Nat
    BY <1>2, <2>3, Appended
  <2>6. Kept(m + 1)
    <3>1. \A j \in 1 .. Len(f[i]) : j \in 1 .. Len(f[m])
      BY <2>2, <2>5
    <3> QED
      BY <2>2, <2>4, <2>5, <3>1
  <2> QED
    BY <2>1, <2>6
<1>6. Kept(n)
  <2>1. n - i \in Nat /\ i + (n - i) = n
    BY <1>1
  <2>2. n - i \in T
    <3> HIDE DEF T
    <3> QED
      BY <1>4, <1>5, <2>1, Induction
  <2> QED
    BY <2>1, <2>2
<1>7. \A j \in 1 .. Len(ss[i]) : Len(before) + j \in 1 .. Len(f[i])
  <2>1. Len(ss[i]) \in Nat
    BY <1>2
  <2> HIDE DEF before
  <2> QED
    BY <1>3, <2>1
<1> QED
  BY <1>3, <1>6, <1>7 DEF IsKept

(* Where the strings of a packet are: each is two bytes, its own, and q.   *)
Places(lens, q, at) ==
    /\ at \in [0 .. Len(lens) -> Nat \ {0}]
    /\ \A i \in 1 .. Len(lens) : at[i] = at[i - 1] + 2 + lens[i] + q

(* The string i is in the body, the two bytes before it its length.        *)
Holds(body, lens, q, at, i) ==
    /\ at[i] - q <= Len(body) + 1
    /\ UInt16At(body, at[i - 1]) = lens[i]

Pieces == Seq(Seq(Nat))

(* It is not, whole.                                                       *)
Cut(body, lens, q, at, i) ==
    \/ at[i - 1] + 1 > Len(body)
    \/ UInt16At(body, at[i - 1]) = lens[i] /\ at[i] - q > Len(body) + 1

LaysOut(body, head, lens, q, ss) ==
    /\ body \in Seq(Nat)
    /\ \A i \in 1 .. Len(head) : body[i] = head[i]
    /\ Len(head) <= Len(body)
    /\ \E at : /\ Places(lens, q, at)
               /\ at[0] = Len(head) + 1
               /\ at[Len(lens)] = Len(body) + 1
               /\ \A i \in 1 .. Len(lens) :
                     /\ Holds(body, lens, q, at, i)
                     /\ at[i] <= Len(body) + 1
                     /\ body[at[i] - 1] = ss[i][Len(ss[i])]

LEMMA LaidOut ==
    ASSUME NEW head \in Seq(Nat), NEW lens \in Seq(Nat), NEW q \in Nat,
           NEW ss \in Pieces, Len(ss) = Len(lens),
           \A i \in 1 .. Len(ss) : /\ Len(ss[i]) = 2 + lens[i] + q
                                   /\ 256 * ss[i][1] + ss[i][2] = lens[i],
           NEW body, body = head \o FlattenSeq(ss)
    PROVE  LaysOut(body, head, lens, q, ss)
<1> DEFINE n == Len(lens)
<1>1. n \in Nat /\ Len(ss) = n /\ Len(head) \in Nat
  OBVIOUS
<1>2. PICK f : Joined(ss, f)
  BY JoinedExist DEF Pieces
<1> DEFINE all == f[Len(ss)]
<1>3. FlattenSeq(ss) = all
  BY <1>1, <1>2, JoinedIs DEF Pieces
<1>4. \A i \in 0 .. n : f[i] \in Seq(Nat)
  <2> DEFINE S == Seq(Nat)
  <2>1. f \in [0 .. n -> S]
    BY <1>1, <1>2 DEF Joined
  <2> HIDE DEF S
  <2>2. \A i \in 0 .. n : f[i] \in S
    BY <2>1
  <2> QED
    BY <2>2 DEF S
<1>4a. \A i \in 0 .. n : Len(f[i]) \in Nat
  <2>1. ASSUME NEW i \in 0 .. n PROVE Len(f[i]) \in Nat
    <3>1. f[i] \in Seq(Nat)
      BY <1>4
    <3> QED
      BY <3>1, Appended
  <2> QED
    BY <2>1
<1>5. all \in Seq(Nat)
  <2>1. Len(ss) \in 0 .. n
    BY <1>1
  <2> QED
    BY <1>4, <2>1
<1>6. f[0] = <<>> /\ Len(f[0]) = 0
  BY <1>2 DEF Joined
<1>7. body = head \o all
  BY <1>3
<1> HIDE DEF all
<1>8. /\ body \in Seq(Nat) /\ Len(body) = Len(head) + Len(all) /\ Len(all) \in Nat
      /\ \A i \in 1 .. Len(head) : body[i] = head[i]
      /\ \A i \in 1 .. Len(all) : body[Len(head) + i] = all[i]
  BY <1>5, <1>7, Appended
<1> DEFINE at == [i \in 0 .. n |-> Len(head) + 1 + Len(f[i])]
<1>8a. \A i \in 0 .. n : at[i] = Len(head) + 1 + Len(f[i])
  OBVIOUS
<1>8b. at = [i \in 0 .. n |-> at[i]]
  OBVIOUS
<1>8c. ASSUME NEW i \in 0 .. n PROVE at[i] \in Nat \ {0}
  <2> DEFINE h == Len(head)
             m == Len(f[i])
  <2>1. at[i] = h + 1 + m /\ h \in Nat /\ m \in Nat
    BY <1>1, <1>4a, <1>8a
  <2> HIDE DEF at, h, m
  <2> QED
    BY <2>1
<1> HIDE DEF at
<1>9. ASSUME NEW i \in 1 .. n
      PROVE  /\ at[i] = at[i - 1] + 2 + lens[i] + q
             /\ Holds(body, lens, q, at, i) /\ at[i] <= Len(body) + 1
             /\ body[at[i] - 1] = ss[i][Len(ss[i])]
  <2> DEFINE before == Len(f[i - 1])
             m == Len(ss[i])
  <2>0. i \in 1 .. Len(ss) /\ i - 1 \in 0 .. n /\ i \in 0 .. n
    BY <1>1
  <2>1. /\ before \in Nat
        /\ Len(f[i]) = before + m
        /\ Len(f[i]) <= Len(all)
        /\ \A j \in 1 .. m : all[before + j] = ss[i][j]
    <3>1. ss \in Seq(Seq(Nat)) /\ Joined(ss, f)
      BY <1>2 DEF Pieces
    <3> HIDE DEF before, m
    <3>2. IsKept(ss, f, i)
      BY <2>0, <3>1, JoinedKeeps
    <3> QED
      BY <3>2 DEF IsKept, all, before, m
  <2>2. m = 2 + lens[i] + q /\ 256 * ss[i][1] + ss[i][2] = lens[i] /\ lens[i] \in Nat
    BY <1>1
  <2>3. /\ at[i] = Len(head) + 1 + before + m
        /\ at[i - 1] = Len(head) + 1 + before
    <3>1. at[i] = Len(head) + 1 + Len(f[i]) /\ at[i - 1] = Len(head) + 1 + before
      BY <1>8a, <2>0
    <3>2. m \in Nat
      <4> DEFINE l == lens[i]
      <4>1. m = 2 + l + q /\ l \in Nat
        BY <2>2
      <4> HIDE DEF m, l
      <4> QED
        BY <4>1
    <3> HIDE DEF before, m
    <3> QED
      BY <1>1, <2>1, <3>1, <3>2
  <2> HIDE DEF before, m
  <2>4. m \in Nat /\ m >= 2 /\ 1 \in 1 .. m /\ 2 \in 1 .. m /\ m \in 1 .. m
    <3> DEFINE l == lens[i]
    <3>1. m = 2 + l + q /\ l \in Nat
      BY <2>2
    <3> HIDE DEF l
    <3>2. m \in Nat /\ m >= 2
      BY <3>1
    <3> QED
      BY <3>2
  <2>5. ASSUME NEW j \in 1 .. m PROVE body[Len(head) + before + j] = ss[i][j]
    <3>1. before + j \in 1 .. Len(all)
      BY <1>8, <2>1, <2>4
    <3>2. body[Len(head) + (before + j)] = all[before + j]
      BY <1>8, <3>1
    <3>3. Len(head) + (before + j) = Len(head) + before + j
      BY <1>1, <2>1
    <3> QED
      BY <2>1, <3>2, <3>3
  <2>6. UInt16At(body, at[i - 1]) = lens[i]
    <3>1. at[i - 1] = Len(head) + before + 1 /\ at[i - 1] + 1 = Len(head) + before + 2
      BY <1>1, <2>1, <2>3
    <3>2. body[at[i - 1]] = ss[i][1] /\ body[at[i - 1] + 1] = ss[i][2]
      BY <2>4, <2>5, <3>1
    <3> QED
      BY <2>2, <3>2 DEF UInt16At
  <2>7. body[at[i] - 1] = ss[i][m]
    <3>1. at[i] - 1 = Len(head) + before + m
      BY <1>1, <2>1, <2>3, <2>4
    <3> QED
      BY <2>4, <2>5, <3>1
  <2>8. at[i] <= Len(body) + 1 /\ at[i] - q <= Len(body) + 1
    <3>1. at[i] <= Len(body) + 1
      BY <1>1, <1>8, <2>1, <2>3, <2>4
    <3>2. at[i] \in Nat /\ Len(body) \in Nat
      BY <1>1, <1>8, <1>8c, <2>0
    <3> QED
      BY <3>1, <3>2
  <2>9. at[i] = at[i - 1] + 2 + lens[i] + q
    <3> DEFINE l == lens[i]
               h == Len(head)
    <3>1. /\ at[i] = h + 1 + before + m /\ at[i - 1] = h + 1 + before
          /\ m = 2 + l + q /\ l \in Nat /\ h \in Nat /\ before \in Nat
      BY <1>1, <2>1, <2>2, <2>3
    <3> HIDE DEF l, h
    <3>2. at[i] = at[i - 1] + 2 + l + q
      BY <3>1
    <3> QED
      BY <3>2 DEF l
  <2> QED
    BY <2>6, <2>7, <2>8, <2>9 DEF Holds, m
<1>10. at \in [0 .. n -> Nat \ {0}]
  BY <1>8b, <1>8c
<1>11. at[0] = Len(head) + 1 /\ at[n] = Len(body) + 1
  <2>1. 0 \in 0 .. n /\ n \in 0 .. n /\ f[n] = all
    BY <1>1 DEF all
  <2>2. at[0] = Len(head) + 1 + Len(f[0]) /\ at[n] = Len(head) + 1 + Len(all)
    BY <1>8a, <2>1
  <2> QED
    BY <1>1, <1>6, <1>8, <2>2
<1>12. Places(lens, q, at)
  BY <1>9, <1>10 DEF Places
<1>13. Len(head) <= Len(body)
  BY <1>1, <1>8
<1> QED
  BY <1>8, <1>9, <1>11, <1>12, <1>13 DEF LaysOut

(* What a cursor has found when it has passed the first i of the strings.  *)
Found(lens, at, i) == [pos |-> at[i], ok |-> TRUE, lengths |-> [k \in 1 .. i |-> lens[k]]]

LEMMA FoundNext ==
    ASSUME NEW lens \in Seq(Nat), NEW at, NEW i \in Nat, i + 1 <= Len(lens)
    PROVE  /\ Append([k \in 1 .. i |-> lens[k]], lens[i + 1]) = [k \in 1 .. i + 1 |-> lens[k]]
           /\ [k \in 1 .. i |-> lens[k]] \in Seq(Nat)
           /\ Last([k \in 1 .. i + 1 |-> lens[k]]) = lens[i + 1]
<1> DEFINE s == [k \in 1 .. i |-> lens[k]]
           t == [k \in 1 .. i + 1 |-> lens[k]]
<1>1. \A k \in 1 .. i + 1 : lens[k] \in Nat
  OBVIOUS
<1>2. s \in Seq(Nat) /\ Len(s) = i
  BY <1>1
<1>3. t \in Seq(Nat) /\ Len(t) = i + 1
  BY <1>1
<1>4. Append(s, lens[i + 1]) = t
  <2>1. Append(s, lens[i + 1]) \in Seq(Nat) /\ Len(Append(s, lens[i + 1])) = i + 1
    BY <1>1, <1>2
  <2>2. ASSUME NEW k \in 1 .. i + 1 PROVE Append(s, lens[i + 1])[k] = t[k]
    <3>1. k = i + 1 \/ k \in 1 .. i
      OBVIOUS
    <3> QED
      BY <1>1, <1>2, <3>1
  <2> HIDE DEF s, t
  <2> QED
    BY <1>3, <2>1, <2>2
<1>5. Last(t) = lens[i + 1]
  BY <1>3 DEF Last
<1> QED
  BY <1>2, <1>4, <1>5

(* parseString at a string that is there, and at one that is cut short.    *)
LEMMA ParsesOne ==
    ASSUME NEW body \in Seq(Nat), NEW lens \in Seq(Nat), NEW q \in Nat, NEW at,
           Places(lens, q, at), NEW i \in Nat, i + 1 <= Len(lens)
    PROVE  LET d == parseString(body, Found(lens, at, i)) IN
           /\ Holds(body, lens, q, at, i + 1) =>
                d = [pos |-> at[i + 1] - q, ok |-> TRUE, lengths |-> [k \in 1 .. i + 1 |-> lens[k]]]
           /\ Cut(body, lens, q, at, i + 1) => ~d.ok
<1> DEFINE c == Found(lens, at, i)
           l == lens[i + 1]
<1>1. /\ at[i] \in Nat \ {0} /\ at[i + 1] = at[i] + 2 + l + q /\ l \in Nat /\ Len(body) \in Nat
  <2>1. i \in 0 .. Len(lens) /\ i + 1 \in 1 .. Len(lens) /\ (i + 1) - 1 = i
    OBVIOUS
  <2>2. at[i] \in Nat \ {0}
    BY <2>1 DEF Places
  <2>3. at[i + 1] = at[(i + 1) - 1] + 2 + l + q
    BY <2>1 DEF Places
  <2> QED
    BY <2>1, <2>2, <2>3
<1>2. c.ok /\ c.pos = at[i] /\ c.lengths = [k \in 1 .. i |-> lens[k]]
      /\ Remaining(body, c) = Len(body) - at[i] + 1
  BY DEF Found, Remaining
<1>3. ASSUME Holds(body, lens, q, at, i + 1)
      PROVE  parseString(body, c) = [pos |-> at[i + 1] - q, ok |-> TRUE,
                                     lengths |-> [k \in 1 .. i + 1 |-> lens[k]]]
  <2>1. UInt16At(body, at[i]) = l /\ at[i + 1] - q <= Len(body) + 1
    BY <1>3 DEF Holds
  <2>2. ~(~c.ok \/ Remaining(body, c) < 2 \/ 2 + UInt16At(body, c.pos) > Remaining(body, c))
    <3> DEFINE r == Remaining(body, c)
               u == UInt16At(body, c.pos)
               a == at[i]
               b == at[i + 1]
               n == Len(body)
    <3>1. /\ a \in Nat /\ l \in Nat /\ n \in Nat
          /\ b = a + 2 + l + q /\ b - q <= n + 1 /\ r = n - a + 1
      BY <1>1, <1>2, <2>1
    <3>2. u = l /\ c.ok
      BY <1>2, <2>1
    <3> HIDE DEF r, u, a, b, n, c, l
    <3>3. ~(r < 2) /\ ~(2 + l > r)
      BY <3>1
    <3> QED
      BY <3>2, <3>3 DEF r, u
  <2>3. parseString(body, c) = [c EXCEPT !.pos = @ + 2 + l, !.lengths = Append(@, l)]
    BY <1>2, <2>1, <2>2 DEF parseString, grabString
  <2>4. Append(c.lengths, l) = [k \in 1 .. i + 1 |-> lens[k]]
    BY <1>2, FoundNext
  <2>5. at[i] + 2 + l = at[i + 1] - q
    BY <1>1
  <2> HIDE DEF l
  <2>6. parseString(body, c) = [pos |-> at[i] + 2 + l, ok |-> TRUE,
                                lengths |-> Append(c.lengths, l)]
    BY <1>2, <2>3 DEF Found
  <2> QED
    BY <2>4, <2>5, <2>6
<1>4. ASSUME Cut(body, lens, q, at, i + 1)
      PROVE  ~parseString(body, c).ok
  <2>1. Remaining(body, c) < 2 \/ 2 + UInt16At(body, c.pos) > Remaining(body, c)
    <3>1. CASE at[i] + 1 > Len(body)
      BY <1>1, <1>2, <3>1
    <3>2. CASE UInt16At(body, at[i]) = l /\ at[i + 1] - q > Len(body) + 1
      <4>1. at[i + 1] - q = at[i] + 2 + l
        BY <1>1
      <4>2. 2 + l > Len(body) - at[i] + 1
        <5> HIDE DEF l
        <5> QED
          BY <1>1, <3>2, <4>1
      <4> QED
        BY <1>2, <3>2, <4>2
    <3> QED
      BY <1>4, <3>1, <3>2 DEF Cut
  <2>2. parseString(body, c) = Fail(c)
    BY <2>1 DEF parseString
  <2> QED
    BY <2>2 DEF Fail, Found
<1> QED
  BY <1>3, <1>4

-----------------------------------------------------------------------------
(***************************************************************************)
(* The parsers on a packet laid out so.                                    *)
(***************************************************************************)
LEMMA FoundNone == ASSUME NEW lens, NEW at PROVE Found(lens, at, 0) = Cursor(at[0])
<1>1. [k \in 1 .. 0 |-> lens[k]] = <<>>
  OBVIOUS
<1> QED
  BY <1>1 DEF Found, Cursor

LEMMA FoundAll ==
    ASSUME NEW lens \in Seq(Nat), NEW at
    PROVE  Found(lens, at, Len(lens)).lengths = lens
<1>1. [k \in 1 .. Len(lens) |-> lens[k]] = lens
  OBVIOUS
<1> QED
  BY <1>1 DEF Found

(* parseStrings finds the strings that are there, and no more.             *)
LEMMA StringsFound ==
    ASSUME NEW body \in Seq(Nat), NEW lens \in Seq(Nat), NEW at, Places(lens, 0, at)
    PROVE  LET c == parseStrings(body, Cursor(at[0]), Len(lens)) IN
           /\ c \in Cursors
           /\ (\A i \in 1 .. Len(lens) : Holds(body, lens, 0, at, i))
                => c = Found(lens, at, Len(lens))
           /\ (/\ \A i \in 1 .. Len(lens) - 1 : Holds(body, lens, 0, at, i)
               /\ Len(lens) # 0
               /\ Cut(body, lens, 0, at, Len(lens))) => ~c.ok
<1> DEFINE n == Len(lens)
<1>1. n \in Nat /\ at[0] \in Nat \ {0}
  BY DEF Places
<1>2. Cursor(at[0]) \in Cursors
  BY <1>1 DEF Cursor, Cursors
<1>3. PICK f : /\ f \in [0 .. n -> Cursors]
               /\ f[0] = Cursor(at[0])
               /\ \A i \in 1 .. n : f[i] = parseString(body, f[i - 1])
               /\ parseStrings(body, Cursor(at[0]), n) = f[n]
  <2> HIDE DEF n
  <2> QED
    BY <1>1, <1>2, ParseStringsSteps
<1>4. ASSUME NEW m \in Nat, m <= n, \A i \in 1 .. m : Holds(body, lens, 0, at, i)
      PROVE  f[m] = Found(lens, at, m)
  <2> DEFINE T == {i \in Nat : i <= m => f[i] = Found(lens, at, i)}
  <2>1. 0 \in T
    BY <1>3, FoundNone
  <2>2. ASSUME NEW i \in Nat, i \in T PROVE i + 1 \in T
    <3> SUFFICES ASSUME i + 1 <= m PROVE f[i + 1] = Found(lens, at, i + 1)
      OBVIOUS
    <3>1. i + 1 \in 1 .. n /\ i + 1 \in 1 .. m /\ (i + 1) - 1 = i /\ i <= m
      BY <1>1, <1>4
    <3>2. f[i + 1] = parseString(body, Found(lens, at, i))
      BY <1>3, <2>2, <3>1
    <3>3. Holds(body, lens, 0, at, i + 1)
      BY <1>4, <3>1
    <3>4. parseString(body, Found(lens, at, i)) =
            [pos |-> at[i + 1] - 0, ok |-> TRUE, lengths |-> [k \in 1 .. i + 1 |-> lens[k]]]
      BY <3>1, <3>3, ParsesOne
    <3>5. at[i + 1] - 0 = at[i + 1]
      <4>1. i + 1 \in 0 .. Len(lens)
        BY <3>1
      <4>2. at[i + 1] \in Nat
        BY <4>1 DEF Places
      <4> QED
        BY <4>2
    <3> QED
      BY <3>2, <3>4, <3>5 DEF Found
  <2>3. m \in T
    <3> HIDE DEF T
    <3> QED
      BY <2>1, <2>2, Induction
  <2> QED
    BY <2>3
<1>5. ASSUME \A i \in 1 .. n - 1 : Holds(body, lens, 0, at, i), n # 0,
             Cut(body, lens, 0, at, n)
      PROVE  ~f[n].ok
  <2>1. n - 1 \in Nat /\ n - 1 <= n /\ (n - 1) + 1 = n /\ n \in 1 .. n
    BY <1>1, <1>5
  <2>2. f[n - 1] = Found(lens, at, n - 1)
    BY <1>4, <1>5, <2>1
  <2>3. f[n] = parseString(body, Found(lens, at, n - 1))
    BY <1>3, <2>1, <2>2
  <2> QED
    BY <1>5, <2>1, <2>3, ParsesOne
<1>6. (\A i \in 1 .. n : Holds(body, lens, 0, at, i)) => f[n] = Found(lens, at, n)
  BY <1>1, <1>4
<1>7. f[n] \in Cursors
  <2> HIDE DEF n
  <2> QED
    BY <1>1, <1>3
<1> QED
  BY <1>3, <1>5, <1>6, <1>7

(* What parseTopicFilter asks of a filter that is there.                   *)
Proper(p, lens, at, i) ==
    lens[i] # 0 /\ (p.type = "SUBSCRIBE" => p.body[at[i] - 1] <= 2)

LEMMA FilterOne ==
    ASSUME NEW p, p.body \in Seq(Nat), NEW lens \in Seq(Nat), NEW at,
           Places(lens, QoSBytes(p), at), NEW i \in Nat, i + 1 <= Len(lens)
    PROVE  LET d == parseTopicFilter(p, Found(lens, at, i))
               holds == Holds(p.body, lens, QoSBytes(p), at, i + 1)
           IN  /\ holds /\ at[i + 1] <= Len(p.body) + 1 /\ Proper(p, lens, at, i + 1)
                    => d = Found(lens, at, i + 1)
               /\ holds /\ at[i + 1] <= Len(p.body) + 1 /\ ~Proper(p, lens, at, i + 1) => ~d.ok
               /\ holds /\ at[i + 1] > Len(p.body) + 1 => ~d.ok
               /\ Cut(p.body, lens, QoSBytes(p), at, i + 1) => ~d.ok
<1> DEFINE q == QoSBytes(p)
           c == Found(lens, at, i)
           d == parseString(p.body, c)
           e == parseTopicFilter(p, c)
           n == Len(p.body)
<1>0. q \in 0 .. 1 /\ (q = 1 <=> p.type = "SUBSCRIBE") /\ n \in Nat /\ at[i + 1] \in Nat
  <2>1. i + 1 \in 0 .. Len(lens)
    OBVIOUS
  <2>2. at[i + 1] \in Nat
    BY <2>1 DEF Places
  <2>3. q \in 0 .. 1 /\ (q = 1 <=> p.type = "SUBSCRIBE")
    BY DEF QoSBytes
  <2> QED
    BY <2>2, <2>3
<1>b. q \in Nat /\ Places(lens, q, at)
  BY <1>0
<1>1. e = IF ~d.ok \/ Last(d.lengths) = 0 \/ Remaining(p.body, d) < q THEN Fail(d)
          ELSE IF p.type = "SUBSCRIBE" /\ p.body[d.pos] > 2 THEN Fail(d)
          ELSE [d EXCEPT !.pos = @ + q]
  BY DEF parseTopicFilter
<1>1a. d \in Cursors
  <2>1. c \in Cursors
    <3>1. i \in 0 .. Len(lens)
      OBVIOUS
    <3>2. at[i] \in Nat \ {0}
      BY <3>1 DEF Places
    <3> QED
      BY <3>2, FoundNext DEF Found, Cursors
  <2> QED
    BY <2>1, ParseStringType
<1> HIDE DEF q
<1>2. ASSUME Holds(p.body, lens, q, at, i + 1)
      PROVE  d = [pos |-> at[i + 1] - q, ok |-> TRUE, lengths |-> [k \in 1 .. i + 1 |-> lens[k]]]
  <2> DEFINE body == p.body
  <2>1. body \in Seq(Nat) /\ Holds(body, lens, q, at, i + 1)
    BY <1>2
  <2> HIDE DEF body
  <2>2. parseString(body, Found(lens, at, i)) =
            [pos |-> at[i + 1] - q, ok |-> TRUE, lengths |-> [k \in 1 .. i + 1 |-> lens[k]]]
    BY <1>b, <2>1, ParsesOne
  <2> QED
    BY <2>2 DEF body
<1>3. Cut(p.body, lens, q, at, i + 1) => ~d.ok
  BY <1>b, ParsesOne
<1> HIDE DEF d
<1>4. ~Fail(d).ok
  BY <1>1a DEF Fail, Cursors
<1>5. Cut(p.body, lens, q, at, i + 1) => ~e.ok
  BY <1>1, <1>3, <1>4
<1>6. ASSUME Holds(p.body, lens, q, at, i + 1)
      PROVE  /\ at[i + 1] <= n + 1 /\ Proper(p, lens, at, i + 1) => e = Found(lens, at, i + 1)
             /\ at[i + 1] <= n + 1 /\ ~Proper(p, lens, at, i + 1) => ~e.ok
             /\ at[i + 1] > n + 1 => ~e.ok
  <2>1. /\ d = [pos |-> at[i + 1] - q, ok |-> TRUE, lengths |-> [k \in 1 .. i + 1 |-> lens[k]]]
        /\ Last(d.lengths) = lens[i + 1]
    <3>1. Last([k \in 1 .. i + 1 |-> lens[k]]) = lens[i + 1]
      BY FoundNext
    <3>2. d = [pos |-> at[i + 1] - q, ok |-> TRUE, lengths |-> [k \in 1 .. i + 1 |-> lens[k]]]
      BY <1>2, <1>6
    <3>3. d.lengths = [k \in 1 .. i + 1 |-> lens[k]]
      BY <3>2
    <3> QED
      BY <3>1, <3>2, <3>3, Zenon
  <2>2. d.ok /\ d.pos = at[i + 1] - q /\ Remaining(p.body, d) = n - (at[i + 1] - q) + 1
    BY <2>1 DEF Remaining
  <2>3. Remaining(p.body, d) < q <=> at[i + 1] > n + 1
    BY <1>0, <2>2
  <2>4. at[i + 1] > n + 1 => ~e.ok
    BY <1>1, <1>4, <2>3
  <2>5. p.type = "SUBSCRIBE" => d.pos = at[i + 1] - 1
    BY <1>0, <2>2
  <2>6. ASSUME at[i + 1] <= n + 1, Proper(p, lens, at, i + 1) PROVE e = Found(lens, at, i + 1)
    <3>1. ~(Remaining(p.body, d) < q)
      BY <1>0, <2>3, <2>6
    <3>2. ~(p.type = "SUBSCRIBE" /\ p.body[d.pos] > 2)
      <4> SUFFICES ASSUME p.type = "SUBSCRIBE" PROVE ~(p.body[d.pos] > 2)
        OBVIOUS
      <4>1. p.body[at[i + 1] - 1] <= 2
        BY <2>6 DEF Proper
      <4>2. at[i + 1] - 1 \in 1 .. n
        <5>1. d.pos \in Nat \ {0}
          BY <1>1a DEF Cursors
        <5> QED
          BY <1>0, <2>5, <2>6, <5>1
      <4>3. p.body[at[i + 1] - 1] \in Nat
        BY <4>2
      <4> QED
        BY <2>5, <4>1, <4>3
    <3>3. e = [d EXCEPT !.pos = @ + q]
      BY <1>1, <2>1, <2>2, <2>6, <3>1, <3>2 DEF Proper
    <3>4. (at[i + 1] - q) + q = at[i + 1]
      BY <1>0
    <3> QED
      BY <2>1, <3>3, <3>4 DEF Found
  <2>7. ASSUME at[i + 1] <= n + 1, ~Proper(p, lens, at, i + 1) PROVE ~e.ok
    <3>1. CASE lens[i + 1] = 0
      BY <1>1, <1>4, <2>1, <3>1
    <3>2. CASE p.type = "SUBSCRIBE" /\ ~(p.body[at[i + 1] - 1] <= 2)
      <4>2. at[i + 1] - 1 \in 1 .. n
        <5>1. d.pos \in Nat \ {0}
          BY <1>1a DEF Cursors
        <5> QED
          BY <1>0, <2>5, <2>7, <3>2, <5>1
      <4>3. p.body[at[i + 1] - 1] \in Nat
        BY <4>2
      <4>4. p.body[d.pos] > 2
        BY <2>5, <3>2, <4>3
      <4> QED
        BY <1>1, <1>4, <3>2, <4>4
    <3> QED
      BY <2>7, <3>1, <3>2 DEF Proper
  <2> QED
    BY <2>4, <2>6, <2>7
<1> QED
  BY <1>5, <1>6 DEF q

LEMMA PlacesRise ==
    ASSUME NEW lens \in Seq(Nat), NEW q \in Nat, NEW at, Places(lens, q, at),
           NEW m \in 0 .. Len(lens)
    PROVE  at[m] \in Nat \ {0} /\ at[m] >= at[0] + 2 * m
<1> DEFINE n == Len(lens)
           T == {i \in Nat : i <= m => at[i] >= at[0] + 2 * i}
<1>1. n \in Nat /\ at[0] \in Nat /\ m \in Nat /\ m <= n
  BY DEF Places
<1>2. 0 \in T
  BY <1>1
<1>3. ASSUME NEW i \in Nat, i \in T PROVE i + 1 \in T
  <2> SUFFICES ASSUME i + 1 <= m PROVE at[i + 1] >= at[0] + 2 * (i + 1)
    OBVIOUS
  <2>1. i + 1 \in 1 .. n /\ (i + 1) - 1 = i /\ i \in 0 .. n /\ i <= m
    BY <1>1
  <2>2. at[i + 1] = at[i] + 2 + lens[i + 1] + q
    BY <2>1 DEF Places
  <2>3. lens[i + 1] \in Nat /\ at[i] \in Nat
    <3>1. lens[i + 1] \in Nat
      BY <2>1
    <3>2. at[i] \in Nat
      BY <2>1 DEF Places
    <3> QED
      BY <3>1, <3>2
  <2>4. at[i] >= at[0] + 2 * i
    BY <1>3, <2>1
  <2> DEFINE l == lens[i + 1]
             a == at[i]
  <2>5. a + 2 + l + q >= at[0] + 2 * (i + 1)
    <3>1. a \in Nat /\ l \in Nat /\ a >= at[0] + 2 * i
      BY <2>3, <2>4
    <3> HIDE DEF a, l
    <3> QED
      BY <1>1, <3>1
  <2> QED
    BY <2>2, <2>5
<1>4. m \in T
  <2> HIDE DEF T
  <2> QED
    BY <1>1, <1>2, <1>3, Induction
<1> QED
  BY <1>1, <1>4 DEF Places

Loop(p, f) ==
    /\ f \in [0 .. Len(p.body) -> Cursors]
    /\ f[0] = Cursor(3)
    /\ \A i \in 1 .. Len(p.body) :
          f[i] = IF More(p, f[i - 1]) THEN parseTopicFilter(p, f[i - 1]) ELSE f[i - 1]

(* Where no more is read, the cursor stays.                                *)
LEMMA Settled ==
    ASSUME NEW p, p.body \in Seq(Nat), NEW f, Loop(p, f), NEW k \in 0 .. Len(p.body),
           ~More(p, f[k])
    PROVE  f[Len(p.body)] = f[k]
<1> DEFINE N == Len(p.body)
           T == {j \in Nat : k + j <= N => f[k + j] = f[k]}
<1>1. N \in Nat /\ k \in Nat /\ k <= N
  OBVIOUS
<1>2. 0 \in T
  BY <1>1
<1>3. ASSUME NEW j \in Nat, j \in T PROVE j + 1 \in T
  <2> SUFFICES ASSUME k + (j + 1) <= N PROVE f[k + (j + 1)] = f[k]
    OBVIOUS
  <2>1. k + (j + 1) \in 1 .. N /\ (k + (j + 1)) - 1 = k + j /\ k + j <= N
    BY <1>1
  <2>2. f[k + j] = f[k]
    BY <1>3, <2>1
  <2>3. f[k + (j + 1)] = f[k + j]
    BY <2>1, <2>2 DEF Loop
  <2> QED
    BY <2>2, <2>3
<1>4. N - k \in Nat /\ k + (N - k) = N
  BY <1>1
<1>5. N - k \in T
  <2> HIDE DEF T
  <2> QED
    BY <1>2, <1>3, <1>4, Induction
<1> QED
  BY <1>4, <1>5

Whole(p, lens, at, i) ==
    Holds(p.body, lens, QoSBytes(p), at, i) /\ at[i] <= Len(p.body) + 1

(* The loop has passed m filters, or has found one that is not proper.     *)
LEMMA Passed ==
    ASSUME NEW p, p.body \in Seq(Nat), NEW lens \in Seq(Nat), NEW at,
           Places(lens, QoSBytes(p), at), at[0] = 3, NEW f, Loop(p, f),
           NEW m \in 0 .. Len(lens), \A i \in 1 .. m : Whole(p, lens, at, i)
    PROVE  /\ m <= Len(p.body)
           /\ at[m] <= Len(p.body) => m + 1 <= Len(p.body)
           /\ (\A i \in 1 .. m : Proper(p, lens, at, i)) => f[m] = Found(lens, at, m)
           /\ ~(\A i \in 1 .. m : Proper(p, lens, at, i)) => ~f[m].ok
<1> DEFINE N == Len(p.body)
           n == Len(lens)
           q == QoSBytes(p)
           Good(i) == \A k \in 1 .. i : Proper(p, lens, at, k)
           T == {i \in Nat : i <= m => /\ Good(i) => f[i] = Found(lens, at, i)
                                       /\ ~Good(i) => ~f[i].ok}
<1>1. N \in Nat /\ n \in Nat /\ m \in Nat /\ m <= n /\ q \in Nat
  BY DEF QoSBytes
<1>2. at[m] \in Nat /\ at[m] >= 3 + 2 * m
  BY <1>1, PlacesRise
<1>3. ASSUME m # 0 PROVE m + 2 <= N /\ at[m] <= N + 1
  <2>1. m \in 1 .. m
    BY <1>1, <1>3
  <2>2. at[m] <= N + 1
    BY <2>1 DEF Whole
  <2> QED
    BY <1>1, <1>2, <1>3, <2>2
<1>4. m <= N /\ (at[m] <= N => m + 1 <= N)
  BY <1>1, <1>2, <1>3
<1>5. 0 \in T
  <2>1. f[0] = Found(lens, at, 0)
    BY FoundNone DEF Loop
  <2> QED
    BY <2>1
<1>6. ASSUME NEW i \in Nat, i \in T PROVE i + 1 \in T
  <2> SUFFICES ASSUME i + 1 <= m
               PROVE  /\ Good(i + 1) => f[i + 1] = Found(lens, at, i + 1)
                      /\ ~Good(i + 1) => ~f[i + 1].ok
    OBVIOUS
  <2>1. i + 1 \in 1 .. N /\ i + 1 \in 1 .. m /\ (i + 1) - 1 = i /\ i <= m /\ i + 1 \in 1 .. n
        /\ i \in 0 .. n
    BY <1>1, <1>4
  <2>2. f[i + 1] = IF More(p, f[i]) THEN parseTopicFilter(p, f[i]) ELSE f[i]
    <3>1. f[i + 1] = IF More(p, f[(i + 1) - 1]) THEN parseTopicFilter(p, f[(i + 1) - 1])
                     ELSE f[(i + 1) - 1]
      BY <2>1 DEF Loop
    <3> QED
      BY <2>1, <3>1
  <2>3. (Good(i) => f[i] = Found(lens, at, i)) /\ (~Good(i) => ~f[i].ok)
    BY <1>6, <2>1
  <2>4. Good(i + 1) <=> Good(i) /\ Proper(p, lens, at, i + 1)
    <3>1. 1 .. i + 1 = (1 .. i) \cup {i + 1}
      OBVIOUS
    <3> QED
      BY <3>1
  <2>5. CASE Good(i)
    <3>1. f[i] = Found(lens, at, i)
      BY <2>3, <2>5
    <3>2. Holds(p.body, lens, q, at, i + 1) /\ at[i + 1] <= N + 1
      BY <2>1 DEF Whole
    <3>3. More(p, f[i])
      <4>1. at[i] < N + 1
        <5>1. at[i + 1] = at[i] + 2 + lens[i + 1] + q
          BY <2>1 DEF Places
        <5>2. at[i] \in Nat /\ lens[i + 1] \in Nat
          <6>1. lens[i + 1] \in Nat
            BY <2>1
          <6>2. at[i] \in Nat
            BY <2>1 DEF Places
          <6> QED
            BY <6>1, <6>2
        <5> DEFINE a == at[i]
                   l == lens[i + 1]
        <5>3. a \in Nat /\ l \in Nat /\ a + 2 + l + q <= N + 1
          BY <3>2, <5>1, <5>2
        <5> HIDE DEF a, l, q, N
        <5>4. a < N + 1
          BY <1>1, <5>3
        <5> QED
          BY <5>4 DEF a
      <4>2. Found(lens, at, i).ok /\ Remaining(p.body, Found(lens, at, i)) = N - at[i] + 1
        BY DEF Found, Remaining
      <4>3. at[i] \in Nat
        BY <2>1 DEF Places
      <4> QED
        BY <1>1, <3>1, <4>1, <4>2, <4>3 DEF More
    <3>4. f[i + 1] = parseTopicFilter(p, Found(lens, at, i))
      BY <2>2, <3>1, <3>3
    <3>5. i + 1 <= Len(lens)
      BY <2>1
    <3>6. /\ Proper(p, lens, at, i + 1)
                => parseTopicFilter(p, Found(lens, at, i)) = Found(lens, at, i + 1)
          /\ ~Proper(p, lens, at, i + 1) => ~parseTopicFilter(p, Found(lens, at, i)).ok
      BY <3>2, <3>5, FilterOne
    <3> HIDE DEF Good
    <3> QED
      BY <2>4, <2>5, <3>4, <3>6
  <2>6. CASE ~Good(i)
    <3>1. ~f[i].ok
      BY <2>3, <2>6
    <3>2. f[i + 1] = f[i]
      BY <2>2, <3>1 DEF More
    <3> HIDE DEF Good
    <3> QED
      BY <2>4, <2>6, <3>1, <3>2
  <2> QED
    BY <2>5, <2>6
<1>7. m \in T
  <2> HIDE DEF T
  <2> QED
    BY <1>1, <1>5, <1>6, Induction
<1> QED
  BY <1>4, <1>7

(* FiltersParse finds the filters that are there, if each is proper; and   *)
(* nothing if there is a byte too many or too few.                         *)
LEMMA FiltersFound ==
    ASSUME NEW p, p.body \in Seq(Nat), FilterHeaderParses(p), NEW lens \in Seq(Nat), NEW at,
           Places(lens, QoSBytes(p), at), at[0] = 3
    PROVE  LET c == FiltersParse(p)
               n == Len(lens)
           IN  /\ (\A i \in 1 .. n : Whole(p, lens, at, i)) /\ at[n] = Len(p.body) + 1 =>
                    /\ (\A i \in 1 .. n : Proper(p, lens, at, i)) => c.ok /\ c.lengths = lens
                    /\ ~(\A i \in 1 .. n : Proper(p, lens, at, i)) => ~c.ok
               /\ (\A i \in 1 .. n : Whole(p, lens, at, i)) /\ at[n] = Len(p.body) => ~c.ok
               /\ (/\ n # 0 /\ \A i \in 1 .. n - 1 : Whole(p, lens, at, i)
                   /\ at[n - 1] <= Len(p.body)
                   /\ \/ Holds(p.body, lens, QoSBytes(p), at, n) /\ at[n] > Len(p.body) + 1
                      \/ Cut(p.body, lens, QoSBytes(p), at, n)) => ~c.ok
<1> DEFINE c == FiltersParse(p)
           n == Len(lens)
           N == Len(p.body)
           q == QoSBytes(p)
<1>1. n \in Nat /\ N \in Nat
  OBVIOUS
<1>2. PICK f : Loop(p, f) /\ c = f[N]
  <2>1. \E f : /\ f \in [0 .. Len(p.body) -> Cursors]
               /\ f[0] = Cursor(3)
               /\ \A i \in 1 .. Len(p.body) :
                     f[i] = IF More(p, f[i - 1]) THEN parseTopicFilter(p, f[i - 1]) ELSE f[i - 1]
               /\ FiltersParse(p) = f[Len(p.body)]
    BY FiltersParseSteps
  <2> QED
    BY <2>1 DEF Loop
<1> HIDE DEF c
(* A cursor that fails stays so.                                           *)
<1>3. ASSUME NEW k \in 0 .. N, ~f[k].ok PROVE ~c.ok
  <2>1. ~More(p, f[k])
    BY <1>3 DEF More
  <2>2. f[N] = f[k]
    BY <1>2, <2>1, Settled
  <2> QED
    BY <1>2, <1>3, <2>2
<1>4. ASSUME NEW m \in 0 .. n, \A i \in 1 .. m : Whole(p, lens, at, i)
      PROVE  /\ m \in 0 .. N
             /\ at[m] <= N => m + 1 \in 1 .. N
             /\ (\A i \in 1 .. m : Proper(p, lens, at, i)) => f[m] = Found(lens, at, m)
             /\ ~(\A i \in 1 .. m : Proper(p, lens, at, i)) => ~f[m].ok
  <2>1. /\ m <= N
        /\ at[m] <= N => m + 1 <= N
        /\ (\A i \in 1 .. m : Proper(p, lens, at, i)) => f[m] = Found(lens, at, m)
        /\ ~(\A i \in 1 .. m : Proper(p, lens, at, i)) => ~f[m].ok
    BY <1>2, <1>4, Passed
  <2>2. m \in Nat
    BY <1>1
  <2> QED
    BY <1>1, <2>1, <2>2
<1>5. ASSUME NEW i \in 1 .. N PROVE f[i] = IF More(p, f[i - 1]) THEN parseTopicFilter(p, f[i - 1]) ELSE f[i - 1]
  BY <1>2 DEF Loop
(* When all are passed, the loop ends if no byte is left.                  *)
<1>6. ASSUME \A i \in 1 .. n : Whole(p, lens, at, i), at[n] = N + 1
      PROVE  /\ (\A i \in 1 .. n : Proper(p, lens, at, i)) => c.ok /\ c.lengths = lens
             /\ ~(\A i \in 1 .. n : Proper(p, lens, at, i)) => ~c.ok
  <2>1. n \in 0 .. n
    BY <1>1
  <2>2. n \in 0 .. N
    BY <1>4, <1>6, <2>1
  <2>3. ~(\A i \in 1 .. n : Proper(p, lens, at, i)) => ~c.ok
    BY <1>3, <1>4, <1>6, <2>1, <2>2
  <2>4. ASSUME \A i \in 1 .. n : Proper(p, lens, at, i) PROVE c.ok /\ c.lengths = lens
    <3>1. f[n] = Found(lens, at, n)
      BY <1>4, <1>6, <2>1, <2>4
    <3>2. Remaining(p.body, Found(lens, at, n)) = 0
      <4>1. Remaining(p.body, Found(lens, at, n)) = N - (N + 1) + 1
        BY <1>6 DEF Remaining, Found
      <4> QED
        BY <1>1, <4>1
    <3>3. ~More(p, f[n])
      BY <3>1, <3>2 DEF More
    <3>4. c = Found(lens, at, n)
      BY <1>2, <2>2, <3>1, <3>3, Settled
    <3>5. Found(lens, at, n).ok /\ Found(lens, at, n).lengths = lens
      BY FoundAll DEF Found
    <3> QED
      BY <3>4, <3>5
  <2> QED
    BY <2>3, <2>4
(* One more is tried if a byte is left.                                    *)
<1>7. ASSUME NEW m \in 0 .. n, \A i \in 1 .. m : Whole(p, lens, at, i), at[m] <= N,
             ~parseTopicFilter(p, Found(lens, at, m)).ok
      PROVE  ~c.ok
  <2>1. m \in 0 .. N /\ m + 1 \in 1 .. N /\ (m + 1) - 1 = m /\ m + 1 \in 0 .. N
    BY <1>1, <1>4, <1>7
  <2>2. CASE ~(\A i \in 1 .. m : Proper(p, lens, at, i))
    BY <1>3, <1>4, <1>7, <2>1, <2>2
  <2>3. CASE \A i \in 1 .. m : Proper(p, lens, at, i)
    <3>1. f[m] = Found(lens, at, m)
      BY <1>4, <1>7, <2>3
    <3>2. More(p, f[m])
      <4>1. at[m] \in Nat
        BY DEF Places
      <4>2. Found(lens, at, m).ok /\ Remaining(p.body, Found(lens, at, m)) = N - at[m] + 1
        BY DEF Found, Remaining
      <4> QED
        BY <1>1, <1>7, <3>1, <4>1, <4>2 DEF More
    <3>3. f[m + 1] = parseTopicFilter(p, Found(lens, at, m))
      BY <1>5, <2>1, <3>1, <3>2
    <3> QED
      BY <1>3, <1>7, <2>1, <3>3
  <2> QED
    BY <2>2, <2>3
<1>8. ASSUME \A i \in 1 .. n : Whole(p, lens, at, i), at[n] = N PROVE ~c.ok
  <2>1. n \in 0 .. n
    BY <1>1
  <2> DEFINE w == Found(lens, at, n)
             d == parseString(p.body, w)
  <2>2. Remaining(p.body, w) = 1
    <3>1. Remaining(p.body, w) = N - N + 1
      BY <1>8 DEF Remaining, Found
    <3> QED
      BY <1>1, <3>1
  <2>3. d = Fail(w)
    BY <2>2 DEF parseString
  <2>4. ~d.ok /\ ~Fail(d).ok
    BY <2>3 DEF Fail, Found
  <2>5. ~parseTopicFilter(p, w).ok
    BY <2>4 DEF parseTopicFilter
  <2>6. at[n] <= N
    BY <1>1, <1>8
  <2> QED
    BY <1>7, <1>8, <2>1, <2>5, <2>6
<1>9. ASSUME n # 0, \A i \in 1 .. n - 1 : Whole(p, lens, at, i), at[n - 1] <= N,
             \/ Holds(p.body, lens, q, at, n) /\ at[n] > N + 1
             \/ Cut(p.body, lens, q, at, n)
      PROVE  ~c.ok
  <2>1. n - 1 \in Nat /\ (n - 1) + 1 = n /\ n - 1 \in 0 .. n /\ n <= n
    BY <1>1, <1>9
  <2>2. ~parseTopicFilter(p, Found(lens, at, n - 1)).ok
    <3> DEFINE m == n - 1
    <3>1. m \in Nat /\ m + 1 = n /\ m + 1 <= Len(lens)
      BY <2>1
    <3> HIDE DEF m
    <3>2. /\ Holds(p.body, lens, QoSBytes(p), at, m + 1) /\ at[m + 1] > Len(p.body) + 1
                => ~parseTopicFilter(p, Found(lens, at, m)).ok
          /\ Cut(p.body, lens, QoSBytes(p), at, m + 1)
                => ~parseTopicFilter(p, Found(lens, at, m)).ok
      BY <3>1, FilterOne
    <3>3. ~parseTopicFilter(p, Found(lens, at, m)).ok
      BY <1>9, <3>1, <3>2
    <3> QED
      BY <3>3 DEF m
  <2> QED
    BY <1>7, <1>9, <2>1, <2>2
<1> QED
  BY <1>6, <1>8, <1>9 DEF c

(* getTopicFilters finds the same filters without looking.                 *)
LEMMA FiltersGot ==
    ASSUME NEW p, p.body \in Seq(Nat), NEW lens \in Seq(Nat), NEW at,
           Places(lens, QoSBytes(p), at), at[0] = 3,
           \A i \in 1 .. Len(lens) : Whole(p, lens, at, i)
    PROVE  getTopicFilters(p, Len(lens)).lengths = lens
<1> DEFINE n == Len(lens)
           q == QoSBytes(p)
           next(c) == [grabString(p.body, c) EXCEPT !.pos = @ + QoSBytes(p)]
           Is(f) == f = [i \in 0 .. n |-> IF i = 0 THEN Cursor(3) ELSE next(f[i - 1])]
           after == CHOOSE f : Is(f)
           w == [i \in 0 .. n |-> Found(lens, at, i)]
<1>1. n \in Nat /\ q \in Nat
  BY DEF QoSBytes
<1>2. ASSUME NEW i \in 1 .. n PROVE Found(lens, at, i) = next(Found(lens, at, i - 1))
  <2> DEFINE j == i - 1
             l == lens[i]
  <2>1. j \in Nat /\ i = j + 1 /\ j + 1 <= Len(lens) /\ j \in 0 .. n
    BY <1>1
  <2>2. UInt16At(p.body, at[j]) = l
    BY DEF Whole, Holds
  <2>3. at[i] = at[j] + 2 + l + q /\ at[j] \in Nat
    BY <2>1 DEF Places
  <2>4. l \in Nat
    OBVIOUS
  <2> HIDE DEF j
  <2>5. Append([k \in 1 .. j |-> lens[k]], l) = [k \in 1 .. i |-> lens[k]]
    BY <2>1, FoundNext
  <2> HIDE DEF l, q
  <2>6. grabString(p.body, Found(lens, at, j)) =
            [pos |-> at[j] + 2 + l, ok |-> TRUE, lengths |-> [k \in 1 .. i |-> lens[k]]]
    <3> DEFINE c == Found(lens, at, j)
               s == [k \in 1 .. j |-> lens[k]]
    <3>1. c = [pos |-> at[j], ok |-> TRUE, lengths |-> s]
      BY DEF Found
    <3> HIDE DEF c, s
    <3>2. UInt16At(p.body, c.pos) = l /\ Append(s, l) = [k \in 1 .. i |-> lens[k]]
      BY <2>2, <2>5, <3>1 DEF s
    <3>3. grabString(p.body, c) = [c EXCEPT !.pos = @ + 2 + l, !.lengths = Append(@, l)]
      BY <3>2 DEF grabString
    <3>4. grabString(p.body, c) = [pos |-> at[j] + 2 + l, ok |-> TRUE, lengths |-> Append(s, l)]
      BY <3>1, <3>3
    <3> QED
      BY <3>2, <3>4 DEF c
  <2>7. next(Found(lens, at, j)) =
            [pos |-> at[j] + 2 + l + q, ok |-> TRUE, lengths |-> [k \in 1 .. i |-> lens[k]]]
    <3> DEFINE g == grabString(p.body, Found(lens, at, j))
               s == [k \in 1 .. i |-> lens[k]]
    <3>1. next(Found(lens, at, j)) = [g EXCEPT !.pos = @ + q]
      BY DEF q
    <3>2. g = [pos |-> at[j] + 2 + l, ok |-> TRUE, lengths |-> s]
      BY <2>6
    <3> HIDE DEF g, s, next
    <3> QED
      BY <3>1, <3>2 DEF s
  <2> QED
    BY <2>3, <2>7 DEF Found, j
<1>3. getTopicFilters(p, n) = after[n]
  BY DEF getTopicFilters
<1> HIDE DEF next
<1>4. w[0] = Cursor(3)
  BY <1>1, FoundNone
<1>5. Is(w)
  <2>1. ASSUME NEW i \in 0 .. n PROVE w[i] = IF i = 0 THEN Cursor(3) ELSE next(w[i - 1])
    <3>1. i = 0 \/ (i \in 1 .. n /\ i - 1 \in 0 .. n)
      BY <1>1
    <3> QED
      BY <1>2, <1>4, <3>1
  <2>2. w = [i \in 0 .. n |-> w[i]]
    OBVIOUS
  <2> HIDE DEF w
  <2> QED
    BY <2>1, <2>2, Zenon
<1>6. Is(after)
  <2> HIDE DEF Is, w
  <2> QED
    BY <1>5
<1>7. after[n] = w[n]
  <2> HIDE DEF after, w
  <2>1. after[0] = w[0]
    BY <1>1, <1>4, <1>6
  <2>2. ASSUME NEW i \in 1 .. n, after[i - 1] = w[i - 1] PROVE after[i] = w[i]
    <3>1. i \in 0 .. n /\ i # 0
      BY <1>1
    <3> QED
      BY <1>5, <1>6, <2>2, <3>1
  <2> QED
    BY <1>1, <2>1, <2>2, SameSteps
<1>8. w[n] = Found(lens, at, n)
  BY <1>1
<1> HIDE DEF after, w
<1> QED
  BY <1>3, <1>7, <1>8, FoundAll

-----------------------------------------------------------------------------
(***************************************************************************)
(* A byte too many, a byte too few.                                        *)
(***************************************************************************)
(* A packet laid out: its strings are there, and nothing behind them.      *)
IsLaidOut(body, lens, q, at) ==
    /\ Places(lens, q, at)
    /\ at[Len(lens)] = Len(body) + 1
    /\ \A i \in 1 .. Len(lens) : Holds(body, lens, q, at, i) /\ at[i] <= Len(body) + 1

LEMMA NextPlace ==
    ASSUME NEW lens \in Seq(Nat), NEW q \in Nat, NEW at, Places(lens, q, at),
           NEW i \in 1 .. Len(lens)
    PROVE  /\ at[i] \in Nat /\ at[i - 1] \in Nat \ {0} /\ lens[i] \in Nat
           /\ at[i] = at[i - 1] + 2 + lens[i] + q
<1>1. i \in 0 .. Len(lens) /\ i - 1 \in 0 .. Len(lens) /\ lens[i] \in Nat
  OBVIOUS
<1>2. at[i] = at[i - 1] + 2 + lens[i] + q
  BY DEF Places
<1>3. at[i] \in Nat /\ at[i - 1] \in Nat \ {0}
  BY <1>1 DEF Places
<1> QED
  BY <1>1, <1>2, <1>3

(* The places rise, so those of the first n - 1 are below the last.        *)
LEMMA PlacesBefore ==
    ASSUME NEW lens \in Seq(Nat), NEW q \in Nat, NEW at, Places(lens, q, at),
           NEW m \in 0 .. Len(lens)
    PROVE  \A i \in 0 .. m : at[i] <= at[m]
<1> SUFFICES ASSUME NEW i \in 0 .. m PROVE at[i] <= at[m]
  OBVIOUS
<1> DEFINE n == Len(lens)
           T == {k \in Nat : i + k <= m => at[i] <= at[i + k]}
<1>1. n \in Nat /\ i \in Nat /\ m \in Nat /\ m <= n /\ i <= m
  OBVIOUS
<1>2. 0 \in T
  <2>1. at[i] \in Nat
    BY <1>1 DEF Places
  <2> QED
    BY <1>1, <2>1
<1>3. ASSUME NEW k \in Nat, k \in T PROVE k + 1 \in T
  <2> SUFFICES ASSUME i + (k + 1) <= m PROVE at[i] <= at[i + (k + 1)]
    OBVIOUS
  <2> DEFINE j == i + (k + 1)
  <2>1. j \in 1 .. n /\ j - 1 = i + k /\ i + k <= m /\ i \in 0 .. n
    BY <1>1
  <2>2. at[i] <= at[j - 1]
    BY <1>3, <2>1
  <2> HIDE DEF j
  <2>3. /\ at[j] \in Nat /\ at[j - 1] \in Nat /\ lens[j] \in Nat
        /\ at[j] = at[j - 1] + 2 + lens[j] + q
    BY <2>1, NextPlace
  <2>4. at[i] \in Nat
    BY <2>1 DEF Places
  <2> DEFINE l == lens[j]
  <2>5. at[i] <= at[j]
    <3>1. l \in Nat /\ at[j] = at[j - 1] + 2 + l + q
      BY <2>3
    <3> HIDE DEF l
    <3> QED
      BY <2>2, <2>3, <2>4, <3>1
  <2> QED
    BY <2>5 DEF j
<1>4. m - i \in Nat /\ i + (m - i) = m
  BY <1>1
<1>5. m - i \in T
  <2> HIDE DEF T
  <2> QED
    BY <1>2, <1>3, <1>4, Induction
<1> QED
  BY <1>4, <1>5

(* Two bodies with the same bytes have the same length in that place.      *)
LEMMA SamePlace ==
    ASSUME NEW body, NEW b, NEW K \in Nat, \A j \in 1 .. K : b[j] = body[j],
           NEW pos \in Nat \ {0}, pos + 1 <= K
    PROVE  UInt16At(b, pos) = UInt16At(body, pos)
<1>1. pos \in 1 .. K /\ pos + 1 \in 1 .. K
  OBVIOUS
<1>2. b[pos] = body[pos] /\ b[pos + 1] = body[pos + 1]
  BY <1>1
<1> QED
  BY <1>2 DEF UInt16At

(* A byte too many.                                                        *)
LaidOutAndMore(b, body, lens, q, at) ==
    /\ b \in Seq(Nat) /\ Len(b) = Len(body) + 1
    /\ \A i \in 1 .. Len(body) : b[i] = body[i]
    /\ \A i \in 1 .. Len(lens) : Holds(b, lens, q, at, i) /\ at[i] <= Len(b) + 1
    /\ at[Len(lens)] = Len(b)

LEMMA LongIs ==
    ASSUME NEW body \in Seq(Nat), NEW lens \in Seq(Nat), NEW q \in Nat, NEW at,
           IsLaidOut(body, lens, q, at), NEW b, b = Append(body, 65)
    PROVE  LaidOutAndMore(b, body, lens, q, at)
<1>1. /\ b \in Seq(Nat) /\ Len(b) = Len(body) + 1 /\ Len(body) \in Nat
      /\ \A i \in 1 .. Len(body) : b[i] = body[i]
  OBVIOUS
<1>2. ASSUME NEW i \in 1 .. Len(lens) PROVE Holds(b, lens, q, at, i) /\ at[i] <= Len(b) + 1
  <2>1. /\ at[i] \in Nat /\ at[i - 1] \in Nat \ {0} /\ lens[i] \in Nat
        /\ at[i] = at[i - 1] + 2 + lens[i] + q
    BY NextPlace DEF IsLaidOut
  <2>2. UInt16At(body, at[i - 1]) = lens[i] /\ at[i] - q <= Len(body) + 1 /\ at[i] <= Len(body) + 1
    BY DEF IsLaidOut, Holds
  <2>3. at[i - 1] + 1 <= Len(body)
    <3> DEFINE l == lens[i]
    <3>1. at[i] = at[i - 1] + 2 + l + q /\ l \in Nat
      BY <2>1
    <3> HIDE DEF l
    <3> QED
      BY <1>1, <2>1, <2>2, <3>1
  <2>4. UInt16At(b, at[i - 1]) = lens[i]
    BY <1>1, <2>1, <2>2, <2>3, SamePlace
  <2>5. at[i] - q <= Len(b) + 1 /\ at[i] <= Len(b) + 1
    BY <1>1, <2>1, <2>2
  <2> QED
    BY <2>4, <2>5 DEF Holds
<1> QED
  BY <1>1, <1>2 DEF IsLaidOut, LaidOutAndMore

(* A byte too few.                                                         *)
LEMMA ShortIs ==
    ASSUME NEW body \in Seq(Nat), NEW lens \in Seq(Nat), Len(lens) # 0, NEW q \in 0 .. 1, NEW at,
           IsLaidOut(body, lens, q, at), NEW b, b = Front(body)
    PROVE  /\ b \in Seq(Nat) /\ Len(b) = Len(body) - 1
           /\ \A i \in 1 .. Len(b) : b[i] = body[i]
           /\ \A i \in 1 .. Len(lens) - 1 : Holds(b, lens, q, at, i) /\ at[i] <= Len(b) + 1
           /\ at[Len(lens) - 1] <= Len(b)
           /\ \/ Holds(b, lens, q, at, Len(lens)) /\ at[Len(lens)] > Len(b) + 1
              \/ Cut(b, lens, q, at, Len(lens))
           /\ q = 0 => Cut(b, lens, q, at, Len(lens))
<1> DEFINE n == Len(lens)
           N == Len(body)
<1>1. n \in Nat /\ n >= 1 /\ n \in 1 .. n /\ N \in Nat /\ q \in Nat
  OBVIOUS
<1>2. /\ at[n] \in Nat /\ at[n - 1] \in Nat \ {0} /\ lens[n] \in Nat
      /\ at[n] = at[n - 1] + 2 + lens[n] + q
  BY <1>1, NextPlace DEF IsLaidOut
<1>3. at[n] = N + 1
  BY DEF IsLaidOut
<1>4. at[n - 1] + 1 <= N
  <2> DEFINE l == lens[n]
  <2>1. at[n] = at[n - 1] + 2 + l + q /\ l \in Nat
    BY <1>2
  <2> HIDE DEF l
  <2> QED
    BY <1>1, <1>2, <1>3, <2>1
<1>5. N >= 2
  BY <1>1, <1>2, <1>4
<1>6. b \in Seq(Nat) /\ Len(b) = N - 1 /\ \A i \in 1 .. Len(b) : b[i] = body[i]
  BY <1>5 DEF Front
<1>7. at[n - 1] <= Len(b)
  BY <1>1, <1>2, <1>4, <1>6
<1>8. ASSUME NEW i \in 1 .. n - 1 PROVE Holds(b, lens, q, at, i) /\ at[i] <= Len(b) + 1
  <2>0. i \in 1 .. n /\ n - 1 \in 0 .. n /\ i \in 0 .. n - 1
    BY <1>1
  <2>1. /\ at[i] \in Nat /\ at[i - 1] \in Nat \ {0} /\ lens[i] \in Nat
        /\ at[i] = at[i - 1] + 2 + lens[i] + q
    BY <1>1, <2>0, NextPlace DEF IsLaidOut
  <2>2. UInt16At(body, at[i - 1]) = lens[i]
    BY <2>0 DEF IsLaidOut, Holds
  <2>3. at[i] <= at[n - 1]
    BY <1>1, <2>0, PlacesBefore DEF IsLaidOut
  <2> DEFINE L == Len(b)
             a == at[i - 1]
             z == at[i]
             y == at[n - 1]
             l == lens[i]
  <2>3a. /\ z \in Nat /\ a \in Nat /\ l \in Nat /\ y \in Nat /\ L \in Nat
         /\ z = a + 2 + l + q /\ z <= y /\ y <= L
    <3>1. Len(b) \in Nat
      BY <1>5, <1>6
    <3> QED
      BY <1>2, <1>7, <2>1, <2>3, <3>1
  <2> HIDE DEF L, a, z, y, l
  <2>3b. a + 1 <= L /\ z - q <= L + 1 /\ z <= L + 1
    BY <1>1, <2>3a
  <2>4. at[i - 1] + 1 <= Len(b)
    BY <2>3b DEF a, L
  <2>5. UInt16At(b, at[i - 1]) = lens[i]
    <3>1. Len(b) \in Nat
      BY <1>5, <1>6
    <3> QED
      BY <1>6, <2>1, <2>2, <2>4, <3>1, SamePlace
  <2>6. at[i] - q <= Len(b) + 1 /\ at[i] <= Len(b) + 1
    BY <2>3b DEF z, L
  <2> QED
    BY <2>5, <2>6 DEF Holds
<1>9. /\ \/ Holds(b, lens, q, at, n) /\ at[n] > Len(b) + 1
         \/ Cut(b, lens, q, at, n)
      /\ q = 0 => Cut(b, lens, q, at, n)
  <2>1. at[n] > Len(b) + 1
    BY <1>1, <1>3, <1>6
  <2>2. UInt16At(body, at[n - 1]) = lens[n]
    BY <1>1 DEF IsLaidOut, Holds
  <2>3. CASE at[n - 1] + 1 > Len(b)
    BY <2>3 DEF Cut
  <2>4. CASE at[n - 1] + 1 <= Len(b)
    <3>1. UInt16At(b, at[n - 1]) = lens[n]
      <4>1. Len(b) \in Nat
        BY <1>5, <1>6
      <4> QED
        BY <1>2, <1>6, <2>2, <2>4, <4>1, SamePlace
    <3>2. CASE q = 0
      <4>1. at[n] - q > Len(b) + 1
        BY <1>2, <2>1, <3>2
      <4> QED
        BY <3>1, <4>1 DEF Cut
    <3>3. CASE q = 1
      <4>1. at[n] - q <= Len(b) + 1
        BY <1>1, <1>3, <1>6, <3>3
      <4> QED
        BY <2>1, <3>1, <3>3, <4>1 DEF Holds
    <3> QED
      BY <3>2, <3>3
  <2>5. at[n - 1] + 1 > Len(b) \/ at[n - 1] + 1 <= Len(b)
    BY <1>1, <1>2, <1>6
  <2> QED
    BY <2>3, <2>4, <2>5
<1> QED
  BY <1>6, <1>7, <1>8, <1>9

-----------------------------------------------------------------------------
(***************************************************************************)
(* SUBSCRIBE and UNSUBSCRIBE: a packet parses exactly if it is legal, into *)
(* the filters that were meant.                                            *)
(***************************************************************************)
LEMMA StringBytesIs ==
    ASSUME NEW l \in Nat
    PROVE  LET s == StringBytes(l) IN
           /\ s \in Seq(Nat) /\ Len(s) = 2 + l
           /\ 256 * s[1] + s[2] = l
<1> DEFINE a == l \div 256
           b == l % 256
           t == [i \in 1 .. l |-> 65]
           s == <<a, b>> \o t
<1>1. a \in Nat /\ b \in Nat /\ 256 * a + b = l
  BY SMT
<1>2. t \in Seq(Nat) /\ Len(t) = l
  OBVIOUS
<1>3. StringBytes(l) = s
  BY DEF StringBytes
<1> HIDE DEF a, b, t
<1>4. <<a, b>> \in Seq(Nat) /\ Len(<<a, b>>) = 2 /\ <<a, b>>[1] = a /\ <<a, b>>[2] = b
  BY <1>1
<1>5. s \in Seq(Nat) /\ Len(s) = 2 + l /\ \A i \in 1 .. 2 : s[i] = <<a, b>>[i]
  BY <1>2, <1>4, Appended
<1>6. s[1] = a /\ s[2] = b
  BY <1>4, <1>5
<1> HIDE DEF s
<1> QED
  BY <1>1, <1>3, <1>5, <1>6

Filter == [length : Nat, QoS : Nat]

IsRequest(meant) ==
    /\ meant.type \in {"SUBSCRIBE", "UNSUBSCRIBE"}
    /\ meant.damage \in {"none", "short", "long", "runt", "length"}
    /\ meant.id \in Nat
    /\ meant.filters \in Seq(Filter)
    /\ meant.damage = "length" => ~FiltersParse(Encoded(meant)).ok

LEMMA RequestMeant ==
    ASSUME NEW meant \in FirstPackets \cup LaterPackets,
           meant.type \in {"SUBSCRIBE", "UNSUBSCRIBE"}
    PROVE  IsRequest(meant)
<1> DEFINE F == [length : UInt16, QoS : 0 .. 255]
<1>1. meant.type # "CONNECT"
  OBVIOUS
<1>2. /\ meant.damage \in {"none", "short", "long", "runt", "length"}
      /\ meant.id \in 0 .. 255
      /\ meant.filters \in Seq(F)
  BY <1>1, MeantAssumption DEF Ignored
<1>3. meant.damage = "length" => ~FiltersParse(Encoded(meant)).ok
  BY <1>1, DamageAssumption
<1>4. F \subseteq Filter
  <2>1. UInt16 \subseteq Nat /\ 0 .. 255 \subseteq Nat
    BY SMT DEF UInt16
  <2> QED
    BY <2>1 DEF Filter
<1>5. meant.filters \in Seq(Filter)
  <2> HIDE DEF F
  <2> QED
    BY <1>2, <1>4, SequencesGrow
<1>6. meant.id \in Nat
  <2>1. 0 .. 255 \subseteq Nat
    OBVIOUS
  <2> HIDE DEF F
  <2> QED
    BY <1>2, <2>1
<1> QED
  BY <1>2, <1>3, <1>5, <1>6 DEF IsRequest

FilterLengths(meant) == [i \in DOMAIN meant.filters |-> meant.filters[i].length]

LEMMA FilterBytesIs ==
    ASSUME NEW meant, NEW filter \in Filter
    PROVE  LET s == FilterBytes(meant, filter)
               q == IF meant.type = "SUBSCRIBE" THEN 1 ELSE 0
           IN  /\ s \in Seq(Nat) /\ Len(s) = 2 + filter.length + q
               /\ 256 * s[1] + s[2] = filter.length
               /\ q = 1 => s[Len(s)] = filter.QoS
<1> DEFINE l == filter.length
           Q == filter.QoS
           t == StringBytes(l)
           u == IF meant.type = "SUBSCRIBE" THEN <<Q>> ELSE <<>>
           q == IF meant.type = "SUBSCRIBE" THEN 1 ELSE 0
           s == t \o u
<1>1. l \in Nat /\ Q \in Nat
  BY DEF Filter
<1>2. FilterBytes(meant, filter) = s
  BY DEF FilterBytes
<1>3. u \in Seq(Nat) /\ Len(u) = q /\ q \in Nat /\ (q = 1 => u[1] = Q)
  BY <1>1
<1> HIDE DEF l
<1>4. t \in Seq(Nat) /\ Len(t) = 2 + l /\ 256 * t[1] + t[2] = l
  BY <1>1, StringBytesIs
<1> HIDE DEF t, u, q
<1>5. /\ s \in Seq(Nat) /\ Len(s) = Len(t) + Len(u)
      /\ \A j \in 1 .. Len(t) : s[j] = t[j]
      /\ \A j \in 1 .. Len(u) : s[Len(t) + j] = u[j]
  BY <1>3, <1>4, Appended
<1>6. s[1] = t[1] /\ s[2] = t[2]
  <2>1. 1 \in 1 .. Len(t) /\ 2 \in 1 .. Len(t)
    BY <1>1, <1>4
  <2> QED
    BY <1>5, <2>1
<1>7. q = 1 => s[Len(s)] = Q
  <2> SUFFICES ASSUME q = 1 PROVE s[Len(s)] = Q
    OBVIOUS
  <2>1. 1 \in 1 .. Len(u) /\ Len(s) = Len(t) + 1
    BY <1>3, <1>5
  <2> QED
    BY <1>3, <1>5, <2>1
<1>8. Len(s) = 2 + l + q
  BY <1>1, <1>3, <1>4, <1>5
<1> HIDE DEF s
<1>9. FilterBytes(meant, filter) \in Seq(Nat) /\ Len(FilterBytes(meant, filter)) = 2 + l + q
      /\ 256 * FilterBytes(meant, filter)[1] + FilterBytes(meant, filter)[2] = l
      /\ (q = 1 => FilterBytes(meant, filter)[Len(FilterBytes(meant, filter))] = Q)
  BY <1>2, <1>4, <1>5, <1>6, <1>7, <1>8
<1> QED
  BY <1>9 DEF q, l

LEMMA RequestLaidOut ==
    ASSUME NEW meant, IsRequest(meant)
    PROVE  LET body == BodyOf(meant)
               lens == FilterLengths(meant)
               q == IF meant.type = "SUBSCRIBE" THEN 1 ELSE 0
           IN  /\ lens \in Seq(Nat) /\ Len(lens) = Len(meant.filters)
               /\ body \in Seq(Nat) /\ Len(body) >= 2 /\ body[1] = 0 /\ body[2] = meant.id
               /\ \E at : /\ IsLaidOut(body, lens, q, at) /\ at[0] = 3
                          /\ \A i \in 1 .. Len(lens) :
                                q = 1 => body[at[i] - 1] = meant.filters[i].QoS
<1> DEFINE fs == meant.filters
           n == Len(fs)
           lens == FilterLengths(meant)
           q == IF meant.type = "SUBSCRIBE" THEN 1 ELSE 0
           ss == [i \in DOMAIN fs |-> FilterBytes(meant, fs[i])]
           head == <<0, meant.id>>
           body == BodyOf(meant)
<1>1. fs \in Seq(Filter) /\ n \in Nat /\ DOMAIN fs = 1 .. n /\ \A i \in 1 .. n : fs[i] \in Filter
  <2>1. fs \in Seq(Filter)
    BY DEF IsRequest
  <2> HIDE DEF fs
  <2> QED
    BY <2>1
<1>2. lens \in Seq(Nat) /\ Len(lens) = n /\ \A i \in 1 .. n : lens[i] = fs[i].length
  <2>1. \A i \in 1 .. n : fs[i].length \in Nat
    BY <1>1 DEF Filter
  <2>2. lens = [i \in 1 .. n |-> fs[i].length]
    BY <1>1 DEF FilterLengths
  <2> HIDE DEF lens, fs
  <2> QED
    BY <1>1, <2>1, <2>2
<1>3. q \in Nat
  OBVIOUS
<1>4. body = head \o FlattenSeq(ss)
  BY DEF BodyOf, IsRequest
<1> HIDE DEF lens, body
<1>5. \A i \in 1 .. n : /\ FilterBytes(meant, fs[i]) \in Seq(Nat)
                        /\ Len(FilterBytes(meant, fs[i])) = 2 + fs[i].length + q
                        /\ 256 * FilterBytes(meant, fs[i])[1] + FilterBytes(meant, fs[i])[2] = fs[i].length
                        /\ q = 1 => FilterBytes(meant, fs[i])[Len(FilterBytes(meant, fs[i]))] = fs[i].QoS
  BY <1>1, FilterBytesIs
<1> HIDE DEF fs, q
<1>6. ss \in Pieces /\ Len(ss) = n /\ \A i \in 1 .. n : ss[i] = FilterBytes(meant, fs[i])
  <2> DEFINE S == Seq(Nat)
  <2>1. \A i \in 1 .. n : FilterBytes(meant, fs[i]) \in S
    BY <1>5
  <2> HIDE DEF S, n
  <2>2. ss \in Seq(S) /\ Len(ss) = n /\ \A i \in 1 .. n : ss[i] = FilterBytes(meant, fs[i])
    BY <1>1, <2>1
  <2> QED
    BY <2>2 DEF S, Pieces
<1> HIDE DEF ss
<1>7. head \in Seq(Nat) /\ Len(head) = 2 /\ head[1] = 0 /\ head[2] = meant.id
  BY DEF IsRequest
<1> HIDE DEF head, n
<1>8. \A i \in 1 .. Len(ss) : /\ Len(ss[i]) = 2 + lens[i] + q
                              /\ 256 * ss[i][1] + ss[i][2] = lens[i]
  <2>1. ASSUME NEW i \in 1 .. Len(ss)
        PROVE  Len(ss[i]) = 2 + lens[i] + q /\ 256 * ss[i][1] + ss[i][2] = lens[i]
    <3>1. i \in 1 .. n
      BY <1>6
    <3>2. ss[i] = FilterBytes(meant, fs[i]) /\ lens[i] = fs[i].length
      BY <1>2, <1>6, <3>1
    <3> QED
      BY <1>5, <3>1, <3>2
  <2> QED
    BY <2>1
<1>9. LaysOut(body, head, lens, q, ss)
  BY <1>2, <1>3, <1>4, <1>6, <1>7, <1>8, LaidOut
<1>10. PICK at : /\ Places(lens, q, at)
                 /\ at[0] = Len(head) + 1
                 /\ at[Len(lens)] = Len(body) + 1
                 /\ \A i \in 1 .. Len(lens) :
                       /\ Holds(body, lens, q, at, i)
                       /\ at[i] <= Len(body) + 1
                       /\ body[at[i] - 1] = ss[i][Len(ss[i])]
  BY <1>9 DEF LaysOut
<1>11. IsLaidOut(body, lens, q, at) /\ at[0] = 3
  BY <1>7, <1>10 DEF IsLaidOut
<1>12. \A i \in 1 .. Len(lens) : q = 1 => body[at[i] - 1] = fs[i].QoS
  BY <1>2, <1>5, <1>6, <1>10, Zenon
<1>13. body \in Seq(Nat) /\ Len(body) >= 2 /\ body[1] = 0 /\ body[2] = meant.id
  <2>1. /\ body \in Seq(Nat)
        /\ \A i \in 1 .. Len(head) : body[i] = head[i]
        /\ Len(head) <= Len(body)
    BY <1>9 DEF LaysOut
  <2>2. body[1] = head[1] /\ body[2] = head[2]
    BY <1>7, <2>1
  <2> QED
    BY <1>7, <2>1, <2>2
<1> QED
  BY <1>2, <1>11, <1>12, <1>13 DEF body, lens, n, fs, q

(* What IsLegal asks of an undamaged request.                              *)
LegalRequest(meant) ==
    /\ meant.flags = 2 /\ meant.id # 0 /\ Len(meant.filters) # 0
    /\ \A i \in 1 .. Len(meant.filters) :
          meant.filters[i].length # 0 /\ (meant.type = "SUBSCRIBE" => meant.filters[i].QoS <= 2)

LEMMA RequestIsLegal ==
    ASSUME NEW meant, IsRequest(meant)
    PROVE  IsLegal(meant) <=> meant.damage = "none" /\ LegalRequest(meant)
<1> DEFINE fs == meant.filters
           Proper1(filter) == filter.length > 0 /\ (meant.type = "SUBSCRIBE" => filter.QoS <= 2)
<1>1. fs \in Seq(Filter) /\ DOMAIN fs = 1 .. Len(fs) /\ \A i \in 1 .. Len(fs) : fs[i].length \in Nat
  <2>1. fs \in Seq(Filter)
    BY DEF IsRequest
  <2>2. \A filter \in Filter : filter.length \in Nat
    BY DEF Filter
  <2> HIDE DEF fs
  <2> QED
    BY <2>1, <2>2
<1>2. IsLegal(meant) <=> /\ meant.damage = "none"
                         /\ meant.flags = 2 /\ meant.id # 0 /\ fs # <<>>
                         /\ \A filter \in Range(fs) : Proper1(filter)
  <2>1. meant.type # "CONNECT" /\ meant.type \in {"SUBSCRIBE", "UNSUBSCRIBE"}
    BY DEF IsRequest
  <2> QED
    BY <2>1 DEF IsLegal
<1>3. (\A filter \in Range(fs) : Proper1(filter)) <=> \A i \in 1 .. Len(fs) : Proper1(fs[i])
  <2> HIDE DEF fs, Proper1
  <2> QED
    BY <1>1 DEF Range
<1>4. fs # <<>> <=> Len(fs) # 0
  <2> HIDE DEF fs
  <2> QED
    BY <1>1
<1>5. \A i \in 1 .. Len(fs) : Proper1(fs[i]) <=>
        fs[i].length # 0 /\ (meant.type = "SUBSCRIBE" => fs[i].QoS <= 2)
  <2>1. ASSUME NEW i \in 1 .. Len(fs) PROVE fs[i].length > 0 <=> fs[i].length # 0
    <3> DEFINE l == fs[i].length
    <3>1. l \in Nat
      BY <1>1
    <3> HIDE DEF l
    <3>2. l > 0 <=> l # 0
      BY <3>1
    <3> QED
      BY <3>2 DEF l
  <2> QED
    BY <2>1
<1> HIDE DEF Proper1
<1> QED
  BY <1>2, <1>3, <1>4, <1>5 DEF LegalRequest

LEMMA RequestServed ==
    ASSUME NEW meant, IsRequest(meant)
    PROVE  LET p == Encoded(meant)
               lens == FilterLengths(meant)
           IN  /\ FiltersParse(p).ok <=> IsLegal(meant)
               /\ IsLegal(meant) => /\ FiltersParse(p).lengths = lens
                                    /\ getTopicFilters(p, Len(meant.filters)).lengths = lens
               /\ lens \in Seq(Nat) /\ Len(lens) = Len(meant.filters)
<1> DEFINE p == Encoded(meant)
           body == BodyOf(meant)
           lens == FilterLengths(meant)
           fs == meant.filters
           n == Len(lens)
           q == IF meant.type = "SUBSCRIBE" THEN 1 ELSE 0
<1>1. /\ lens \in Seq(Nat) /\ n = Len(fs)
      /\ body \in Seq(Nat) /\ Len(body) >= 2 /\ body[1] = 0 /\ body[2] = meant.id
      /\ \E at : /\ IsLaidOut(body, lens, q, at) /\ at[0] = 3
                 /\ \A i \in 1 .. n : q = 1 => body[at[i] - 1] = fs[i].QoS
  BY RequestLaidOut
<1>2. PICK at : /\ IsLaidOut(body, lens, q, at) /\ at[0] = 3
                /\ \A i \in 1 .. n : q = 1 => body[at[i] - 1] = fs[i].QoS
  BY <1>1
<1>3. /\ p.type = meant.type /\ p.flags = meant.flags /\ p.body = Damaged(meant, body)
      /\ QoSBytes(p) = q
  BY DEF Encoded, QoSBytes
<1>4. ~FilterHeaderParses(p) => ~FiltersParse(p).ok
  BY DEF FiltersParse, Fail, Cursor
<1>5. q \in 0 .. 1 /\ q \in Nat /\ (q = 1 <=> meant.type = "SUBSCRIBE")
  OBVIOUS
<1>6. n \in Nat /\ Len(body) \in Nat /\ Places(lens, q, at)
  BY <1>1, <1>2 DEF IsLaidOut
<1>7. \A i \in 1 .. n : lens[i] = fs[i].length
  <2>1. fs \in Seq(Filter)
    BY DEF IsRequest
  <2> HIDE DEF fs
  <2>2. DOMAIN fs = 1 .. Len(fs)
    BY <2>1
  <2>3. lens = [i \in 1 .. n |-> fs[i].length]
    BY <1>1, <2>2 DEF FilterLengths, fs
  <2> HIDE DEF n, lens
  <2> QED
    BY <2>3
<1>8. IsLegal(meant) <=> meant.damage = "none" /\ LegalRequest(meant)
  BY RequestIsLegal
<1> HIDE DEF p, body, lens, fs, q
<1>9. CASE meant.damage = "none"
  <2>1. p.body = body
    BY <1>3, <1>9 DEF Damaged
  <2>2. packetId(p) = meant.id
    <3>1. UInt16At(body, 1) = 256 * 0 + meant.id
      BY <1>1 DEF UInt16At
    <3>2. meant.id \in Nat
      BY DEF IsRequest
    <3> QED
      BY <2>1, <3>1, <3>2 DEF packetId
  <2>3. Len(body) > 2 <=> n # 0
    <3>1. at[n] = Len(body) + 1
      BY <1>2 DEF IsLaidOut
    <3>2. CASE n = 0
      BY <1>2, <1>6, <3>1, <3>2
    <3>3. CASE n # 0
      <4>1. at[n] >= 3 + 2 * n
        <5>1. n \in 0 .. Len(lens)
          BY <1>6
        <5> QED
          BY <1>1, <1>2, <1>5, <1>6, <5>1, PlacesRise
      <4> QED
        BY <1>6, <3>1, <3>3, <4>1
    <3> QED
      BY <3>2, <3>3
  <2>4. FilterHeaderParses(p) <=> meant.flags = 2 /\ meant.id # 0 /\ n # 0
    BY <1>1, <1>3, <2>1, <2>2, <2>3 DEF FilterHeaderParses
  <2>5. CASE ~FilterHeaderParses(p)
    <3>1. ~FiltersParse(p).ok
      BY <1>4, <2>5
    <3>2. ~IsLegal(meant)
      BY <1>1, <1>8, <2>4, <2>5 DEF LegalRequest, fs
    <3> QED
      BY <1>1, <3>1, <3>2 DEF p, lens, fs
  <2>6. CASE FilterHeaderParses(p)
    <3>1. /\ \A i \in 1 .. n : Whole(p, lens, at, i)
          /\ at[n] = Len(p.body) + 1
          /\ Places(lens, QoSBytes(p), at)
      BY <1>2, <1>3, <2>1 DEF IsLaidOut, Whole
    <3>2. \A i \in 1 .. n : Proper(p, lens, at, i) <=>
              fs[i].length # 0 /\ (meant.type = "SUBSCRIBE" => fs[i].QoS <= 2)
      BY <1>2, <1>3, <1>5, <1>7, <2>1 DEF Proper
    <3>3. (\A i \in 1 .. n : Proper(p, lens, at, i)) <=> IsLegal(meant)
      BY <1>1, <1>8, <1>9, <2>4, <2>6, <3>2 DEF LegalRequest, fs
    <3>4. /\ (\A i \in 1 .. n : Proper(p, lens, at, i))
                => FiltersParse(p).ok /\ FiltersParse(p).lengths = lens
          /\ ~(\A i \in 1 .. n : Proper(p, lens, at, i)) => ~FiltersParse(p).ok
      BY <1>1, <1>2, <2>1, <2>6, <3>1, FiltersFound
    <3>5. getTopicFilters(p, n).lengths = lens
      BY <1>1, <1>2, <2>1, <3>1, FiltersGot
    <3> QED
      BY <1>1, <3>3, <3>4, <3>5 DEF p, lens, fs
  <2> QED
    BY <2>5, <2>6
<1>10. ASSUME meant.damage # "none" PROVE ~FiltersParse(p).ok
  <2> SUFFICES ASSUME FilterHeaderParses(p) PROVE ~FiltersParse(p).ok
    BY <1>4
  <2>1. CASE meant.damage = "long"
    <3>1. p.body = Append(body, 65)
      BY <1>3, <2>1 DEF Damaged
    <3>2. /\ p.body \in Seq(Nat)
          /\ \A i \in 1 .. n : Holds(p.body, lens, q, at, i) /\ at[i] <= Len(p.body) + 1
          /\ at[n] = Len(p.body)
      <4>1. LaidOutAndMore(p.body, body, lens, q, at)
        BY <1>1, <1>2, <1>5, <3>1, LongIs
      <4> QED
        BY <4>1 DEF LaidOutAndMore
    <3>3. \A i \in 1 .. n : Whole(p, lens, at, i)
      BY <1>3, <3>2 DEF Whole
    <3>4. Places(lens, QoSBytes(p), at)
      BY <1>3, <1>6
    <3> QED
      BY <1>1, <1>2, <3>2, <3>3, <3>4, FiltersFound
  <2>2. CASE meant.damage = "short"
    <3>1. p.body = Front(body)
      BY <1>3, <2>2 DEF Damaged
    <3>2. n # 0
      <4> SUFFICES ASSUME n = 0 PROVE FALSE
        OBVIOUS
      <4>1. Len(body) = 2
        <5>1. at[n] = Len(body) + 1
          BY <1>2 DEF IsLaidOut
        <5> QED
          BY <1>2, <1>6, <5>1
      <4>2. Len(p.body) = 1
        BY <1>1, <3>1, <4>1 DEF Front
      <4> QED
        BY <4>2 DEF FilterHeaderParses
    <3>3. /\ p.body \in Seq(Nat)
          /\ \A i \in 1 .. n - 1 : Holds(p.body, lens, q, at, i) /\ at[i] <= Len(p.body) + 1
          /\ at[n - 1] <= Len(p.body)
          /\ \/ Holds(p.body, lens, q, at, n) /\ at[n] > Len(p.body) + 1
             \/ Cut(p.body, lens, q, at, n)
      BY <1>1, <1>2, <1>5, <3>1, <3>2, ShortIs
    <3>4. \A i \in 1 .. n - 1 : Whole(p, lens, at, i)
      BY <1>3, <3>3 DEF Whole
    <3>5. Places(lens, QoSBytes(p), at)
      BY <1>3, <1>6
    <3> QED
      BY <1>1, <1>2, <1>3, <3>2, <3>3, <3>4, <3>5, FiltersFound
  <2>3. CASE meant.damage = "runt"
    <3>1. p.body = SubSeq(body, 1, 1)
      BY <1>3, <2>3 DEF Damaged
    <3>2. Len(p.body) = 1
      BY <1>1, <3>1
    <3> QED
      BY <3>2 DEF FilterHeaderParses
  <2>4. CASE meant.damage = "length"
    BY <2>4 DEF IsRequest, p
  <2> QED
    BY <1>10, <2>1, <2>2, <2>3, <2>4 DEF IsRequest
<1>11. CASE meant.damage # "none"
  BY <1>1, <1>8, <1>10, <1>11 DEF p, lens, fs
<1> QED
  BY <1>9, <1>11

-----------------------------------------------------------------------------
(***************************************************************************)
(* CONNECT: it parses exactly if it is legal, and is accepted exactly if it*)
(* is welcome.                                                             *)
(***************************************************************************)
IsConnect(meant) ==
    /\ meant.type = "CONNECT"
    /\ meant.damage \in {"none", "short", "long", "runt", "name", "length"}
    /\ meant.reserved \in BOOLEAN /\ meant.clean \in BOOLEAN /\ meant.will \in BOOLEAN
    /\ meant.willRetain \in BOOLEAN /\ meant.password \in BOOLEAN /\ meant.userName \in BOOLEAN
    /\ meant.level \in Nat /\ meant.willQoS \in 0 .. 3 /\ meant.idLength \in Nat
    /\ meant.damage = "length" => ~ConnectParse(Encoded(meant)).ok

LEMMA ConnectMeant ==
    ASSUME NEW meant \in FirstPackets \cup LaterPackets, meant.type = "CONNECT"
    PROVE  IsConnect(meant)
<1>1. /\ meant.damage \in {"none", "short", "long", "runt", "name", "length"}
      /\ {meant.reserved, meant.clean, meant.will, meant.willRetain, meant.password,
          meant.userName} \subseteq BOOLEAN
      /\ meant.level \in 0 .. 255 /\ meant.willQoS \in 0 .. 3
      /\ meant.idLength \in UInt16
  BY MeantAssumption DEF Ignored
<1>2. /\ meant.reserved \in BOOLEAN /\ meant.clean \in BOOLEAN /\ meant.will \in BOOLEAN
      /\ meant.willRetain \in BOOLEAN /\ meant.password \in BOOLEAN /\ meant.userName \in BOOLEAN
  BY <1>1, Zenon
<1>3. meant.damage = "length" => ~ConnectParse(Encoded(meant)).ok
  BY DamageAssumption
<1>4. meant.level \in Nat /\ meant.idLength \in Nat
  <2>1. UInt16 \subseteq Nat /\ 0 .. 255 \subseteq Nat
    BY SMT DEF UInt16
  <2> QED
    BY <1>1, <2>1
<1> QED
  BY <1>1, <1>2, <1>3, <1>4, Zenon DEF IsConnect

(* The bits of the flags.                                                  *)
HasBits(F, r, c, w, s, t, p, u) ==
    /\ F \in Nat
    /\ (F \div 1) % 2 = r /\ (F \div 2) % 2 = c /\ (F \div 4) % 2 = w
    /\ (F \div 8) % 4 = s /\ (F \div 32) % 2 = t /\ (F \div 64) % 2 = p
    /\ (F \div 128) % 2 = u

LEMMA BitsOf ==
    ASSUME NEW r \in 0 .. 1, NEW c \in 0 .. 1, NEW w \in 0 .. 1, NEW s \in 0 .. 3,
           NEW t \in 0 .. 1, NEW p \in 0 .. 1, NEW u \in 0 .. 1, NEW F,
           F = r + 2 * c + 4 * w + 8 * s + 32 * t + 64 * p + 128 * u
    PROVE  HasBits(F, r, c, w, s, t, p, u)
<1>1. F \in Nat /\ F \div 1 = F
  BY SMT
<1>2. F % 2 = r
  BY SMT
<1>3. F \div 2 = c + 2 * w + 4 * s + 16 * t + 32 * p + 64 * u
  BY SMT
<1>4. F \div 4 = w + 2 * s + 8 * t + 16 * p + 32 * u
  BY SMT
<1>5. F \div 8 = s + 4 * t + 8 * p + 16 * u
  BY SMT
<1>6. F \div 32 = t + 2 * p + 4 * u
  BY SMT
<1>7. F \div 64 = p + 2 * u
  BY SMT
<1>8. F \div 128 = u
  BY SMT
<1>9. (c + 2 * w + 4 * s + 16 * t + 32 * p + 64 * u) % 2 = c
  BY SMT
<1>10. (w + 2 * s + 8 * t + 16 * p + 32 * u) % 2 = w
  BY SMT
<1>11. (s + 4 * t + 8 * p + 16 * u) % 4 = s
  BY SMT
<1>12. (t + 2 * p + 4 * u) % 2 = t /\ (p + 2 * u) % 2 = p /\ u % 2 = u
  BY SMT
<1> QED
  BY <1>1, <1>2, <1>3, <1>4, <1>5, <1>6, <1>7, <1>8, <1>9, <1>10, <1>11, <1>12, Zenon
     DEF HasBits

FlagsOf(meant) ==
    Flag(meant.reserved, 1) + Flag(meant.clean, 2) + Flag(meant.will, 4)
    + 8 * meant.willQoS + Flag(meant.willRetain, 32) + Flag(meant.password, 64)
    + Flag(meant.userName, 128)

LEMMA FlagsRead ==
    ASSUME NEW meant, IsConnect(meant)
    PROVE  LET F == FlagsOf(meant) IN
           /\ F \in Nat
           /\ Bit(F, 1) <=> meant.reserved
           /\ Bit(F, 2) <=> meant.clean
           /\ Bit(F, 4) <=> meant.will
           /\ (F \div 8) % 4 = meant.willQoS
           /\ Bit(F, 32) <=> meant.willRetain
           /\ Bit(F, 64) <=> meant.password
           /\ Bit(F, 128) <=> meant.userName
<1> DEFINE B(b) == IF b THEN 1 ELSE 0
           F == FlagsOf(meant)
           r == B(meant.reserved)
           c == B(meant.clean)
           w == B(meant.will)
           t == B(meant.willRetain)
           p == B(meant.password)
           u == B(meant.userName)
           s == meant.willQoS
<1>1. /\ meant.reserved \in BOOLEAN /\ meant.clean \in BOOLEAN /\ meant.will \in BOOLEAN
      /\ meant.willRetain \in BOOLEAN /\ meant.password \in BOOLEAN /\ meant.userName \in BOOLEAN
      /\ s \in 0 .. 3
  BY DEF IsConnect
<1>2. ASSUME NEW b PROVE /\ B(b) \in 0 .. 1 /\ (B(b) = 1 <=> b)
                         /\ Flag(b, 1) = B(b) /\ Flag(b, 2) = 2 * B(b) /\ Flag(b, 4) = 4 * B(b)
                         /\ Flag(b, 32) = 32 * B(b) /\ Flag(b, 64) = 64 * B(b)
                         /\ Flag(b, 128) = 128 * B(b)
  <2>1. CASE b
    BY <2>1 DEF Flag
  <2>2. CASE ~b
    BY <2>2 DEF Flag
  <2> QED
    BY <2>1, <2>2
<1>3. F = r + 2 * c + 4 * w + 8 * s + 32 * t + 64 * p + 128 * u
  BY <1>2 DEF FlagsOf
<1>4. /\ r \in 0 .. 1 /\ c \in 0 .. 1 /\ w \in 0 .. 1 /\ t \in 0 .. 1 /\ p \in 0 .. 1 /\ u \in 0 .. 1
      /\ (r = 1 <=> meant.reserved) /\ (c = 1 <=> meant.clean) /\ (w = 1 <=> meant.will)
      /\ (t = 1 <=> meant.willRetain) /\ (p = 1 <=> meant.password) /\ (u = 1 <=> meant.userName)
  BY <1>2
<1> HIDE DEF F, r, c, w, t, p, u, s
<1>5. /\ F \in Nat
      /\ (F \div 1) % 2 = r /\ (F \div 2) % 2 = c /\ (F \div 4) % 2 = w
      /\ (F \div 8) % 4 = s /\ (F \div 32) % 2 = t /\ (F \div 64) % 2 = p
      /\ (F \div 128) % 2 = u
  <2>1. HasBits(F, r, c, w, s, t, p, u)
    BY <1>1, <1>3, <1>4, BitsOf
  <2> QED
    BY <2>1 DEF HasBits
<1>6. /\ Bit(F, 1) <=> meant.reserved
      /\ Bit(F, 2) <=> meant.clean
      /\ Bit(F, 4) <=> meant.will
      /\ Bit(F, 32) <=> meant.willRetain
      /\ Bit(F, 64) <=> meant.password
      /\ Bit(F, 128) <=> meant.userName
  BY <1>4, <1>5, Zenon DEF Bit
<1> QED
  BY <1>5, <1>6 DEF F, s

Behind(meant) ==
    (IF meant.will THEN 2 ELSE 0) + (IF meant.userName THEN 1 ELSE 0)
    + (IF meant.password THEN 1 ELSE 0)

LEMMA BehindIs == ASSUME NEW meant, IsConnect(meant) PROVE Behind(meant) \in Nat
<1> DEFINE a == IF meant.will THEN 2 ELSE 0
           b == IF meant.userName THEN 1 ELSE 0
           c == IF meant.password THEN 1 ELSE 0
<1>1. a \in Nat /\ b \in Nat /\ c \in Nat
  OBVIOUS
<1> HIDE DEF a, b, c
<1>2. a + b + c \in Nat
  BY <1>1
<1> QED
  BY <1>2 DEF Behind, a, b, c

LEMMA ConnectLengths ==
    ASSUME NEW meant, IsConnect(meant)
    PROVE  LET lens == StringLengths(meant) IN
           lens \in Seq(Nat) /\ Len(lens) = 1 + Behind(meant) /\ lens[1] = meant.idLength
<1> DEFINE n == Behind(meant)
           l == meant.idLength
           s == <<l>>
           t == [i \in 1 .. n |-> 1]
           lens == s \o t
<1>1. n \in Nat /\ l \in Nat
  BY BehindIs DEF IsConnect
<1>2. StringLengths(meant) = lens
  BY DEF StringLengths, Behind
<1> HIDE DEF n, l
<1>3. s \in Seq(Nat) /\ Len(s) = 1 /\ s[1] = l /\ t \in Seq(Nat) /\ Len(t) = n
  BY <1>1
<1> HIDE DEF s, t
<1>4. /\ lens \in Seq(Nat) /\ Len(lens) = Len(s) + Len(t)
      /\ \A i \in 1 .. Len(s) : lens[i] = s[i]
  BY <1>3, Appended
<1>5. lens[1] = l /\ Len(lens) = 1 + n
  <2>1. 1 \in 1 .. Len(s)
    BY <1>3
  <2> QED
    BY <1>3, <1>4, <2>1
<1> HIDE DEF lens
<1> QED
  BY <1>2, <1>4, <1>5 DEF n, l

(* The variable header of a CONNECT is in a body.                          *)
HasHeader(b, meant) ==
    /\ b \in Seq(Nat) /\ Len(b) >= 10
    /\ b[1] = 0 /\ b[2] = 4 /\ b[3] = 77 /\ b[4] = 81 /\ b[5] = 84 /\ b[6] = 84
    /\ b[7] = meant.level /\ b[8] = FlagsOf(meant)

LEMMA ConnectLaidOut ==
    ASSUME NEW meant, IsConnect(meant)
    PROVE  LET body == BodyOf(meant)
               lens == StringLengths(meant)
           IN  /\ HasHeader(body, meant)
               /\ \E at : IsLaidOut(body, lens, 0, at) /\ at[0] = 11
<1> DEFINE lens == StringLengths(meant)
           n == Len(lens)
           F == FlagsOf(meant)
           V == meant.level
           ss == [i \in DOMAIN lens |-> StringBytes(lens[i])]
           head == <<0, 4, 77, 81, 84, 84, V, F, 0, 60>>
           body == BodyOf(meant)
<1>1. lens \in Seq(Nat) /\ n \in Nat
  BY ConnectLengths
<1>2. F \in Nat /\ V \in Nat
  BY FlagsRead DEF IsConnect
<1>3. body = head \o FlattenSeq(ss)
  BY DEF BodyOf, IsConnect, FlagsOf
<1> HIDE DEF lens, body, F, V
<1>4. DOMAIN lens = 1 .. n /\ \A i \in 1 .. n : lens[i] \in Nat
  BY <1>1
<1>5. \A i \in 1 .. n : /\ StringBytes(lens[i]) \in Seq(Nat)
                        /\ Len(StringBytes(lens[i])) = 2 + lens[i]
                        /\ 256 * StringBytes(lens[i])[1] + StringBytes(lens[i])[2] = lens[i]
  BY <1>4, StringBytesIs
<1>6. ss \in Pieces /\ Len(ss) = n /\ \A i \in 1 .. n : ss[i] = StringBytes(lens[i])
  <2> DEFINE S == Seq(Nat)
  <2>1. \A i \in 1 .. n : StringBytes(lens[i]) \in S
    BY <1>5
  <2> HIDE DEF S, n
  <2>2. ss \in Seq(S) /\ Len(ss) = n /\ \A i \in 1 .. n : ss[i] = StringBytes(lens[i])
    BY <1>1, <1>4, <2>1
  <2> QED
    BY <2>2 DEF S, Pieces
<1> HIDE DEF ss
<1>7. /\ head \in Seq(Nat) /\ Len(head) = 10
      /\ head[1] = 0 /\ head[2] = 4 /\ head[3] = 77 /\ head[4] = 81 /\ head[5] = 84 /\ head[6] = 84
      /\ head[7] = V /\ head[8] = F
  BY <1>2
<1> HIDE DEF head, n
<1>8. \A i \in 1 .. Len(ss) : /\ Len(ss[i]) = 2 + lens[i] + 0
                              /\ 256 * ss[i][1] + ss[i][2] = lens[i]
  <2>1. ASSUME NEW i \in 1 .. Len(ss)
        PROVE  Len(ss[i]) = 2 + lens[i] + 0 /\ 256 * ss[i][1] + ss[i][2] = lens[i]
    <3>1. i \in 1 .. n
      BY <1>6
    <3>2. ss[i] = StringBytes(lens[i])
      BY <1>6, <3>1
    <3> DEFINE l == lens[i]
    <3>3. 2 + l = 2 + l + 0
      <4>1. l \in Nat
        BY <1>4, <3>1
      <4> HIDE DEF l
      <4> QED
        BY <4>1
    <3> QED
      BY <1>5, <3>1, <3>2, <3>3
  <2> QED
    BY <2>1
<1>9. LaysOut(body, head, lens, 0, ss)
  <2>1. 0 \in Nat /\ Len(ss) = Len(lens)
    BY <1>6 DEF n
  <2> QED
    BY <1>1, <1>3, <1>6, <1>7, <1>8, <2>1, LaidOut
<1>10. PICK at : /\ Places(lens, 0, at)
                 /\ at[0] = Len(head) + 1
                 /\ at[Len(lens)] = Len(body) + 1
                 /\ \A i \in 1 .. Len(lens) :
                       /\ Holds(body, lens, 0, at, i)
                       /\ at[i] <= Len(body) + 1
                       /\ body[at[i] - 1] = ss[i][Len(ss[i])]
  BY <1>9 DEF LaysOut
<1>11. IsLaidOut(body, lens, 0, at) /\ at[0] = 11
  BY <1>7, <1>10 DEF IsLaidOut
<1>13. HasHeader(body, meant)
  <2>1. /\ body \in Seq(Nat)
        /\ \A i \in 1 .. Len(head) : body[i] = head[i]
        /\ Len(head) <= Len(body)
    BY <1>9 DEF LaysOut
  <2>2. /\ body[1] = head[1] /\ body[2] = head[2] /\ body[3] = head[3] /\ body[4] = head[4]
        /\ body[5] = head[5] /\ body[6] = head[6] /\ body[7] = head[7] /\ body[8] = head[8]
    BY <1>7, <2>1
  <2>3. Len(body) >= 10
    BY <1>7, <2>1
  <2> QED
    BY <1>7, <2>1, <2>2, <2>3 DEF HasHeader, V, F
<1> QED
  BY <1>11, <1>13 DEF body, lens

(* The header says what was meant.                                         *)
HeaderSays(p, meant) ==
    /\ ConnectHeaderParses(p) <=>
          /\ meant.flags = 0 /\ ~meant.reserved
          /\ IF meant.will THEN meant.willQoS <= 2 ELSE meant.willQoS = 0 /\ ~meant.willRetain
    /\ ConnectStrings(p) = Len(StringLengths(meant))
    /\ cleanSession(p) <=> meant.clean
    /\ hasWill(p) <=> meant.will
    /\ hasUserName(p) <=> meant.userName
    /\ hasPassword(p) <=> meant.password
    /\ p.body[7] = meant.level

LEMMA HeaderRead ==
    ASSUME NEW meant, IsConnect(meant), NEW p, p.flags = meant.flags, HasHeader(p.body, meant)
    PROVE  HeaderSays(p, meant)
<1> DEFINE F == FlagsOf(meant)
           b == p.body
<1>1. /\ Bit(F, 1) <=> meant.reserved
      /\ Bit(F, 2) <=> meant.clean
      /\ Bit(F, 4) <=> meant.will
      /\ (F \div 8) % 4 = meant.willQoS
      /\ Bit(F, 32) <=> meant.willRetain
      /\ Bit(F, 64) <=> meant.password
      /\ Bit(F, 128) <=> meant.userName
  BY FlagsRead
<1>2. ConnectFlags(p) = F
  BY DEF ConnectFlags, HasHeader
<1> HIDE DEF F
<1>3. /\ cleanSession(p) <=> meant.clean
      /\ hasWill(p) <=> meant.will
      /\ willQoS(p) = meant.willQoS
      /\ willRetain(p) <=> meant.willRetain
      /\ hasPassword(p) <=> meant.password
      /\ hasUserName(p) <=> meant.userName
  BY <1>1, <1>2 DEF cleanSession, hasWill, willQoS, willRetain, hasPassword, hasUserName
<1>4. SubSeq(b, 1, 6) = <<0, 4, 77, 81, 84, 84>> /\ Len(b) >= 10
  <2>1. /\ b \in Seq(Nat) /\ Len(b) >= 10
        /\ b[1] = 0 /\ b[2] = 4 /\ b[3] = 77 /\ b[4] = 81 /\ b[5] = 84 /\ b[6] = 84
    BY DEF HasHeader
  <2> HIDE DEF b
  <2> DEFINE s == SubSeq(b, 1, 6)
             t == <<0, 4, 77, 81, 84, 84>>
  <2>2. s \in Seq(Nat) /\ Len(s) = 6 /\ \A i \in 1 .. 6 : s[i] = b[i]
    BY <2>1
  <2>3. t \in Seq(Nat) /\ Len(t) = 6 /\ \A i \in 1 .. 6 : t[i] = b[i]
    BY <2>1
  <2> HIDE DEF s, t
  <2>4. s = t
    <3>1. Len(s) = Len(t) /\ \A i \in 1 .. Len(s) : s[i] = t[i]
      BY <2>2, <2>3
    <3>2. s \in Seq(Nat) /\ t \in Seq(Nat)
      BY <2>2, <2>3
    <3> QED
      BY <3>1, <3>2, SeqEqual
  <2> QED
    BY <2>1, <2>4 DEF s, t
<1>5. ConnectHeaderParses(p) <=>
          /\ meant.flags = 0 /\ ~meant.reserved
          /\ IF meant.will THEN meant.willQoS <= 2 ELSE meant.willQoS = 0 /\ ~meant.willRetain
  BY <1>1, <1>2, <1>3, <1>4 DEF ConnectHeaderParses
<1>6. ConnectStrings(p) = Len(StringLengths(meant))
  <2> DEFINE x == IF meant.will THEN 2 ELSE 0
             y == IF meant.userName THEN 1 ELSE 0
             z == IF meant.password THEN 1 ELSE 0
  <2>1. ConnectStrings(p) = 1 + x + y + z
    BY <1>3 DEF ConnectStrings
  <2>2. Len(StringLengths(meant)) = 1 + (x + y + z)
    BY ConnectLengths DEF Behind
  <2>3. x \in Nat /\ y \in Nat /\ z \in Nat
    OBVIOUS
  <2> HIDE DEF x, y, z
  <2> QED
    BY <2>1, <2>2, <2>3
<1> QED
  BY <1>3, <1>5, <1>6 DEF HeaderSays, HasHeader

(* What IsLegal asks of an undamaged CONNECT.                              *)
LegalHeader(meant) ==
    /\ meant.flags = 0 /\ ~meant.reserved
    /\ IF meant.will THEN meant.willQoS <= 2 ELSE meant.willQoS = 0 /\ ~meant.willRetain

LEMMA ConnectIsLegal ==
    ASSUME NEW meant, IsConnect(meant)
    PROVE  IsLegal(meant) <=> meant.damage = "none" /\ LegalHeader(meant)
<1> DEFINE s == meant.willQoS
<1>1. s \in 0 .. 3 /\ meant.type = "CONNECT"
  BY DEF IsConnect
<1>2. IsLegal(meant) <=> /\ meant.damage = "none"
                         /\ meant.flags = 0 /\ ~meant.reserved
                         /\ s \in IF meant.will THEN 0 .. 2 ELSE {0}
                         /\ meant.willRetain => meant.will
  BY <1>1 DEF IsLegal
<1> HIDE DEF s
<1>3. s \in 0 .. 2 <=> s <= 2
  BY <1>1
<1>4. CASE meant.will
  BY <1>2, <1>3, <1>4 DEF LegalHeader, s
<1>5. CASE ~meant.will
  BY <1>2, <1>5 DEF LegalHeader, s
<1> QED
  BY <1>4, <1>5

(* A CONNECT of which the header was left alone.                           *)
LEMMA ConnectFound ==
    ASSUME NEW meant, IsConnect(meant), NEW p, p.flags = meant.flags, HasHeader(p.body, meant),
           NEW at, Places(StringLengths(meant), 0, at), at[0] = 11
    PROVE  LET lens == StringLengths(meant)
               n == Len(lens)
               all == \A i \in 1 .. n : Holds(p.body, lens, 0, at, i)
           IN  /\ ~LegalHeader(meant) => ~ConnectParse(p).ok
               /\ LegalHeader(meant) /\ all =>
                    /\ ConnectParse(p).ok <=> at[n] = Len(p.body) + 1
                    /\ at[n] = Len(p.body) + 1 => ConnectParse(p).lengths = lens
               /\ (/\ \A i \in 1 .. n - 1 : Holds(p.body, lens, 0, at, i)
                   /\ Cut(p.body, lens, 0, at, n)) => ~ConnectParse(p).ok
<1> DEFINE lens == StringLengths(meant)
           n == Len(lens)
           b == p.body
           c == parseStrings(b, Cursor(11), n)
<1>1. ConnectHeaderParses(p) <=> LegalHeader(meant)
  BY HeaderRead DEF HeaderSays, LegalHeader
<1>2. ConnectStrings(p) = n
  BY HeaderRead DEF HeaderSays
<1>3. ~LegalHeader(meant) => ~ConnectParse(p).ok
  BY <1>1 DEF ConnectParse, Fail, Cursor
<1>4. LegalHeader(meant) => ConnectParse(p) = IF Remaining(b, c) # 0 THEN Fail(c) ELSE c
  BY <1>1, <1>2 DEF ConnectParse
<1>5. lens \in Seq(Nat) /\ n # 0 /\ b \in Seq(Nat)
  BY ConnectLengths, BehindIs DEF HasHeader
<1> HIDE DEF lens, b
<1>6. Places(lens, 0, at)
  BY DEF lens
<1>7. /\ c \in Cursors
      /\ (\A i \in 1 .. n : Holds(b, lens, 0, at, i)) => c = Found(lens, at, n)
      /\ (/\ \A i \in 1 .. n - 1 : Holds(b, lens, 0, at, i)
          /\ n # 0
          /\ Cut(b, lens, 0, at, n)) => ~c.ok
  BY <1>5, <1>6, StringsFound
<1> HIDE DEF c, n
<1>8. ASSUME LegalHeader(meant), \A i \in 1 .. n : Holds(b, lens, 0, at, i)
      PROVE  /\ ConnectParse(p).ok <=> at[n] = Len(b) + 1
             /\ at[n] = Len(b) + 1 => ConnectParse(p).lengths = lens
  <2>1. c.pos = at[n] /\ c.ok /\ c.lengths = lens
    <3>1. c = Found(lens, at, n)
      BY <1>7, <1>8
    <3>2. Found(lens, at, n).lengths = lens
      BY <1>5, FoundAll DEF n
    <3> QED
      BY <3>1, <3>2 DEF Found
  <2>2. at[n] \in Nat /\ Len(b) \in Nat
    <3>1. n \in 0 .. Len(lens)
      BY <1>5 DEF n
    <3>2. at[n] \in Nat
      BY <1>6, <3>1 DEF Places
    <3>3. Len(b) \in Nat
      BY <1>5
    <3> QED
      BY <3>2, <3>3
  <2>3. Remaining(b, c) = 0 <=> at[n] = Len(b) + 1
    BY <2>1, <2>2 DEF Remaining
  <2>4. ~Fail(c).ok
    BY <1>7 DEF Cursors, Fail
  <2> QED
    BY <1>4, <1>8, <2>1, <2>3, <2>4
<1>9. ASSUME \A i \in 1 .. n - 1 : Holds(b, lens, 0, at, i), Cut(b, lens, 0, at, n)
      PROVE  ~ConnectParse(p).ok
  <2>1. ~c.ok /\ ~Fail(c).ok
    BY <1>5, <1>7, <1>9 DEF Cursors, Fail
  <2> QED
    BY <1>3, <1>4, <2>1
<1> QED
  BY <1>3, <1>8, <1>9 DEF n, lens, b

LEMMA SameHeader ==
    ASSUME NEW meant, NEW body, HasHeader(body, meant), NEW b \in Seq(Nat), Len(b) >= 10,
           \A i \in 1 .. 8 : b[i] = body[i]
    PROVE  HasHeader(b, meant)
<1>1. /\ b[1] = body[1] /\ b[2] = body[2] /\ b[3] = body[3] /\ b[4] = body[4]
      /\ b[5] = body[5] /\ b[6] = body[6] /\ b[7] = body[7] /\ b[8] = body[8]
  <2>1. {1, 2, 3, 4, 5, 6, 7, 8} \subseteq 1 .. 8
    OBVIOUS
  <2> QED
    BY <2>1
<1> QED
  BY <1>1, Zenon DEF HasHeader

LEMMA ConnectServed ==
    ASSUME NEW meant, IsConnect(meant)
    PROVE  LET p == Encoded(meant) IN
           /\ ConnectParse(p).ok <=> IsLegal(meant)
           /\ IsLegal(meant) => /\ ConnectParse(p).lengths[1] = meant.idLength
                                /\ HeaderSays(p, meant)
<1> DEFINE p == Encoded(meant)
           body == BodyOf(meant)
           lens == StringLengths(meant)
           n == Len(lens)
<1>1. p.flags = meant.flags /\ p.body = Damaged(meant, body)
  BY DEF Encoded
<1>2. HasHeader(body, meant)
  BY ConnectLaidOut
<1>3. PICK at : IsLaidOut(body, lens, 0, at) /\ at[0] = 11
  BY ConnectLaidOut
<1>4. lens \in Seq(Nat) /\ n \in Nat /\ n # 0 /\ lens[1] = meant.idLength
  BY ConnectLengths, BehindIs
<1>5. IsLegal(meant) <=> meant.damage = "none" /\ LegalHeader(meant)
  BY ConnectIsLegal
<1>6. meant.damage = "length" => ~ConnectParse(p).ok
  BY DEF IsConnect
<1> HIDE DEF p, body
<1>7. Places(lens, 0, at)
  BY <1>3 DEF IsLaidOut
<1>8. body \in Seq(Nat) /\ Len(body) \in Nat /\ Len(body) >= 10
  BY <1>2 DEF HasHeader
<1>9. CASE meant.damage = "none"
  <2>1. p.body = body
    BY <1>1, <1>9 DEF Damaged
  <2>2. HasHeader(p.body, meant) /\ at[n] = Len(p.body) + 1
        /\ \A i \in 1 .. n : Holds(p.body, lens, 0, at, i)
    BY <1>2, <1>3, <2>1 DEF IsLaidOut
  <2>3. /\ ConnectParse(p).ok <=> LegalHeader(meant)
        /\ LegalHeader(meant) => ConnectParse(p).lengths = lens
    BY <1>1, <1>3, <1>7, <2>2, ConnectFound
  <2>4. HeaderSays(p, meant)
    BY <1>1, <2>2, HeaderRead
  <2> QED
    BY <1>4, <1>5, <1>9, <2>3, <2>4 DEF p
<1>10. CASE meant.damage = "long"
  <2>1. p.body = Append(body, 65)
    BY <1>1, <1>10 DEF Damaged
  <2>2. LaidOutAndMore(p.body, body, lens, 0, at)
    BY <1>3, <1>4, <1>8, <2>1, LongIs
  <2>3. HasHeader(p.body, meant)
    <3>1. /\ p.body \in Seq(Nat) /\ Len(p.body) = Len(body) + 1
          /\ \A i \in 1 .. Len(body) : p.body[i] = body[i]
      BY <2>2 DEF LaidOutAndMore
    <3>2. 1 .. 8 \subseteq 1 .. Len(body)
      BY <1>8
    <3>3. \A i \in 1 .. 8 : p.body[i] = body[i]
      BY <3>1, <3>2
    <3>4. Len(p.body) >= 10
      BY <1>8, <3>1
    <3> QED
      BY <1>2, <3>1, <3>3, <3>4, SameHeader
  <2>4. /\ \A i \in 1 .. n : Holds(p.body, lens, 0, at, i)
        /\ at[n] # Len(p.body) + 1
    <3>1. /\ \A i \in 1 .. n : Holds(p.body, lens, 0, at, i)
          /\ at[n] = Len(p.body) /\ Len(p.body) = Len(body) + 1
      BY <2>2 DEF LaidOutAndMore
    <3> QED
      BY <1>8, <3>1
  <2>5. ~ConnectParse(p).ok
    BY <1>1, <1>3, <1>7, <2>3, <2>4, ConnectFound
  <2> QED
    BY <1>5, <1>10, <2>5 DEF p
<1>11. CASE meant.damage = "short"
  <2>1. p.body = Front(body)
    BY <1>1, <1>11 DEF Damaged
  <2>2. /\ p.body \in Seq(Nat) /\ Len(p.body) = Len(body) - 1
        /\ \A i \in 1 .. Len(p.body) : p.body[i] = body[i]
        /\ \A i \in 1 .. n - 1 : Holds(p.body, lens, 0, at, i)
        /\ Cut(p.body, lens, 0, at, n)
    <3>1. 0 \in 0 .. 1
      OBVIOUS
    <3> QED
      BY <1>3, <1>4, <1>8, <2>1, <3>1, ShortIs
  <2>3. HasHeader(p.body, meant)
    <3>1. Len(body) >= 12
      <4>1. n \in 0 .. Len(lens) /\ at[n] = Len(body) + 1
        BY <1>3, <1>4 DEF IsLaidOut
      <4>2. at[n] >= 11 + 2 * n
        BY <1>3, <1>4, <1>7, <4>1, PlacesRise
      <4> QED
        BY <1>4, <1>8, <4>1, <4>2
    <3>2. 1 .. 8 \subseteq 1 .. Len(p.body) /\ Len(p.body) >= 10
      <4> DEFINE L == Len(p.body)
                 K == Len(body)
      <4>1. L = K - 1 /\ K \in Nat /\ K >= 12
        BY <1>8, <2>2, <3>1
      <4> HIDE DEF L, K
      <4>2. 1 .. 8 \subseteq 1 .. L /\ L >= 10
        BY <4>1
      <4> QED
        BY <4>2 DEF L
    <3>3. \A i \in 1 .. 8 : p.body[i] = body[i]
      BY <2>2, <3>2
    <3> QED
      BY <1>2, <2>2, <3>2, <3>3, SameHeader
  <2>4. ~ConnectParse(p).ok
    BY <1>1, <1>3, <1>7, <2>2, <2>3, ConnectFound
  <2> QED
    BY <1>5, <1>11, <2>4 DEF p
<1>12. ASSUME ~ConnectHeaderParses(p), meant.damage # "none"
       PROVE  ~ConnectParse(p).ok /\ ~IsLegal(meant)
  BY <1>5, <1>12 DEF ConnectParse, Fail, Cursor
<1>13. CASE meant.damage = "runt"
  <2>1. p.body = SubSeq(body, 1, 1)
    BY <1>1, <1>13 DEF Damaged
  <2>2. Len(p.body) = 1
    BY <1>8, <2>1
  <2>3. ~ConnectHeaderParses(p)
    BY <2>2 DEF ConnectHeaderParses
  <2> QED
    BY <1>12, <1>13, <2>3 DEF p
<1>14. CASE meant.damage = "name"
  <2>1. p.body = [body EXCEPT ![6] = 73]
    BY <1>1, <1>14 DEF Damaged
  <2>2. p.body \in Seq(Nat) /\ p.body[6] = 73 /\ Len(p.body) >= 10
    BY <1>8, <2>1
  <2>3. SubSeq(p.body, 1, 6)[6] = 73
    <3> DEFINE b == p.body
    <3>1. b \in Seq(Nat) /\ b[6] = 73 /\ Len(b) >= 10
      BY <2>2
    <3> HIDE DEF b
    <3>2. SubSeq(b, 1, 6)[6] = 73
      BY <3>1
    <3> QED
      BY <3>2 DEF b
  <2> DEFINE t == <<0, 4, 77, 81, 84, 84>>
  <2>4. t[6] = 84 /\ (ConnectHeaderParses(p) => SubSeq(p.body, 1, 6) = t)
    <3>1. t[6] = 84
      OBVIOUS
    <3>2. ConnectHeaderParses(p) => SubSeq(p.body, 1, 6) = t
      BY Zenon DEF ConnectHeaderParses
    <3> HIDE DEF t
    <3> QED
      BY <3>1, <3>2
  <2> HIDE DEF t
  <2>5. ~ConnectHeaderParses(p)
    <3> SUFFICES ASSUME ConnectHeaderParses(p) PROVE FALSE
      OBVIOUS
    <3>1. SubSeq(p.body, 1, 6)[6] = t[6]
      BY <2>4, Zenon
    <3> QED
      BY <2>3, <2>4, <3>1
  <2> QED
    BY <1>12, <1>14, <2>5 DEF p
<1>15. CASE meant.damage = "length"
  BY <1>5, <1>6, <1>15 DEF p
<1> QED
  BY <1>9, <1>10, <1>11, <1>13, <1>14, <1>15 DEF IsConnect

(* The broker accepts the CONNECTs it welcomes.                            *)
LEMMA ConnectWelcome ==
    ASSUME NEW meant, IsConnect(meant), IsLegal(meant)
    PROVE  Refusal(Encoded(meant), meant.idLength) = Accepted <=> IsWelcome(meant)
<1> DEFINE p == Encoded(meant)
           l == meant.idLength
           V == meant.level
           M == MAX_MQTT_CLIENT_ID_LENGTH
<1>1. /\ cleanSession(p) <=> meant.clean
      /\ hasWill(p) <=> meant.will
      /\ hasUserName(p) <=> meant.userName
      /\ hasPassword(p) <=> meant.password
      /\ p.body[7] = V
  BY ConnectServed DEF HeaderSays
<1>2. l \in Nat /\ V \in Nat /\ meant.type = "CONNECT" /\ M \in Nat
  BY LengthAssumption DEF IsConnect
<1> HIDE DEF p, l, V, M
<1>3. /\ Accepted = 0 /\ RefusedProtocolVersion # 0 /\ RefusedIdentifier # 0
      /\ RefusedUnavailable # 0 /\ RefusedNameOrPassword # 0
  BY DEF Accepted, RefusedProtocolVersion, RefusedIdentifier, RefusedUnavailable,
         RefusedNameOrPassword
<1>4. l > M <=> ~(l <= M)
  BY <1>2
<1>5. IsWelcome(meant) <=> /\ V = 4 /\ ~meant.will /\ ~meant.userName /\ ~meant.password
                           /\ l <= M /\ (l = 0 => meant.clean)
  BY <1>2 DEF IsWelcome, l, V, M
<1>6. CASE V # 4
  <2>1. Refusal(p, l) = RefusedProtocolVersion
    BY <1>1, <1>6 DEF Refusal
  <2> QED
    BY <1>3, <1>5, <1>6, <2>1 DEF p, l
<1>7. CASE V = 4 /\ l = 0 /\ ~meant.clean
  <2>1. Refusal(p, l) = RefusedIdentifier
    BY <1>1, <1>7 DEF Refusal
  <2> QED
    BY <1>3, <1>5, <1>7, <2>1 DEF p, l
<1>8. CASE V = 4 /\ ~(l = 0 /\ ~meant.clean)
  <2>1. Refusal(p, l) = IF meant.will THEN RefusedUnavailable
                        ELSE IF meant.userName \/ meant.password THEN RefusedNameOrPassword
                        ELSE IF l > M THEN RefusedIdentifier
                        ELSE Accepted
    BY <1>1, <1>8 DEF Refusal, M
  <2> HIDE DEF Refusal
  <2>2. Refusal(p, l) = Accepted <=> ~meant.will /\ ~(meant.userName \/ meant.password) /\ ~(l > M)
    BY <1>3, <2>1
  <2> QED
    BY <1>4, <1>5, <1>8, <2>2 DEF p, l
<1> QED
  BY <1>6, <1>7, <1>8

-----------------------------------------------------------------------------
(***************************************************************************)
(* A step serves what was meant.                                           *)
(***************************************************************************)
Broken(s) == \E e \in Range(s) : IsBrokenAnswer(e)

TooMany(meant) ==
    Len(Filters(meant)) > maxTopicsPerSubscribeMessage /\ meant.type = "SUBSCRIBE"

(* The parts of ServedAsMeant: a connection that was not paired, a session *)
(* that was open, the filters, and the answer to them.                     *)
FirstServed(meant, paired, s, state, run) ==
    /\ state = "open" => IsWelcome(meant) /\ paired
    /\ state = "none" => ~(IsWelcome(meant) /\ paired)
    /\ state \in {"ended", "waiting"} => Broken(s)
    /\ run = "yes"

LaterServed(meant, s, state, run) ==
    /\ run = "halted" <=> meant.type = "CONNECT" /\ ~IsLegal(meant)
    /\ run = "undefined" <=> IsLegal(meant) /\ TooMany(meant)
    /\ state = "open" /\ run = "yes" => IsLegal(meant)
    /\ IsLegal(meant) => state = "open" \/ Broken(s) \/ TooMany(meant)

GoneThrough(meant) ==
    IF IsLegal(meant) THEN [i \in DOMAIN Filters(meant) |-> Filters(meant)[i].length] ELSE <<>>

Answered(meant, s) ==
    \E e \in Range(s) :
        /\ e.kind = "SUBACK" /\ Len(e.answer) = Len(meant.filters)
        /\ \A i \in DOMAIN e.answer : meant.filters[i].length > maxTopicNameLength => e.answer[i] = 128

Served(l, s, state, run) ==
    /\ l.before = "none" => FirstServed(l.packet, l.paired, s, state, run)
    /\ l.before = "open" => LaterServed(l.packet, s, state, run)
    /\ l.filters = GoneThrough(l.packet)
    /\ state = "open" /\ l.packet.type = "SUBSCRIBE" /\ l.before = "open" => Answered(l.packet, s)

LEMMA ServedIs == ServedAsMeant <=> (last # NoPacket => Served(last, output.stream, session, running))
BY DEF ServedAsMeant, Served, FirstServed, LaterServed, GoneThrough, Answered, TooMany, Broken

LEMMA AppendedInRange ==
    ASSUME NEW s, IsStream(s), NEW e
    PROVE  e \in Range(Append(s, e))
<1> DEFINE t == Append(s, e)
           n == Len(s)
<1>1. t[n + 1] = e /\ DOMAIN t = DOMAIN s \cup {n + 1}
  BY AppendIs
<1> HIDE DEF t, n
<1> QED
  BY <1>1 DEF Range, t

(* A session that answered is open, or its answer is broken, whatever was  *)
(* logged of that.                                                         *)
AnswerShows(state, s, run, message, room) ==
    /\ state = "open" \/ (state \in Gone /\ Broken(s))
    /\ OnStream(message, room) \in Range(s)
    /\ run = running

LEMMA AnswerServes ==
    ASSUME NEW o, Clear(o), NEW message, message.kind \in PlainKinds, NEW room,
           message.kind = "CONNACK" => message.answer = Accepted,
           Honest(message, room), Answer(o, message, room)
    PROVE  AnswerShows(session', output'.stream, running', message, room)
<1> DEFINE e == OnStream(message, room)
           q == Send(o, "session", message, room)
<1>1. /\ Counted(q) /\ q.stream = Append(o.stream, e)
      /\ IsStream(o.stream) /\ IsStream(q.stream)
      /\ IsBrokenAnswer(e) <=> ~IsSent(message, room)
  BY SendIs
<1>2. running' = running
  BY DEF Answer
<1>3. IF IsSent(message, room) THEN output' = q /\ session' = "open"
      ELSE output' \in LogLine(q) /\ session' \in Gone
  BY DEF Answer, Left, Gone
<1> HIDE DEF e, q
<1>4. e \in Range(q.stream)
  BY <1>1, AppendedInRange
<1>5. Range(q.stream) \subseteq Range(output'.stream)
  <2>1. ASSUME output' \in LogLine(q) PROVE Range(q.stream) \subseteq Range(output'.stream)
    <3>1. Adds(q.stream, output'.stream, logDepth)
      BY <1>1, <2>1, PublishedAdds, LogAssumption DEF LogLine
    <3> QED
      BY <1>1, <3>1, AddsKeepsRange, LogAssumption
  <2> QED
    BY <1>3, <2>1
<1>6. e \in Range(output'.stream)
  BY <1>4, <1>5
<1>7. ~IsSent(message, room) => Broken(output'.stream)
  BY <1>1, <1>6 DEF Broken
<1> QED
  BY <1>2, <1>3, <1>6, <1>7 DEF AnswerShows, e

LEMMA ConnectAnswers ==
    ASSUME NEW o, Clear(o), NEW p, ConnectParse(p).ok, NEW room \in Nat,
           connectMessageReceived(o, p, room)
    PROVE  AnswerShows(session', output'.stream, running', ConnectAck(Accepted), room)
<1>1. Answer(o, ConnectAck(Accepted), room)
  BY DEF connectMessageReceived
<1> QED
  BY <1>1, ConnectAckIs, AnswerServes

-----------------------------------------------------------------------------
(* A connection without a session.                                         *)
LEMMA WelcomeIsLegalConnect ==
    ASSUME NEW meant, IsWelcome(meant)
    PROVE  IsLegal(meant) /\ meant.type = "CONNECT"
BY DEF IsWelcome

LEMMA FirstServes ==
    ASSUME Clear(output), session = "none", running = "yes",
           NEW meant \in FirstPackets \cup LaterPackets, NEW room \in Nat,
           NEW paired \in BOOLEAN, processMessage(Encoded(meant), room, paired)
    PROVE  FirstServed(meant, paired, output'.stream, session', running')
<1> DEFINE p == Encoded(meant)
<1>1. p.type = meant.type
  BY DEF Encoded
<1> HIDE DEF p
<1>2. CASE p.type # "CONNECT"
  <2>1. session' = "none" /\ running' = "yes"
    BY <1>2 DEF processMessage, p
  <2>2. ~IsWelcome(meant)
    BY <1>1, <1>2, WelcomeIsLegalConnect
  <2> QED
    BY <2>1, <2>2 DEF FirstServed
<1>3. CASE p.type = "CONNECT"
  <2>1. processConnectMessage(p, room, paired)
    BY <1>3 DEF processMessage, p
  <2>2. IsConnect(meant)
    BY <1>1, <1>3, ConnectMeant
  <2>3. /\ ConnectParse(p).ok <=> IsLegal(meant)
        /\ IsLegal(meant) => ConnectParse(p).lengths[1] = meant.idLength
    BY <2>2, ConnectServed DEF p
  <2>4. IsLegal(meant) => (Refusal(p, meant.idLength) = Accepted <=> IsWelcome(meant))
    BY <2>2, ConnectWelcome DEF p
  <2>5. CASE ~IsLegal(meant)
    <3>1. session' = "none" /\ running' = "yes"
      BY <2>1, <2>3, <2>5 DEF processConnectMessage
    <3> QED
      BY <2>5, <3>1, WelcomeIsLegalConnect DEF FirstServed
  <2>6. CASE IsLegal(meant) /\ ~IsWelcome(meant)
    <3>1. Refusal(p, ConnectParse(p).lengths[1]) # Accepted /\ ConnectParse(p).ok
      BY <2>3, <2>4, <2>6
    <3>2. session' = "none" /\ running' = "yes"
      BY <2>1, <3>1 DEF processConnectMessage, Refuse
    <3> QED
      BY <2>6, <3>2 DEF FirstServed
  <2>7. CASE IsWelcome(meant) /\ paired
    <3>1. Refusal(p, ConnectParse(p).lengths[1]) = Accepted /\ ConnectParse(p).ok
      BY <2>3, <2>4, <2>7, WelcomeIsLegalConnect
    <3>2. PICK o \in LogLine(output) : connectMessageReceived(o, p, room)
      BY <2>1, <2>7, <3>1 DEF processConnectMessage
    <3>3. AnswerShows(session', output'.stream, running', ConnectAck(Accepted), room)
      BY <3>1, <3>2, MeanwhileClear, ConnectAnswers
    <3> QED
      BY <2>7, <3>3 DEF AnswerShows, Gone, FirstServed
  <2>8. CASE IsWelcome(meant) /\ ~paired
    <3>1. Refusal(p, ConnectParse(p).lengths[1]) = Accepted /\ ConnectParse(p).ok
      BY <2>3, <2>4, <2>8, WelcomeIsLegalConnect
    <3>2. session' = "none" /\ running' = "yes"
      BY <2>1, <2>8, <3>1 DEF processConnectMessage, Refuse
    <3> QED
      BY <2>8, <3>2 DEF FirstServed
  <2> QED
    BY <2>5, <2>6, <2>7, <2>8, WelcomeIsLegalConnect
<1> QED
  BY <1>2, <1>3

LaterAnswered(meant, s, state, run) ==
    /\ LaterServed(meant, s, state, run)
    /\ state = "open" /\ meant.type = "SUBSCRIBE" => Answered(meant, s)

(* The SUBACK of a legal SUBSCRIBE answers its filters.                    *)
LEMMA ResultsAnswer ==
    ASSUME NEW meant, IsRequest(meant), NEW lens, lens = FilterLengths(meant),
           NEW refused, NEW room, NEW s,
           OnStream(SubscribeAck(SubscribeResults(Len(lens), lens, refused)), room) \in Range(s)
    PROVE  Answered(meant, s)
<1> DEFINE n == Len(lens)
           results == SubscribeResults(n, lens, refused)
           e == OnStream(SubscribeAck(results), room)
           fs == meant.filters
<1>1. lens \in Seq(Nat) /\ n = Len(fs) /\ n \in Nat
  BY RequestLaidOut
<1>2. fs \in Seq(Filter)
  BY DEF IsRequest
<1>3. \A i \in 1 .. n : lens[i] = fs[i].length /\ lens[i] \in Nat
  <2> HIDE DEF fs
  <2>1. DOMAIN fs = 1 .. n
    BY <1>1, <1>2
  <2>2. lens = [i \in 1 .. n |-> fs[i].length]
    BY <2>1 DEF FilterLengths, fs
  <2>3. \A i \in 1 .. n : lens[i] \in Nat
    BY <1>1
  <2> HIDE DEF n
  <2>4. \A i \in 1 .. n : lens[i] = fs[i].length
    BY <2>2
  <2> QED
    BY <2>3, <2>4
<1> HIDE DEF n, fs
<1>4. results = [i \in 1 .. n |-> IF copyTo(lens[i]) /\ i \notin refused THEN 0 ELSE 128]
  BY DEF SubscribeResults
<1> HIDE DEF results
<1>5. Len(results) = n /\ DOMAIN results = 1 .. n
  <2>1. results \in [1 .. n -> {0, 128}]
    BY <1>4
  <2> QED
    BY <1>1, <2>1
<1>6. ASSUME NEW i \in 1 .. n, fs[i].length > maxTopicNameLength PROVE results[i] = 128
  <2> DEFINE l == lens[i]
  <2>1. l \in Nat /\ l > maxTopicNameLength
    BY <1>3, <1>6
  <2> HIDE DEF l
  <2>2. ~copyTo(l)
    BY <2>1, LengthAssumption DEF copyTo
  <2>3. results[i] = IF copyTo(l) /\ i \notin refused THEN 0 ELSE 128
    BY <1>4 DEF l
  <2> QED
    BY <2>2, <2>3
<1>7. e.kind = "SUBACK" /\ e.answer = results
  BY DEF OnStream, SubscribeAck, Message
<1>8. e \in Range(s)
  BY DEF n, results
<1> HIDE DEF e
<1>9. /\ Len(e.answer) = Len(meant.filters)
      /\ \A i \in DOMAIN e.answer : meant.filters[i].length > maxTopicNameLength => e.answer[i] = 128
  BY <1>1, <1>5, <1>6, <1>7, Zenon DEF fs
<1> QED
  BY <1>7, <1>8, <1>9, Zenon DEF Answered

LEMMA ShutdownServes ==
    ASSUME NEW meant, ~IsLegal(meant), meant.type # "CONNECT", running = "yes", shutdown
    PROVE  LaterAnswered(meant, output'.stream, session', running')
<1>1. session' = "ended" /\ running' = "yes"
  BY DEF shutdown
<1> QED
  BY <1>1 DEF LaterAnswered, LaterServed

LEMMA AnsweredServes ==
    ASSUME NEW meant, IsLegal(meant), ~TooMany(meant), running = "yes",
           NEW message, NEW room,
           AnswerShows(session', output'.stream, running', message, room),
           meant.type = "SUBSCRIBE" => Answered(meant, output'.stream)
    PROVE  LaterAnswered(meant, output'.stream, session', running')
<1>1. running' = "yes" /\ (session' = "open" \/ Broken(output'.stream))
  BY DEF AnswerShows
<1> QED
  BY <1>1 DEF LaterAnswered, LaterServed

LEMMA ConnectLater ==
    ASSUME Clear(output), running = "yes", NEW meant, IsConnect(meant), NEW room \in Nat,
           connectMessageReceived(output, Encoded(meant), room)
    PROVE  LaterAnswered(meant, output'.stream, session', running')
<1> DEFINE p == Encoded(meant)
<1>1. ConnectParse(p).ok <=> IsLegal(meant)
  BY ConnectServed
<1>2. meant.type = "CONNECT" /\ ~TooMany(meant)
  BY DEF IsConnect, TooMany
<1> HIDE DEF p
<1>3. CASE IsLegal(meant)
  <2>1. AnswerShows(session', output'.stream, running', ConnectAck(Accepted), room)
    BY <1>1, <1>3, ConnectAnswers DEF p
  <2> QED
    BY <1>2, <1>3, <2>1, AnsweredServes
<1>4. CASE ~IsLegal(meant)
  <2>1. running' = "halted"
    BY <1>1, <1>4 DEF connectMessageReceived, p
  <2> QED
    BY <1>2, <1>4, <2>1 DEF LaterAnswered, LaterServed
<1> QED
  BY <1>3, <1>4

LEMMA SubscribeLater ==
    ASSUME Clear(output), running = "yes", NEW meant, IsRequest(meant), meant.type = "SUBSCRIBE",
           NEW room \in Nat,
           subscribeMessageReceived(Encoded(meant), room)
    PROVE  LaterAnswered(meant, output'.stream, session', running')
<1> DEFINE p == Encoded(meant)
           c == FiltersParse(p)
           n == Len(c.lengths)
           lens == FilterLengths(meant)
<1>1. /\ c.ok <=> IsLegal(meant)
      /\ IsLegal(meant) => /\ c.lengths = lens
                           /\ getTopicFilters(p, Len(meant.filters)).lengths = lens
      /\ lens \in Seq(Nat) /\ Len(lens) = Len(meant.filters)
  BY RequestServed
<1> HIDE DEF p, c, lens
<1>2. Len(Filters(meant)) = Len(lens) /\ Len(lens) \in Nat
  BY <1>1 DEF Filters
<1>3. CASE ~IsLegal(meant)
  <2>1. shutdown
    BY <1>1, <1>3 DEF subscribeMessageReceived, p, c
  <2> QED
    BY <1>3, <2>1, ShutdownServes
<1>4. CASE IsLegal(meant) /\ n > maxTopicsPerSubscribeMessage
  <2>1. running' = "undefined"
    BY <1>1, <1>4 DEF subscribeMessageReceived, p, c
  <2>2. TooMany(meant)
    BY <1>1, <1>2, <1>4 DEF TooMany
  <2>3. session' = "ended"
    BY <1>1, <1>4 DEF subscribeMessageReceived, p, c
  <2> QED
    BY <1>4, <2>1, <2>2, <2>3 DEF LaterAnswered, LaterServed
<1>5. CASE IsLegal(meant) /\ ~(n > maxTopicsPerSubscribeMessage)
  <2>1. n = Len(meant.filters) /\ getTopicFilters(p, n).lengths = lens /\ n = Len(lens)
    BY <1>1, <1>5
  <2>2. PICK o \in Meanwhile(output), refused \in SUBSET (1 .. n) :
            Answer(o, SubscribeAck(SubscribeResults(n, getTopicFilters(p, n).lengths, refused)), room)
    BY <1>1, <1>5 DEF subscribeMessageReceived, p, c
  <2> DEFINE results == SubscribeResults(n, lens, refused)
             message == SubscribeAck(results)
  <2> HIDE DEF n
  <2>3. Len(results) = n
    <3>1. results \in [1 .. n -> {0, 128}]
      BY DEF SubscribeResults
    <3> HIDE DEF results
    <3> QED
      BY <1>2, <2>1, <3>1
  <2>4. Answer(o, message, room)
    BY <2>1, <2>2
  <2> HIDE DEF results
  <2>5. Honest(message, room) /\ message.kind \in PlainKinds /\ message.kind # "CONNACK"
    <3>1. Len(results) \in 0 .. maxTopicsPerSubscribeMessage
      BY <1>2, <1>5, <2>1, <2>3, TopicsAssumption
    <3> QED
      BY <3>1, SubscribeAckHonest DEF SubscribeAck, Message, PlainKinds
  <2>6. Clear(o)
    BY MeanwhileClear
  <2> HIDE DEF message
  <2>7. AnswerShows(session', output'.stream, running', message, room)
    BY <2>4, <2>5, <2>6, AnswerServes
  <2>8. OnStream(SubscribeAck(SubscribeResults(Len(lens), lens, refused)), room)
            \in Range(output'.stream)
    BY <2>1, <2>7 DEF AnswerShows, message, results
  <2>9. Answered(meant, output'.stream)
    BY <2>8, ResultsAnswer DEF lens
  <2>10. ~TooMany(meant)
    BY <1>2, <1>5, <2>1 DEF TooMany
  <2> QED
    BY <1>5, <2>7, <2>9, <2>10, AnsweredServes
<1> QED
  BY <1>3, <1>4, <1>5

LEMMA UnsubscribeLater ==
    ASSUME Clear(output), running = "yes", NEW meant, IsRequest(meant), meant.type = "UNSUBSCRIBE",
           NEW room \in Nat,
           unsubscribeMessageReceived(Encoded(meant), room)
    PROVE  LaterAnswered(meant, output'.stream, session', running')
<1> DEFINE p == Encoded(meant)
<1>1. FiltersParse(p).ok <=> IsLegal(meant)
  BY RequestServed
<1>2. ~TooMany(meant)
  BY DEF TooMany
<1> HIDE DEF p
<1>3. CASE ~IsLegal(meant)
  <2>1. shutdown
    BY <1>1, <1>3 DEF unsubscribeMessageReceived, p
  <2> QED
    BY <1>3, <2>1, ShutdownServes
<1>4. CASE IsLegal(meant)
  <2>1. PICK o \in Meanwhile(output) : Answer(o, UnsubscribeAck, room)
    BY <1>1, <1>4 DEF unsubscribeMessageReceived, p
  <2>2. /\ UnsubscribeAck.kind \in PlainKinds /\ UnsubscribeAck.kind # "CONNACK"
        /\ Honest(UnsubscribeAck, room)
    BY AnswersHonest DEF UnsubscribeAck, Message, PlainKinds
  <2>3. Clear(o)
    BY MeanwhileClear
  <2>4. AnswerShows(session', output'.stream, running', UnsubscribeAck, room)
    BY <2>1, <2>2, <2>3, AnswerServes
  <2> QED
    BY <1>2, <1>4, <2>4, AnsweredServes
<1> QED
  BY <1>3, <1>4

(* PINGREQ.                                                                *)
LEMMA PingServed ==
    ASSUME NEW meant \in FirstPackets \cup LaterPackets, meant.type = "PINGREQ"
    PROVE  BareParse(Encoded(meant)) <=> IsLegal(meant)
<1>1. meant.type # "CONNECT" /\ meant.type \notin {"SUBSCRIBE", "UNSUBSCRIBE"}
      /\ meant.type \notin Ignored
  BY DEF Ignored
<1>2. meant.damage \in {"none", "long"}
  BY <1>1, MeantAssumption
<1>3. IsLegal(meant) <=> meant.damage = "none" /\ meant.flags = 0
  BY <1>1 DEF IsLegal
<1>4. BodyOf(meant) = <<>>
  BY <1>1 DEF BodyOf
<1>5. /\ meant.damage = "none" => Encoded(meant).body = <<>>
      /\ meant.damage = "long" => Encoded(meant).body = Append(<<>>, 65)
  BY <1>4 DEF Encoded, Damaged
<1>6. Append(<<>>, 65) # <<>>
  OBVIOUS
<1>7. Encoded(meant).flags = meant.flags
  BY DEF Encoded
<1> QED
  BY <1>2, <1>3, <1>5, <1>6, <1>7 DEF BareParse

LEMMA PingLater ==
    ASSUME Clear(output), running = "yes",
           NEW meant \in FirstPackets \cup LaterPackets, meant.type = "PINGREQ",
           NEW room \in Nat, pingRequestMessageReceived(Encoded(meant), room)
    PROVE  LaterAnswered(meant, output'.stream, session', running')
<1>1. BareParse(Encoded(meant)) <=> IsLegal(meant)
  BY PingServed
<1>2. ~TooMany(meant)
  BY DEF TooMany
<1>3. CASE ~IsLegal(meant)
  <2>1. shutdown
    BY <1>1, <1>3 DEF pingRequestMessageReceived
  <2> QED
    BY <1>3, <2>1, ShutdownServes
<1>4. CASE IsLegal(meant)
  <2>1. Answer(output, PingResponse, room)
    BY <1>1, <1>4 DEF pingRequestMessageReceived
  <2>2. /\ PingResponse.kind \in PlainKinds /\ PingResponse.kind # "CONNACK"
        /\ Honest(PingResponse, room)
    BY AnswersHonest DEF PingResponse, Message, PlainKinds
  <2>3. AnswerShows(session', output'.stream, running', PingResponse, room)
    BY <2>1, <2>2, AnswerServes
  <2> QED
    BY <1>2, <1>4, <2>3, AnsweredServes
<1> QED
  BY <1>3, <1>4

LEMMA LaterServes ==
    ASSUME Clear(output), session = "open", running = "yes",
           NEW meant \in FirstPackets \cup LaterPackets, NEW room \in Nat,
           SessionMessage(Encoded(meant), room)
    PROVE  LaterAnswered(meant, output'.stream, session', running')
<1> DEFINE p == Encoded(meant)
<1>1. p.type = meant.type
  BY DEF Encoded
<1>2. p.type \in Types
  BY PacketAssumption DEF Types
<1> HIDE DEF p
<1>3. CASE p.type = "CONNECT"
  <2>1. connectMessageReceived(output, p, room)
    BY <1>3 DEF SessionMessage, Ending, Ignored, p
  <2> QED
    BY <1>1, <1>3, <2>1, ConnectMeant, ConnectLater DEF p
<1>4. CASE p.type = "SUBSCRIBE"
  <2>1. subscribeMessageReceived(p, room)
    BY <1>4 DEF SessionMessage, Ending, Ignored, p
  <2>2. IsRequest(meant)
    BY <1>1, <1>4, RequestMeant
  <2> QED
    BY <1>1, <1>4, <2>1, <2>2, SubscribeLater DEF p
<1>5. CASE p.type = "UNSUBSCRIBE"
  <2>1. unsubscribeMessageReceived(p, room)
    BY <1>5 DEF SessionMessage, Ending, Ignored, p
  <2>2. IsRequest(meant)
    BY <1>1, <1>5, RequestMeant
  <2> QED
    BY <1>1, <1>5, <2>1, <2>2, UnsubscribeLater DEF p
<1>6. CASE p.type = "PINGREQ"
  <2>1. pingRequestMessageReceived(p, room)
    BY <1>6 DEF SessionMessage, Ending, Ignored, p
  <2> QED
    BY <1>1, <1>6, <2>1, PingLater DEF p
<1>7. CASE p.type \in Ending
  <2>1. shutdown
    BY <1>7 DEF SessionMessage, Ending, Ignored, p
  <2>2. ~IsLegal(meant) /\ meant.type # "CONNECT"
    BY <1>1, <1>7 DEF IsLegal, Ending, Ignored
  <2> QED
    BY <2>1, <2>2, ShutdownServes
<1>8. CASE p.type \in Ignored
  <2>1. session' = "open" /\ running' = "yes"
    BY <1>8 DEF SessionMessage, Ending, Ignored, p
  <2>2. meant.type \notin {"CONNECT", "SUBSCRIBE", "UNSUBSCRIBE", "PINGREQ"}
    BY <1>1, <1>8 DEF Ignored
  <2>3. meant.damage = "none"
    BY <1>1, <1>8, <2>2, MeantAssumption
  <2>4. IsLegal(meant)
    BY <1>1, <1>8, <2>2, <2>3 DEF IsLegal
  <2>5. ~TooMany(meant)
    BY <2>2 DEF TooMany
  <2> QED
    BY <2>1, <2>2, <2>4, <2>5 DEF LaterAnswered, LaterServed
<1> QED
  BY <1>2, <1>3, <1>4, <1>5, <1>6, <1>7, <1>8 DEF Types

(* The filters that are gone through.                                      *)
LEMMA FiltersServed ==
    ASSUME NEW meant \in FirstPackets \cup LaterPackets
    PROVE  LET p == Encoded(meant) IN
           (IF p.type \in {"SUBSCRIBE", "UNSUBSCRIBE"} /\ FiltersParse(p).ok
            THEN getTopicFilters(p, Len(FiltersParse(p).lengths)).lengths ELSE <<>>)
              = GoneThrough(meant)
<1> DEFINE p == Encoded(meant)
           c == FiltersParse(p)
           lens == FilterLengths(meant)
<1>1. p.type = meant.type
  BY DEF Encoded
<1>2. CASE meant.type \in {"SUBSCRIBE", "UNSUBSCRIBE"}
  <2>1. IsRequest(meant)
    BY <1>2, RequestMeant
  <2>2. /\ c.ok <=> IsLegal(meant)
        /\ IsLegal(meant) => /\ c.lengths = lens
                             /\ getTopicFilters(p, Len(meant.filters)).lengths = lens
        /\ Len(lens) = Len(meant.filters)
    BY <2>1, RequestServed
  <2>3. GoneThrough(meant) = IF IsLegal(meant) THEN lens ELSE <<>>
    BY <1>2 DEF GoneThrough, Filters, FilterLengths
  <2> HIDE DEF p, c, lens
  <2>4. (IF p.type \in {"SUBSCRIBE", "UNSUBSCRIBE"} /\ c.ok
         THEN getTopicFilters(p, Len(c.lengths)).lengths ELSE <<>>)
            = IF IsLegal(meant) THEN lens ELSE <<>>
    BY <1>1, <1>2, <2>2
  <2> QED
    BY <2>3, <2>4 DEF p, c
<1>3. CASE meant.type \notin {"SUBSCRIBE", "UNSUBSCRIBE"}
  <2>1. Filters(meant) = <<>>
    BY <1>3 DEF Filters
  <2>2. [i \in DOMAIN <<>> |-> Filters(meant)[i].length] = <<>>
    OBVIOUS
  <2>3. GoneThrough(meant) = <<>>
    BY <2>1, <2>2 DEF GoneThrough
  <2> QED
    BY <1>1, <1>3, <2>3
<1> QED
  BY <1>2, <1>3

LEMMA ServiceServes == ASSUME IInv, service PROVE ServedAsMeant'
<1>0. session \in {"none", "open"} /\ running = "yes"
  BY DEF service, HasRoom
<1>1. Clear(output)
  BY <1>0 DEF IInv, Inv, Clear, Followed, Gone
<1>2. PICK meant \in FirstPackets \cup LaterPackets, room \in Rooms, paired \in BOOLEAN :
        /\ processMessage(Encoded(meant), room, paired)
        /\ last' = [packet |-> meant, before |-> session, paired |-> paired,
                    filters |-> IF /\ Encoded(meant).type \in {"SUBSCRIBE", "UNSUBSCRIBE"}
                                   /\ FiltersParse(Encoded(meant)).ok
                                THEN getTopicFilters(Encoded(meant),
                                        Len(FiltersParse(Encoded(meant)).lengths)).lengths
                                ELSE <<>>]
  BY DEF service
<1>3. room \in Nat
  BY LengthsAssumption
<1>4. last' = [packet |-> meant, before |-> session, paired |-> paired,
               filters |-> GoneThrough(meant)]
  BY <1>2, FiltersServed
<1>5. session = "none" => FirstServed(meant, paired, output'.stream, session', running')
  BY <1>0, <1>1, <1>2, <1>3, FirstServes
<1>6. session = "open" => LaterAnswered(meant, output'.stream, session', running')
  <2>1. session = "open" => SessionMessage(Encoded(meant), room)
    BY <1>2 DEF processMessage
  <2> QED
    BY <1>0, <1>1, <1>3, <2>1, LaterServes
<1>7. Served(last', output'.stream, session', running')
  BY <1>4, <1>5, <1>6, Zenon DEF Served, LaterAnswered
<1> QED
  BY <1>7 DEF ServedAsMeant, Served, FirstServed, LaterServed, GoneThrough, Answered, TooMany, Broken

LEMMA StillAnswered ==
    ASSUME NEW meant, NEW s, NEW t, Range(s) \subseteq Range(t), Answered(meant, s)
    PROVE  Answered(meant, t)
<1>1. PICK e \in Range(s) :
        /\ e.kind = "SUBACK" /\ Len(e.answer) = Len(meant.filters)
        /\ \A i \in DOMAIN e.answer :
              meant.filters[i].length > maxTopicNameLength => e.answer[i] = 128
  BY DEF Answered
<1>2. e \in Range(t)
  OBVIOUS
<1> QED
  BY <1>1, <1>2, Zenon DEF Answered

(* Publishing breaks nothing: the session stays open.                      *)
LEMMA PublicationServes == ASSUME IInv, ServedAsMeant, publish PROVE ServedAsMeant'
<1>1. /\ session = "open" /\ session' = "open" /\ running = "yes" /\ running' = "yes"
      /\ last' = last
  BY DEF publish, HasRoom
<1>2. PICK publication \in Publications, room \in Rooms :
        output' = sendPublishMessage(output, publication, room)
  BY DEF publish
<1>3. Range(output.stream) \subseteq Range(output'.stream)
  <2> DEFINE e == OnStream(PublishMessage(publication), room)
             s == output.stream
  <2>1. Counted(output) /\ IsStream(s)
    BY DEF IInv, Inv, Counted
  <2>2. output'.stream = Append(s, e)
    BY <1>2, <2>1, PublishCounts, LengthsAssumption
  <2> HIDE DEF e, s
  <2>3. DOMAIN s \subseteq DOMAIN Append(s, e) /\ \A i \in DOMAIN s : Append(s, e)[i] = s[i]
    BY <2>1, AppendIs
  <2> QED
    BY <2>2, <2>3 DEF Range, s
<1>4. CASE last = NoPacket
  BY <1>1, <1>4 DEF ServedAsMeant
<1>5. CASE last # NoPacket
  <2>1. Served(last, output.stream, "open", "yes")
    BY <1>1, <1>5, ServedIs
  <2>2. Served(last, output'.stream, "open", "yes")
    <3>1. Answered(last.packet, output.stream) => Answered(last.packet, output'.stream)
      BY <1>3, StillAnswered
    <3>2. FirstServed(last.packet, last.paired, output.stream, "open", "yes")
            => FirstServed(last.packet, last.paired, output'.stream, "open", "yes")
      BY DEF FirstServed
    <3>3. LaterServed(last.packet, output.stream, "open", "yes")
            => LaterServed(last.packet, output'.stream, "open", "yes")
      BY DEF LaterServed
    <3> QED
      BY <2>1, <3>1, <3>2, <3>3, Zenon DEF Served
  <2>3. Served(last', output'.stream, session', running')
    BY <1>1, <2>2
  <2> QED
    BY <2>3 DEF ServedAsMeant, Served, FirstServed, LaterServed, GoneThrough, Answered, TooMany, Broken
<1> QED
  BY <1>4, <1>5

(* MQTTConnection::processMessage and the handlers of MQTTSession serve a  *)
(* packet as what its client meant, or not at all: no damaged and no       *)
(* illegal packet is served as another, whatever was meant and cut.        *)
THEOREM AnswersServed == Spec => []ServedAsMeant
<1>1. Init => IInv /\ ServedAsMeant
  BY InitInv DEF Init, ServedAsMeant
<1>2. IInv /\ ServedAsMeant /\ [Next]_vars => (IInv /\ ServedAsMeant)'
  <2> SUFFICES ASSUME IInv, ServedAsMeant, [Next]_vars PROVE ServedAsMeant'
    BY NextInv
  <2>1. CASE UNCHANGED vars
    BY <2>1 DEF vars, ServedAsMeant
  <2> QED
    BY <2>1, ServiceServes, PublicationServes DEF Next
<1> QED
  BY <1>1, <1>2, PTL DEF Spec
=============================================================================
