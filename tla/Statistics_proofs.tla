------------------------- MODULE Statistics_proofs -------------------------
(***************************************************************************)
(* RatesAreTrue and TotalsAreTrue, for any clients and any number of       *)
(* connections and sessions, any clock and counter, any periods, and any   *)
(* number of leaves that change.                                           *)
(*                                                                         *)
(* The invariant of the totals is a balance: what was really counted is    *)
(* what the totals hold, what ended connections and sessions left there,   *)
(* and what the present ones still hold.  Every action moves counts from   *)
(* one place to another, or counts in one place what truth counts.         *)
(***************************************************************************)
EXTENDS Statistics, SequenceTheorems, FiniteSetTheorems, TLAPS

-----------------------------------------------------------------------------
(* Induction, for a set of numbers in the place of a predicate: were k not *)
(* in T, the numbers of T up to k would be as many as those but 0.         *)
LEMMA Induction ==
    ASSUME NEW T, 0 \in T, \A n \in Nat : n \in T => n + 1 \in T
    PROVE  Nat \subseteq T
<1>1. ASSUME NEW k \in Nat, k \notin T PROVE FALSE
  <2> DEFINE S == {n \in 0 .. k : n \in T}
             f == [n \in S |-> n + 1]
  <2>1. IsFiniteSet(S)
    <3>1. IsFiniteSet(0 .. k) /\ S \subseteq 0 .. k
      BY FS_Interval
    <3> QED
      BY <3>1, FS_Subset
  <2>2. /\ IsFiniteSet(S \ {0})
        /\ Cardinality(S \ {0}) = Cardinality(S) - 1
    <3>1. 0 \in S
      OBVIOUS
    <3> QED
      BY <2>1, <3>1, FS_RemoveElement
  <2>3. Cardinality(S) \in Nat
    BY <2>1, FS_CardinalityType
  <2>4. f \in [S -> S \ {0}]
    <3>1. ASSUME NEW n \in S PROVE n + 1 \in S \ {0}
      BY <1>1
    <3> QED
      BY <3>1
  <2>5. \E x, y \in S : x # y /\ f[x] = f[y]
    <3>1. Cardinality(S \ {0}) < Cardinality(S)
      BY <2>2, <2>3
    <3> HIDE DEF S, f
    <3> QED
      BY <2>1, <2>2, <2>4, <3>1, FS_PigeonHole
  <2> QED
    BY <2>5
<1> QED
  BY <1>1

-----------------------------------------------------------------------------
(* The connections and sessions, as far as their counters matter.          *)
ConnectionCounters == {"received", "sent"}

SessionCounters == {"sent", "publishReceived", "publishSent", "publishDropped"}

Connection == [client : Clients \cup {Empty}, state : {"new", "paired", "closing"},
               counts : [ConnectionCounters -> Int]]

Session == [client : Clients \cup {Empty}, clean : BOOLEAN, listens : BOOLEAN,
            counts : [SessionCounters -> Int]]

Holder == Connection \cup Session

LEMMA CountType == ASSUME NEW h \in Holder, NEW k PROVE Count(h, k) \in Int
BY DEF Holder, Connection, Session, Count

(* The sums of a list up to each of its places.                            *)
Sums(s, k, f) ==
    /\ f \in [0 .. Len(s) -> Int]
    /\ f[0] = 0
    /\ \A i \in 1 .. Len(s) : f[i] = f[i - 1] + Count(s[i], k)

LEMMA SumsExist == ASSUME NEW s \in Seq(Holder), NEW k PROVE \E f : Sums(s, k, f)
<1> DEFINE Upto(n, f) == /\ f \in [0 .. n -> Int] /\ f[0] = 0
                         /\ \A i \in 1 .. n : f[i] = f[i - 1] + Count(s[i], k)
           T == {n \in Nat : n <= Len(s) => \E f : Upto(n, f)}
<1>1. 0 \in T
  <2>1. Upto(0, [i \in 0 .. 0 |-> 0])
    OBVIOUS
  <2> QED
    BY <2>1
<1>2. ASSUME NEW n \in Nat, n \in T PROVE n + 1 \in T
  <2> SUFFICES ASSUME n + 1 <= Len(s) PROVE \E f : Upto(n + 1, f)
    <3> HIDE DEF Upto
    <3> QED
      OBVIOUS
  <2>0. Len(s) \in Nat /\ n <= Len(s) /\ n + 1 \in 1 .. Len(s)
    OBVIOUS
  <2>1. PICK f : Upto(n, f)
    BY <1>2, <2>0
  <2> DEFINE y == f[n] + Count(s[n + 1], k)
             g == [i \in 0 .. n + 1 |-> IF i = n + 1 THEN y ELSE f[i]]
  <2>2. y \in Int
    <3>1. f[n] \in Int /\ s[n + 1] \in Holder
      BY <2>0, <2>1
    <3>2. Count(s[n + 1], k) \in Int
      BY <3>1, CountType
    <3> QED
      BY <3>1, <3>2
  <2>3. g \in [0 .. n + 1 -> Int] /\ g[0] = 0
    <3> HIDE DEF y
    <3> QED
      BY <2>1, <2>2
  <2>4. ASSUME NEW i \in 1 .. n + 1 PROVE g[i] = g[i - 1] + Count(s[i], k)
    <3>1. i - 1 \in 0 .. n /\ g[i - 1] = f[i - 1]
      OBVIOUS
    <3>2. CASE i = n + 1
      BY <3>1, <3>2
    <3>3. CASE i # n + 1
      <4>1. i \in 1 .. n /\ g[i] = f[i]
        BY <3>3
      <4> QED
        BY <2>1, <3>1, <4>1
    <3> QED
      BY <3>2, <3>3
  <2>5. Upto(n + 1, g)
    BY <2>3, <2>4
  <2> QED
    BY <2>5
<1>3. Len(s) \in T
  <2> HIDE DEF T
  <2> QED
    BY <1>1, <1>2, Induction
<1>4. PICK f : Upto(Len(s), f)
  BY <1>3
<1> QED
  BY <1>4 DEF Sums

LEMMA SumIs ==
    ASSUME NEW s \in Seq(Holder), NEW k, NEW f, Sums(s, k, f)
    PROVE  SumOf(s, k) = f[Len(s)]
<1> DEFINE n == Len(s)
           Is(g) == g = [i \in 0 .. n |-> IF i = 0 THEN 0 ELSE g[i - 1] + Count(s[i], k)]
           sum == CHOOSE g : Is(g)
<1>1. n \in Nat
  OBVIOUS
<1>2. Is(f)
  BY <1>1 DEF Sums
<1>3. Is(sum)
  BY <1>2
<1>4. SumOf(s, k) = sum[n]
  BY DEF SumOf
<1> DEFINE T == {m \in Nat : m <= n => sum[m] = f[m]}
<1> HIDE DEF sum
<1>5. 0 \in T
  BY <1>1, <1>3 DEF Sums
<1>6. ASSUME NEW m \in Nat, m \in T PROVE m + 1 \in T
  <2> SUFFICES ASSUME m + 1 <= n PROVE sum[m + 1] = f[m + 1]
    OBVIOUS
  <2>1. m + 1 \in 0 .. n /\ m + 1 # 0 /\ (m + 1) - 1 = m /\ m + 1 \in 1 .. n
    BY <1>1
  <2>2. sum[m] = f[m]
    BY <1>6, <1>1
  <2>3. sum[m + 1] = sum[m] + Count(s[m + 1], k)
    BY <1>3, <2>1
  <2>4. f[m + 1] = f[m] + Count(s[m + 1], k)
    BY <2>1 DEF Sums
  <2> QED
    BY <2>2, <2>3, <2>4
<1>7. n \in T
  <2> HIDE DEF T, n
  <2> QED
    BY <1>1, <1>5, <1>6, Induction
<1> QED
  BY <1>1, <1>4, <1>7

LEMMA SumType == ASSUME NEW s \in Seq(Holder), NEW k PROVE SumOf(s, k) \in Int
<1>1. PICK f : Sums(s, k, f)
  BY SumsExist
<1>2. SumOf(s, k) = f[Len(s)] /\ Len(s) \in 0 .. Len(s)
  BY <1>1, SumIs
<1> QED
  BY <1>1, <1>2 DEF Sums

LEMMA SumOfNone == ASSUME NEW k PROVE SumOf(<<>>, k) = 0
<1>1. Sums(<<>>, k, [i \in 0 .. 0 |-> 0])
  BY DEF Sums
<1>2. <<>> \in Seq(Holder) /\ Len(<<>>) = 0
  OBVIOUS
<1> QED
  BY <1>1, <1>2, SumIs

LEMMA SumOfAppend ==
    ASSUME NEW s \in Seq(Holder), NEW x \in Holder, NEW k
    PROVE  SumOf(Append(s, x), k) = SumOf(s, k) + Count(x, k)
<1> DEFINE n == Len(s)
           t == Append(s, x)
<1>0. n \in Nat /\ t \in Seq(Holder) /\ Len(t) = n + 1 /\ t[n + 1] = x
      /\ \A i \in 1 .. n : t[i] = s[i]
  BY AppendProperties
<1>1. PICK f : Sums(s, k, f)
  BY SumsExist
<1> DEFINE y == f[n] + Count(x, k)
           g == [i \in 0 .. n + 1 |-> IF i = n + 1 THEN y ELSE f[i]]
<1>2. f \in [0 .. n -> Int] /\ f[n] \in Int
  BY <1>0, <1>1 DEF Sums
<1>3. y \in Int
  <2>1. Count(x, k) \in Int
    BY CountType
  <2> QED
    BY <1>2, <2>1
<1>4. g \in [0 .. n + 1 -> Int] /\ g[0] = 0
  <2>1. f[0] = 0
    BY <1>1 DEF Sums
  <2> HIDE DEF y
  <2> QED
    BY <1>0, <1>2, <1>3, <2>1
<1>5. ASSUME NEW i \in 1 .. n + 1 PROVE g[i] = g[i - 1] + Count(t[i], k)
  <2>1. g[i - 1] = f[i - 1]
    BY <1>0
  <2>2. CASE i = n + 1
    <3>1. i - 1 = n /\ t[i] = x /\ g[i] = y
      BY <1>0, <2>2
    <3> QED
      BY <2>1, <3>1
  <2>3. CASE i # n + 1
    <3>1. i \in 1 .. n /\ g[i] = f[i]
      BY <1>0, <2>3
    <3>2. t[i] = s[i]
      BY <1>0, <3>1
    <3>3. f[i] = f[i - 1] + Count(s[i], k)
      BY <1>1, <3>1 DEF Sums
    <3> QED
      BY <2>1, <3>1, <3>2, <3>3
  <2> QED
    BY <2>2, <2>3
<1>6. Sums(t, k, g)
  <2> HIDE DEF t, g
  <2> QED
    BY <1>0, <1>4, <1>5 DEF Sums
<1>7. SumOf(t, k) = g[n + 1] /\ SumOf(s, k) = f[n]
  <2> HIDE DEF t, g
  <2> QED
    BY <1>0, <1>1, <1>6, SumIs
<1>8. g[n + 1] = y
  BY <1>0
<1> QED
  BY <1>7, <1>8

LEMMA Removed ==
    ASSUME NEW S, NEW s \in Seq(S), NEW p \in 1 .. Len(s)
    PROVE  /\ RemoveAt(s, p) \in Seq(S)
           /\ Len(RemoveAt(s, p)) = Len(s) - 1
           /\ \A i \in 1 .. Len(s) - 1 : RemoveAt(s, p)[i] = IF i < p THEN s[i] ELSE s[i + 1]
<1> DEFINE a == SubSeq(s, 1, p - 1)
           b == SubSeq(s, p + 1, Len(s))
<1>1. Len(s) \in Nat /\ p \in Nat
  OBVIOUS
<1>2. a \in Seq(S) /\ Len(a) = p - 1 /\ \A i \in 1 .. p - 1 : a[i] = s[i]
  <2>1. \A i \in 1 .. p - 1 : s[i] \in S
    OBVIOUS
  <2> QED
    BY <1>1, <2>1, SubSeqProperties
<1>3. b \in Seq(S) /\ Len(b) = Len(s) - p /\ \A i \in 1 .. Len(s) - p : b[i] = s[p + i]
  <2>1. \A i \in p + 1 .. Len(s) : s[i] \in S
    OBVIOUS
  <2> QED
    BY <1>1, <2>1, SubSeqProperties
<1>4. RemoveAt(s, p) = a \o b
  BY DEF RemoveAt
<1> HIDE DEF a, b
<1>5. /\ a \o b \in Seq(S) /\ Len(a \o b) = Len(a) + Len(b)
      /\ \A i \in 1 .. Len(a) + Len(b) : (a \o b)[i] = IF i <= Len(a) THEN a[i] ELSE b[i - Len(a)]
  BY <1>2, <1>3, ConcatProperties
<1>6. ASSUME NEW i \in 1 .. Len(s) - 1 PROVE (a \o b)[i] = IF i < p THEN s[i] ELSE s[i + 1]
  <2>1. CASE i < p
    <3>1. i \in 1 .. p - 1 /\ i <= Len(a) /\ i \in 1 .. Len(a) + Len(b)
      BY <1>1, <1>2, <1>3, <2>1
    <3> QED
      BY <1>2, <1>5, <2>1, <3>1
  <2>2. CASE ~(i < p)
    <3>1. /\ i - (p - 1) \in 1 .. Len(s) - p /\ ~(i <= Len(a)) /\ i \in 1 .. Len(a) + Len(b)
          /\ p + (i - (p - 1)) = i + 1
      BY <1>1, <1>2, <1>3, <2>2
    <3> QED
      BY <1>2, <1>3, <1>5, <2>2, <3>1
  <2> QED
    BY <2>1, <2>2
<1>7. Len(a) + Len(b) = Len(s) - 1
  BY <1>1, <1>2, <1>3
<1> QED
  BY <1>4, <1>5, <1>6, <1>7

LEMMA SumOfRemove ==
    ASSUME NEW s \in Seq(Holder), NEW p \in 1 .. Len(s), NEW k
    PROVE  SumOf(RemoveAt(s, p), k) = SumOf(s, k) - Count(s[p], k)
<1> DEFINE n == Len(s)
           t == RemoveAt(s, p)
           c == Count(s[p], k)
<1>0. n \in Nat /\ p \in 1 .. n /\ t \in Seq(Holder) /\ Len(t) = n - 1
      /\ \A i \in 1 .. n - 1 : t[i] = IF i < p THEN s[i] ELSE s[i + 1]
  BY Removed
<1>1. PICK f : Sums(s, k, f)
  BY SumsExist
<1>2. f \in [0 .. n -> Int] /\ f[0] = 0 /\ c \in Int
  <2>1. s[p] \in Holder
    OBVIOUS
  <2> QED
    BY <1>1, <2>1, CountType DEF Sums
<1>3. ASSUME NEW i \in 1 .. n PROVE f[i] = f[i - 1] + Count(s[i], k)
  BY <1>1 DEF Sums
<1> DEFINE g == [i \in 0 .. n - 1 |-> IF i < p THEN f[i] ELSE f[i + 1] - c]
<1>4. g \in [0 .. n - 1 -> Int] /\ g[0] = 0
  <2> HIDE DEF c
  <2>1. \A i \in 0 .. n - 1 : f[i] \in Int /\ f[i + 1] \in Int
    BY <1>0, <1>2
  <2>2. 0 < p /\ 0 \in 0 .. n - 1
    BY <1>0
  <2> HIDE DEF n
  <2> QED
    BY <1>2, <2>1, <2>2
<1>5. ASSUME NEW i \in 1 .. n - 1 PROVE g[i] = g[i - 1] + Count(t[i], k)
  <2>1. /\ i \in 1 .. n /\ i + 1 \in 1 .. n /\ (i + 1) - 1 = i /\ i - 1 \in 0 .. n - 1
        /\ i \in 0 .. n - 1 /\ (i - 1) + 1 = i
    BY <1>0
  <2>2. f[i] = f[i - 1] + Count(s[i], k) /\ f[i + 1] = f[i] + Count(s[i + 1], k)
    <3> HIDE DEF n
    <3> QED
      BY <1>3, <2>1
  <2>3. g[i] = IF i < p THEN f[i] ELSE f[i + 1] - c
    BY <2>1
  <2>4. g[i - 1] = IF i - 1 < p THEN f[i - 1] ELSE f[i] - c
    BY <2>1
  <2>5. /\ Count(s[i], k) \in Int /\ Count(s[i + 1], k) \in Int
        /\ f[i - 1] \in Int /\ f[i] \in Int /\ f[i + 1] \in Int
    <3>1. s[i] \in Holder /\ s[i + 1] \in Holder
      BY <2>1
    <3> QED
      BY <1>2, <2>1, <3>1, CountType
  <2> HIDE DEF g, c, t, n
  <2>6. CASE i < p
    <3>1. t[i] = s[i] /\ i - 1 < p
      BY <1>0, <2>6
    <3> QED
      BY <2>2, <2>3, <2>4, <2>6, <3>1
  <2>7. CASE i = p
    <3>1. t[i] = s[i + 1] /\ i - 1 < p /\ ~(i < p)
      BY <1>0, <2>7
    <3>2. c = Count(s[i], k)
      BY <2>7 DEF c
    <3> QED
      BY <2>2, <2>3, <2>4, <2>5, <3>1, <3>2
  <2>8. CASE i > p
    <3>1. t[i] = s[i + 1] /\ ~(i - 1 < p) /\ ~(i < p)
      BY <1>0, <2>8
    <3> QED
      BY <1>2, <2>2, <2>3, <2>4, <2>5, <3>1
  <2> QED
    BY <1>0, <2>6, <2>7, <2>8
<1>6. Sums(t, k, g)
  <2> HIDE DEF t, g
  <2> QED
    BY <1>0, <1>4, <1>5 DEF Sums
<1>7. SumOf(t, k) = g[n - 1] /\ SumOf(s, k) = f[n]
  <2> HIDE DEF t, g
  <2> QED
    BY <1>0, <1>1, <1>6, SumIs
<1>8. g[n - 1] = f[n] - c
  <2>1. n - 1 \in 0 .. n - 1 /\ (n - 1) + 1 = n
    BY <1>0
  <2>2. CASE n - 1 < p
    <3>1. n = p
      BY <1>0, <2>2
    <3>2. f[n] = f[n - 1] + c
      BY <1>0, <1>3, <3>1
    <3>3. f[n - 1] \in Int
      BY <1>2, <2>1
    <3> HIDE DEF c
    <3> QED
      BY <1>2, <2>1, <2>2, <3>2, <3>3
  <2>3. CASE ~(n - 1 < p)
    BY <2>1, <2>3
  <2> QED
    BY <2>2, <2>3
<1> QED
  BY <1>7, <1>8

(* Every holder of S counts d more.                                        *)
LEMMA SumGrows ==
    ASSUME NEW s \in Seq(Holder), NEW t \in Seq(Holder), Len(t) = Len(s), NEW k,
           NEW S \in SUBSET (1 .. Len(s)), NEW d \in Int,
           \A i \in 1 .. Len(s) :
               Count(t[i], k) = Count(s[i], k) + (IF i \in S THEN d ELSE 0)
    PROVE  SumOf(t, k) = SumOf(s, k) + d * Cardinality(S)
<1>1. PICK f : Sums(s, k, f)
  BY SumsExist
<1>2. PICK g : Sums(t, k, g)
  BY SumsExist
<1> DEFINE n == Len(s)
           Upto(m) == S \cap (1 .. m)
           T == {m \in Nat : m <= n => g[m] = f[m] + d * Cardinality(Upto(m))}
<1>3. n \in Nat
  OBVIOUS
<1>4. ASSUME NEW m \in Nat PROVE IsFiniteSet(Upto(m)) /\ Cardinality(Upto(m)) \in Nat
  <2>1. IsFiniteSet(1 .. m) /\ Upto(m) \in SUBSET (1 .. m)
    BY FS_Interval
  <2>2. IsFiniteSet(Upto(m))
    <3> HIDE DEF Upto
    <3> QED
      BY <2>1, FS_Subset
  <2> QED
    BY <2>2, FS_CardinalityType
<1>5. 0 \in T
  <2>1. Upto(0) = {}
    OBVIOUS
  <2>2. Cardinality(Upto(0)) = 0
    BY <2>1, FS_EmptySet
  <2>3. f[0] = 0 /\ g[0] = 0
    BY <1>1, <1>2 DEF Sums
  <2> QED
    BY <2>2, <2>3
<1>6. ASSUME NEW m \in Nat, m \in T PROVE m + 1 \in T
  <2> SUFFICES ASSUME m + 1 <= n PROVE g[m + 1] = f[m + 1] + d * Cardinality(Upto(m + 1))
    <3> HIDE DEF Upto
    <3> QED
      OBVIOUS
  <2>1. m + 1 \in 1 .. n /\ (m + 1) - 1 = m /\ m \in 0 .. n /\ m + 1 \in 0 .. n /\ m <= n
    BY <1>3
  <2>2. g[m] = f[m] + d * Cardinality(Upto(m))
    <3> HIDE DEF Upto
    <3> QED
      BY <1>6, <2>1
  <2>3. /\ f[m + 1] = f[m] + Count(s[m + 1], k) /\ g[m + 1] = g[m] + Count(t[m + 1], k)
        /\ f[m] \in Int /\ g[m] \in Int
    <3> HIDE DEF n
    <3> QED
      BY <1>1, <1>2, <2>1 DEF Sums, n
  <2>4. Count(t[m + 1], k) = Count(s[m + 1], k) + (IF m + 1 \in S THEN d ELSE 0)
    BY <2>1
  <2>5. Count(s[m + 1], k) \in Int
    <3>1. s[m + 1] \in Holder
      BY <2>1
    <3> QED
      BY <3>1, CountType
  <2>6. IsFiniteSet(Upto(m)) /\ Cardinality(Upto(m)) \in Nat
    BY <1>4
  <2>7. CASE m + 1 \in S
    <3>1. Upto(m + 1) = Upto(m) \cup {m + 1} /\ m + 1 \notin Upto(m)
      BY <2>1, <2>7
    <3> HIDE DEF Upto
    <3>2. Cardinality(Upto(m + 1)) = Cardinality(Upto(m)) + 1
      BY <2>6, <3>1, FS_AddElement
    <3>3. ASSUME NEW c \in Nat PROVE d * (c + 1) = d * c + d /\ d * c \in Int
      OBVIOUS
    <3>4. d * Cardinality(Upto(m + 1)) = d * Cardinality(Upto(m)) + d
          /\ d * Cardinality(Upto(m)) \in Int
      BY <2>6, <3>2, <3>3
    <3> QED
      BY <2>2, <2>3, <2>4, <2>5, <2>7, <3>4
  <2>8. CASE m + 1 \notin S
    <3>1. Upto(m + 1) = Upto(m)
      BY <2>1, <2>8
    <3>2. d * Cardinality(Upto(m)) \in Int
      BY <2>6
    <3> HIDE DEF Upto
    <3> QED
      BY <2>2, <2>3, <2>4, <2>5, <2>8, <3>1, <3>2
  <2> QED
    BY <2>7, <2>8
<1>7. n \in T
  <2> HIDE DEF T, n
  <2> QED
    BY <1>3, <1>5, <1>6, Induction
<1>8. Upto(n) = S
  OBVIOUS
<1>9. g[n] = f[n] + d * Cardinality(Upto(n))
  <2> HIDE DEF Upto
  <2> QED
    BY <1>3, <1>7
<1>10. SumOf(s, k) = f[n] /\ SumOf(t, k) = g[n]
  BY <1>1, <1>2, SumIs
<1> QED
  BY <1>8, <1>9, <1>10

LEMMA SumInOrder ==
    ASSUME NEW s \in Seq(Holder), NEW t \in Seq(Holder), Len(t) = Len(s), NEW k,
           \A i \in 1 .. Len(s) : Count(s[i], k) <= Count(t[i], k)
    PROVE  SumOf(s, k) <= SumOf(t, k)
<1>1. PICK f : Sums(s, k, f)
  BY SumsExist
<1>2. PICK g : Sums(t, k, g)
  BY SumsExist
<1> DEFINE n == Len(s)
           T == {m \in Nat : m <= n => f[m] <= g[m]}
<1>3. n \in Nat
  OBVIOUS
<1>4. 0 \in T
  <2>1. f[0] = 0 /\ g[0] = 0
    BY <1>1, <1>2 DEF Sums
  <2> QED
    BY <2>1
<1>5. ASSUME NEW m \in Nat, m \in T PROVE m + 1 \in T
  <2> SUFFICES ASSUME m + 1 <= n PROVE f[m + 1] <= g[m + 1]
    OBVIOUS
  <2>1. m + 1 \in 1 .. n /\ (m + 1) - 1 = m /\ m \in 0 .. n /\ m <= n
    BY <1>3
  <2>2. f[m] <= g[m]
    BY <1>5, <2>1
  <2>3. /\ f[m + 1] = f[m] + Count(s[m + 1], k) /\ g[m + 1] = g[m] + Count(t[m + 1], k)
        /\ f[m] \in Int /\ g[m] \in Int
    <3> HIDE DEF n
    <3> QED
      BY <1>1, <1>2, <2>1 DEF Sums, n
  <2>4. /\ Count(s[m + 1], k) \in Int /\ Count(t[m + 1], k) \in Int
        /\ Count(s[m + 1], k) <= Count(t[m + 1], k)
    <3>1. s[m + 1] \in Holder /\ t[m + 1] \in Holder
      BY <2>1
    <3> QED
      BY <2>1, <3>1, CountType
  <2> QED
    BY <2>2, <2>3, <2>4
<1>6. n \in T
  <2> HIDE DEF T, n
  <2> QED
    BY <1>3, <1>4, <1>5, Induction
<1>7. SumOf(s, k) = f[n] /\ SumOf(t, k) = g[n]
  BY <1>1, <1>2, SumIs
<1> QED
  BY <1>3, <1>6, <1>7

LEMMA SumKept ==
    ASSUME NEW s \in Seq(Holder), NEW t \in Seq(Holder), Len(t) = Len(s), NEW k,
           \A i \in 1 .. Len(s) : Count(t[i], k) = Count(s[i], k)
    PROVE  SumOf(t, k) = SumOf(s, k)
<1>1. \A i \in 1 .. Len(s) : Count(t[i], k) \in Int /\ Count(s[i], k) \in Int
  BY CountType
<1>2. SumOf(s, k) <= SumOf(t, k) /\ SumOf(t, k) <= SumOf(s, k)
  BY <1>1, SumInOrder
<1>3. SumOf(s, k) \in Int /\ SumOf(t, k) \in Int
  BY SumType
<1> QED
  BY <1>2, <1>3

LEMMA SumChangesAt ==
    ASSUME NEW s \in Seq(Holder), NEW t \in Seq(Holder), Len(t) = Len(s), NEW k,
           NEW p \in 1 .. Len(s), NEW d \in Int, Count(t[p], k) = Count(s[p], k) + d,
           \A i \in 1 .. Len(s) : i # p => Count(t[i], k) = Count(s[i], k)
    PROVE  SumOf(t, k) = SumOf(s, k) + d
<1>1. \A i \in 1 .. Len(s) : Count(s[i], k) \in Int
  BY CountType
<1>2. \A i \in 1 .. Len(s) : Count(t[i], k) = Count(s[i], k) + (IF i \in {p} THEN d ELSE 0)
  BY <1>1
<1>3. SumOf(t, k) = SumOf(s, k) + d * Cardinality({p})
  BY <1>2, SumGrows
<1>4. Cardinality({p}) = 1
  BY FS_Singleton
<1> QED
  BY <1>3, <1>4

-----------------------------------------------------------------------------
(* What a message does to the counters of who sends or receives it.        *)
WithMore(holder, names, n) == [holder EXCEPT !.counts = Grown(@, names, n)]

LEMMA GrownConnection ==
    ASSUME NEW c \in Connection, NEW names \in SUBSET ConnectionCounters, NEW n \in Int
    PROVE  LET d == WithMore(c, names, n) IN
           /\ d \in Connection /\ d.client = c.client /\ d.state = c.state
           /\ \A k : Count(d, k) = Count(c, k) + (IF k \in names THEN n ELSE 0)
BY DEF Connection, ConnectionCounters, Grown, Count, WithMore

LEMMA GrownSession ==
    ASSUME NEW c \in Session, NEW names \in SUBSET SessionCounters, NEW n \in Int
    PROVE  LET d == WithMore(c, names, n) IN
           /\ d \in Session /\ d.client = c.client
           /\ \A k : Count(d, k) = Count(c, k) + (IF k \in names THEN n ELSE 0)
BY DEF Session, SessionCounters, Grown, Count, WithMore

LEMMA OutcomeType ==
    ASSUME NEW s, NEW full
    PROVE  Outcome(s, full) \in SUBSET SessionCounters
BY DEF Outcome, SessionCounters

-----------------------------------------------------------------------------
(* What holds of connections, sessions and totals all the time: what was   *)
(* really counted is what a total is made of, and a paired connection has  *)
(* a session of its own.                                                   *)
Lists ==
    /\ connections \in Seq(Connection)
    /\ activeSessions \in Seq(Session)
    /\ disconnectedSessions \in Seq(Session)

TotalOK(total) ==
    /\ DOMAIN total = BrokerCounters \cup {"maximum"}
    /\ \A k \in BrokerCounters : total[k] \in Int

TotalsType == TotalOK(totals)

TruthType == truth \in [BrokerCounters \cup {"updates"} -> Int]

Balance ==
    \A k \in BrokerCounters :
        truth[k] = totals[k] + SumOf(connections, k)
                   + SumOf(activeSessions, k) + SumOf(disconnectedSessions, k)

IsPaired(i) == connections[i].state = "paired"

PairedHaveSessions ==
    \A i \in DOMAIN connections :
        IsPaired(i) => HasSession(activeSessions, connections[i].client)

PairedOnce ==
    \A i, j \in DOMAIN connections :
        IsPaired(i) /\ IsPaired(j) /\ connections[i].client = connections[j].client => i = j

BrokerInv ==
    Lists /\ TotalsType /\ TruthType /\ Balance /\ PairedHaveSessions /\ PairedOnce

LEMMA SessionsHold == /\ \A s \in Seq(Session) : s \in Seq(Holder)
                      /\ \A s \in Seq(Connection) : s \in Seq(Holder)
<1>1. Session \subseteq Holder /\ Connection \subseteq Holder
  BY DEF Holder
<1> HIDE DEF Session, Connection, Holder
<1> QED
  BY <1>1, SeqMonotonic

LEMMA ListsHold ==
    ASSUME Lists
    PROVE  /\ connections \in Seq(Holder) /\ activeSessions \in Seq(Holder)
           /\ disconnectedSessions \in Seq(Holder)
BY SessionsHold DEF Lists

LEMMA SumsAreNumbers ==
    ASSUME Lists, NEW k
    PROVE  /\ SumOf(connections, k) \in Int /\ SumOf(activeSessions, k) \in Int
           /\ SumOf(disconnectedSessions, k) \in Int
BY ListsHold, SumType

(* Lists with the same clients at their places.                            *)
SameClients(s, t) == Len(s) = Len(t) /\ \A i \in 1 .. Len(s) : s[i].client = t[i].client

LEMMA SessionsKept ==
    ASSUME NEW s \in Seq(Session), NEW t \in Seq(Session), SameClients(s, t), NEW client
    PROVE  /\ HasSession(t, client) <=> HasSession(s, client)
           /\ SessionOf(t, client) = SessionOf(s, client)
<1>1. DOMAIN s = 1 .. Len(s) /\ DOMAIN t = 1 .. Len(s)
  BY DEF SameClients
<1>2. IndexFor(t, client) = IndexFor(s, client)
  BY <1>1 DEF IndexFor, SameClients
<1> QED
  BY <1>2 DEF HasSession, SessionOf

LEMMA SessionOfIs ==
    ASSUME NEW s \in Seq(Session), NEW client, HasSession(s, client)
    PROVE  /\ SessionOf(s, client) \in 1 .. Len(s)
           /\ s[SessionOf(s, client)] \in Session
           /\ s[SessionOf(s, client)].client = client
<1>1. DOMAIN s = 1 .. Len(s)
  OBVIOUS
<1>2. SessionOf(s, client) \in IndexFor(s, client)
  BY DEF HasSession, SessionOf
<1>3. SessionOf(s, client) \in 1 .. Len(s) /\ s[SessionOf(s, client)].client = client
  BY <1>1, <1>2 DEF IndexFor
<1> QED
  BY <1>3

(* How much session i counts, as k, of n messages to the listeners S.      *)
Gain(i, k, S, n, full) ==
    IF i \in S /\ k \in Outcome(activeSessions[i], full) THEN n ELSE 0

(* Whatever listeners are told is in their counters and in truth.          *)
LEMMA ToldAll ==
    ASSUME Lists, TruthType, NEW S \in SUBSET DOMAIN activeSessions, NEW n \in Nat, NEW full
    PROVE  LET t == Told(S, n, full)
               after == TruthAfter(S, n, full)
           IN  /\ t \in Seq(Session) /\ SameClients(activeSessions, t)
               /\ after \in [BrokerCounters \cup {"updates"} -> Int]
               /\ after["updates"] = truth["updates"]
               /\ \A k \in BrokerCounters :
                    /\ truth[k] <= after[k]
                    /\ SumOf(t, k) + truth[k] = SumOf(activeSessions, k) + after[k]
               /\ \A i \in 1 .. Len(activeSessions), k \in BrokerCounters :
                    Count(t[i], k) = Count(activeSessions[i], k) + Gain(i, k, S, n, full)
<1> DEFINE t == Told(S, n, full)
           after == TruthAfter(S, n, full)
           s == activeSessions
           l == Len(s)
           Who(k) == {i \in S : k \in Outcome(s[i], full)}
<1>1. s \in Seq(Session) /\ DOMAIN s = 1 .. l /\ l \in Nat
  BY DEF Lists
<1>2. ASSUME NEW i \in 1 .. l
      PROVE  /\ t[i] \in Session /\ t[i].client = s[i].client
             /\ \A k : Count(t[i], k) = Count(s[i], k)
                        + (IF i \in S /\ k \in Outcome(s[i], full) THEN n ELSE 0)
  <2>1. s[i] \in Session
    BY <1>1
  <2>2. CASE i \in S
    <3>1. t[i] = WithMore(s[i], Outcome(s[i], full), n)
      BY <1>1, <2>2 DEF Told, WithMore
    <3>2. Outcome(s[i], full) \in SUBSET SessionCounters /\ n \in Int
      BY OutcomeType
    <3> DEFINE d == WithMore(s[i], Outcome(s[i], full), n)
    <3>3. \A k : /\ d \in Session /\ d.client = s[i].client
                /\ Count(d, k) = Count(s[i], k) + (IF k \in Outcome(s[i], full) THEN n ELSE 0)
      BY <2>1, <3>2, GrownSession
    <3> HIDE DEF t, d
    <3> QED
      BY <2>2, <3>1, <3>3 DEF d
  <2>3. CASE i \notin S
    <3>1. t[i] = [s[i] EXCEPT !.counts = s[i].counts]
      BY <1>1, <2>3 DEF Told
    <3>2. t[i] = s[i]
      BY <2>1, <3>1 DEF Session
    <3>3. \A k : Count(s[i], k) \in Int
      <4>1. s[i] \in Holder
        BY <2>1 DEF Holder
      <4> QED
        BY <4>1, CountType
    <3> QED
      BY <2>1, <2>3, <3>2, <3>3
  <2> QED
    BY <2>2, <2>3
<1>3. t \in Seq(Session) /\ Len(t) = l /\ DOMAIN t = 1 .. l
  <2>1. t = [i \in 1 .. l |-> t[i]]
    BY <1>1 DEF Told
  <2> HIDE DEF t
  <2>2. t \in [1 .. l -> Session]
    BY <1>2, <2>1
  <2> QED
    BY <1>1, <2>2
<1>4. ASSUME NEW k \in BrokerCounters \cup {"updates"}
      PROVE  after[k] = truth[k] + n * Cardinality(Who(k))
  BY DEF TruthAfter, TruthType
<1>5. ASSUME NEW k
      PROVE  /\ SumOf(t, k) = SumOf(s, k) + n * Cardinality(Who(k))
             /\ IsFiniteSet(Who(k)) /\ Cardinality(Who(k)) \in Nat
  <2>1. s \in Seq(Holder) /\ t \in Seq(Holder)
    <3> HIDE DEF t
    <3> QED
      BY <1>1, <1>3, SessionsHold
  <2>2. Who(k) \in SUBSET (1 .. Len(s)) /\ n \in Int
    BY <1>1
  <2>3. \A i \in 1 .. Len(s) :
           Count(t[i], k) = Count(s[i], k) + (IF i \in Who(k) THEN n ELSE 0)
    <3> HIDE DEF t
    <3> QED
      BY <1>2
  <2>4. PICK W : W = Who(k)
    OBVIOUS
  <2>5. Len(t) = Len(s) /\ W \in SUBSET (1 .. Len(s))
        /\ \A i \in 1 .. Len(s) :
             Count(t[i], k) = Count(s[i], k) + (IF i \in W THEN n ELSE 0)
    <3> HIDE DEF t, Who
    <3> QED
      BY <1>3, <2>2, <2>3, <2>4
  <2> HIDE DEF t, Who, s, l
  <2>6. /\ SumOf(t, k) = SumOf(s, k) + n * Cardinality(W)
        /\ IsFiniteSet(W) /\ Cardinality(W) \in Nat
    <3>1. s \in Seq(Holder) /\ t \in Seq(Holder) /\ Len(t) = Len(s) /\ n \in Int
      BY <2>1, <2>5
    <3>2. W \in SUBSET (1 .. Len(s)) /\ IsFiniteSet(1 .. Len(s))
      BY <2>5, <3>1, FS_Interval
    <3>3. SumOf(t, k) = SumOf(s, k) + n * Cardinality(W)
      <4>1. PICK d \in Int : d = n
        BY <3>1
      <4>2. \A i \in 1 .. Len(s) :
               Count(t[i], k) = Count(s[i], k) + (IF i \in W THEN d ELSE 0)
        BY <2>5, <4>1
      <4>3. SumOf(t, k) = SumOf(s, k) + d * Cardinality(W)
        BY <3>1, <3>2, <4>2, SumGrows, SMTT(30)
      <4> QED
        BY <4>1, <4>3
    <3>4. IsFiniteSet(W) /\ Cardinality(W) \in Nat
      BY <3>2, FS_Subset, FS_CardinalityType
    <3> QED
      BY <3>3, <3>4
  <2> QED
    BY <2>4, <2>6
<1>6. after = [k \in BrokerCounters \cup {"updates"} |-> after[k]]
  BY DEF TruthAfter, TruthType
<1>7. \A k : n * Cardinality(Who(k)) \in Nat
  <2>1. ASSUME NEW c \in Nat PROVE n * c \in Nat
    OBVIOUS
  <2> HIDE DEF Who, t, s
  <2> QED
    BY <1>5, <2>1
<1>8. \A k \in BrokerCounters \cup {"updates"} : truth[k] \in Int
  BY DEF TruthType
<1>9. after \in [BrokerCounters \cup {"updates"} -> Int]
  <2> HIDE DEF after, Who
  <2>1. \A k \in BrokerCounters \cup {"updates"} : after[k] \in Int
    BY <1>4, <1>7, <1>8
  <2> QED
    BY <1>6, <2>1
<1>10. after["updates"] = truth["updates"]
  <2>1. Who("updates") = {}
    BY DEF Outcome
  <2>2. Cardinality(Who("updates")) = 0
    BY <2>1, FS_EmptySet
  <2>3. "updates" \in BrokerCounters \cup {"updates"}
    OBVIOUS
  <2>4. after["updates"] = truth["updates"] + n * Cardinality(Who("updates"))
    BY <1>4, <2>3
  <2> HIDE DEF after, Who
  <2> QED
    BY <1>8, <2>2, <2>3, <2>4
<1>11. ASSUME NEW k \in BrokerCounters
       PROVE  truth[k] <= after[k] /\ SumOf(t, k) + truth[k] = SumOf(s, k) + after[k]
  <2>1. SumOf(s, k) \in Int /\ truth[k] \in Int
    BY <1>8, SumsAreNumbers
  <2> DEFINE c == n * Cardinality(Who(k))
  <2>2. after[k] = truth[k] + c /\ SumOf(t, k) = SumOf(s, k) + c /\ c \in Nat
    BY <1>4, <1>5, <1>7
  <2> HIDE DEF after, Who, t, s, c
  <2> QED
    BY <2>1, <2>2
<1>12. SameClients(s, t)
  <2> HIDE DEF t, s
  <2> QED
    BY <1>2, <1>3 DEF SameClients
<1> HIDE DEF t, after, s
<1>13. \A i \in 1 .. Len(s), k \in BrokerCounters :
          Count(t[i], k) = Count(s[i], k) + Gain(i, k, S, n, full)
  BY <1>2 DEF Gain, s
<1>14. /\ t \in Seq(Session) /\ SameClients(s, t)
       /\ after \in [BrokerCounters \cup {"updates"} -> Int]
       /\ after["updates"] = truth["updates"]
       /\ \A k \in BrokerCounters :
            truth[k] <= after[k] /\ SumOf(t, k) + truth[k] = SumOf(s, k) + after[k]
  BY <1>3, <1>9, <1>10, <1>11, <1>12
<1> QED
  BY <1>13, <1>14 DEF t, after, s

LEMMA BalanceMoves ==
    ASSUME Lists, TotalsType, TruthType, Balance, TotalsType',
           \A k \in BrokerCounters : \E x, c, a, d \in Int :
               /\ totals'[k] = totals[k] + x
               /\ SumOf(connections, k)' = SumOf(connections, k) + c
               /\ SumOf(activeSessions, k)' = SumOf(activeSessions, k) + a
               /\ SumOf(disconnectedSessions, k)' = SumOf(disconnectedSessions, k) + d
               /\ truth'[k] = truth[k] + (x + c + a + d)
    PROVE  Balance'
<1> SUFFICES ASSUME NEW k \in BrokerCounters
             PROVE  truth'[k] = totals'[k] + SumOf(connections, k)'
                        + SumOf(activeSessions, k)' + SumOf(disconnectedSessions, k)'
  BY DEF Balance
<1>1. PICK x \in Int, c \in Int, a \in Int, d \in Int :
         /\ totals'[k] = totals[k] + x
         /\ SumOf(connections, k)' = SumOf(connections, k) + c
         /\ SumOf(activeSessions, k)' = SumOf(activeSessions, k) + a
         /\ SumOf(disconnectedSessions, k)' = SumOf(disconnectedSessions, k) + d
         /\ truth'[k] = truth[k] + (x + c + a + d)
  OBVIOUS
<1>2. PICK C \in Int : C = SumOf(connections, k)
  BY SumsAreNumbers
<1>3. PICK A \in Int : A = SumOf(activeSessions, k)
  BY SumsAreNumbers
<1>4. PICK D \in Int : D = SumOf(disconnectedSessions, k)
  BY SumsAreNumbers
<1>5. PICK T \in Int : T = totals[k]
  BY DEF TotalsType, TotalOK
<1>6. PICK W \in Int : W = truth[k]
  BY DEF TruthType
<1>7. W = T + C + A + D
  BY <1>2, <1>3, <1>4, <1>5, <1>6 DEF Balance
<1>8. W + (x + c + a + d) = (T + x) + (C + c) + (A + a) + (D + d)
  BY <1>7
<1>9. /\ totals'[k] = T + x /\ SumOf(connections, k)' = C + c
      /\ SumOf(activeSessions, k)' = A + a /\ SumOf(disconnectedSessions, k)' = D + d
      /\ truth'[k] = W + (x + c + a + d)
  BY <1>1, <1>2, <1>3, <1>4, <1>5, <1>6
<1> QED
  BY <1>8, <1>9

LEMMA PublishKeeps ==
    ASSUME BrokerInv, NEW n \in Nat, NEW full, Publish(n, full),
           UNCHANGED <<connections, disconnectedSessions>>,
           TotalsType', \A k \in BrokerCounters : totals'[k] = totals[k]
    PROVE  /\ BrokerInv'
           /\ truth'["updates"] = truth["updates"] + n
           /\ \A k \in BrokerCounters : truth[k] <= truth'[k]
<1> DEFINE t == Told(Listening, n, full)
           after == TruthAfter(Listening, n, full)
<1>1. /\ t \in Seq(Session) /\ SameClients(activeSessions, t)
      /\ after \in [BrokerCounters \cup {"updates"} -> Int]
      /\ after["updates"] = truth["updates"]
      /\ \A k \in BrokerCounters :
           truth[k] <= after[k] /\ SumOf(t, k) + truth[k] = SumOf(activeSessions, k) + after[k]
  <2>1. Listening \in SUBSET DOMAIN activeSessions
    BY DEF Listening
  <2> QED
    BY <2>1, ToldAll DEF BrokerInv
<1>2. activeSessions' = t /\ truth' = Grown(after, {"updates"}, n)
  BY DEF Publish
<1>3. UNCHANGED <<connections, disconnectedSessions>> /\ TotalsType'
      /\ \A k \in BrokerCounters : totals'[k] = totals[k]
  OBVIOUS
<1> HIDE DEF t, after
<1>4. /\ truth' \in [BrokerCounters \cup {"updates"} -> Int]
      /\ truth'["updates"] = after["updates"] + n
      /\ \A k \in BrokerCounters : truth'[k] = after[k]
  BY <1>1, <1>2 DEF Grown, BrokerCounters
<1>5. Lists' /\ TotalsType' /\ TruthType'
  BY <1>1, <1>2, <1>3, <1>4 DEF BrokerInv, Lists, TruthType
<1>6. Balance'
  <2> SUFFICES ASSUME NEW k \in BrokerCounters
               PROVE  \E x, c, a, d \in Int :
                   /\ totals'[k] = totals[k] + x
                   /\ SumOf(connections, k)' = SumOf(connections, k) + c
                   /\ SumOf(activeSessions, k)' = SumOf(activeSessions, k) + a
                   /\ SumOf(disconnectedSessions, k)' = SumOf(disconnectedSessions, k) + d
                   /\ truth'[k] = truth[k] + (x + c + a + d)
    BY <1>5, BalanceMoves DEF BrokerInv
  <2>1. PICK C \in Int, D \in Int, A \in Int :
           /\ C = SumOf(connections, k) /\ D = SumOf(disconnectedSessions, k)
           /\ A = SumOf(activeSessions, k)
    BY SumsAreNumbers DEF BrokerInv
  <2>2. PICK B \in Int : B = SumOf(t, k)
    BY <1>1, SessionsHold, SumType
  <2>3. PICK T \in Int, W \in Int, V \in Int : T = totals[k] /\ W = truth[k] /\ V = after[k]
    BY <1>1 DEF BrokerInv, TotalsType, TotalOK, TruthType
  <2>4. B + W = A + V
    BY <1>1, <2>1, <2>2, <2>3
  <2>5. PICK d \in Int : d = B - A /\ B = A + d /\ V = W + (0 + 0 + d + 0)
    BY <2>4
  <2> WITNESS 0 \in Int, 0 \in Int, d \in Int, 0 \in Int
  <2>6. totals'[k] = totals[k] + 0
    BY <1>3, <2>3
  <2>7. /\ SumOf(connections, k)' = SumOf(connections, k) + 0
        /\ SumOf(disconnectedSessions, k)' = SumOf(disconnectedSessions, k) + 0
    BY <1>3, <2>1
  <2>8. SumOf(activeSessions, k)' = SumOf(activeSessions, k) + d
    BY <1>2, <2>1, <2>2, <2>5
  <2>9. truth'[k] = truth[k] + (0 + 0 + d + 0)
    BY <1>4, <2>3, <2>5
  <2> QED
    BY <2>6, <2>7, <2>8, <2>9
<1>7. \A client : HasSession(activeSessions, client) => HasSession(t, client)
  BY <1>1, SessionsKept DEF BrokerInv, Lists
<1>8. PairedHaveSessions' /\ PairedOnce'
  BY <1>2, <1>3, <1>7 DEF BrokerInv, PairedHaveSessions, PairedOnce, IsPaired
<1> QED
  BY <1>1, <1>4, <1>5, <1>6, <1>8 DEF BrokerInv

-----------------------------------------------------------------------------
(* Lists of which a holder changes, or is taken away.                      *)
LEMMA Put ==
    ASSUME NEW s \in Seq(Holder), NEW p \in 1 .. Len(s), NEW x \in Holder,
           NEW k, NEW d \in Int, Count(x, k) = Count(s[p], k) + d
    PROVE  SumOf([s EXCEPT ![p] = x], k) = SumOf(s, k) + d
<1> DEFINE t == [s EXCEPT ![p] = x]
<1>1. /\ t \in Seq(Holder) /\ Len(t) = Len(s)
      /\ \A i \in 1 .. Len(s) : t[i] = IF i = p THEN x ELSE s[i]
  BY ExceptSeq
<1> HIDE DEF t
<1>2. Count(t[p], k) = Count(s[p], k) + d
  BY <1>1
<1>3. \A i \in 1 .. Len(s) : i # p => Count(t[i], k) = Count(s[i], k)
  BY <1>1
<1>4. SumOf(t, k) = SumOf(s, k) + d
  BY <1>1, <1>2, <1>3, SumChangesAt
<1> QED
  BY <1>4 DEF t

(* What the client's session has counted.                                  *)
OfClient(s, client, k) ==
    IF HasSession(s, client) THEN Count(s[SessionOf(s, client)], k) ELSE 0

LEMMA WithoutIs ==
    ASSUME NEW s \in Seq(Session), NEW client
    PROVE  LET w == Without(s, client) IN
           /\ w \in Seq(Session)
           /\ \A k : SumOf(w, k) = SumOf(s, k) - OfClient(s, client, k)
           /\ \A c : c # client /\ HasSession(s, c) => HasSession(w, c)
<1> DEFINE p == SessionOf(s, client)
           w == Without(s, client)
<1>1. CASE HasSession(s, client)
  <2>1. p \in 1 .. Len(s) /\ s[p].client = client
    BY <1>1, SessionOfIs
  <2>2. w = RemoveAt(s, p)
    BY <1>1 DEF Without
  <2> HIDE DEF w, p
  <2>3. /\ w \in Seq(Session) /\ Len(w) = Len(s) - 1
        /\ \A i \in 1 .. Len(s) - 1 : w[i] = IF i < p THEN s[i] ELSE s[i + 1]
    BY <2>1, <2>2, Removed
  <2>4. \A k : SumOf(w, k) = SumOf(s, k) - Count(s[p], k)
    <3>1. s \in Seq(Holder)
      BY SessionsHold
    <3> QED
      BY <2>1, <2>2, <3>1, SumOfRemove
  <2>5. ASSUME NEW c, c # client, HasSession(s, c) PROVE HasSession(w, c)
    <3>1. PICK i \in 1 .. Len(s) : s[i].client = c
      BY <2>5, SessionOfIs
    <3>2. Len(s) \in Nat /\ i # p
      BY <2>1, <2>5, <3>1
    <3>3. PICK j \in 1 .. Len(s) - 1 : j = IF i < p THEN i ELSE i - 1
      BY <2>1, <3>2
    <3>4. w[j] = s[i]
      <4>1. CASE i < p
        BY <2>3, <3>3, <4>1
      <4>2. CASE ~(i < p)
        <5>1. j + 1 = i /\ ~(j < p)
          BY <2>1, <3>2, <3>3, <4>2
        <5> QED
          BY <2>3, <5>1
      <4> QED
        BY <4>1, <4>2
    <3>5. j \in DOMAIN w
      BY <2>3
    <3> QED
      BY <3>1, <3>4, <3>5 DEF HasSession, IndexFor
  <2> QED
    BY <1>1, <2>3, <2>4, <2>5 DEF w, p, OfClient
<1>2. CASE ~HasSession(s, client)
  <2>1. w = s
    BY <1>2 DEF Without
  <2>2. \A k : SumOf(s, k) \in Int
    BY SessionsHold, SumType
  <2> HIDE DEF w
  <2>3. \A k : SumOf(w, k) = SumOf(s, k) - 0
    BY <2>1, <2>2
  <2> QED
    BY <1>2, <2>1, <2>3 DEF w, OfClient
<1> QED
  BY <1>1, <1>2

(* What an ended session counted moves from the list into the totals.      *)
LEMMA EndedIs ==
    ASSUME NEW s \in Seq(Session), NEW client, NEW total, TotalOK(total)
    PROVE  LET e == Ended(total, s, client) IN
           /\ TotalOK(e)
           /\ \A k \in BrokerCounters : e[k] = total[k] + OfClient(s, client, k)
           /\ \A k : OfClient(s, client, k) \in Int
<1> DEFINE p == SessionOf(s, client)
           e == Ended(total, s, client)
<1>1. CASE HasSession(s, client)
  <2>1. \A k : Count(s[p], k) \in Int
    <3>1. s[p] \in Holder
      BY <1>1, SessionOfIs DEF Holder
    <3> QED
      BY <3>1, CountType
  <2>2. DOMAIN e = DOMAIN total /\ \A k \in DOMAIN total : e[k] = total[k] + Count(s[p], k)
    BY <1>1 DEF Ended, Added
  <2>3. \A k \in BrokerCounters : k \in DOMAIN total /\ total[k] \in Int
    BY DEF TotalOK
  <2>4. \A k : OfClient(s, client, k) = Count(s[p], k)
    BY <1>1 DEF OfClient
  <2> HIDE DEF e, p
  <2>5. TotalOK(e)
    BY <2>1, <2>2, <2>3 DEF TotalOK
  <2> QED
    BY <2>1, <2>2, <2>3, <2>4, <2>5 DEF e
<1>2. CASE ~HasSession(s, client)
  <2>1. e = total /\ \A k : OfClient(s, client, k) = 0
    BY <1>2 DEF Ended, OfClient
  <2> HIDE DEF e
  <2> QED
    BY <2>1 DEF e, TotalOK
<1> QED
  BY <1>1, <1>2

-----------------------------------------------------------------------------
(* The steps of the broker and its clients.                                *)
One(k, names) == IF k \in names THEN 1 ELSE 0

LEMMA CountsIs ==
    ASSUME Lists, NEW i \in DOMAIN connections, NEW names \in SUBSET ConnectionCounters
    PROVE  LET t == Counts(i, names) IN
           /\ t \in Seq(Connection) /\ Len(t) = Len(connections)
           /\ \A j \in 1 .. Len(connections) :
                t[j].client = connections[j].client /\ t[j].state = connections[j].state
           /\ \A k \in BrokerCounters : SumOf(t, k) = SumOf(connections, k) + One(k, names)
<1> DEFINE t == Counts(i, names)
<1>1. PICK c \in Seq(Connection) : c = connections
  BY DEF Lists
<1>2. i \in 1 .. Len(c) /\ c[i] \in Connection
  BY <1>1
<1>3. PICK n \in Int : n = 1
  OBVIOUS
<1>4. PICK h \in Connection : h = c[i]
  BY <1>2
<1>5. /\ WithMore(h, names, n) \in Connection /\ WithMore(h, names, n).client = h.client
       /\ WithMore(h, names, n).state = h.state
       /\ \A k : Count(WithMore(h, names, n), k) = Count(h, k) + (IF k \in names THEN n ELSE 0)
  <2>1. names \in SUBSET ConnectionCounters /\ n \in Int /\ h \in Connection
    OBVIOUS
  <2> DEFINE d == WithMore(h, names, n)
  <2>2. /\ d \in Connection /\ d.client = h.client /\ d.state = h.state
        /\ \A k : Count(d, k) = Count(h, k) + (IF k \in names THEN n ELSE 0)
    BY <2>1, GrownConnection
  <2> QED
    BY <2>2
<1>6. PICK x : x = WithMore(h, names, n)
  OBVIOUS
<1>7. t = [c EXCEPT ![i] = x]
  BY <1>1, <1>2, <1>3, <1>4, <1>6 DEF Counts, WithMore
<1>8. x \in Connection /\ x.client = c[i].client /\ x.state = c[i].state
  BY <1>4, <1>5, <1>6
<1>9. \A k : Count(x, k) = Count(c[i], k) + (IF k \in names THEN n ELSE 0)
  BY <1>4, <1>5, <1>6
<1>10. c \in Seq(Holder) /\ x \in Holder
  BY <1>8, SessionsHold DEF Holder
<1> HIDE DEF t
<1>11. /\ t \in Seq(Connection) /\ Len(t) = Len(c)
      /\ \A j \in 1 .. Len(c) : t[j] = IF j = i THEN x ELSE c[j]
  BY <1>2, <1>7, <1>8, ExceptSeq
<1>12. ASSUME NEW k \in BrokerCounters PROVE SumOf(t, k) = SumOf(c, k) + One(k, names)
  <2>1. PICK d \in Int : d = One(k, names)
    BY DEF One
  <2>2. Count(x, k) = Count(c[i], k) + d
    BY <1>3, <1>9, <2>1 DEF One
  <2>3. SumOf([c EXCEPT ![i] = x], k) = SumOf(c, k) + d
    BY <1>2, <1>10, <2>2, Put
  <2> QED
    BY <1>7, <2>1, <2>3
<1>13. \A j \in 1 .. Len(c) : t[j].client = c[j].client /\ t[j].state = c[j].state
  BY <1>8, <1>11
<1> QED
  BY <1>1, <1>11, <1>12, <1>13 DEF t

LEMMA TruthGrows ==
    ASSUME NEW t \in [BrokerCounters \cup {"updates"} -> Int], NEW names \in SUBSET BrokerCounters
    PROVE  /\ Grown(t, names, 1) \in [BrokerCounters \cup {"updates"} -> Int]
           /\ Grown(t, names, 1)["updates"] = t["updates"]
           /\ \A k \in BrokerCounters : Grown(t, names, 1)[k] = t[k] + One(k, names)
BY DEF Grown, One, BrokerCounters

LEMMA OneIs == \A k, names : One(k, names) \in 0 .. 1
BY DEF One

(* Who keeps its client and is paired as before keeps its session.         *)
LEMMA PairsKept ==
    ASSUME BrokerInv, Lists', Len(connections') = Len(connections),
           \A j \in 1 .. Len(connections) : IsPaired(j)' =>
               IsPaired(j) /\ connections'[j].client = connections[j].client
                   /\ HasSession(activeSessions', connections[j].client)
    PROVE  PairedHaveSessions' /\ PairedOnce'
<1>1. DOMAIN connections = 1 .. Len(connections) /\ DOMAIN connections' = 1 .. Len(connections)
  BY DEF BrokerInv, Lists
<1> QED
  BY <1>1 DEF BrokerInv, PairedHaveSessions, PairedOnce

LEMMA NewConnectionKeeps ==
    ASSUME BrokerInv, newConnection
    PROVE  BrokerInv' /\ UNCHANGED <<leaf, updates, harvested, truth>>
<1> DEFINE c == connections
<1>1. /\ c' = Append(c, NewConnection)
      /\ UNCHANGED <<leaf, updates, harvested, truth, activeSessions, disconnectedSessions, totals>>
  BY DEF newConnection, Event, published
<1>2. NewConnection \in Connection /\ \A k : Count(NewConnection, k) = 0
  BY DEF NewConnection, Connection, ConnectionCounters, Count
<1>3. /\ c' \in Seq(Connection) /\ Len(c') = Len(c) + 1 /\ Len(c) \in Nat
      /\ c'[Len(c) + 1] = NewConnection /\ \A j \in 1 .. Len(c) : c'[j] = c[j]
  BY <1>1, <1>2, AppendProperties DEF BrokerInv, Lists
<1>4. Lists' /\ TotalsType' /\ TruthType'
  BY <1>1, <1>3 DEF BrokerInv, Lists, TotalsType, TruthType
<1>5. Balance'
  <2> SUFFICES ASSUME NEW k \in BrokerCounters
               PROVE  \E x, y, a, d \in Int :
                   /\ totals'[k] = totals[k] + x
                   /\ SumOf(connections, k)' = SumOf(connections, k) + y
                   /\ SumOf(activeSessions, k)' = SumOf(activeSessions, k) + a
                   /\ SumOf(disconnectedSessions, k)' = SumOf(disconnectedSessions, k) + d
                   /\ truth'[k] = truth[k] + (x + y + a + d)
    BY <1>4, BalanceMoves DEF BrokerInv
  <2>1. SumOf(c', k) = SumOf(c, k) + 0
    <3>1. NewConnection \in Holder /\ c \in Seq(Holder)
      BY <1>2, ListsHold DEF Holder, BrokerInv
    <3>2. SumOf(c', k) = SumOf(c, k) + Count(NewConnection, k)
      BY <1>1, <3>1, SumOfAppend
    <3> QED
      BY <1>2, <3>2
  <2>2. totals[k] \in Int /\ truth[k] \in Int
    BY DEF BrokerInv, TotalsType, TotalOK, TruthType
  <2>3. SumOf(activeSessions, k) \in Int /\ SumOf(disconnectedSessions, k) \in Int
    BY SumsAreNumbers DEF BrokerInv
  <2> WITNESS 0 \in Int, 0 \in Int, 0 \in Int, 0 \in Int
  <2>4. totals'[k] = totals[k] + 0 /\ truth'[k] = truth[k] + (0 + 0 + 0 + 0)
    BY <1>1, <2>2
  <2>5. /\ SumOf(activeSessions, k)' = SumOf(activeSessions, k) + 0
        /\ SumOf(disconnectedSessions, k)' = SumOf(disconnectedSessions, k) + 0
    BY <1>1, <2>3
  <2> QED
    BY <2>1, <2>4, <2>5
<1>6. \A j \in DOMAIN c' : IsPaired(j)' => j \in DOMAIN c /\ c'[j] = c[j] /\ IsPaired(j)
  <2>1. PICK l \in Nat : l = Len(c)
    BY <1>3
  <2>2. DOMAIN c' = 1 .. l + 1 /\ DOMAIN c = 1 .. l
    BY <1>3, <2>1 DEF BrokerInv, Lists
  <2>3. c'[l + 1] = NewConnection /\ \A j \in 1 .. l : c'[j] = c[j]
    BY <1>3, <2>1
  <2>4. NewConnection.state # "paired"
    BY DEF NewConnection
  <2>5. ASSUME NEW j \in 1 .. l + 1, IsPaired(j)'
        PROVE  j \in 1 .. l /\ c'[j] = c[j] /\ IsPaired(j)
    <3>1. c'[j].state = "paired"
      BY <2>5 DEF IsPaired
    <3>2. j # l + 1
      BY <2>3, <2>4, <3>1
    <3>3. j \in 1 .. l
      BY <3>2
    <3> QED
      BY <2>3, <3>1, <3>3 DEF IsPaired
  <2> QED
    BY <2>2, <2>5
<1>7. PairedHaveSessions' /\ PairedOnce'
  BY <1>1, <1>6 DEF BrokerInv, PairedHaveSessions, PairedOnce
<1> QED
  BY <1>1, <1>4, <1>5, <1>7 DEF BrokerInv

(* Whatever else changes of a holder, its counters stay in the sum.        *)
LEMMA Relabelled ==
    ASSUME NEW S \in SUBSET Holder, NEW s \in Seq(S), NEW p \in 1 .. Len(s), NEW x \in S,
           x.counts = s[p].counts
    PROVE  LET t == [s EXCEPT ![p] = x] IN
           /\ t \in Seq(S) /\ Len(t) = Len(s)
           /\ \A i \in 1 .. Len(s) : t[i] = IF i = p THEN x ELSE s[i]
           /\ \A k : SumOf(t, k) = SumOf(s, k)
<1> DEFINE t == [s EXCEPT ![p] = x]
<1>1. /\ t \in Seq(S) /\ Len(t) = Len(s)
      /\ \A i \in 1 .. Len(s) : t[i] = IF i = p THEN x ELSE s[i]
  BY ExceptSeq
<1>2. s \in Seq(Holder) /\ x \in Holder
  BY SeqMonotonic
<1>3. ASSUME NEW k PROVE SumOf(t, k) = SumOf(s, k)
  <2>1. s[p] \in Holder
    BY <1>2
  <2>2. Count(x, k) = Count(s[p], k) /\ Count(s[p], k) \in Int
    BY <2>1, CountType DEF Count
  <2>3. Count(x, k) = Count(s[p], k) + 0
    BY <2>2
  <2>4. SumOf(t, k) = SumOf(s, k) + 0
    BY <1>2, <2>3, Put
  <2>5. SumOf(s, k) \in Int
    BY <1>2, SumType
  <2> HIDE DEF t
  <2> QED
    BY <2>4, <2>5
<1> QED
  BY <1>1, <1>3

(* Only connections and truth have counted something.                      *)
LEMMA ConnectionsCount ==
    ASSUME BrokerInv, Lists', TruthType', NEW names,
           UNCHANGED <<activeSessions, disconnectedSessions, totals>>,
           \A k \in BrokerCounters :
               /\ SumOf(connections, k)' = SumOf(connections, k) + One(k, names)
               /\ truth'[k] = truth[k] + One(k, names)
    PROVE  TotalsType' /\ Balance'
<1>1. TotalsType'
  BY DEF BrokerInv, TotalsType
<1>2. ASSUME NEW k \in BrokerCounters
      PROVE  \E x, c, a, d \in Int :
               /\ totals'[k] = totals[k] + x
               /\ SumOf(connections, k)' = SumOf(connections, k) + c
               /\ SumOf(activeSessions, k)' = SumOf(activeSessions, k) + a
               /\ SumOf(disconnectedSessions, k)' = SumOf(disconnectedSessions, k) + d
               /\ truth'[k] = truth[k] + (x + c + a + d)
  <2>1. PICK y \in Int : y = One(k, names) /\ 0 + y + 0 + 0 = y
    BY DEF One
  <2>2. totals[k] \in Int
    BY DEF BrokerInv, TotalsType, TotalOK
  <2>3. SumOf(activeSessions, k) \in Int /\ SumOf(disconnectedSessions, k) \in Int
    BY SumsAreNumbers DEF BrokerInv
  <2> WITNESS 0 \in Int, y \in Int, 0 \in Int, 0 \in Int
  <2>4. totals'[k] = totals[k] + 0
    BY <2>2
  <2>5. /\ SumOf(activeSessions, k)' = SumOf(activeSessions, k) + 0
        /\ SumOf(disconnectedSessions, k)' = SumOf(disconnectedSessions, k) + 0
    BY <2>3
  <2>6. SumOf(connections, k)' = SumOf(connections, k) + y
        /\ truth'[k] = truth[k] + (0 + y + 0 + 0)
    BY <2>1
  <2> QED
    BY <2>4, <2>5, <2>6
<1> QED
  BY <1>1, <1>2, BalanceMoves DEF BrokerInv

LEMMA RefusedKeeps ==
    ASSUME BrokerInv, NEW i \in DOMAIN connections,
           NEW client \in Clients \cup {connections[i].client}, Refused(i, client)
    PROVE  /\ BrokerInv' /\ UNCHANGED <<leaf, updates, harvested>>
           /\ truth'["updates"] = truth["updates"]
           /\ \A k \in BrokerCounters : truth[k] <= truth'[k]
<1> DEFINE names == {"received", "sent"}
           t == Counts(i, names)
<1>1. /\ connections[i].state = "new"
      /\ connections' = [t EXCEPT ![i].client = client]
      /\ truth' = Grown(truth, names, 1)
      /\ UNCHANGED <<leaf, updates, harvested, activeSessions, disconnectedSessions, totals>>
  BY DEF Refused, Event
<1>2. names \in SUBSET ConnectionCounters /\ names \in SUBSET BrokerCounters
  BY DEF ConnectionCounters, BrokerCounters
<1>3. /\ t \in Seq(Connection) /\ Len(t) = Len(connections)
      /\ \A j \in 1 .. Len(connections) :
           t[j].client = connections[j].client /\ t[j].state = connections[j].state
      /\ \A k \in BrokerCounters : SumOf(t, k) = SumOf(connections, k) + One(k, names)
  <2> HIDE DEF names
  <2> QED
    BY <1>2, CountsIs DEF BrokerInv
<1>4. i \in 1 .. Len(t) /\ connections[i] \in Connection
  BY <1>3 DEF BrokerInv, Lists
<1> HIDE DEF t, names
<1> DEFINE x == [t[i] EXCEPT !.client = client]
<1>5. x \in Connection /\ x.counts = t[i].counts /\ x.state = "new"
  <2>1. t[i] \in Connection /\ t[i].state = "new"
    BY <1>1, <1>3, <1>4
  <2>2. connections[i].client \in Clients \cup {Empty}
    BY <1>4 DEF Connection
  <2>3. client \in Clients \cup {Empty}
    BY <2>2
  <2> QED
    BY <2>1, <2>3 DEF Connection
<1>6. connections' = [t EXCEPT ![i] = x]
  BY <1>1
<1> HIDE DEF x
<1>7. /\ connections' \in Seq(Connection) /\ Len(connections') = Len(connections)
      /\ \A j \in 1 .. Len(connections) : connections'[j] = IF j = i THEN x ELSE t[j]
      /\ \A k : SumOf(connections', k) = SumOf(t, k)
  <2>1. Connection \in SUBSET Holder
    BY DEF Holder
  <2> DEFINE u == [t EXCEPT ![i] = x]
  <2>2. /\ u \in Seq(Connection) /\ Len(u) = Len(t)
        /\ \A j \in 1 .. Len(t) : u[j] = IF j = i THEN x ELSE t[j]
        /\ \A k : SumOf(u, k) = SumOf(t, k)
    BY <1>3, <1>4, <1>5, <2>1, Relabelled
  <2> HIDE DEF u
  <2> QED
    BY <1>3, <1>6, <2>2 DEF u
<1>8. /\ truth' \in [BrokerCounters \cup {"updates"} -> Int]
      /\ truth'["updates"] = truth["updates"]
      /\ \A k \in BrokerCounters : truth'[k] = truth[k] + One(k, names)
  BY <1>1, <1>2, TruthGrows DEF BrokerInv, TruthType
<1>9. Lists' /\ TruthType'
  BY <1>1, <1>7, <1>8 DEF BrokerInv, Lists, TruthType
<1>10. TotalsType' /\ Balance'
  <2>1. \A k \in BrokerCounters :
           /\ SumOf(connections, k)' = SumOf(connections, k) + One(k, names)
           /\ truth'[k] = truth[k] + One(k, names)
    BY <1>3, <1>7, <1>8
  <2> QED
    BY <1>1, <1>9, <2>1, ConnectionsCount
<1>11. ASSUME NEW j \in 1 .. Len(connections), IsPaired(j)'
       PROVE  /\ IsPaired(j) /\ connections'[j].client = connections[j].client
              /\ HasSession(activeSessions', connections[j].client)
  <2>1. connections'[j].state = "paired"
    BY <1>11 DEF IsPaired
  <2>2. j # i
    BY <1>5, <1>7, <2>1
  <2>3. connections'[j] = t[j]
    BY <1>7, <2>2
  <2>4. IsPaired(j) /\ connections'[j].client = connections[j].client
    BY <1>3, <2>1, <2>3 DEF IsPaired
  <2>5. j \in DOMAIN connections
    BY DEF BrokerInv, Lists
  <2> QED
    BY <1>1, <2>4, <2>5 DEF BrokerInv, PairedHaveSessions
<1>12. PairedHaveSessions' /\ PairedOnce'
  BY <1>7, <1>9, <1>11, PairsKept
<1>13. \A k \in BrokerCounters : truth[k] <= truth'[k]
  BY <1>8, OneIs DEF BrokerInv, TruthType
<1> QED
  BY <1>1, <1>8, <1>9, <1>10, <1>12, <1>13 DEF BrokerInv

(* A session whose counters grow by one, whatever else changes of it.      *)
LEMMA GrownBy ==
    ASSUME NEW c \in Session, NEW names \in SUBSET SessionCounters, NEW x \in Session,
           x.counts = Grown(c.counts, names, 1)
    PROVE  \A k : Count(x, k) = Count(c, k) + One(k, names)
<1>1. DOMAIN x.counts = SessionCounters /\ DOMAIN c.counts = SessionCounters
      /\ \A k \in SessionCounters : x.counts[k] = c.counts[k] + (IF k \in names THEN 1 ELSE 0)
  BY DEF Session, Grown
<1> QED
  BY <1>1 DEF Count, One

LEMMA SessionCounts ==
    ASSUME NEW s \in Seq(Session), NEW p \in 1 .. Len(s), NEW names \in SUBSET SessionCounters,
           NEW x \in Session, x.client = s[p].client, x.counts = Grown(s[p].counts, names, 1)
    PROVE  LET t == [s EXCEPT ![p] = x] IN
           /\ t \in Seq(Session) /\ SameClients(s, t)
           /\ \A k : SumOf(t, k) = SumOf(s, k) + One(k, names)
<1> DEFINE t == [s EXCEPT ![p] = x]
<1>1. /\ t \in Seq(Session) /\ Len(t) = Len(s)
      /\ \A i \in 1 .. Len(s) : t[i] = IF i = p THEN x ELSE s[i]
  BY ExceptSeq
<1>2. s[p] \in Session /\ s \in Seq(Holder) /\ x \in Holder
  BY SessionsHold DEF Holder
<1>3. ASSUME NEW k PROVE SumOf(t, k) = SumOf(s, k) + One(k, names)
  <2>1. PICK d \in Int : d = One(k, names)
    BY DEF One
  <2>2. Count(x, k) = Count(s[p], k) + d
    BY <1>2, <2>1, GrownBy
  <2>3. SumOf(t, k) = SumOf(s, k) + d
    BY <1>2, <2>2, Put
  <2> HIDE DEF t
  <2> QED
    BY <2>1, <2>3
<1> HIDE DEF t
<1>4. SameClients(s, t)
  BY <1>1 DEF SameClients
<1> QED
  BY <1>1, <1>3, <1>4 DEF t

(* Active sessions like active, of which one has counted names, where what *)
(* active sent is in t.                                                    *)
LEMMA SessionMessageKeeps ==
    ASSUME BrokerInv, NEW i \in DOMAIN connections, NEW names \in SUBSET SessionCounters,
           NEW active \in Seq(Session), SameClients(activeSessions, active),
           NEW t \in [BrokerCounters \cup {"updates"} -> Int], t["updates"] = truth["updates"],
           \A k \in BrokerCounters :
               truth[k] <= t[k] /\ SumOf(active, k) + truth[k] = SumOf(activeSessions, k) + t[k],
           SessionMessage(i, names, active, t)
    PROVE  /\ BrokerInv' /\ UNCHANGED <<leaf, updates, harvested>>
           /\ truth'["updates"] = truth["updates"]
           /\ \A k \in BrokerCounters : truth[k] <= truth'[k]
<1> DEFINE c == Counts(i, {"received"})
           o == Own(i)
<1>1. /\ IsPaired(i) /\ connections' = c
      /\ activeSessions' = [active EXCEPT ![o].counts = Grown(@, names, 1)]
      /\ truth' = Grown(t, {"received"} \cup names, 1)
      /\ UNCHANGED <<leaf, updates, harvested, disconnectedSessions, totals>>
  BY DEF SessionMessage, Event, IsPaired
<1>2. o \in 1 .. Len(active)
  <2>1. HasSession(activeSessions, connections[i].client)
    BY <1>1 DEF BrokerInv, PairedHaveSessions
  <2>2. o \in 1 .. Len(activeSessions)
    BY <2>1, SessionOfIs DEF Own, BrokerInv, Lists
  <2> HIDE DEF o
  <2> QED
    BY <2>2 DEF SameClients
<1>3. /\ c \in Seq(Connection) /\ Len(c) = Len(connections)
      /\ \A j \in 1 .. Len(connections) :
           c[j].client = connections[j].client /\ c[j].state = connections[j].state
      /\ \A k \in BrokerCounters : SumOf(c, k) = SumOf(connections, k) + One(k, {"received"})
  <2>1. {"received"} \in SUBSET ConnectionCounters
    BY DEF ConnectionCounters
  <2> QED
    BY <2>1, CountsIs DEF BrokerInv
<1> HIDE DEF c, o
<1> DEFINE x == [active[o] EXCEPT !.counts = Grown(@, names, 1)]
           a == [active EXCEPT ![o] = x]
<1>4. x \in Session /\ x.client = active[o].client /\ x.counts = Grown(active[o].counts, names, 1)
  <2>1. PICK h \in Session : h = active[o]
    BY <1>2
  <2>2. x = WithMore(h, names, 1)
    BY <2>1 DEF WithMore
  <2>3. PICK n \in Int : n = 1
    OBVIOUS
  <2> DEFINE d == WithMore(h, names, n)
  <2>4. names \in SUBSET SessionCounters
    OBVIOUS
  <2>5. /\ d \in Session /\ d.client = h.client
        /\ \A k : Count(d, k) = Count(h, k) + (IF k \in names THEN n ELSE 0)
    BY <2>4, GrownSession
  <2>6. WithMore(h, names, 1) \in Session /\ WithMore(h, names, 1).client = h.client
    BY <2>3, <2>5
  <2>7. WithMore(h, names, 1).counts = Grown(h.counts, names, 1)
    BY DEF WithMore, Session
  <2> HIDE DEF x
  <2> QED
    BY <2>1, <2>2, <2>6, <2>7
<1>5. activeSessions' = a
  BY <1>1
<1>6. a \in Seq(Session) /\ SameClients(active, a)
      /\ \A k : SumOf(a, k) = SumOf(active, k) + One(k, names)
  <2> HIDE DEF x
  <2> QED
    BY <1>2, <1>4, SessionCounts
<1> HIDE DEF a, x
<1>7. names \in SUBSET BrokerCounters /\ "received" \notin names
  BY DEF SessionCounters, BrokerCounters
<1>8. /\ truth' \in [BrokerCounters \cup {"updates"} -> Int]
      /\ truth'["updates"] = truth["updates"]
      /\ \A k \in BrokerCounters : truth'[k] = t[k] + (One(k, {"received"}) + One(k, names))
  <2>1. {"received"} \cup names \in SUBSET BrokerCounters
    BY <1>7 DEF BrokerCounters
  <2>2. \A k : One(k, {"received"} \cup names) = One(k, {"received"}) + One(k, names)
    BY <1>7 DEF One
  <2> QED
    BY <1>1, <2>1, <2>2, TruthGrows
<1>9. Lists' /\ TruthType' /\ TotalsType'
  BY <1>1, <1>3, <1>5, <1>6, <1>8 DEF BrokerInv, Lists, TruthType, TotalsType
<1>10. Balance'
  <2> SUFFICES ASSUME NEW k \in BrokerCounters
               PROVE  \E y, b, e, d \in Int :
                   /\ totals'[k] = totals[k] + y
                   /\ SumOf(connections, k)' = SumOf(connections, k) + b
                   /\ SumOf(activeSessions, k)' = SumOf(activeSessions, k) + e
                   /\ SumOf(disconnectedSessions, k)' = SumOf(disconnectedSessions, k) + d
                   /\ truth'[k] = truth[k] + (y + b + e + d)
    BY <1>9, BalanceMoves DEF BrokerInv
  <2>1. PICK S \in Int, S2 \in Int, D \in Int, T \in Int :
           /\ S = SumOf(activeSessions, k) /\ S2 = SumOf(active, k)
           /\ D = SumOf(disconnectedSessions, k) /\ T = totals[k]
    BY SessionsHold, SumType, SumsAreNumbers DEF BrokerInv, TotalsType, TotalOK
  <2>2. PICK W \in Int, V \in Int : W = truth[k] /\ V = t[k]
    BY DEF BrokerInv, TruthType
  <2>3. S2 + W = S + V
    BY <2>1, <2>2
  <2>4. PICK r \in Int, n \in Int : r = One(k, {"received"}) /\ n = One(k, names)
    BY DEF One
  <2>5. PICK m \in Int : m = V - W /\ S2 = S + m /\ V = W + m
    BY <2>3
  <2>6. PICK e \in Int : e = m + n
    OBVIOUS
  <2> WITNESS 0 \in Int, r \in Int, e \in Int, 0 \in Int
  <2>7. totals'[k] = totals[k] + 0
        /\ SumOf(disconnectedSessions, k)' = SumOf(disconnectedSessions, k) + 0
    BY <1>1, <2>1
  <2>8. SumOf(connections, k)' = SumOf(connections, k) + r
    BY <1>1, <1>3, <2>4
  <2>9. SumOf(activeSessions, k)' = SumOf(activeSessions, k) + e
    <3>1. SumOf(a, k) = S2 + n
      BY <1>6, <2>1, <2>4
    <3>2. S2 + n = S + e
      BY <2>5, <2>6
    <3> QED
      BY <1>5, <2>1, <3>1, <3>2
  <2>10. truth'[k] = truth[k] + (0 + r + e + 0)
    <3>1. truth'[k] = V + (r + n)
      BY <1>8, <2>2, <2>4
    <3>2. V + (r + n) = W + (0 + r + e + 0)
      BY <2>5, <2>6
    <3> QED
      BY <2>2, <3>1, <3>2
  <2> QED
    BY <2>7, <2>8, <2>9, <2>10
<1>11. ASSUME NEW j \in 1 .. Len(connections), IsPaired(j)'
       PROVE  /\ IsPaired(j) /\ connections'[j].client = connections[j].client
              /\ HasSession(activeSessions', connections[j].client)
  <2>1. IsPaired(j) /\ connections'[j].client = connections[j].client
    BY <1>1, <1>3, <1>11 DEF IsPaired
  <2>2. j \in DOMAIN connections
    BY DEF BrokerInv, Lists
  <2>3. HasSession(activeSessions, connections[j].client)
    BY <2>1, <2>2 DEF BrokerInv, PairedHaveSessions
  <2>4. activeSessions \in Seq(Session)
    BY DEF BrokerInv, Lists
  <2>5. HasSession(active, connections[j].client)
    BY <2>3, <2>4, SessionsKept
  <2> QED
    BY <1>5, <1>6, <2>1, <2>5, SessionsKept
<1>12. PairedHaveSessions' /\ PairedOnce'
  BY <1>1, <1>3, <1>9, <1>11, PairsKept
<1>13. \A k \in BrokerCounters : truth[k] <= truth'[k]
  BY <1>8, OneIs DEF BrokerInv, TruthType
<1> QED
  BY <1>1, <1>8, <1>9, <1>10, <1>12, <1>13 DEF BrokerInv

(* Counting never undoes what was counted, and leaves the values alone.    *)
ClientStep ==
    /\ UNCHANGED <<leaf, updates, harvested>>
    /\ truth'["updates"] = truth["updates"]
    /\ \A k \in BrokerCounters : truth[k] <= truth'[k]

LEMMA PlainMessageKeeps ==
    ASSUME BrokerInv, NEW i \in DOMAIN connections, Ping(i) \/ PublishReceived(i)
    PROVE  BrokerInv' /\ ClientStep
<1>1. activeSessions \in Seq(Session) /\ SameClients(activeSessions, activeSessions)
  BY DEF BrokerInv, Lists, SameClients
<1>2. truth \in [BrokerCounters \cup {"updates"} -> Int]
  BY DEF BrokerInv, TruthType
<1>3. \A k \in BrokerCounters :
         truth[k] <= truth[k]
         /\ SumOf(activeSessions, k) + truth[k] = SumOf(activeSessions, k) + truth[k]
  BY <1>2
<1>4. PICK names \in SUBSET SessionCounters : SessionMessage(i, names, activeSessions, truth)
  <2>1. {"sent"} \in SUBSET SessionCounters /\ {"publishReceived"} \in SUBSET SessionCounters
    BY DEF SessionCounters
  <2> QED
    BY <2>1 DEF Ping, PublishReceived
<1> QED
  BY <1>1, <1>2, <1>3, <1>4, SessionMessageKeeps DEF ClientStep

LEMMA SubscribeKeeps ==
    ASSUME BrokerInv, NEW i \in DOMAIN connections, Subscribe(i),
           NEW n \in Nat, n = RetainedValues
    PROVE  BrokerInv' /\ ClientStep
<1> DEFINE o == Own(i)
<1>1. PICK full :
         SessionMessage(i, {"sent"}, [Told({o}, n, full) EXCEPT ![o].listens = TRUE],
                        TruthAfter({o}, n, full))
  BY DEF Subscribe
<1>2. o \in 1 .. Len(activeSessions) /\ o \in DOMAIN activeSessions
  <2>1. HasSession(activeSessions, connections[i].client)
    BY <1>1 DEF BrokerInv, PairedHaveSessions, SessionMessage, IsPaired
  <2>2. activeSessions \in Seq(Session)
    BY DEF BrokerInv, Lists
  <2> QED
    BY <2>1, <2>2, SessionOfIs DEF Own
<1> HIDE DEF o
<1> DEFINE t == Told({o}, n, full)
           after == TruthAfter({o}, n, full)
<1>3. /\ t \in Seq(Session) /\ SameClients(activeSessions, t)
      /\ after \in [BrokerCounters \cup {"updates"} -> Int]
      /\ after["updates"] = truth["updates"]
      /\ \A k \in BrokerCounters :
           truth[k] <= after[k] /\ SumOf(t, k) + truth[k] = SumOf(activeSessions, k) + after[k]
  <2>1. {o} \in SUBSET DOMAIN activeSessions
    BY <1>2
  <2> QED
    BY <2>1, ToldAll DEF BrokerInv
<1>4. o \in 1 .. Len(t)
  BY <1>2, <1>3 DEF SameClients
<1> HIDE DEF t, after
<1> DEFINE x == [t[o] EXCEPT !.listens = TRUE]
           a == [t EXCEPT ![o] = x]
<1>5. x \in Session /\ x.counts = t[o].counts /\ x.client = t[o].client
  <2>1. t[o] \in Session
    BY <1>3, <1>4
  <2> QED
    BY <2>1 DEF Session
<1>6. a \in Seq(Session) /\ Len(a) = Len(t)
      /\ (\A j \in 1 .. Len(t) : a[j] = IF j = o THEN x ELSE t[j])
      /\ \A k : SumOf(a, k) = SumOf(t, k)
  <2>1. Session \in SUBSET Holder
    BY DEF Holder
  <2> HIDE DEF x
  <2> QED
    BY <1>3, <1>4, <1>5, <2>1, Relabelled
<1>7. SessionMessage(i, {"sent"}, a, after)
  BY <1>1 DEF t, after
<1> HIDE DEF a, x
<1>8. SameClients(activeSessions, a)
  BY <1>3, <1>5, <1>6 DEF SameClients
<1>9. {"sent"} \in SUBSET SessionCounters
  BY DEF SessionCounters
<1>10. \A k \in BrokerCounters :
          truth[k] <= after[k] /\ SumOf(a, k) + truth[k] = SumOf(activeSessions, k) + after[k]
  BY <1>3, <1>6
<1> QED
  BY <1>3, <1>6, <1>7, <1>8, <1>9, <1>10, SessionMessageKeeps DEF ClientStep

(* A session that leaves the active ones takes its counters along, to the  *)
(* ones that wait or to the totals.                                        *)
LEMMA SessionLeftMoves ==
    ASSUME BrokerInv, NEW i \in DOMAIN connections, NEW keep \in BOOLEAN,
           NEW total, TotalOK(total), SessionLeft(i, keep, total)
    PROVE  /\ IsPaired(i)
           /\ activeSessions' \in Seq(Session) /\ disconnectedSessions' \in Seq(Session)
           /\ TotalsType'
           /\ \A k \in BrokerCounters : \E x, a, d \in Int :
                /\ totals'[k] = total[k] + x
                /\ SumOf(activeSessions', k) = SumOf(activeSessions, k) + a
                /\ SumOf(disconnectedSessions', k) = SumOf(disconnectedSessions, k) + d
                /\ x + a + d = 0
           /\ \A client : client # connections[i].client /\ HasSession(activeSessions, client)
                => HasSession(activeSessions', client)
<1>1. PICK s \in Seq(Session), w \in Seq(Session) :
         s = activeSessions /\ w = disconnectedSessions
  BY DEF BrokerInv, Lists
<1>2. PICK c : c = connections[i].client
  OBVIOUS
<1>3. IsPaired(i) /\ HasSession(s, c)
  BY <1>1, <1>2 DEF SessionLeft, IsPaired, BrokerInv, PairedHaveSessions
<1>4. PICK p \in 1 .. Len(s) : p = SessionOf(s, c) /\ p = Own(i)
  BY <1>1, <1>2, <1>3, SessionOfIs DEF Own
<1>5. activeSessions' = Without(s, c)
  BY <1>1, <1>2 DEF SessionLeft
<1>6. /\ Without(s, c) \in Seq(Session)
      /\ \A k : SumOf(Without(s, c), k) = SumOf(s, k) - OfClient(s, c, k)
      /\ \A other : other # c /\ HasSession(s, other) => HasSession(Without(s, c), other)
  BY WithoutIs
<1>7. \A k : OfClient(s, c, k) = Count(s[p], k)
  BY <1>3, <1>4 DEF OfClient
<1>8. s[p] \in Session /\ s[p] \in Holder /\ w \in Seq(Holder) /\ s \in Seq(Holder)
  BY SessionsHold DEF Holder
<1>9. \A k : Count(s[p], k) \in Int /\ SumOf(s, k) \in Int /\ SumOf(w, k) \in Int
  BY <1>8, CountType, SumType
<1>10. CASE keep
  <2>1. disconnectedSessions' = Append(w, s[p]) /\ totals' = total
    BY <1>1, <1>4, <1>10 DEF SessionLeft
  <2>2. disconnectedSessions' \in Seq(Session)
    BY <1>8, <2>1, AppendProperties
  <2>3. ASSUME NEW k \in BrokerCounters
        PROVE  \E x, a, d \in Int :
                 /\ totals'[k] = total[k] + x
                 /\ SumOf(activeSessions', k) = SumOf(activeSessions, k) + a
                 /\ SumOf(disconnectedSessions', k) = SumOf(disconnectedSessions, k) + d
                 /\ x + a + d = 0
    <3>1. PICK n \in Int, S \in Int, D \in Int, T \in Int :
            n = Count(s[p], k) /\ S = SumOf(s, k) /\ D = SumOf(w, k) /\ T = total[k]
      BY <1>9 DEF TotalOK
    <3>2. PICK m \in Int : m = 0 - n /\ 0 + m + n = 0 /\ S - n = S + m
      OBVIOUS
    <3>3. SumOf(Append(w, s[p]), k) = SumOf(w, k) + Count(s[p], k)
      BY <1>8, SumOfAppend
    <3> WITNESS 0 \in Int, m \in Int, n \in Int
    <3>4. totals'[k] = total[k] + 0
      BY <2>1, <3>1
    <3>5. SumOf(disconnectedSessions', k) = SumOf(disconnectedSessions, k) + n
      BY <1>1, <2>1, <3>1, <3>3
    <3>6. SumOf(activeSessions', k) = SumOf(activeSessions, k) + m
      BY <1>1, <1>5, <1>6, <1>7, <3>1, <3>2
    <3> QED
      BY <3>2, <3>4, <3>5, <3>6
  <2>4. TotalsType'
    BY <2>1 DEF TotalsType
  <2> QED
    BY <1>1, <1>2, <1>3, <1>5, <1>6, <2>2, <2>3, <2>4
<1>11. CASE ~keep
  <2>1. disconnectedSessions' = w /\ totals' = Ended(total, s, c)
    BY <1>1, <1>2, <1>11 DEF SessionLeft
  <2>2. /\ TotalOK(Ended(total, s, c))
        /\ \A k \in BrokerCounters : Ended(total, s, c)[k] = total[k] + OfClient(s, c, k)
    BY EndedIs
  <2>3. ASSUME NEW k \in BrokerCounters
        PROVE  \E x, a, d \in Int :
                 /\ totals'[k] = total[k] + x
                 /\ SumOf(activeSessions', k) = SumOf(activeSessions, k) + a
                 /\ SumOf(disconnectedSessions', k) = SumOf(disconnectedSessions, k) + d
                 /\ x + a + d = 0
    <3>1. PICK n \in Int, S \in Int, D \in Int :
            n = Count(s[p], k) /\ S = SumOf(s, k) /\ D = SumOf(w, k)
      BY <1>9
    <3>2. PICK m \in Int : m = 0 - n /\ n + m + 0 = 0 /\ S - n = S + m
      OBVIOUS
    <3> WITNESS n \in Int, m \in Int, 0 \in Int
    <3>3. totals'[k] = total[k] + n
      BY <1>7, <2>1, <2>2, <3>1
    <3>4. SumOf(disconnectedSessions', k) = SumOf(disconnectedSessions, k) + 0
      BY <1>1, <2>1, <3>1
    <3>5. SumOf(activeSessions', k) = SumOf(activeSessions, k) + m
      BY <1>1, <1>5, <1>6, <1>7, <3>1, <3>2
    <3> QED
      BY <3>2, <3>3, <3>4, <3>5
  <2>4. TotalsType' /\ disconnectedSessions' \in Seq(Session)
    BY <2>1, <2>2 DEF TotalsType
  <2> QED
    BY <1>1, <1>2, <1>3, <1>5, <1>6, <2>3, <2>4
<1> QED
  BY <1>10, <1>11

LEMMA DisconnectKeeps ==
    ASSUME BrokerInv, NEW i \in DOMAIN connections, Disconnect(i)
    PROVE  BrokerInv' /\ ClientStep
<1> DEFINE names == {"received"}
           t == Counts(i, names)
<1>1. PICK keep \in BOOLEAN : SessionLeft(i, keep, totals)
  BY DEF Disconnect
<1>2. /\ connections' = [t EXCEPT ![i].state = "closing"]
      /\ truth' = Grown(truth, names, 1)
      /\ UNCHANGED <<leaf, updates, harvested>>
  BY DEF Disconnect, Event
<1>3. names \in SUBSET ConnectionCounters /\ names \in SUBSET BrokerCounters
  BY DEF ConnectionCounters, BrokerCounters
<1>4. /\ t \in Seq(Connection) /\ Len(t) = Len(connections)
      /\ \A j \in 1 .. Len(connections) :
           t[j].client = connections[j].client /\ t[j].state = connections[j].state
      /\ \A k \in BrokerCounters : SumOf(t, k) = SumOf(connections, k) + One(k, names)
  <2> HIDE DEF names
  <2> QED
    BY <1>3, CountsIs DEF BrokerInv
<1>5. i \in 1 .. Len(t)
  BY <1>4 DEF BrokerInv, Lists
<1> HIDE DEF t, names
<1> DEFINE x == [t[i] EXCEPT !.state = "closing"]
           u == [t EXCEPT ![i] = x]
<1>6. x \in Connection /\ x.counts = t[i].counts /\ x.state = "closing"
  <2>1. t[i] \in Connection
    BY <1>4, <1>5
  <2> QED
    BY <2>1 DEF Connection
<1>7. connections' = u
  BY <1>2
<1>8. /\ u \in Seq(Connection) /\ Len(u) = Len(t)
      /\ \A j \in 1 .. Len(t) : u[j] = IF j = i THEN x ELSE t[j]
      /\ \A k : SumOf(u, k) = SumOf(t, k)
  <2>1. Connection \in SUBSET Holder
    BY DEF Holder
  <2> HIDE DEF x
  <2> QED
    BY <1>4, <1>5, <1>6, <2>1, Relabelled
<1> HIDE DEF x, u
<1>9. /\ truth' \in [BrokerCounters \cup {"updates"} -> Int]
      /\ truth'["updates"] = truth["updates"]
      /\ \A k \in BrokerCounters : truth'[k] = truth[k] + One(k, names)
  BY <1>2, <1>3, TruthGrows DEF BrokerInv, TruthType
<1>10. /\ IsPaired(i)
       /\ activeSessions' \in Seq(Session) /\ disconnectedSessions' \in Seq(Session)
       /\ TotalsType'
       /\ \A k \in BrokerCounters : \E e, a, d \in Int :
            /\ totals'[k] = totals[k] + e
            /\ SumOf(activeSessions', k) = SumOf(activeSessions, k) + a
            /\ SumOf(disconnectedSessions', k) = SumOf(disconnectedSessions, k) + d
            /\ e + a + d = 0
       /\ \A client : client # connections[i].client /\ HasSession(activeSessions, client)
            => HasSession(activeSessions', client)
  <2>1. PICK total : total = totals /\ TotalOK(total)
    BY DEF BrokerInv, TotalsType
  <2>2. SessionLeft(i, keep, total)
    BY <1>1, <2>1
  <2> QED
    BY <2>1, <2>2, SessionLeftMoves
<1>11. Lists' /\ TruthType'
  BY <1>7, <1>8, <1>9, <1>10 DEF Lists, TruthType
<1>12. Balance'
  <2> SUFFICES ASSUME NEW k \in BrokerCounters
               PROVE  \E y, b, e, d \in Int :
                   /\ totals'[k] = totals[k] + y
                   /\ SumOf(connections, k)' = SumOf(connections, k) + b
                   /\ SumOf(activeSessions, k)' = SumOf(activeSessions, k) + e
                   /\ SumOf(disconnectedSessions, k)' = SumOf(disconnectedSessions, k) + d
                   /\ truth'[k] = truth[k] + (y + b + e + d)
    BY <1>10, BalanceMoves DEF BrokerInv
  <2>1. PICK y \in Int, e \in Int, d \in Int :
           /\ totals'[k] = totals[k] + y
           /\ SumOf(activeSessions', k) = SumOf(activeSessions, k) + e
           /\ SumOf(disconnectedSessions', k) = SumOf(disconnectedSessions, k) + d
           /\ y + e + d = 0
    BY <1>10
  <2>2. PICK b \in Int : b = One(k, names) /\ y + b + e + d = b
    BY <2>1 DEF One
  <2> WITNESS y \in Int, b \in Int, e \in Int, d \in Int
  <2>3. SumOf(connections, k)' = SumOf(connections, k) + b
    BY <1>4, <1>7, <1>8, <2>2
  <2>4. truth'[k] = truth[k] + (y + b + e + d)
    BY <1>9, <2>2
  <2> QED
    BY <2>1, <2>3, <2>4
<1>13. ASSUME NEW j \in 1 .. Len(connections), IsPaired(j)'
       PROVE  /\ IsPaired(j) /\ connections'[j].client = connections[j].client
              /\ HasSession(activeSessions', connections[j].client)
  <2>1. connections'[j].state = "paired"
    BY <1>13 DEF IsPaired
  <2>2. j # i
    BY <1>4, <1>6, <1>7, <1>8, <2>1
  <2>3. connections'[j] = t[j]
    BY <1>4, <1>7, <1>8, <2>2
  <2>4. IsPaired(j) /\ connections'[j].client = connections[j].client
    BY <1>4, <2>1, <2>3 DEF IsPaired
  <2>5. j \in DOMAIN connections
    BY DEF BrokerInv, Lists
  <2>6. HasSession(activeSessions, connections[j].client)
    BY <2>4, <2>5 DEF BrokerInv, PairedHaveSessions
  <2>7. connections[j].client # connections[i].client
    BY <1>10, <2>2, <2>4, <2>5 DEF BrokerInv, PairedOnce
  <2> QED
    BY <1>10, <2>4, <2>6, <2>7
<1>14. PairedHaveSessions' /\ PairedOnce'
  BY <1>4, <1>7, <1>8, <1>11, <1>13, PairsKept
<1>15. \A k \in BrokerCounters : truth[k] <= truth'[k]
  BY <1>9, OneIs DEF BrokerInv, TruthType
<1> QED
  BY <1>2, <1>9, <1>10, <1>11, <1>12, <1>14, <1>15 DEF BrokerInv, ClientStep

(* What a freed connection counted moves into the totals.                  *)
LEMMA FreedIs ==
    ASSUME BrokerInv, NEW i \in DOMAIN connections
    PROVE  /\ TotalOK(Freed(i, totals))
           /\ \A k \in BrokerCounters : Freed(i, totals)[k] = totals[k] + Count(connections[i], k)
           /\ \A k : Count(connections[i], k) \in Int
<1>1. connections[i] \in Holder
  BY DEF BrokerInv, Lists, Holder
<1>2. \A k : Count(connections[i], k) \in Int
  BY <1>1, CountType
<1>3. /\ DOMAIN Freed(i, totals) = DOMAIN totals
      /\ \A k \in DOMAIN totals : Freed(i, totals)[k] = totals[k] + Count(connections[i], k)
  BY DEF Freed, Added
<1>4. TotalOK(totals)
  BY DEF BrokerInv, TotalsType
<1> QED
  BY <1>2, <1>3, <1>4 DEF TotalOK

LEMMA LostKeeps ==
    ASSUME BrokerInv, NEW i \in DOMAIN connections, Lost(i)
    PROVE  BrokerInv' /\ ClientStep
<1>1. /\ connections' = RemoveAt(connections, i)
      /\ UNCHANGED <<leaf, updates, harvested, truth>>
  BY DEF Lost, Event
<1>2. PICK c \in Seq(Connection), l \in Nat :
         c = connections /\ l = Len(c) /\ DOMAIN c = 1 .. l /\ i \in 1 .. l
  BY DEF BrokerInv, Lists
<1>3. /\ RemoveAt(c, i) \in Seq(Connection) /\ Len(RemoveAt(c, i)) = l - 1
      /\ \A j \in 1 .. l - 1 : RemoveAt(c, i)[j] = IF j < i THEN c[j] ELSE c[j + 1]
  BY <1>2, Removed
<1>4. \A k : SumOf(RemoveAt(c, i), k) = SumOf(c, k) - Count(c[i], k)
  <2>1. c \in Seq(Holder)
    BY SessionsHold
  <2> QED
    BY <1>2, <2>1, SumOfRemove
<1>5. /\ activeSessions' \in Seq(Session) /\ disconnectedSessions' \in Seq(Session)
      /\ TotalsType'
      /\ \A k \in BrokerCounters : \E x, a, d \in Int :
           /\ totals'[k] = totals[k] + Count(c[i], k) + x
           /\ SumOf(activeSessions', k) = SumOf(activeSessions, k) + a
           /\ SumOf(disconnectedSessions', k) = SumOf(disconnectedSessions, k) + d
           /\ x + a + d = 0
      /\ \A client : HasSession(activeSessions, client)
                     /\ (IsPaired(i) => client # connections[i].client)
           => HasSession(activeSessions', client)
  <2>1. PICK total : total = Freed(i, totals) /\ TotalOK(total)
                     /\ \A k \in BrokerCounters : total[k] = totals[k] + Count(c[i], k)
    BY <1>2, FreedIs
  <2>2. CASE \E keep \in BOOLEAN : SessionLeft(i, keep, total)
    <3>1. PICK keep \in BOOLEAN : SessionLeft(i, keep, total)
      BY <2>2
    <3>2. /\ IsPaired(i)
          /\ activeSessions' \in Seq(Session) /\ disconnectedSessions' \in Seq(Session)
          /\ TotalsType'
          /\ \A k \in BrokerCounters : \E x, a, d \in Int :
               /\ totals'[k] = total[k] + x
               /\ SumOf(activeSessions', k) = SumOf(activeSessions, k) + a
               /\ SumOf(disconnectedSessions', k) = SumOf(disconnectedSessions, k) + d
               /\ x + a + d = 0
          /\ \A client : client # connections[i].client /\ HasSession(activeSessions, client)
               => HasSession(activeSessions', client)
      BY <2>1, <3>1, SessionLeftMoves
    <3> QED
      BY <2>1, <3>2
  <2>3. CASE /\ connections[i].state # "paired"
             /\ totals' = total
             /\ UNCHANGED <<activeSessions, disconnectedSessions>>
    <3>1. ASSUME NEW k \in BrokerCounters
          PROVE  \E x, a, d \in Int :
                   /\ totals'[k] = totals[k] + Count(c[i], k) + x
                   /\ SumOf(activeSessions', k) = SumOf(activeSessions, k) + a
                   /\ SumOf(disconnectedSessions', k) = SumOf(disconnectedSessions, k) + d
                   /\ x + a + d = 0
      <4>1. SumOf(activeSessions, k) \in Int /\ SumOf(disconnectedSessions, k) \in Int
        BY SumsAreNumbers DEF BrokerInv
      <4>2. totals[k] + Count(c[i], k) \in Int /\ totals'[k] = totals[k] + Count(c[i], k)
        BY <2>1, <2>3 DEF TotalOK
      <4> WITNESS 0 \in Int, 0 \in Int, 0 \in Int
      <4>3. totals'[k] = totals[k] + Count(c[i], k) + 0
        BY <4>2
      <4>4. /\ SumOf(activeSessions', k) = SumOf(activeSessions, k) + 0
            /\ SumOf(disconnectedSessions', k) = SumOf(disconnectedSessions, k) + 0
        BY <2>3, <4>1
      <4> QED
        BY <4>3, <4>4
    <3>2. TotalsType'
      BY <2>1, <2>3 DEF TotalsType
    <3> QED
      BY <2>3, <3>1, <3>2 DEF BrokerInv, Lists
  <2> QED
    BY <2>1, <2>2, <2>3 DEF Lost
<1>6. Lists' /\ TruthType'
  BY <1>1, <1>2, <1>3, <1>5 DEF BrokerInv, Lists, TruthType
<1>7. Balance'
  <2> SUFFICES ASSUME NEW k \in BrokerCounters
               PROVE  \E y, b, e, d \in Int :
                   /\ totals'[k] = totals[k] + y
                   /\ SumOf(connections, k)' = SumOf(connections, k) + b
                   /\ SumOf(activeSessions, k)' = SumOf(activeSessions, k) + e
                   /\ SumOf(disconnectedSessions, k)' = SumOf(disconnectedSessions, k) + d
                   /\ truth'[k] = truth[k] + (y + b + e + d)
    BY <1>5, BalanceMoves DEF BrokerInv
  <2>1. PICK x \in Int, e \in Int, d \in Int :
           /\ totals'[k] = totals[k] + Count(c[i], k) + x
           /\ SumOf(activeSessions', k) = SumOf(activeSessions, k) + e
           /\ SumOf(disconnectedSessions', k) = SumOf(disconnectedSessions, k) + d
           /\ x + e + d = 0
    BY <1>5
  <2>2. PICK n \in Int, C \in Int, T \in Int, W \in Int :
           n = Count(c[i], k) /\ C = SumOf(c, k) /\ T = totals[k] /\ W = truth[k]
    BY <1>2, FreedIs, SumsAreNumbers DEF BrokerInv, TotalsType, TotalOK, TruthType
  <2>3. PICK y \in Int, b \in Int : y = n + x /\ b = 0 - n
    OBVIOUS
  <2>4. x + e + d = 0
    BY <2>1
  <2>5. y + b + e + d = 0
    BY <2>3, <2>4
  <2>6. T + n + x = T + y /\ C - n = C + b /\ W = W + (y + b + e + d)
    BY <2>3, <2>5
  <2> WITNESS y \in Int, b \in Int, e \in Int, d \in Int
  <2>7. SumOf(connections, k)' = SumOf(connections, k) + b
    BY <1>1, <1>2, <1>4, <2>2, <2>6
  <2>8. totals'[k] = totals[k] + y
    BY <2>1, <2>2, <2>6
  <2>9. truth'[k] = truth[k] + (y + b + e + d)
    BY <1>1, <2>2, <2>6
  <2> QED
    BY <2>1, <2>7, <2>8, <2>9
<1> DEFINE Was(j) == IF j < i THEN j ELSE j + 1
<1>8. ASSUME NEW j \in 1 .. l - 1
      PROVE  /\ connections'[j] = c[Was(j)] /\ Was(j) \in 1 .. l /\ Was(j) # i
             /\ (IsPaired(j)' => IsPaired(Was(j)) /\ HasSession(activeSessions', connections'[j].client))
  <2>1. connections'[j] = c[Was(j)] /\ Was(j) \in 1 .. l /\ Was(j) # i
    BY <1>1, <1>2, <1>3
  <2> HIDE DEF Was
  <2>2. ASSUME IsPaired(j)'
        PROVE  IsPaired(Was(j)) /\ HasSession(activeSessions', connections'[j].client)
    <3>1. IsPaired(Was(j)) /\ Was(j) \in DOMAIN connections
      BY <1>2, <2>1, <2>2 DEF IsPaired
    <3>2. HasSession(activeSessions, connections[Was(j)].client)
      BY <3>1 DEF BrokerInv, PairedHaveSessions
    <3>3. IsPaired(i) => connections[Was(j)].client # connections[i].client
      BY <2>1, <3>1 DEF BrokerInv, PairedOnce
    <3> QED
      BY <1>2, <1>5, <2>1, <3>1, <3>2, <3>3
  <2> QED
    BY <2>1, <2>2
<1>9. \A j, m \in 1 .. l - 1 : Was(j) = Was(m) => j = m
  BY <1>2
<1>10. DOMAIN connections' = 1 .. l - 1
  BY <1>1, <1>2, <1>3
<1> HIDE DEF Was
<1>11. PairedHaveSessions'
  BY <1>8, <1>10 DEF PairedHaveSessions
<1>12. PairedOnce'
  <2>1. ASSUME NEW j \in 1 .. l - 1, NEW m \in 1 .. l - 1, IsPaired(j)', IsPaired(m)',
               connections'[j].client = connections'[m].client
        PROVE  j = m
    <3>1. /\ Was(j) \in DOMAIN connections /\ Was(m) \in DOMAIN connections
          /\ IsPaired(Was(j)) /\ IsPaired(Was(m))
          /\ connections[Was(j)].client = connections[Was(m)].client
      BY <1>2, <1>8, <2>1
    <3>2. Was(j) = Was(m)
      BY <3>1 DEF BrokerInv, PairedOnce
    <3> QED
      BY <1>9, <3>2
  <2> QED
    BY <1>10, <2>1 DEF PairedOnce
<1>13. \A k \in BrokerCounters : truth[k] <= truth'[k]
  BY <1>1 DEF BrokerInv, TruthType
<1> QED
  BY <1>1, <1>5, <1>6, <1>7, <1>11, <1>12, <1>13 DEF BrokerInv, ClientStep

(* Connection i alone is paired with the client.                           *)
LEMMA PairedIs ==
    ASSUME BrokerInv, NEW i \in DOMAIN connections, NEW client \in Clients
    PROVE  LET t == Paired(i, client) IN
           /\ t \in Seq(Connection) /\ Len(t) = Len(connections)
           /\ \A k \in BrokerCounters : SumOf(t, k) = SumOf(connections, k) + One(k, {"received"})
           /\ \A j \in DOMAIN t : t[j].state = "paired" =>
                \/ j = i /\ t[j].client = client
                \/ IsPaired(j) /\ t[j].client = connections[j].client /\ t[j].client # client
<1> DEFINE t == Paired(i, client)
           q == Counts(i, {"received"})
<1>1. PICK c \in Seq(Connection), l \in Nat :
         c = connections /\ l = Len(c) /\ DOMAIN c = 1 .. l /\ i \in 1 .. l
  BY DEF BrokerInv, Lists
<1>2. /\ q \in Seq(Connection) /\ Len(q) = l
      /\ \A j \in 1 .. l : q[j].client = c[j].client /\ q[j].state = c[j].state
      /\ \A k \in BrokerCounters : SumOf(q, k) = SumOf(c, k) + One(k, {"received"})
  <2>1. {"received"} \in SUBSET ConnectionCounters
    BY DEF ConnectionCounters
  <2> QED
    BY <1>1, <2>1, CountsIs DEF BrokerInv
<1>3. \A j \in 1 .. l : j # i => q[j] = c[j]
  BY <1>1 DEF Counts
<1> HIDE DEF q
<1>4. t = [j \in 1 .. l |->
             IF j = i THEN [q[i] EXCEPT !.client = client, !.state = "paired"]
             ELSE IF c[j].client = client /\ c[j].state = "paired"
             THEN [c[j] EXCEPT !.state = "closing"] ELSE c[j]]
  BY <1>1 DEF Paired, q
<1> HIDE DEF t
<1>5. ASSUME NEW j \in 1 .. l
      PROVE  /\ t[j] \in Connection /\ t[j].counts = q[j].counts
             /\ t[j].state = "paired" =>
                  \/ j = i /\ t[j].client = client
                  \/ c[j].state = "paired" /\ t[j].client = c[j].client /\ t[j].client # client
  <2>1. c[j] \in Connection /\ q[j] \in Connection
    BY <1>1, <1>2
  <2>2. CASE j = i
    <3>1. t[j] = [q[j] EXCEPT !.client = client, !.state = "paired"]
      BY <1>4, <2>2
    <3>2. t[j] \in Connection /\ t[j].counts = q[j].counts /\ t[j].client = client
      BY <2>1, <3>1 DEF Connection
    <3> QED
      BY <2>2, <3>2
  <2>3. CASE j # i
    <3>1. q[j] = c[j]
      BY <1>3, <2>3
    <3>2. CASE c[j].client = client /\ c[j].state = "paired"
      <4>1. t[j] = [c[j] EXCEPT !.state = "closing"]
        BY <1>4, <2>3, <3>2
      <4>2. t[j] \in Connection /\ t[j].counts = q[j].counts /\ t[j].state = "closing"
        BY <2>1, <3>1, <4>1 DEF Connection
      <4> QED
        BY <4>2
    <3>3. CASE ~(c[j].client = client /\ c[j].state = "paired")
      <4>1. t[j] = c[j]
        BY <1>4, <2>3, <3>3
      <4> QED
        BY <2>1, <3>1, <3>3, <4>1
    <3> QED
      BY <3>2, <3>3
  <2> QED
    BY <2>2, <2>3
<1>6. t \in Seq(Connection) /\ Len(t) = l /\ DOMAIN t = 1 .. l
  <2>1. t = [j \in 1 .. l |-> t[j]]
    BY <1>4
  <2>2. t \in [1 .. l -> Connection]
    BY <1>5, <2>1
  <2> QED
    BY <2>2
<1>7. \A k : SumOf(t, k) = SumOf(q, k)
  <2>1. t \in Seq(Holder) /\ q \in Seq(Holder) /\ Len(t) = Len(q)
    BY <1>2, <1>6, SessionsHold
  <2>2. \A k : \A j \in 1 .. Len(q) : Count(t[j], k) = Count(q[j], k)
    BY <1>2, <1>5 DEF Count
  <2> QED
    BY <2>1, <2>2, SumKept
<1> QED
  BY <1>1, <1>2, <1>5, <1>6, <1>7 DEF t, IsPaired

LEMMA NewSessionIs ==
    ASSUME NEW client \in Clients, NEW clean \in BOOLEAN
    PROVE  /\ NewSession(client, clean) \in Session
           /\ NewSession(client, clean).client = client
           /\ \A k : Count(NewSession(client, clean), k) = 0
BY DEF NewSession, Session, SessionCounters, Count

LEMMA AcknowledgedIs ==
    ASSUME NEW s \in Session, NEW clean \in BOOLEAN
    PROVE  LET x == Acknowledged(s, clean) IN
           /\ x \in Session /\ x.client = s.client /\ x.counts = Grown(s.counts, {"sent"}, 1)
           /\ \A k : Count(x, k) = Count(s, k) + One(k, {"sent"})
<1> DEFINE x == Acknowledged(s, clean)
<1>1. x.client = s.client /\ x.counts = Grown(s.counts, {"sent"}, 1)
  BY DEF Acknowledged, Session
<1>2. Grown(s.counts, {"sent"}, 1) \in [SessionCounters -> Int]
  BY DEF Session, Grown
<1>3. x \in Session
  <2>1. PICK g \in [SessionCounters -> Int] : g = Grown(s.counts, {"sent"}, 1)
    BY <1>2
  <2>2. x = [s EXCEPT !.clean = clean, !.counts = g]
    BY <2>1 DEF Acknowledged
  <2>3. [s EXCEPT !.clean = clean, !.counts = g] \in Session
    BY DEF Session
  <2> QED
    BY <2>2, <2>3
<1> HIDE DEF x
<1>4. \A k : Count(x, k) = Count(s, k) + One(k, {"sent"})
  <2>1. {"sent"} \in SUBSET SessionCounters
    BY DEF SessionCounters
  <2> QED
    BY <1>1, <1>3, <2>1, GrownBy
<1> QED
  BY <1>1, <1>3, <1>4 DEF x

(* A session at the end of the list, for a client that need not be there.  *)
LEMMA SessionAppended ==
    ASSUME NEW s \in Seq(Session), NEW x \in Session
    PROVE  LET t == Append(s, x) IN
           /\ t \in Seq(Session)
           /\ HasSession(t, x.client)
           /\ \A c : HasSession(s, c) => HasSession(t, c)
           /\ \A k : SumOf(t, k) = SumOf(s, k) + Count(x, k)
<1> DEFINE t == Append(s, x)
           l == Len(s)
<1>1. /\ t \in Seq(Session) /\ DOMAIN t = 1 .. l + 1 /\ l \in Nat /\ DOMAIN s = 1 .. l
      /\ t[l + 1] = x /\ \A j \in 1 .. l : t[j] = s[j]
  BY AppendProperties
<1>2. \A k : SumOf(t, k) = SumOf(s, k) + Count(x, k)
  <2>1. s \in Seq(Holder) /\ x \in Holder
    BY SessionsHold DEF Holder
  <2> QED
    BY <2>1, SumOfAppend
<1> HIDE DEF t, l
<1>3. l + 1 \in IndexFor(t, x.client)
  BY <1>1 DEF IndexFor
<1>4. ASSUME NEW c, HasSession(s, c) PROVE HasSession(t, c)
  <2>1. PICK j \in 1 .. l : s[j].client = c
    BY <1>1, <1>4 DEF HasSession, IndexFor
  <2>2. j \in DOMAIN t /\ t[j].client = c
    BY <1>1, <2>1
  <2> QED
    BY <2>2 DEF HasSession, IndexFor
<1> QED
  BY <1>1, <1>2, <1>3, <1>4 DEF HasSession, t

(* Sessions move between the lists and the totals, and count n more.       *)
Moves(k, n) ==
    \E x, a, d \in Int :
        /\ totals'[k] = totals[k] + x
        /\ SumOf(activeSessions', k) = SumOf(activeSessions, k) + a
        /\ SumOf(disconnectedSessions', k) = SumOf(disconnectedSessions, k) + d
        /\ x + a + d = n

(* The client has an active session then, that has sent the answer.        *)
Answered(client) ==
    /\ activeSessions' \in Seq(Session) /\ disconnectedSessions' \in Seq(Session)
    /\ TotalsType'
    /\ \A k \in BrokerCounters : Moves(k, One(k, {"sent"}))
    /\ HasSession(activeSessions', client)
    /\ \A c : c # client /\ HasSession(activeSessions, c) => HasSession(activeSessions', c)

LEMMA ResumeAnswers ==
    ASSUME BrokerInv, NEW client \in Clients, Resume(client)
    PROVE  Answered(client)
<1>1. PICK s \in Seq(Session), w \in Seq(Session) :
         s = activeSessions /\ w = disconnectedSessions
  BY DEF BrokerInv, Lists
<1>2. HasSession(w, client)
  BY <1>1 DEF Resume
<1>3. PICK p \in 1 .. Len(w) :
         p = SessionOf(w, client) /\ w[p] \in Session /\ w[p].client = client
  BY <1>2, SessionOfIs
<1>4. PICK y \in Session : y = w[p]
  BY <1>3
<1>5. /\ Acknowledged(y, FALSE) \in Session /\ Acknowledged(y, FALSE).client = y.client
      /\ \A k : Count(Acknowledged(y, FALSE), k) = Count(y, k) + One(k, {"sent"})
  BY AcknowledgedIs
<1>6. PICK x \in Session :
         /\ x = Acknowledged(y, FALSE) /\ x.client = client
         /\ \A k : Count(x, k) = Count(y, k) + One(k, {"sent"})
  BY <1>3, <1>4, <1>5
<1>7. /\ activeSessions' = Append(s, x) /\ disconnectedSessions' = Without(w, client)
      /\ totals' = totals
  BY <1>1, <1>3, <1>4, <1>6 DEF Resume
<1>8. /\ Append(s, x) \in Seq(Session) /\ HasSession(Append(s, x), x.client)
      /\ \A c : HasSession(s, c) => HasSession(Append(s, x), c)
      /\ \A k : SumOf(Append(s, x), k) = SumOf(s, k) + Count(x, k)
  BY SessionAppended
<1>9. /\ Without(w, client) \in Seq(Session)
      /\ \A k : SumOf(Without(w, client), k) = SumOf(w, k) - Count(y, k)
  <2>1. \A k : OfClient(w, client, k) = Count(y, k)
    BY <1>2, <1>3, <1>4 DEF OfClient
  <2> QED
    BY <2>1, WithoutIs
<1>10. ASSUME NEW k \in BrokerCounters PROVE Moves(k, One(k, {"sent"}))
  <2>1. w \in Seq(Holder) /\ s \in Seq(Holder) /\ y \in Holder
    BY SessionsHold DEF Holder
  <2>2. PICK n \in Int, o \in Int, S \in Int, D \in Int, T \in Int :
           /\ n = Count(y, k) /\ o = One(k, {"sent"}) /\ S = SumOf(s, k) /\ D = SumOf(w, k)
           /\ T = totals[k]
    BY <2>1, CountType, SumType DEF One, BrokerInv, TotalsType, TotalOK
  <2>3. PICK a \in Int, d \in Int : a = n + o /\ d = 0 - n
    OBVIOUS
  <2>4. 0 + a + d = o /\ S + (n + o) = S + a /\ D - n = D + d /\ T = T + 0
    BY <2>3
  <2> SUFFICES \E x_1, x_2, x_3 \in Int :
                 /\ totals'[k] = totals[k] + x_1
                 /\ SumOf(activeSessions', k) = SumOf(activeSessions, k) + x_2
                 /\ SumOf(disconnectedSessions', k) = SumOf(disconnectedSessions, k) + x_3
                 /\ x_1 + x_2 + x_3 = One(k, {"sent"})
    BY DEF Moves
  <2> WITNESS 0 \in Int, a \in Int, d \in Int
  <2>5. totals'[k] = totals[k] + 0
    BY <1>7, <2>2, <2>4
  <2>6. SumOf(activeSessions', k) = SumOf(activeSessions, k) + a
    BY <1>1, <1>6, <1>7, <1>8, <2>2, <2>4
  <2>7. SumOf(disconnectedSessions', k) = SumOf(disconnectedSessions, k) + d
    BY <1>1, <1>7, <1>9, <2>2, <2>4
  <2> QED
    BY <2>2, <2>4, <2>5, <2>6, <2>7
<1>11. TotalsType'
  BY <1>7 DEF BrokerInv, TotalsType
<1> QED
  BY <1>1, <1>6, <1>7, <1>8, <1>9, <1>10, <1>11 DEF Answered

LEMMA TakeOverAnswers ==
    ASSUME BrokerInv, NEW client \in Clients, TakeOver(client)
    PROVE  Answered(client)
<1>1. PICK s \in Seq(Session) : s = activeSessions
  BY DEF BrokerInv, Lists
<1>2. HasSession(s, client)
  BY <1>1 DEF TakeOver
<1>3. PICK p \in 1 .. Len(s) : p = SessionOf(s, client)
  BY <1>2, SessionOfIs
<1>4. PICK y \in Session : y = s[p]
  BY <1>3
<1>5. /\ Acknowledged(y, FALSE) \in Session /\ Acknowledged(y, FALSE).client = y.client
      /\ Acknowledged(y, FALSE).counts = Grown(y.counts, {"sent"}, 1)
      /\ \A k : Count(Acknowledged(y, FALSE), k) = Count(y, k) + One(k, {"sent"})
  BY AcknowledgedIs
<1>6. PICK x \in Session :
         x = Acknowledged(y, FALSE) /\ x.client = y.client /\ x.counts = Grown(y.counts, {"sent"}, 1)
  BY <1>5
<1> DEFINE t == [s EXCEPT ![p] = x]
<1>7. activeSessions' = t /\ UNCHANGED <<disconnectedSessions, totals>>
  BY <1>1, <1>3, <1>4, <1>6 DEF TakeOver
<1>8. /\ t \in Seq(Session) /\ SameClients(s, t)
      /\ \A k : SumOf(t, k) = SumOf(s, k) + One(k, {"sent"})
  <2>1. {"sent"} \in SUBSET SessionCounters
    BY DEF SessionCounters
  <2> QED
    BY <1>4, <1>6, <2>1, SessionCounts
<1> HIDE DEF t
<1>9. \A c : HasSession(s, c) => HasSession(t, c)
  BY <1>8, SessionsKept
<1>10. ASSUME NEW k \in BrokerCounters PROVE Moves(k, One(k, {"sent"}))
  <2>1. PICK o \in Int, D \in Int, T \in Int :
           o = One(k, {"sent"}) /\ D = SumOf(disconnectedSessions, k) /\ T = totals[k]
    BY SumsAreNumbers DEF One, BrokerInv, TotalsType, TotalOK
  <2>2. 0 + o + 0 = o /\ D = D + 0 /\ T = T + 0
    OBVIOUS
  <2> SUFFICES \E x_1, x_2, x_3 \in Int :
                 /\ totals'[k] = totals[k] + x_1
                 /\ SumOf(activeSessions', k) = SumOf(activeSessions, k) + x_2
                 /\ SumOf(disconnectedSessions', k) = SumOf(disconnectedSessions, k) + x_3
                 /\ x_1 + x_2 + x_3 = One(k, {"sent"})
    BY DEF Moves
  <2> WITNESS 0 \in Int, o \in Int, 0 \in Int
  <2>3. /\ totals'[k] = totals[k] + 0
        /\ SumOf(disconnectedSessions', k) = SumOf(disconnectedSessions, k) + 0
    BY <1>7, <2>1, <2>2
  <2>4. SumOf(activeSessions', k) = SumOf(activeSessions, k) + o
    BY <1>1, <1>7, <1>8, <2>1
  <2> QED
    BY <2>1, <2>2, <2>3, <2>4
<1>11. TotalsType' /\ disconnectedSessions' \in Seq(Session)
  BY <1>7 DEF BrokerInv, TotalsType, Lists
<1> QED
  BY <1>1, <1>2, <1>7, <1>8, <1>9, <1>10, <1>11 DEF Answered

LEMMA StartFreshAnswers ==
    ASSUME BrokerInv, NEW client \in Clients, NEW clean \in BOOLEAN, StartFresh(client, clean)
    PROVE  Answered(client)
<1>1. PICK s \in Seq(Session), w \in Seq(Session) :
         s = activeSessions /\ w = disconnectedSessions
  BY DEF BrokerInv, Lists
<1>2. PICK x \in Session :
         /\ x = Acknowledged(NewSession(client, clean), clean) /\ x.client = client
         /\ \A k : Count(x, k) = One(k, {"sent"})
  <2>1. PICK y \in Session :
           y = NewSession(client, clean) /\ y.client = client /\ \A k : Count(y, k) = 0
    BY NewSessionIs
  <2>2. /\ Acknowledged(y, clean) \in Session /\ Acknowledged(y, clean).client = y.client
        /\ Acknowledged(y, clean).counts = Grown(y.counts, {"sent"}, 1)
        /\ \A k : Count(Acknowledged(y, clean), k) = Count(y, k) + One(k, {"sent"})
    BY AcknowledgedIs
  <2>3. \A k : One(k, {"sent"}) \in Int
    BY DEF One
  <2> QED
    BY <2>1, <2>2, <2>3
<1>3. PICK u \in Seq(Session) :
         /\ u = Without(s, client)
         /\ \A k : SumOf(u, k) = SumOf(s, k) - OfClient(s, client, k)
         /\ \A c : c # client /\ HasSession(s, c) => HasSession(u, c)
  BY WithoutIs
<1>4. PICK v \in Seq(Session) :
         /\ v = Without(w, client)
         /\ \A k : SumOf(v, k) = SumOf(w, k) - OfClient(w, client, k)
  BY WithoutIs
<1>5. PICK e : /\ e = Ended(totals, w, client) /\ TotalOK(e)
               /\ \A k \in BrokerCounters : e[k] = totals[k] + OfClient(w, client, k)
               /\ \A k : OfClient(w, client, k) \in Int
  BY EndedIs DEF BrokerInv, TotalsType
<1>6. PICK f : /\ f = Ended(e, s, client) /\ TotalOK(f)
               /\ \A k \in BrokerCounters : f[k] = e[k] + OfClient(s, client, k)
               /\ \A k : OfClient(s, client, k) \in Int
  BY <1>5, EndedIs
<1>7. activeSessions' = Append(u, x) /\ disconnectedSessions' = v /\ totals' = f
  BY <1>1, <1>2, <1>3, <1>4, <1>5, <1>6 DEF StartFresh
<1>8. /\ Append(u, x) \in Seq(Session) /\ HasSession(Append(u, x), x.client)
      /\ \A c : HasSession(u, c) => HasSession(Append(u, x), c)
      /\ \A k : SumOf(Append(u, x), k) = SumOf(u, k) + Count(x, k)
  BY SessionAppended
<1>9. ASSUME NEW k \in BrokerCounters PROVE Moves(k, One(k, {"sent"}))
  <2>1. PICK m \in Int, n \in Int, o \in Int, S \in Int, D \in Int, T \in Int :
           /\ m = OfClient(s, client, k) /\ n = OfClient(w, client, k) /\ o = One(k, {"sent"})
           /\ S = SumOf(s, k) /\ D = SumOf(w, k) /\ T = totals[k]
    <3>1. SumOf(s, k) \in Int /\ SumOf(w, k) \in Int
      BY <1>1, SumsAreNumbers DEF BrokerInv
    <3>2. totals[k] \in Int
      BY DEF BrokerInv, TotalsType, TotalOK
    <3>3. One(k, {"sent"}) \in Int
      BY DEF One
    <3>4. OfClient(s, client, k) \in Int /\ OfClient(w, client, k) \in Int
      BY <1>5, <1>6
    <3> QED
      BY <3>1, <3>2, <3>3, <3>4
  <2>2. PICK b \in Int, a \in Int, d \in Int : b = n + m /\ a = o - m /\ d = 0 - n
    OBVIOUS
  <2>3. b + a + d = o /\ (S - m) + o = S + a /\ D - n = D + d /\ (T + n) + m = T + b
    BY <2>2
  <2> SUFFICES \E x_1, x_2, x_3 \in Int :
                 /\ totals'[k] = totals[k] + x_1
                 /\ SumOf(activeSessions', k) = SumOf(activeSessions, k) + x_2
                 /\ SumOf(disconnectedSessions', k) = SumOf(disconnectedSessions, k) + x_3
                 /\ x_1 + x_2 + x_3 = One(k, {"sent"})
    BY DEF Moves
  <2> WITNESS b \in Int, a \in Int, d \in Int
  <2>4. totals'[k] = totals[k] + b
    BY <1>5, <1>6, <1>7, <2>1, <2>3
  <2>5. SumOf(activeSessions', k) = SumOf(activeSessions, k) + a
    BY <1>1, <1>2, <1>3, <1>7, <1>8, <2>1, <2>3
  <2>6. SumOf(disconnectedSessions', k) = SumOf(disconnectedSessions, k) + d
    BY <1>1, <1>4, <1>7, <2>1, <2>3
  <2> QED
    BY <2>1, <2>3, <2>4, <2>5, <2>6
<1>10. TotalsType'
  BY <1>6, <1>7 DEF TotalsType
<1> QED
  BY <1>1, <1>2, <1>3, <1>7, <1>8, <1>9, <1>10 DEF Answered

LEMMA AcceptedKeeps ==
    ASSUME BrokerInv, NEW i \in DOMAIN connections, NEW client \in Clients,
           NEW clean \in BOOLEAN, Accepted(i, client, clean)
    PROVE  BrokerInv' /\ ClientStep
<1>1. /\ connections' = Paired(i, client)
      /\ truth' = Grown(truth, {"received", "sent"}, 1)
      /\ UNCHANGED <<leaf, updates, harvested>>
  BY DEF Accepted, Event
<1>2. PICK t \in Seq(Connection) :
         /\ t = Paired(i, client) /\ Len(t) = Len(connections)
         /\ \A k \in BrokerCounters : SumOf(t, k) = SumOf(connections, k) + One(k, {"received"})
         /\ \A j \in DOMAIN t : t[j].state = "paired" =>
              \/ j = i /\ t[j].client = client
              \/ IsPaired(j) /\ t[j].client = connections[j].client /\ t[j].client # client
  BY PairedIs
<1>3. Answered(client)
  BY ResumeAnswers, TakeOverAnswers, StartFreshAnswers DEF Accepted
<1>4. /\ truth' \in [BrokerCounters \cup {"updates"} -> Int]
      /\ truth'["updates"] = truth["updates"]
      /\ \A k \in BrokerCounters : truth'[k] = truth[k] + (One(k, {"received"}) + One(k, {"sent"}))
  <2>1. {"received", "sent"} \in SUBSET BrokerCounters
    BY DEF BrokerCounters
  <2>2. \A k : One(k, {"received", "sent"}) = One(k, {"received"}) + One(k, {"sent"})
    BY DEF One
  <2>3. truth \in [BrokerCounters \cup {"updates"} -> Int]
    BY DEF BrokerInv, TruthType
  <2>4. PICK names \in SUBSET BrokerCounters : names = {"received", "sent"}
    BY <2>1
  <2> QED
    BY <1>1, <2>2, <2>3, <2>4, TruthGrows
<1>5. Lists' /\ TruthType' /\ TotalsType'
  BY <1>1, <1>2, <1>3, <1>4 DEF Answered, Lists, TruthType
<1>6. Balance'
  <2> SUFFICES ASSUME NEW k \in BrokerCounters
               PROVE  \E y, b, e, d \in Int :
                   /\ totals'[k] = totals[k] + y
                   /\ SumOf(connections, k)' = SumOf(connections, k) + b
                   /\ SumOf(activeSessions, k)' = SumOf(activeSessions, k) + e
                   /\ SumOf(disconnectedSessions, k)' = SumOf(disconnectedSessions, k) + d
                   /\ truth'[k] = truth[k] + (y + b + e + d)
    BY <1>5, BalanceMoves DEF BrokerInv
  <2>1. PICK y \in Int, e \in Int, d \in Int :
           /\ totals'[k] = totals[k] + y
           /\ SumOf(activeSessions', k) = SumOf(activeSessions, k) + e
           /\ SumOf(disconnectedSessions', k) = SumOf(disconnectedSessions, k) + d
           /\ y + e + d = One(k, {"sent"})
    BY <1>3 DEF Answered, Moves
  <2>2. PICK b \in Int, n \in Int : b = One(k, {"received"}) /\ n = One(k, {"sent"})
    BY DEF One
  <2>3. y + e + d = n
    BY <2>1, <2>2
  <2>4. y + b + e + d = b + n
    BY <2>3
  <2> WITNESS y \in Int, b \in Int, e \in Int, d \in Int
  <2>5. SumOf(connections, k)' = SumOf(connections, k) + b
    BY <1>1, <1>2, <2>2
  <2>6. truth'[k] = truth[k] + (y + b + e + d)
    BY <1>4, <2>2, <2>4
  <2> QED
    BY <2>1, <2>5, <2>6
<1>7. \A j \in DOMAIN connections' : IsPaired(j)' =>
        \/ j = i /\ connections'[j].client = client
        \/ /\ j \in DOMAIN connections /\ IsPaired(j)
           /\ connections'[j].client = connections[j].client /\ connections'[j].client # client
  <2>1. DOMAIN t = DOMAIN connections
    BY <1>2 DEF BrokerInv, Lists
  <2> QED
    BY <1>1, <1>2, <2>1 DEF IsPaired
<1>8. PairedHaveSessions' /\ PairedOnce'
  BY <1>3, <1>7 DEF BrokerInv, PairedHaveSessions, PairedOnce, Answered
<1>9. \A k \in BrokerCounters : truth[k] <= truth'[k]
  BY <1>4, OneIs DEF BrokerInv, TruthType
<1> QED
  BY <1>1, <1>4, <1>5, <1>6, <1>8, <1>9 DEF BrokerInv, ClientStep

-----------------------------------------------------------------------------
(* How many leaves change.                                                 *)
LEMMA LeavesAreFinite == IsFiniteSet(Leaves)
<1>1. ASSUME NEW S, NEW a, NEW b, NEW c, IsFiniteSet(S)
      PROVE  IsFiniteSet(S \cup {a} \cup {b} \cup {c})
  <2>1. IsFiniteSet(S \cup {a})
    BY <1>1, FS_AddElement
  <2>2. IsFiniteSet((S \cup {a}) \cup {b})
    BY <2>1, FS_AddElement
  <2> QED
    BY <2>2, FS_AddElement
<1> DEFINE A == {} \cup {"subscriptions"} \cup {"retained"} \cup {"updates"}
           B == A \cup {"updateRate"} \cup {"device"} \cup {"connected"}
           C == B \cup {"disconnected"} \cup {"total"} \cup {"maximum"}
           D == C \cup {"received"} \cup {"sent"} \cup {"publishReceived"}
           E == D \cup {"publishSent"} \cup {"publishDropped"} \cup {"maximum"}
<1>2. IsFiniteSet(A)
  BY <1>1, FS_EmptySet
<1>3. IsFiniteSet(B)
  <2> HIDE DEF A
  <2> QED
    BY <1>1, <1>2
<1>4. IsFiniteSet(C)
  <2> HIDE DEF B
  <2> QED
    BY <1>1, <1>3
<1>5. IsFiniteSet(D)
  <2> HIDE DEF C
  <2> QED
    BY <1>1, <1>4
<1>6. IsFiniteSet(E)
  <2> HIDE DEF D
  <2> QED
    BY <1>1, <1>5
<1>7. Leaves = E
  BY DEF Leaves, BrokerCounters
<1> HIDE DEF E
<1> QED
  BY <1>6, <1>7

LEMMA ChangesAreNumbers ==
    ASSUME NEW old, NEW new, DOMAIN new \subseteq Leaves \/ DOMAIN new = 1 .. maxConnections
    PROVE  /\ NumberChanged(old, new) \in Nat
           /\ IsFiniteSet(Changed(old, new))
<1>1. maxConnections \in Nat
  BY StatisticsAssumption
<1>2. IsFiniteSet(1 .. maxConnections)
  BY <1>1, FS_Interval
<1>3. IsFiniteSet(DOMAIN new)
  BY <1>2, LeavesAreFinite, FS_Subset
<1>4. Changed(old, new) \subseteq DOMAIN new
  BY DEF Changed
<1>5. IsFiniteSet(Changed(old, new))
  BY <1>3, <1>4, FS_Subset
<1> QED
  BY <1>5, FS_CardinalityType DEF NumberChanged

LEMMA RetainedIsNumber == RetainedValues \in Nat
<1> DEFINE L == {l \in Leaves : leaf[l] # Unset}
           C == {i \in 1 .. maxConnections : connectionIDs[i] # Unset}
           S == {i \in 1 .. maxConnections : sessionIDs[i] # Unset}
<1>1. maxConnections \in Nat
  BY StatisticsAssumption
<1>2. IsFiniteSet(1 .. maxConnections)
  BY <1>1, FS_Interval
<1>3. L \subseteq Leaves /\ C \subseteq 1 .. maxConnections /\ S \subseteq 1 .. maxConnections
  OBVIOUS
<1>4. RetainedValues = Cardinality(L) + Cardinality(C) + Cardinality(S)
  BY DEF RetainedValues
<1> HIDE DEF L, C, S
<1>5. IsFiniteSet(L) /\ IsFiniteSet(C) /\ IsFiniteSet(S)
  BY <1>2, <1>3, LeavesAreFinite, FS_Subset
<1>6. Cardinality(L) \in Nat /\ Cardinality(C) \in Nat /\ Cardinality(S) \in Nat
  BY <1>5, FS_CardinalityType
<1> QED
  BY <1>4, <1>6

-----------------------------------------------------------------------------
(* Every step of a client.                                                 *)
Client ==
    \/ newConnection
    \/ \E i \in DOMAIN connections :
         \/ \E client \in Clients \cup {connections[i].client} : Refused(i, client)
         \/ \E client \in Clients, clean \in BOOLEAN : Accepted(i, client, clean)
         \/ Ping(i) \/ PublishReceived(i) \/ Subscribe(i) \/ Disconnect(i) \/ Lost(i)

LEMMA ClientKeeps ==
    ASSUME BrokerInv, Client
    PROVE  BrokerInv' /\ ClientStep
<1>1. CASE newConnection
  <2>1. \A k \in BrokerCounters : truth[k] <= truth[k]
    BY DEF BrokerInv, TruthType
  <2> QED
    BY <1>1, <2>1, NewConnectionKeeps DEF ClientStep
<1>2. ASSUME NEW i \in DOMAIN connections,
             \/ \E client \in Clients \cup {connections[i].client} : Refused(i, client)
             \/ \E client \in Clients, clean \in BOOLEAN : Accepted(i, client, clean)
             \/ Ping(i) \/ PublishReceived(i) \/ Subscribe(i) \/ Disconnect(i) \/ Lost(i)
      PROVE  BrokerInv' /\ ClientStep
  <2>1. ASSUME NEW client \in Clients \cup {connections[i].client}, Refused(i, client)
        PROVE  BrokerInv' /\ ClientStep
    BY <2>1, RefusedKeeps DEF ClientStep
  <2>2. ASSUME NEW client \in Clients, NEW clean \in BOOLEAN, Accepted(i, client, clean)
        PROVE  BrokerInv' /\ ClientStep
    BY <2>2, AcceptedKeeps
  <2>3. CASE Ping(i) \/ PublishReceived(i)
    BY <2>3, PlainMessageKeeps
  <2>4. CASE Subscribe(i)
    BY <2>4, RetainedIsNumber, SubscribeKeeps
  <2>5. CASE Disconnect(i)
    BY <2>5, DisconnectKeeps
  <2>6. CASE Lost(i)
    BY <2>6, LostKeeps
  <2> QED
    BY <1>2, <2>1, <2>2, <2>3, <2>4, <2>5, <2>6
<1> QED
  BY <1>1, <1>2 DEF Client

(* What every step that publishes does to what is counted.                 *)
LEMMA UptimeKeeps ==
    ASSUME BrokerInv, Uptime
    PROVE  /\ BrokerInv' /\ UNCHANGED <<leaf, harvested>>
           /\ truth'["updates"] = truth["updates"] + 1
           /\ \A k \in BrokerCounters : truth[k] <= truth'[k]
<1>1. PICK full : Publish(1, full)
  BY DEF Uptime
<1>2. UNCHANGED <<leaf, harvested, connections, disconnectedSessions, totals>>
  BY DEF Uptime, Event, brokerVars
<1>3. TotalsType' /\ \A k \in BrokerCounters : totals'[k] = totals[k]
  BY <1>2 DEF BrokerInv, TotalsType
<1> QED
  BY <1>1, <1>2, <1>3, PublishKeeps

(* A leaf that a step does not assign keeps its value.                     *)
LEMMA AssignedIs ==
    ASSUME DOMAIN leaf = Leaves, NEW values
    PROVE  /\ DOMAIN Assigned(values) = Leaves
           /\ \A l \in Leaves : Assigned(values)[l] =
                IF l \in DOMAIN values THEN values[l] ELSE leaf[l]
BY DEF Assigned

Quiet == \A k \in BrokerCounters : leaf'[k] = leaf[k]

LEMMA DataModelKeeps ==
    ASSUME BrokerInv, DOMAIN leaf = Leaves, NEW full, HarvestDataModel(full)
    PROVE  /\ BrokerInv' /\ DOMAIN leaf' = Leaves /\ Quiet /\ UNCHANGED harvested
           /\ \A k \in BrokerCounters : truth[k] <= truth'[k]
<1>1. DOMAIN BeforeRate = {"subscriptions", "retained", "updates"}
      /\ DOMAIN BeforeRate \subseteq Leaves
  BY DEF BeforeRate, Leaves
<1>2. NumberChanged(leaf, BeforeRate) \in Nat
  BY <1>1, ChangesAreNumbers
<1>3. PICK rateNow :
         /\ leaf' = [Assigned(BeforeRate) EXCEPT !["updateRate"] = rateNow]
         /\ Publish(NumberChanged(leaf, BeforeRate)
                    + (IF rateNow = leaf["updateRate"] THEN 0 ELSE 1), full)
  BY DEF HarvestDataModel
<1>4. PICK all \in Nat : Publish(all, full)
  <2>1. NumberChanged(leaf, BeforeRate)
        + (IF rateNow = leaf["updateRate"] THEN 0 ELSE 1) \in Nat
    BY <1>2
  <2> QED
    BY <1>3, <2>1
<1>5. UNCHANGED <<harvested, connections, disconnectedSessions, totals>>
  BY DEF HarvestDataModel, brokerVars
<1>6. TotalsType' /\ \A k \in BrokerCounters : totals'[k] = totals[k]
  BY <1>5 DEF BrokerInv, TotalsType
<1>7. BrokerInv' /\ \A k \in BrokerCounters : truth[k] <= truth'[k]
  BY <1>4, <1>5, <1>6, PublishKeeps
<1>8. /\ DOMAIN leaf' = Leaves
      /\ \A l \in Leaves : l # "updateRate" => leaf'[l] = Assigned(BeforeRate)[l]
  BY <1>3, AssignedIs
<1>9. Quiet
  <2>1. \A k \in BrokerCounters : k \in Leaves /\ k # "updateRate" /\ k \notin DOMAIN BeforeRate
    BY <1>1 DEF Leaves, BrokerCounters
  <2> QED
    BY <1>8, <2>1, AssignedIs DEF Quiet
<1> QED
  BY <1>5, <1>7, <1>8, <1>9

LEMMA DeviceKeeps ==
    ASSUME BrokerInv, DOMAIN leaf = Leaves, NEW full, HarvestDevice(full)
    PROVE  /\ BrokerInv' /\ DOMAIN leaf' = Leaves /\ Quiet /\ UNCHANGED harvested
           /\ leaf'["updateRate"] = leaf["updateRate"]
           /\ UNCHANGED rateVars
           /\ \A k \in BrokerCounters : truth[k] <= truth'[k]
           /\ \E n \in Nat : /\ truth'["updates"] = truth["updates"] + n
                             /\ updates' = [updates EXCEPT !.count = (@ + n) % Word]
<1> DEFINE value == [device |-> now \div msInSecond]
<1>1. DOMAIN value = {"device"} /\ DOMAIN value \subseteq Leaves
  BY DEF Leaves
<1>2. /\ leaf' = Assigned(value) /\ Publish(NumberChanged(leaf, value), full)
      /\ updates' = [updates EXCEPT !.count = (@ + NumberChanged(leaf, value)) % Word]
      /\ UNCHANGED <<harvested, connections, disconnectedSessions, totals, rateVars>>
  BY DEF HarvestDevice, brokerVars
<1> HIDE DEF value
<1>3. PICK n \in Nat : n = NumberChanged(leaf, value)
  BY <1>1, ChangesAreNumbers
<1>4. TotalsType' /\ \A k \in BrokerCounters : totals'[k] = totals[k]
  BY <1>2 DEF BrokerInv, TotalsType
<1>5. /\ BrokerInv' /\ truth'["updates"] = truth["updates"] + n
      /\ \A k \in BrokerCounters : truth[k] <= truth'[k]
  BY <1>2, <1>3, <1>4, PublishKeeps
<1>6. DOMAIN leaf' = Leaves /\ \A l \in Leaves : l # "device" => leaf'[l] = leaf[l]
  BY <1>1, <1>2, AssignedIs
<1>7. Quiet /\ leaf'["updateRate"] = leaf["updateRate"]
  <2>1. \A k \in BrokerCounters \cup {"updateRate"} : k \in Leaves /\ k # "device"
    BY DEF Leaves, BrokerCounters
  <2> QED
    BY <1>6, <2>1 DEF Quiet
<1> QED
  BY <1>2, <1>3, <1>5, <1>6, <1>7

LEMMA SetBeforeIs ==
    ASSUME NEW i
    PROVE  SetBefore(i) \in 0 .. NumberChanged(connectionIDs, IDsOf(connections))
                               + NumberChanged(sessionIDs, IDsOf(PresentSessions))
<1> DEFINE C == NumberChanged(connectionIDs, IDsOf(connections))
           S == Changed(sessionIDs, IDsOf(PresentSessions))
           B == {j \in S : j < i}
<1>1. \A seq : DOMAIN IDsOf(seq) = 1 .. maxConnections
  BY DEF IDsOf
<1>2. C \in Nat /\ IsFiniteSet(S)
  BY <1>1, ChangesAreNumbers
<1>3. NumberChanged(sessionIDs, IDsOf(PresentSessions)) = Cardinality(S)
  BY DEF NumberChanged
<1>4. SetBefore(i) = C + Cardinality(B)
  BY DEF SetBefore
<1>5. B \subseteq S
  OBVIOUS
<1> HIDE DEF B, S, C
<1>6. Cardinality(B) \in Nat /\ Cardinality(S) \in Nat /\ Cardinality(B) <= Cardinality(S)
  BY <1>2, <1>5, FS_Subset, FS_CardinalityType
<1> QED
  BY <1>2, <1>3, <1>4, <1>6 DEF C

(* While the broker adds up, each session has counted what it had when the *)
(* harvest began, and at most what it has when the harvest is done.        *)
LEMMA SeenBetween ==
    ASSUME Lists, TruthType, NEW full, NEW n \in Nat, \A i : SetBefore(i) \in 0 .. n
    PROVE  /\ SessionsSeen(full) \in Seq(Session)
           /\ \A k \in BrokerCounters :
                /\ SumOf(activeSessions, k) <= SumOf(SessionsSeen(full), k)
                /\ SumOf(SessionsSeen(full), k) <= SumOf(Told(Listening, n, full), k)
<1> DEFINE seen == SessionsSeen(full)
           t == Told(Listening, n, full)
           More(i, k, m) == Gain(i, k, Listening, m, full)
<1>1. PICK s \in Seq(Session), l \in Nat :
         s = activeSessions /\ l = Len(s) /\ DOMAIN s = 1 .. l
  BY DEF Lists
<1>2. Listening \in SUBSET DOMAIN activeSessions
  BY DEF Listening
<1>3. ASSUME NEW m \in Nat
      PROVE  /\ Told(Listening, m, full) \in Seq(Session)
             /\ Len(Told(Listening, m, full)) = l
             /\ \A i \in 1 .. l, k \in BrokerCounters :
                  Count(Told(Listening, m, full)[i], k) = Count(s[i], k) + More(i, k, m)
  <2>1. PICK S \in SUBSET DOMAIN activeSessions : S = Listening
    BY <1>2
  <2>2. /\ Told(S, m, full) \in Seq(Session) /\ SameClients(activeSessions, Told(S, m, full))
        /\ \A i \in 1 .. Len(activeSessions), k \in BrokerCounters :
             Count(Told(S, m, full)[i], k) = Count(activeSessions[i], k) + Gain(i, k, S, m, full)
    BY ToldAll
  <2> QED
    BY <1>1, <2>1, <2>2 DEF SameClients
<1> HIDE DEF More
<1>4. seen = [i \in 1 .. l |-> Told(Listening, SetBefore(i), full)[i]]
  BY <1>1 DEF SessionsSeen
<1> HIDE DEF seen
<1>5. ASSUME NEW i \in 1 .. l
      PROVE  /\ seen[i] \in Session
             /\ \A k \in BrokerCounters : Count(seen[i], k) = Count(s[i], k) + More(i, k, SetBefore(i))
  <2>1. PICK m \in Nat : m = SetBefore(i)
    OBVIOUS
  <2> DEFINE u == Told(Listening, m, full)
  <2>2. /\ u \in Seq(Session) /\ Len(u) = l
        /\ \A j \in 1 .. l, k \in BrokerCounters : Count(u[j], k) = Count(s[j], k) + More(j, k, m)
    BY <1>3
  <2>3. seen[i] = u[i]
    BY <1>4, <2>1
  <2> HIDE DEF u
  <2>4. u[i] \in Session
    BY <2>2
  <2> QED
    BY <2>1, <2>2, <2>3, <2>4
<1>6. seen \in Seq(Session) /\ Len(seen) = l
  <2>1. seen = [i \in 1 .. l |-> seen[i]]
    BY <1>4
  <2>2. seen \in [1 .. l -> Session]
    BY <1>5, <2>1
  <2> QED
    BY <2>2
<1>7. t \in Seq(Session) /\ Len(t) = l
      /\ \A i \in 1 .. l, k \in BrokerCounters : Count(t[i], k) = Count(s[i], k) + More(i, k, n)
  BY <1>3
<1> HIDE DEF t
<1>8. ASSUME NEW i \in 1 .. l, NEW k \in BrokerCounters
      PROVE  Count(s[i], k) <= Count(seen[i], k) /\ Count(seen[i], k) <= Count(t[i], k)
  <2>1. s[i] \in Holder
    BY <1>1 DEF Holder
  <2>2. PICK c \in Int : c = Count(s[i], k)
    BY <2>1, CountType
  <2>3. PICK b \in 0 .. n : b = SetBefore(i)
    OBVIOUS
  <2>4. 0 <= More(i, k, b) /\ More(i, k, b) <= More(i, k, n) /\ More(i, k, b) \in Int
        /\ More(i, k, n) \in Int
    BY DEF More, Gain
  <2>5. Count(seen[i], k) = c + More(i, k, b) /\ Count(t[i], k) = c + More(i, k, n)
    BY <1>5, <1>7, <2>2, <2>3
  <2> QED
    BY <2>2, <2>4, <2>5
<1>9. ASSUME NEW k \in BrokerCounters
      PROVE  SumOf(s, k) <= SumOf(seen, k) /\ SumOf(seen, k) <= SumOf(t, k)
  <2>1. s \in Seq(Holder) /\ seen \in Seq(Holder) /\ t \in Seq(Holder)
    BY <1>6, <1>7, SessionsHold
  <2> QED
    BY <1>1, <1>6, <1>7, <1>8, <2>1, SumInOrder
<1> QED
  BY <1>1, <1>6, <1>9 DEF seen, t

(* The broker's totals are what its counters said while it added them up.  *)
Summed == BrokerCounters \ {"publishDropped"}

LEMMA BrokerKeeps ==
    ASSUME BrokerInv, DOMAIN leaf = Leaves, NEW full, HarvestBroker(full)
    PROVE  /\ BrokerInv' /\ DOMAIN leaf' = Leaves
           /\ harvested' = [k \in BrokerCounters |-> truth[k]]
           /\ \A k \in Summed : leaf'[k] \in truth[k] .. truth'[k]
           /\ leaf'["updateRate"] = leaf["updateRate"]
           /\ UNCHANGED rateVars
           /\ \E n \in Nat : /\ truth'["updates"] = truth["updates"] + n
                             /\ updates' = [updates EXCEPT !.count = (@ + n) % Word]
<1> DEFINE sum(k) == SumOf(connections, k) + SumOf(SessionsSeen(full), k)
                     + SumOf(disconnectedSessions, k)
           sessions == Len(PresentSessions)
           values == [connected |-> Len(activeSessions),
                      disconnected |-> Len(disconnectedSessions),
                      total |-> sessions, maximum |-> Max({totals.maximum, sessions}),
                      received |-> totals.received + sum("received"),
                      sent |-> totals.sent + sum("sent"),
                      publishReceived |-> totals.publishReceived + sum("publishReceived"),
                      publishSent |-> totals.publishSent + sum("publishSent"),
                      publishDropped |-> PublishDropped(sum("publishDropped"))]
           changes == NumberChanged(leaf, values)
                      + NumberChanged(connectionIDs, IDsOf(connections))
                      + NumberChanged(sessionIDs, IDsOf(PresentSessions))
<1>1. /\ leaf' = Assigned(values)
      /\ Publish(changes, full)
      /\ updates' = [updates EXCEPT !.count = (@ + changes) % Word]
      /\ totals' = [totals EXCEPT !.maximum = values.maximum]
      /\ harvested' = [k \in BrokerCounters |-> truth[k]]
      /\ UNCHANGED <<connections, disconnectedSessions, rateVars>>
  BY DEF HarvestBroker
<1>2. /\ DOMAIN values = {"connected", "disconnected", "total", "maximum"} \cup BrokerCounters
      /\ \A k \in Summed : values[k] = totals[k] + sum(k)
  <2>1. DOMAIN values = {"connected", "disconnected", "total", "maximum"} \cup BrokerCounters
    BY DEF BrokerCounters
  <2>2. /\ values["received"] = totals["received"] + sum("received")
        /\ values["sent"] = totals["sent"] + sum("sent")
        /\ values["publishReceived"] = totals["publishReceived"] + sum("publishReceived")
        /\ values["publishSent"] = totals["publishSent"] + sum("publishSent")
    OBVIOUS
  <2>3. Summed = {"received", "sent", "publishReceived", "publishSent"}
    BY DEF Summed, BrokerCounters
  <2> HIDE DEF values, sum
  <2> QED
    BY <2>1, <2>2, <2>3
<1> DEFINE m == values.maximum
<1>3. TotalsType' /\ \A k \in BrokerCounters : totals'[k] = totals[k]
  <2>1. totals' = [totals EXCEPT !.maximum = m]
    BY <1>1
  <2> HIDE DEF m, values
  <2> QED
    BY <2>1 DEF BrokerInv, TotalsType, TotalOK, BrokerCounters
<1>4. DOMAIN values \subseteq Leaves /\ BrokerCounters \subseteq DOMAIN values
      /\ "updateRate" \notin DOMAIN values /\ "updateRate" \in Leaves
  BY <1>2 DEF Leaves, BrokerCounters
<1> HIDE DEF values, sum, m
<1>5. changes \in Nat /\ \A i : SetBefore(i) \in 0 .. changes
  <2> DEFINE B == NumberChanged(leaf, values)
             C == NumberChanged(connectionIDs, IDsOf(connections))
             S == NumberChanged(sessionIDs, IDsOf(PresentSessions))
  <2>1. \A seq : DOMAIN IDsOf(seq) = 1 .. maxConnections
    BY DEF IDsOf
  <2>2. B \in Nat /\ C \in Nat /\ S \in Nat
    BY <1>4, <2>1, ChangesAreNumbers
  <2>3. \A i : SetBefore(i) \in 0 .. C + S
    BY SetBeforeIs
  <2> HIDE DEF B, C, S
  <2>4. \A x \in 0 .. C + S : x \in 0 .. B + C + S
    BY <2>2
  <2> QED
    BY <2>2, <2>3, <2>4 DEF B, C, S
<1> HIDE DEF changes
<1>6. PICK n \in Nat : n = changes
  BY <1>5
<1>7. /\ BrokerInv' /\ truth'["updates"] = truth["updates"] + n
  BY <1>1, <1>3, <1>6, PublishKeeps
<1>8. /\ SessionsSeen(full) \in Seq(Session)
      /\ \A k \in BrokerCounters :
           /\ SumOf(activeSessions, k) <= SumOf(SessionsSeen(full), k)
           /\ SumOf(SessionsSeen(full), k) <= SumOf(Told(Listening, n, full), k)
  BY <1>5, <1>6, SeenBetween DEF BrokerInv
<1>9. DOMAIN leaf' = Leaves /\ leaf'["updateRate"] = leaf["updateRate"]
      /\ \A k \in BrokerCounters : leaf'[k] = values[k]
  BY <1>1, <1>4, AssignedIs
<1>10. ASSUME NEW k \in Summed PROVE leaf'[k] \in truth[k] .. truth'[k]
  <2>1. k \in BrokerCounters
    BY DEF Summed
  <2>2. PICK A \in Int, C \in Int, D \in Int, T \in Int :
           /\ A = SumOf(activeSessions, k) /\ C = SumOf(connections, k)
           /\ D = SumOf(disconnectedSessions, k) /\ T = totals[k]
    BY <2>1, SumsAreNumbers DEF BrokerInv, TotalsType, TotalOK
  <2>3. PICK S \in Int : S = SumOf(SessionsSeen(full), k)
    BY <1>8, SessionsHold, SumType
  <2>4. activeSessions' = Told(Listening, n, full)
    BY <1>1, <1>6 DEF Publish
  <2>5. PICK A2 \in Int : A2 = SumOf(activeSessions', k) /\ A2 = SumOf(activeSessions, k)'
    BY <1>7, SessionsHold, SumType DEF BrokerInv, Lists
  <2>6. truth[k] = T + C + A + D
    BY <2>1, <2>2 DEF BrokerInv, Balance
  <2>7. truth'[k] = T + C + A2 + D
    <3>1. truth'[k] = totals'[k] + SumOf(connections, k)'
                      + SumOf(activeSessions, k)' + SumOf(disconnectedSessions, k)'
      BY <1>7, <2>1 DEF BrokerInv, Balance
    <3>2. totals'[k] = T /\ SumOf(connections, k)' = C /\ SumOf(disconnectedSessions, k)' = D
      BY <1>1, <1>3, <2>1, <2>2
    <3> QED
      BY <2>5, <3>1, <3>2
  <2>8. leaf'[k] = T + (C + S + D)
    BY <1>2, <1>9, <2>1, <2>2, <2>3 DEF sum
  <2>9. A <= S /\ S <= A2
    BY <1>8, <2>1, <2>2, <2>3, <2>4, <2>5
  <2>10. T + C + A + D <= T + (C + S + D) /\ T + (C + S + D) <= T + C + A2 + D
    BY <2>9
  <2> QED
    BY <2>6, <2>7, <2>8, <2>10
<1> QED
  BY <1>1, <1>6, <1>7, <1>9, <1>10

-----------------------------------------------------------------------------
(* A pass of the main loop harvests from one holder at most, and from the  *)
(* data model only when the time has come.                                 *)
ManagerOK ==
    /\ manager \in [harvesting : BOOLEAN, position : Nat \ {0}, due : Int]
    /\ manager.harvesting => manager.position >= 2

LEMMA ServiceIs ==
    ASSUME ManagerOK, service
    PROVE  /\ ManagerOK'
           /\ \/ /\ UNCHANGED <<published, brokerVars, rateVars, harvested>>
                 /\ manager'.due = manager.due
              \/ /\ now >= manager.due
                 /\ manager'.due = manager.due + statsUpdateTimeIntervalMs
                 /\ \E full : HarvestDataModel(full)
              \/ /\ manager'.due = manager.due
                 /\ \E full : HarvestBroker(full) \/ HarvestDevice(full)
<1>0. statsUpdateTimeIntervalMs \in Int
  BY StatisticsAssumption
<1>1. PICK s : s = Started
  OBVIOUS
<1>2. /\ s \in [harvesting : BOOLEAN, position : Nat \ {0}, due : Int]
      /\ \/ Starts /\ s.position = 1 /\ s.due = manager.due + statsUpdateTimeIntervalMs
         \/ s = manager /\ (s.harvesting => s.position >= 2)
  BY <1>0, <1>1 DEF ManagerOK, Started
<1>3. CASE ~s.harvesting /\ UNCHANGED <<manager, published, brokerVars, rateVars, harvested>>
  BY <1>3 DEF ManagerOK
<1>4. CASE /\ s.harvesting /\ s.position <= Holders
           /\ manager' = [s EXCEPT !.position = @ + 1]
           /\ \E full \in SUBSET Listeners :
                CASE s.position = 1 -> HarvestDataModel(full)
                  [] s.position = 2 -> HarvestBroker(full)
                  [] s.position = 3 -> HarvestDevice(full)
  <2>1. ManagerOK' /\ manager'.due = s.due
    BY <1>2, <1>4 DEF ManagerOK
  <2>2. s.position = 1 \/ s.position = 2 \/ s.position = 3
    BY <1>2, <1>4 DEF Holders
  <2>3. CASE s.position = 1
    <3>1. Starts /\ s.due = manager.due + statsUpdateTimeIntervalMs
      BY <1>2, <1>4, <2>3
    <3>2. \E full : HarvestDataModel(full)
      BY <1>4, <2>3
    <3> QED
      BY <2>1, <3>1, <3>2 DEF Starts
  <2>4. CASE s.position = 2
    <3>1. s = manager
      BY <1>2, <2>4
    <3>2. \E full : HarvestBroker(full)
      BY <1>4, <2>4
    <3> QED
      BY <2>1, <3>1, <3>2
  <2>5. CASE s.position = 3
    <3>1. s = manager
      BY <1>2, <2>5
    <3>2. \E full : HarvestDevice(full)
      BY <1>4, <2>5
    <3> QED
      BY <2>1, <3>1, <3>2
  <2> QED
    BY <2>2, <2>3, <2>4, <2>5
<1>5. CASE /\ s.harvesting /\ s.position > Holders
           /\ manager' = [s EXCEPT !.harvesting = FALSE]
           /\ UNCHANGED <<published, brokerVars, rateVars, harvested>>
  <2>1. s = manager
    BY <1>2, <1>5 DEF Holders
  <2> QED
    BY <1>2, <1>5, <2>1 DEF ManagerOK
<1> QED
  BY <1>1, <1>3, <1>4, <1>5 DEF service

(* What is true of totals is true after every step.                        *)
TotalsInv ==
    /\ ManagerOK
    /\ BrokerInv
    /\ DOMAIN leaf = Leaves
    /\ harvested \in [BrokerCounters -> Int]
    /\ TotalsAreTrue

LEMMA ValuesKept ==
    ASSUME TotalsInv, BrokerInv', Quiet, UNCHANGED harvested,
           \A k \in BrokerCounters : truth[k] <= truth'[k]
    PROVE  TotalsAreTrue' /\ harvested' \in [BrokerCounters -> Int]
<1>1. \A k \in BrokerCounters : truth[k] \in Int /\ truth'[k] \in Int /\ harvested[k] \in Int
  BY DEF TotalsInv, BrokerInv, TruthType
<1>2. ASSUME NEW k \in BrokerCounters \ {"publishDropped"}, leaf'[k] # Unset
      PROVE  leaf'[k] \in harvested'[k] .. truth'[k]
  <2>1. leaf[k] \in harvested[k] .. truth[k]
    BY <1>2 DEF TotalsInv, TotalsAreTrue, Quiet
  <2>2. \A a, b, c \in Int : b <= c => \A x \in a .. b : x \in a .. c
    OBVIOUS
  <2>3. leaf[k] \in harvested[k] .. truth'[k]
    BY <1>1, <2>1, <2>2
  <2> QED
    BY <2>3 DEF Quiet
<1> QED
  BY <1>2 DEF TotalsAreTrue, TotalsInv

LEMMA TotalsAtStart == Init => TotalsInv
<1> SUFFICES ASSUME Init PROVE TotalsInv
  OBVIOUS
<1>1. ManagerOK
  BY StatisticsAssumption DEF Init, ManagerOK
<1>2. Lists /\ TotalsType /\ TruthType
  BY DEF Init, Lists, TotalsType, TotalOK, TruthType
<1>3. Balance
  BY SumOfNone DEF Init, Balance
<1>4. PairedHaveSessions /\ PairedOnce
  BY DEF Init, PairedHaveSessions, PairedOnce
<1>5. DOMAIN leaf = Leaves /\ harvested \in [BrokerCounters -> Int]
  BY DEF Init
<1>6. TotalsAreTrue
  BY DEF Init, TotalsAreTrue, Leaves
<1> QED
  BY <1>1, <1>2, <1>3, <1>4, <1>5, <1>6 DEF TotalsInv, BrokerInv

LEMMA TotalsHarvested ==
    ASSUME TotalsInv, NEW full, HarvestBroker(full), ManagerOK'
    PROVE  TotalsInv'
<1>1. /\ BrokerInv' /\ DOMAIN leaf' = Leaves
      /\ harvested' = [k \in BrokerCounters |-> truth[k]]
      /\ \A k \in Summed : leaf'[k] \in truth[k] .. truth'[k]
  BY BrokerKeeps DEF TotalsInv
<1>2. harvested' \in [BrokerCounters -> Int]
  BY <1>1 DEF TotalsInv, BrokerInv, TruthType
<1>3. TotalsAreTrue'
  BY <1>1 DEF TotalsAreTrue, Summed
<1> QED
  BY <1>1, <1>2, <1>3 DEF TotalsInv

LEMMA TotalsStep == TotalsInv /\ [Next]_vars => TotalsInv'
<1> SUFFICES ASSUME TotalsInv, [Next]_vars PROVE TotalsInv'
  OBVIOUS
<1>1. CASE UNCHANGED <<published, brokerVars, rateVars, harvested>> /\ ManagerOK'
  <2>1. UNCHANGED <<leaf, activeSessions, truth, connections, disconnectedSessions, totals, harvested>>
    BY <1>1 DEF published, brokerVars
  <2>2. BrokerInv'
    BY <2>1 DEF TotalsInv, BrokerInv, Lists, TotalsType, TruthType, Balance,
                PairedHaveSessions, PairedOnce, IsPaired
  <2> QED
    BY <1>1, <2>1, <2>2 DEF TotalsInv, TotalsAreTrue
<1>2. CASE Client
  <2>1. BrokerInv' /\ ClientStep
    BY <1>2, ClientKeeps DEF TotalsInv
  <2>2. UNCHANGED manager
    BY <1>2 DEF Client, newConnection, Refused, Accepted, Ping, PublishReceived, Subscribe,
                SessionMessage, Disconnect, Lost, Event
  <2>3. Quiet /\ UNCHANGED harvested /\ UNCHANGED leaf
    BY <2>1 DEF ClientStep, Quiet
  <2>4. TotalsAreTrue' /\ harvested' \in [BrokerCounters -> Int]
    BY <2>1, <2>3, ValuesKept DEF ClientStep
  <2> QED
    BY <2>1, <2>2, <2>3, <2>4 DEF TotalsInv, ManagerOK
<1>3. CASE Uptime
  <2>1. /\ BrokerInv' /\ UNCHANGED <<leaf, harvested>>
        /\ \A k \in BrokerCounters : truth[k] <= truth'[k]
    BY <1>3, UptimeKeeps DEF TotalsInv
  <2>2. UNCHANGED manager
    BY <1>3 DEF Uptime, Event
  <2>3. TotalsAreTrue' /\ harvested' \in [BrokerCounters -> Int]
    BY <2>1, ValuesKept DEF Quiet
  <2> QED
    BY <2>1, <2>2, <2>3 DEF TotalsInv, ManagerOK
<1>4. ASSUME NEW ms, Pass(ms) PROVE TotalsInv'
  <2>1. /\ ManagerOK'
        /\ \/ UNCHANGED <<published, brokerVars, rateVars, harvested>>
           \/ \E full : HarvestDataModel(full)
           \/ \E full : HarvestBroker(full) \/ HarvestDevice(full)
    BY <1>4, ServiceIs DEF Pass, TotalsInv
  <2>2. ASSUME NEW full, HarvestDataModel(full) PROVE TotalsInv'
    <3>1. /\ BrokerInv' /\ DOMAIN leaf' = Leaves /\ Quiet /\ UNCHANGED harvested
          /\ \A k \in BrokerCounters : truth[k] <= truth'[k]
      BY <2>2, DataModelKeeps DEF TotalsInv
    <3> QED
      BY <2>1, <3>1, ValuesKept DEF TotalsInv
  <2>3. ASSUME NEW full, HarvestBroker(full) PROVE TotalsInv'
    BY <2>1, <2>3, TotalsHarvested
  <2>4. ASSUME NEW full, HarvestDevice(full) PROVE TotalsInv'
    <3>1. /\ BrokerInv' /\ DOMAIN leaf' = Leaves /\ Quiet /\ UNCHANGED harvested
          /\ \A k \in BrokerCounters : truth[k] <= truth'[k]
      BY <2>4, DeviceKeeps DEF TotalsInv
    <3> QED
      BY <2>1, <3>1, ValuesKept DEF TotalsInv
  <2> QED
    BY <1>1, <2>1, <2>2, <2>3, <2>4
<1>5. CASE UNCHANGED vars
  <2>1. ManagerOK'
    BY <1>5 DEF vars, TotalsInv, ManagerOK
  <2> QED
    BY <1>1, <1>5, <2>1 DEF vars
<1> QED
  BY <1>2, <1>3, <1>4, <1>5 DEF Next, Client

(* What was received and sent is in the broker's totals once: whatever the *)
(* clients do while the holders are harvested, however many leaves change  *)
(* and whoever listens, a published total lies between what was true when  *)
(* the broker's harvest began and what is true now.  MQTTBroker.cpp:288.   *)
THEOREM Totals == Spec => []TotalsAreTrue
<1>1. TotalsInv => TotalsAreTrue
  BY DEF TotalsInv
<1> QED
  BY TotalsAtStart, TotalsStep, <1>1, PTL DEF Spec

-----------------------------------------------------------------------------
(* Clocks and counters that start again at 0.                              *)
LEMMA Remainder ==
    ASSUME NEW R \in Nat, R > 0, NEW x \in Int
    PROVE  /\ x % R \in 0 .. R - 1
           /\ x \div R \in Int
           /\ x = R * (x \div R) + (x % R)
BY SMT

LEMMA RemainderUnique ==
    ASSUME NEW R \in Nat, R > 0, NEW q \in Int, NEW r \in 0 .. R - 1
    PROVE  (R * q + r) % R = r
BY SMT

LEMMA Counted ==
    ASSUME NEW R \in Nat, R > 0, NEW x \in Int, NEW n \in Int
    PROVE  ((x % R) + n) % R = (x + n) % R
<1>1. PICK q \in Int, r \in 0 .. R - 1 : r = x % R /\ x = R * q + r
  BY Remainder
<1>2. PICK p \in Int, s \in 0 .. R - 1 : s = (r + n) % R /\ r + n = R * p + s
  <2>1. PICK z \in Int : z = r + n
    OBVIOUS
  <2>2. z % R \in 0 .. R - 1 /\ z \div R \in Int /\ z = R * (z \div R) + (z % R)
    BY Remainder
  <2> QED
    BY <2>1, <2>2
<1>3. x + n = R * (q + p) + s
  <2>1. R * (q + p) = R * q + R * p
    BY SMT
  <2>2. R * q \in Int /\ R * p \in Int
    BY SMT
  <2>3. \A a, b \in Int : x = a + r /\ r + n = b + s => x + n = (a + b) + s
    BY SMT
  <2> QED
    BY <1>1, <1>2, <2>1, <2>2, <2>3
<1>4. (R * (q + p) + s) % R = s
  <2>1. q + p \in Int
    OBVIOUS
  <2> QED
    BY <2>1, RemainderUnique
<1> QED
  BY <1>1, <1>2, <1>3, <1>4

(* Two readings that are less than a turn apart.                           *)
LEMMA Apart ==
    ASSUME NEW R \in Nat, R > 0, NEW y \in Int, NEW d \in 0 .. R - 1
    PROVE  LET a == (y + d) % R
               b == y % R
           IN  d = IF a < b THEN (R - 1) - b + 1 + a ELSE a - b
<1>1. PICK q \in Int, b \in 0 .. R - 1 : b = y % R /\ y = R * q + b
  BY Remainder
<1>2. CASE b + d < R
  <2>1. y + d = R * q + (b + d) /\ b + d \in 0 .. R - 1
    <3>1. R * q \in Int
      BY SMT
    <3>2. \A a \in Int : y = a + b => y + d = a + (b + d)
      OBVIOUS
    <3> QED
      BY <1>1, <1>2, <3>1, <3>2
  <2>2. (y + d) % R = b + d
    <3>1. (R * q + (b + d)) % R = b + d
      BY <2>1, RemainderUnique
    <3> QED
      BY <2>1, <3>1
  <2> QED
    BY <1>1, <1>2, <2>2
<1>3. CASE ~(b + d < R)
  <2>1. y + d = R * (q + 1) + (b + d - R) /\ b + d - R \in 0 .. R - 1
    <3>1. R * (q + 1) = R * q + R /\ R * q \in Int
      BY SMT
    <3>2. \A a \in Int : y = a + b => y + d = (a + R) + (b + d - R)
      OBVIOUS
    <3> QED
      BY <1>1, <1>3, <3>1, <3>2
  <2>2. (y + d) % R = b + d - R
    <3>1. q + 1 \in Int
      OBVIOUS
    <3>2. (R * (q + 1) + (b + d - R)) % R = b + d - R
      BY <2>1, <3>1, RemainderUnique
    <3> QED
      BY <2>1, <3>2
  <2> QED
    BY <1>1, <1>3, <2>2
<1> QED
  BY <1>2, <1>3

LEMMA Passed ==
    ASSUME NEW R \in Nat, R > 0, NEW y \in Int, NEW d \in 0 .. R - 1
    PROVE  (((y + d) % R) - (y % R)) % R = d
<1>1. PICK a \in Int, b \in Int : a = (y + d) % R /\ b = y % R
  BY Remainder
<1>2. d = IF a < b THEN (R - 1) - b + 1 + a ELSE a - b
  BY <1>1, Apart
<1>3. CASE a < b
  <2>1. a - b = R * (-1) + d
    BY <1>2, <1>3
  <2>2. (R * (-1) + d) % R = d
    BY RemainderUnique
  <2> QED
    BY <1>1, <2>1, <2>2
<1>4. CASE ~(a < b)
  <2>1. a - b = R * 0 + d
    BY <1>2, <1>4
  <2>2. (R * 0 + d) % R = d
    BY RemainderUnique
  <2> QED
    BY <1>1, <2>1, <2>2
<1> QED
  BY <1>3, <1>4

(* StatCounter::update, for a count that has grown by less than a turn.    *)
LEMMA IntervalIs ==
    ASSUME NEW y \in Int, NEW n \in Nat, n * msInSecond < Word
    PROVE  (CountInInterval((y + n) % Word, y % Word) * msInSecond) % Word = n * msInSecond
<1>1. PICK W \in Nat, s \in Nat : W = Word /\ s = msInSecond /\ W > 0 /\ s > 0
  BY StatisticsAssumption
<1>2. n <= n * s /\ n * s \in Nat
  <2>1. PICK p \in Nat : s = p + 1
    <3>1. s - 1 \in Nat /\ s = (s - 1) + 1
      BY <1>1
    <3> QED
      BY <3>1
  <2>2. n * (p + 1) = n * p + n /\ n * p \in Nat
    BY SMT
  <2> QED
    BY <2>1, <2>2
<1>3. n \in 0 .. W - 1 /\ n * s \in 0 .. W - 1
  BY <1>1, <1>2
<1>4. CountInInterval((y + n) % W, y % W) = n
  BY <1>1, <1>3, Apart DEF CountInInterval
<1>5. (n * s) % W = n * s
  <2>1. PICK m \in 0 .. W - 1 : m = n * s
    BY <1>3
  <2>2. (W * 0 + m) % W = m /\ W * 0 + m = m
    BY <1>1, RemainderUnique
  <2> QED
    BY <2>1, <2>2
<1> QED
  BY <1>1, <1>4, <1>5

(* What the data model's next reading will be compared with: the counter   *)
(* holds what was last read and what that reading's own leaf added, and the *)
(* end of the timer tells how late the last reading was.                   *)
RateTypes ==
    /\ now \in Int
    /\ updates \in [count : Int, lastInterval : Int]
    /\ reading \in [updates : Int, own : Int, time : Int, overdue : Int]
    /\ rate \in [updates : Int, own : Int, elapsed : Int, overdue : Int]

ReadingOK ==
    /\ reading.overdue = reading.time - (manager.due - statsUpdateTimeIntervalMs)
    /\ lastHarvestTime = reading.time % ClockWord
    /\ updates.count = truth["updates"] % Word
    /\ updates.lastInterval = (reading.updates + reading.own) % Word
    /\ reading.updates + reading.own <= truth["updates"]

RatesInv == TotalsInv /\ RateTypes /\ ReadingOK /\ RatesAreTrue

LEMMA RatesAtStart == Init => RatesInv
<1> SUFFICES ASSUME Init PROVE RatesInv
  OBVIOUS
<1>1. PICK W \in Nat, C \in Nat, t \in Nat :
         W = Word /\ C = ClockWord /\ t = statsUpdateTimeIntervalMs /\ W > 0 /\ C > 0
  BY StatisticsAssumption
<1>2. 0 % W = 0 /\ 0 % C = 0
  BY <1>1
<1>3. RateTypes
  BY DEF Init, RateTypes
<1>4. ReadingOK
  <2>1. truth["updates"] = 0
    BY DEF Init
  <2>2. manager.due = t /\ t - t = 0
    BY <1>1 DEF Init
  <2> QED
    BY <1>1, <1>2, <2>1, <2>2 DEF Init, ReadingOK
<1>5. RatesAreTrue
  BY DEF Init, RatesAreTrue, Leaves
<1> QED
  BY <1>3, <1>4, <1>5, TotalsAtStart DEF RatesInv

(* The counter counts what is published.                                   *)
LEMMA ReadingKept ==
    ASSUME RatesInv, TotalsInv', NEW n \in Nat, truth'["updates"] = truth["updates"] + n,
           updates' = [updates EXCEPT !.count = (@ + n) % Word],
           now' \in Int, manager'.due = manager.due, UNCHANGED rateVars,
           leaf'["updateRate"] = leaf["updateRate"]
    PROVE  RatesInv'
<1>1. PICK T \in Int, c \in Int : T = truth["updates"] /\ c = updates.count /\ c = T % Word
  BY DEF RatesInv, RateTypes, ReadingOK, TotalsInv, BrokerInv, TruthType
<1>2. (c + n) % Word = (T + n) % Word /\ (c + n) % Word \in Int
  <2>1. PICK W \in Nat : W = Word /\ W > 0
    BY StatisticsAssumption
  <2>2. n \in Int
    OBVIOUS
  <2>3. ((T % W) + n) % W = (T + n) % W
    BY <2>1, <2>2, Counted
  <2>4. (T + n) % W \in Int
    BY <2>1
  <2> QED
    BY <1>1, <2>1, <2>3, <2>4
<1>3. /\ updates' \in [count : Int, lastInterval : Int]
      /\ updates'.count = (T + n) % Word /\ updates'.lastInterval = updates.lastInterval
  BY <1>1, <1>2 DEF RatesInv, RateTypes
<1>4. UNCHANGED <<lastHarvestTime, reading, rate>>
  BY DEF rateVars
<1>5. RateTypes'
  BY <1>3, <1>4 DEF RatesInv, RateTypes
<1>6. ReadingOK'
  <2>1. reading'.updates + reading'.own <= truth'["updates"]
    <3>1. PICK x \in Int : x = reading.updates + reading.own /\ x <= T
      BY <1>1 DEF RatesInv, RateTypes, ReadingOK
    <3>2. x <= T + n
      BY <3>1
    <3> QED
      BY <1>1, <1>4, <3>1, <3>2
  <2> QED
    BY <1>1, <1>3, <1>4, <2>1 DEF RatesInv, ReadingOK
<1>7. RatesAreTrue'
  BY <1>4 DEF RatesInv, RatesAreTrue
<1> QED
  BY <1>5, <1>6, <1>7 DEF RatesInv

LEMMA RateHarvested ==
    ASSUME RatesInv, TotalsInv', NEW full, HarvestDataModel(full), now' \in Int,
           now >= manager.due, manager'.due = manager.due + statsUpdateTimeIntervalMs
    PROVE  RatesInv'
<1> DEFINE millis == now % ClockWord
           elapsed == (millis - lastHarvestTime) % ClockWord
           before == NumberChanged(leaf, BeforeRate)
           count == (updates.count + before) % Word
           product == (CountInInterval(count, updates.lastInterval) * msInSecond) % Word
           rateNow == IF elapsed = 0 THEN 0 ELSE product \div elapsed
           all == before + IF rateNow = leaf["updateRate"] THEN 0 ELSE 1
           kept == (updates.count + all) % Word
<1>1. /\ leaf' = [Assigned(BeforeRate) EXCEPT !["updateRate"] = rateNow]
      /\ Publish(all, full)
      /\ updates' = [count |-> kept, lastInterval |-> kept]
      /\ lastHarvestTime' = millis
      /\ rate' = [updates |-> truth["updates"] + before - reading.updates,
                  own |-> reading.own,
                  elapsed |-> now - reading.time, overdue |-> reading.overdue]
      /\ reading' = [updates |-> truth["updates"] + before, own |-> all - before, time |-> now,
                     overdue |-> now - (manager'.due - statsUpdateTimeIntervalMs)]
      /\ UNCHANGED <<connections, disconnectedSessions, totals>>
  BY DEF HarvestDataModel, brokerVars
<1>2. PICK b \in Nat : b = before
  <2>1. DOMAIN BeforeRate \subseteq Leaves
    BY DEF BeforeRate, Leaves
  <2> QED
    BY <2>1, ChangesAreNumbers
<1> HIDE DEF before, rateNow
<1>3. PICK o \in 0 .. 1 : o = (IF rateNow = leaf["updateRate"] THEN 0 ELSE 1) /\ all = b + o
  BY <1>2
<1> HIDE DEF all
<1>4. PICK a \in Nat : a = all /\ a = b + o
  BY <1>3
<1>5. truth'["updates"] = truth["updates"] + a
  <2>1. TotalsType' /\ \A k \in BrokerCounters : totals'[k] = totals[k]
    BY <1>1 DEF RatesInv, TotalsInv, BrokerInv, TotalsType
  <2> QED
    BY <1>1, <1>4, <2>1, PublishKeeps DEF RatesInv, TotalsInv
<1>6. PICK T \in Int, c \in Int : T = truth["updates"] /\ c = updates.count /\ c = T % Word
  BY DEF RatesInv, RateTypes, ReadingOK, TotalsInv, BrokerInv, TruthType
<1>7. PICK W \in Nat, C \in Nat, s \in Nat, t \in Nat :
         /\ W = Word /\ C = ClockWord /\ s = msInSecond /\ t = statsUpdateTimeIntervalMs
         /\ W > 0 /\ C > 0 /\ s > 0
  BY StatisticsAssumption
<1>8. ASSUME NEW n \in Int PROVE (c + n) % W = (T + n) % W
  <2>1. ((T % W) + n) % W = (T + n) % W
    BY <1>7, Counted
  <2> QED
    BY <1>6, <1>7, <2>1
<1>9. PICK u \in Int, v \in Int, y \in Int, m \in Int, d \in Int :
         /\ u = reading.updates /\ v = reading.own /\ y = reading.time
         /\ m = now /\ d = manager.due
  BY DEF RatesInv, RateTypes, TotalsInv, ManagerOK
<1>10. u + v <= T /\ updates.lastInterval = (u + v) % W /\ lastHarvestTime = y % C
       /\ reading.overdue = y - (d - t)
  BY <1>6, <1>7, <1>9 DEF RatesInv, ReadingOK
<1>11. kept = (T + a) % W /\ kept \in Int
  <2>1. a \in Int /\ T + a \in Int
    OBVIOUS
  <2>2. (c + a) % W = (T + a) % W /\ (T + a) % W \in Int
    BY <1>7, <1>8, <2>1
  <2> QED
    BY <1>4, <1>6, <1>7, <2>2
<1>12. /\ reading' = [updates |-> T + b, own |-> a - b, time |-> m, overdue |-> m - d]
       /\ rate' = [updates |-> T + b - u, own |-> v, elapsed |-> m - y, overdue |-> y - (d - t)]
  <2>1. (d + t) - t = d
    OBVIOUS
  <2> QED
    BY <1>1, <1>2, <1>4, <1>6, <1>7, <1>9, <1>10, <2>1
<1> HIDE DEF kept
<1>13. RateTypes'
  BY <1>1, <1>11, <1>12 DEF RateTypes
<1>14. ReadingOK'
  <2>1. reading'.overdue = reading'.time - (manager'.due - statsUpdateTimeIntervalMs)
    <3>1. m - d = m - ((d + t) - t)
      OBVIOUS
    <3> QED
      BY <1>7, <1>9, <1>12, <3>1
  <2>2. reading'.updates + reading'.own = T + a
    BY <1>12
  <2>3. truth'["updates"] = T + a
    BY <1>5, <1>6
  <2>4. lastHarvestTime' = reading'.time % ClockWord
    BY <1>1, <1>9, <1>12
  <2>5. updates'.count = kept /\ updates'.lastInterval = kept
    BY <1>1
  <2> QED
    BY <1>7, <1>11, <2>1, <2>2, <2>3, <2>4, <2>5 DEF ReadingOK
<1>15. rate'.elapsed = 0 => rate'.overdue >= statsUpdateTimeIntervalMs
  <2>1. m >= d
    BY <1>9
  <2>2. m - y = 0 => y - (d - t) >= t
    BY <2>1
  <2> QED
    BY <1>7, <1>12, <2>2
<1>16. PICK n \in Nat : n = (T + b) - (u + v)
  <2>1. (T + b) - (u + v) \in Nat
    BY <1>10
  <2> QED
    BY <2>1
<1>17. rate'.updates - rate'.own = n
  BY <1>12, <1>16
<1>18. ASSUME rate'.elapsed \in 1 .. ClockWord - 1, n * msInSecond < Word
       PROVE  leaf'["updateRate"] = (n * msInSecond) \div rate'.elapsed
  <2>1. PICK e \in 1 .. C - 1 : e = rate'.elapsed /\ e = m - y /\ y + e = m
    <3>1. m - y \in 1 .. C - 1 /\ y + (m - y) = m /\ rate'.elapsed = m - y
      BY <1>7, <1>12, <1>18
    <3> QED
      BY <3>1
  <2>2. elapsed = e /\ e # 0
    <3>1. e \in 0 .. C - 1
      OBVIOUS
    <3>2. (((y + e) % C) - (y % C)) % C = e
      BY <1>7, <3>1, Passed
    <3> QED
      BY <1>7, <1>9, <1>10, <2>1, <3>2
  <2>3. product = n * msInSecond
    <3>1. count = (T + b) % W
      <4>1. b \in Int
        OBVIOUS
      <4> QED
        BY <1>2, <1>6, <1>7, <1>8, <4>1
    <3>2. PICK x \in Int : x = u + v
      OBVIOUS
    <3>3. T + b = x + n
      BY <1>16, <3>2
    <3>4. (CountInInterval((x + n) % Word, x % Word) * msInSecond) % Word = n * msInSecond
      BY <1>18, IntervalIs
    <3> QED
      BY <1>7, <1>10, <3>1, <3>2, <3>3, <3>4
  <2> HIDE DEF product, elapsed
  <2>4. rateNow = (n * msInSecond) \div e
    BY <2>2, <2>3 DEF rateNow
  <2>5. leaf'["updateRate"] = rateNow
    <3>1. "updateRate" \in DOMAIN Assigned(BeforeRate)
      BY AssignedIs DEF RatesInv, TotalsInv, Leaves
    <3> QED
      BY <1>1, <3>1
  <2> QED
    BY <2>1, <2>4, <2>5
<1>19. RatesAreTrue'
  BY <1>15, <1>17, <1>18 DEF RatesAreTrue
<1> QED
  BY <1>13, <1>14, <1>19 DEF RatesInv

LEMMA RatesStep == RatesInv /\ [Next]_vars => RatesInv'
<1> SUFFICES ASSUME RatesInv, [Next]_vars PROVE RatesInv'
  OBVIOUS
<1>1. TotalsInv'
  BY TotalsStep DEF RatesInv
<1>2. ASSUME UNCHANGED rateVars, UNCHANGED updates, truth'["updates"] = truth["updates"],
             manager'.due = manager.due, leaf'["updateRate"] = leaf["updateRate"], now' \in Int
      PROVE  RatesInv'
  <2>1. UNCHANGED <<lastHarvestTime, reading, rate>>
    BY <1>2 DEF rateVars
  <2>2. RateTypes' /\ ReadingOK'
    BY <1>2, <2>1 DEF RatesInv, RateTypes, ReadingOK
  <2>3. RatesAreTrue'
    BY <1>2, <2>1 DEF RatesInv, RatesAreTrue
  <2> QED
    BY <1>1, <2>2, <2>3 DEF RatesInv
<1>3. CASE Client
  <2>1. ClientStep
    BY <1>3, ClientKeeps DEF RatesInv, TotalsInv
  <2>2. UNCHANGED <<now, manager, rateVars>>
    BY <1>3 DEF Client, newConnection, Refused, Accepted, Ping, PublishReceived, Subscribe,
                SessionMessage, Disconnect, Lost, Event
  <2>3. now' \in Int
    BY <2>2 DEF RatesInv, RateTypes
  <2> QED
    BY <1>2, <2>1, <2>2, <2>3 DEF ClientStep
<1>4. CASE Uptime
  <2>1. truth'["updates"] = truth["updates"] + 1 /\ UNCHANGED leaf
    BY <1>4, UptimeKeeps DEF RatesInv, TotalsInv
  <2>2. UNCHANGED <<now, manager, rateVars>> /\ updates' = [updates EXCEPT !.count = (@ + 1) % Word]
    BY <1>4 DEF Uptime, Event
  <2>3. now' \in Int
    BY <2>2 DEF RatesInv, RateTypes
  <2>4. PICK n \in Nat : n = 1
    OBVIOUS
  <2> QED
    BY <1>1, <2>1, <2>2, <2>3, <2>4, ReadingKept
<1>5. ASSUME NEW ms \in Passes, Pass(ms) PROVE RatesInv'
  <2>1. now' \in Int
    BY <1>5, StatisticsAssumption DEF Pass, RatesInv, RateTypes
  <2>2. /\ ManagerOK'
        /\ \/ /\ UNCHANGED <<published, brokerVars, rateVars, harvested>>
              /\ manager'.due = manager.due
           \/ /\ now >= manager.due
              /\ manager'.due = manager.due + statsUpdateTimeIntervalMs
              /\ \E full : HarvestDataModel(full)
           \/ /\ manager'.due = manager.due
              /\ \E full : HarvestBroker(full) \/ HarvestDevice(full)
    BY <1>5, ServiceIs DEF Pass, RatesInv, TotalsInv
  <2>3. CASE /\ UNCHANGED <<published, brokerVars, rateVars, harvested>>
             /\ manager'.due = manager.due
    BY <1>2, <2>1, <2>3 DEF published
  <2>4. ASSUME NEW full, HarvestDataModel(full), now >= manager.due,
               manager'.due = manager.due + statsUpdateTimeIntervalMs
        PROVE  RatesInv'
    BY <1>1, <2>1, <2>4, RateHarvested
  <2>5. ASSUME NEW full, HarvestBroker(full), manager'.due = manager.due PROVE RatesInv'
    <3>1. /\ leaf'["updateRate"] = leaf["updateRate"] /\ UNCHANGED rateVars
          /\ \E n \in Nat : /\ truth'["updates"] = truth["updates"] + n
                            /\ updates' = [updates EXCEPT !.count = (@ + n) % Word]
      BY <2>5, BrokerKeeps DEF RatesInv, TotalsInv
    <3> QED
      BY <1>1, <2>1, <2>5, <3>1, ReadingKept
  <2>6. ASSUME NEW full, HarvestDevice(full), manager'.due = manager.due PROVE RatesInv'
    <3>1. /\ leaf'["updateRate"] = leaf["updateRate"] /\ UNCHANGED rateVars
          /\ \E n \in Nat : /\ truth'["updates"] = truth["updates"] + n
                            /\ updates' = [updates EXCEPT !.count = (@ + n) % Word]
      BY <2>6, DeviceKeeps DEF RatesInv, TotalsInv
    <3> QED
      BY <1>1, <2>1, <2>6, <3>1, ReadingKept
  <2> QED
    BY <2>2, <2>3, <2>4, <2>5, <2>6
<1>6. CASE UNCHANGED vars
  <2>1. UNCHANGED <<now, manager, leaf, updates, truth, rateVars>>
    BY <1>6 DEF vars, published
  <2>2. now' \in Int
    BY <2>1 DEF RatesInv, RateTypes
  <2> QED
    BY <1>2, <2>1, <2>2
<1> QED
  BY <1>3, <1>4, <1>5, <1>6 DEF Next, Client

(* A published rate is that of all the updates since the one before, though *)
(* the harvest counts its own, the counter and the clock start again at 0  *)
(* and harvests come late; and only a harvest that came a whole interval   *)
(* late can divide by zero.  StatCounter.cpp:46, StatsHolder.cpp:28.       *)
THEOREM Rates == Spec => []RatesAreTrue
<1>1. RatesInv => RatesAreTrue
  BY DEF RatesInv
<1> QED
  BY RatesAtStart, RatesStep, <1>1, PTL DEF Spec
=============================================================================
