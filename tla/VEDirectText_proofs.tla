------------------------- MODULE VEDirectText_proofs -------------------------
(***************************************************************************)
(* What VEDirectText promises, for blocks of any number of fields, labels, *)
(* values and hex messages of any length.                                  *)
(***************************************************************************)
EXTENDS VEDirectText, FiniteSets, SequenceTheorems, FiniteSetTheorems, TLAPS

-----------------------------------------------------------------------------
(* Induction, for a set of numbers in the place of a predicate: were k not *)
(* in T, the numbers of T up to k would be as many as those but 0.         *)
LEMMA Induction ==
    ASSUME NEW T, 0 \in T, \A n \in Nat : n \in T => n + 1 \in T
    PROVE  Nat \subseteq T
<1>1. ASSUME NEW k \in Nat, k \notin T PROVE FALSE
  <2> DEFINE S == {n \in 0 .. k : n \in T}
             f == [n \in S |-> n + 1]
  <2>1. IsFiniteSet(S)
    <3>1. IsFiniteSet(0 .. k) /\ S \subseteq 0 .. k
      BY FS_Interval
    <3> QED
      BY <3>1, FS_Subset
  <2>2. /\ IsFiniteSet(S \ {0})
        /\ Cardinality(S \ {0}) = Cardinality(S) - 1
    <3>1. 0 \in S
      OBVIOUS
    <3> QED
      BY <2>1, <3>1, FS_RemoveElement
  <2>3. Cardinality(S) \in Nat
    BY <2>1, FS_CardinalityType
  <2>4. f \in [S -> S \ {0}]
    <3>1. ASSUME NEW n \in S PROVE n + 1 \in S \ {0}
      BY <1>1
    <3> QED
      BY <3>1
  <2>5. \E x, y \in S : x # y /\ f[x] = f[y]
    <3>1. Cardinality(S \ {0}) < Cardinality(S)
      BY <2>2, <2>3
    <3> HIDE DEF S, f
    <3> QED
      BY <2>1, <2>2, <2>4, <3>1, FS_PigeonHole
  <2> QED
    BY <2>5
<1> QED
  BY <1>1

(* A recursion up to n, its step given by a function.                      *)
Steps(n, S) == [(1 .. n) \X S -> S]

Follows(f, n, S, a, G) ==
    f \in [0 .. n -> S] /\ f[0] = a /\ \A i \in 1 .. n : f[i] = G[<<i, f[i - 1]>>]

LEMMA Recursion ==
    ASSUME NEW n \in Nat, NEW S, NEW a \in S, NEW G \in Steps(n, S)
    PROVE  \E f : Follows(f, n, S, a, G)
<1> USE DEF Steps
<1> DEFINE Upto(k, f) ==
               f \in [0 .. k -> S] /\ f[0] = a /\ \A i \in 1 .. k : f[i] = G[<<i, f[i - 1]>>]
           T == {k \in Nat : k <= n => \E f : Upto(k, f)}
<1>1. 0 \in T
  <2>1. Upto(0, [i \in 0 .. 0 |-> a])
    OBVIOUS
  <2> QED
    BY <2>1
<1>2. ASSUME NEW k \in Nat, k \in T PROVE k + 1 \in T
  <2> SUFFICES ASSUME k + 1 <= n PROVE \E f : Upto(k + 1, f)
    OBVIOUS
  <2>1. PICK f : Upto(k, f)
    BY <1>2
  <2> DEFINE g == [i \in 0 .. k + 1 |-> IF i = k + 1 THEN G[<<k + 1, f[k]>>] ELSE f[i]]
  <2>2. f[k] \in S /\ k + 1 \in 1 .. n
    BY <2>1
  <2>3. G[<<k + 1, f[k]>>] \in S
    BY <2>2
  <2>4. g \in [0 .. k + 1 -> S]
    BY <2>1, <2>3
  <2>5. g[0] = a
    BY <2>1
  <2>6. ASSUME NEW i \in 1 .. k + 1 PROVE g[i] = G[<<i, g[i - 1]>>]
    <3>1. i - 1 \in 0 .. k /\ g[i - 1] = f[i - 1]
      OBVIOUS
    <3>2. CASE i = k + 1
      BY <3>1, <3>2
    <3>3. CASE i # k + 1
      <4>1. i \in 1 .. k /\ g[i] = f[i]
        BY <3>3
      <4> QED
        BY <2>1, <3>1, <4>1
    <3> QED
      BY <3>2, <3>3
  <2>7. Upto(k + 1, g)
    BY <2>4, <2>5, <2>6
  <2> QED
    BY <2>7
<1>3. n \in T
  <2> HIDE DEF T
  <2> QED
    BY <1>1, <1>2, Induction
<1>4. PICK f : Upto(n, f)
  BY <1>3
<1> QED
  BY <1>4 DEF Follows

-----------------------------------------------------------------------------
(* Sums, one byte after the other.                                         *)
SumsTo(s, f) ==
    /\ f \in [0 .. Len(s) -> Byte]
    /\ f[0] = 0
    /\ \A i \in 1 .. Len(s) : f[i] = (f[i - 1] + s[i]) % 256

LEMMA Mod256 == ASSUME NEW n \in Int PROVE n % 256 \in Byte /\ (n \in Byte => n % 256 = n)
BY SMT DEF Byte

LEMMA ByteInt == \A x \in Byte : x \in Int
BY DEF Byte

LEMMA SumsExist == ASSUME NEW s \in Seq(Byte) PROVE \E f : SumsTo(s, f)
<1> DEFINE n == Len(s)
           G == [x \in (1 .. n) \X Byte |-> (x[2] + s[x[1]]) % 256]
<1>1. n \in Nat /\ 0 \in Byte
  BY DEF Byte
<1>2. G \in Steps(n, Byte)
  <2>1. ASSUME NEW i \in 1 .. n, NEW y \in Byte PROVE (y + s[i]) % 256 \in Byte
    <3>1. s[i] \in Byte
      OBVIOUS
    <3>2. y + s[i] \in Int
      BY <3>1, ByteInt
    <3> QED
      BY <3>2, Mod256
  <2> QED
    BY <2>1 DEF Steps
<1>3. PICK f : Follows(f, n, Byte, 0, G)
  <2> HIDE DEF G, n
  <2> QED
    BY <1>1, <1>2, Recursion
<1>4. ASSUME NEW i \in 1 .. n PROVE f[i] = (f[i - 1] + s[i]) % 256
  <2>1. i - 1 \in 0 .. n
    BY <1>1
  <2>2. <<i, f[i - 1]>> \in (1 .. n) \X Byte
    BY <1>3, <2>1 DEF Follows
  <2> QED
    BY <1>3, <2>2 DEF Follows
<1> QED
  BY <1>3, <1>4 DEF SumsTo, Follows

LEMMA SumIs == ASSUME NEW s \in Seq(Byte), NEW f, SumsTo(s, f) PROVE SumOf(s) = f[Len(s)]
<1> DEFINE n == Len(s)
           Is(g) == g = [i \in 0 .. n |-> IF i = 0 THEN 0 ELSE (g[i - 1] + s[i]) % 256]
           sum == CHOOSE g : Is(g)
<1>1. n \in Nat
  OBVIOUS
<1>2. Is(f)
  BY <1>1 DEF SumsTo
<1>3. Is(sum)
  BY <1>2
<1>4. SumOf(s) = sum[n]
  BY DEF SumOf
<1> DEFINE T == {k \in Nat : k <= n => sum[k] = f[k]}
<1> HIDE DEF sum
<1>5. 0 \in T
  BY <1>1, <1>3 DEF SumsTo
<1>6. ASSUME NEW k \in Nat, k \in T PROVE k + 1 \in T
  <2> SUFFICES ASSUME k + 1 <= n PROVE sum[k + 1] = f[k + 1]
    OBVIOUS
  <2>1. k + 1 \in 0 .. n /\ k + 1 # 0 /\ (k + 1) - 1 = k /\ k + 1 \in 1 .. n
    BY <1>1
  <2>2. sum[k] = f[k]
    BY <1>6, <1>1
  <2>3. sum[k + 1] = (sum[k] + s[k + 1]) % 256
    BY <1>3, <2>1
  <2>4. f[k + 1] = (f[k] + s[k + 1]) % 256
    BY <2>1 DEF SumsTo
  <2> QED
    BY <2>2, <2>3, <2>4
<1>7. n \in T
  <2> HIDE DEF T, n
  <2> QED
    BY <1>1, <1>5, <1>6, Induction
<1> QED
  BY <1>1, <1>4, <1>7

LEMMA SumType == ASSUME NEW s \in Seq(Byte) PROVE SumOf(s) \in Byte
<1>1. PICK f : SumsTo(s, f)
  BY SumsExist
<1>2. SumOf(s) = f[Len(s)] /\ Len(s) \in 0 .. Len(s)
  BY <1>1, SumIs
<1> QED
  BY <1>1, <1>2 DEF SumsTo

(* The sums of a sequence go on in what is appended to it.                 *)
LEMMA SumOfAppend ==
    ASSUME NEW s \in Seq(Byte), NEW x \in Byte
    PROVE  SumOf(Append(s, x)) = (SumOf(s) + x) % 256
<1> DEFINE n == Len(s)
           t == Append(s, x)
<1>0. n \in Nat /\ t \in Seq(Byte) /\ Len(t) = n + 1 /\ t[n + 1] = x
      /\ \A i \in 1 .. n : t[i] = s[i]
  BY AppendProperties
<1>1. PICK f : SumsTo(s, f)
  BY SumsExist
<1> DEFINE y == (f[n] + x) % 256
           g == [i \in 0 .. n + 1 |-> IF i = n + 1 THEN y ELSE f[i]]
<1>2. f \in [0 .. n -> Byte] /\ f[n] \in Byte
  BY <1>0, <1>1 DEF SumsTo
<1>3. y \in Byte
  <2>1. f[n] + x \in Int
    BY <1>2, ByteInt
  <2> QED
    BY <2>1, Mod256
<1>4. g \in [0 .. n + 1 -> Byte] /\ g[0] = 0
  <2>1. f[0] = 0
    BY <1>1 DEF SumsTo
  <2> HIDE DEF y
  <2> QED
    BY <1>0, <1>2, <1>3, <2>1
<1>5. ASSUME NEW i \in 1 .. n + 1 PROVE g[i] = (g[i - 1] + t[i]) % 256
  <2>1. g[i - 1] = f[i - 1]
    BY <1>0
  <2>2. CASE i = n + 1
    <3>1. i - 1 = n /\ t[i] = x /\ g[i] = y
      BY <1>0, <2>2
    <3> QED
      BY <2>1, <3>1
  <2>3. CASE i # n + 1
    <3>1. i \in 1 .. n /\ g[i] = f[i]
      BY <1>0, <2>3
    <3>2. t[i] = s[i]
      BY <1>0, <3>1
    <3>3. f[i] = (f[i - 1] + s[i]) % 256
      BY <1>1, <3>1 DEF SumsTo
    <3> QED
      BY <2>1, <3>1, <3>2, <3>3
  <2> QED
    BY <2>2, <2>3
<1>6. SumsTo(t, g)
  <2> HIDE DEF t, g
  <2> QED
    BY <1>0, <1>4, <1>5 DEF SumsTo
<1>7. SumOf(t) = g[n + 1] /\ SumOf(s) = f[n]
  <2> HIDE DEF t, g
  <2> QED
    BY <1>0, <1>1, <1>6, SumIs
<1>8. g[n + 1] = y
  BY <1>0
<1> QED
  BY <1>7, <1>8

-----------------------------------------------------------------------------
(* What comes of sequences put one behind the other.                       *)
Joined(ss, f) ==
    /\ f \in [0 .. Len(ss) -> Seq(Byte)]
    /\ f[0] = <<>>
    /\ \A i \in 1 .. Len(ss) : f[i] = f[i - 1] \o ss[i]

LEMMA JoinedExist == ASSUME NEW ss \in Seq(Seq(Byte)) PROVE \E f : Joined(ss, f)
<1> DEFINE n == Len(ss)
           S == Seq(Byte)
           G == [x \in (1 .. n) \X S |-> x[2] \o ss[x[1]]]
<1>1. n \in Nat /\ <<>> \in S
  BY EmptySeq
<1>2. G \in Steps(n, S)
  <2>1. ASSUME NEW i \in 1 .. n, NEW y \in S PROVE y \o ss[i] \in S
    BY ConcatProperties
  <2> QED
    BY <2>1 DEF Steps
<1>3. PICK f : Follows(f, n, S, <<>>, G)
  <2> HIDE DEF G, n, S
  <2> QED
    BY <1>1, <1>2, Recursion
<1>4. ASSUME NEW i \in 1 .. n PROVE f[i] = f[i - 1] \o ss[i]
  <2>1. i - 1 \in 0 .. n
    BY <1>1
  <2>2. <<i, f[i - 1]>> \in (1 .. n) \X S
    BY <1>3, <2>1 DEF Follows
  <2> QED
    BY <1>3, <2>2 DEF Follows
<1> QED
  BY <1>3, <1>4 DEF Joined, Follows

LEMMA JoinedIs ==
    ASSUME NEW ss \in Seq(Seq(Byte)), Len(ss) # 0, NEW f, Joined(ss, f)
    PROVE  FlattenSeq(ss) = f[Len(ss)]
<1> DEFINE n == Len(ss)
           Is(g) == g = [i \in 1 .. n |-> IF i = 1 THEN ss[i] ELSE g[i - 1] \o ss[i]]
           flatten == CHOOSE g : Is(g)
           h == [i \in 1 .. n |-> f[i]]
<1>1. n \in Nat /\ n >= 1
  OBVIOUS
<1>2. f[1] = ss[1]
  <2>0. 1 \in 1 .. Len(ss) /\ 1 - 1 = 0
    BY <1>1
  <2>1. f[1] = f[0] \o ss[1] /\ ss[1] \in Seq(Byte)
    BY <2>0 DEF Joined
  <2>2. <<>> \o ss[1] = ss[1]
    BY <2>1, ConcatEmptySeq
  <2> QED
    BY <2>1, <2>2 DEF Joined
<1>3. Is(h)
  <2>1. ASSUME NEW i \in 1 .. n
        PROVE  h[i] = IF i = 1 THEN ss[i] ELSE h[i - 1] \o ss[i]
    <3>1. CASE i = 1
      BY <1>2, <3>1
    <3>2. CASE i # 1
      <4>1. i - 1 \in 1 .. n
        BY <1>1, <3>2
      <4> QED
        BY <3>2, <4>1 DEF Joined
    <3> QED
      BY <3>1, <3>2
  <2> QED
    BY <2>1
<1>4. Is(flatten)
  <2> HIDE DEF h
  <2> QED
    BY <1>3
<1>5. FlattenSeq(ss) = flatten[n]
  BY <1>1 DEF FlattenSeq
<1> DEFINE T == {k \in Nat : k \in 1 .. n => flatten[k] = f[k]}
<1> HIDE DEF flatten
<1>6. 0 \in T
  BY <1>1
<1>7. ASSUME NEW k \in Nat, k \in T PROVE k + 1 \in T
  <2> SUFFICES ASSUME k + 1 \in 1 .. n PROVE flatten[k + 1] = f[k + 1]
    OBVIOUS
  <2>1. CASE k = 0
    <3>1. flatten[1] = ss[1]
      BY <1>1, <1>4
    <3> QED
      BY <1>2, <2>1, <3>1
  <2>2. CASE k # 0
    <3>1. k \in 1 .. n /\ (k + 1) - 1 = k /\ k + 1 # 1
      BY <1>1, <2>2
    <3>2. flatten[k] = f[k]
      BY <1>7, <3>1
    <3>3. flatten[k + 1] = flatten[k] \o ss[k + 1]
      BY <1>4, <3>1
    <3>4. f[k + 1] = f[k] \o ss[k + 1]
      BY <3>1 DEF Joined
    <3> QED
      BY <3>2, <3>3, <3>4
  <2> QED
    BY <2>1, <2>2
<1>8. n \in T
  <2> HIDE DEF T, n
  <2> QED
    BY <1>1, <1>6, <1>7, Induction
<1> QED
  BY <1>1, <1>5, <1>8

(* Each sequence is found again behind those before it.                    *)
Kept(ss, f, k) ==
    /\ Len(f[k]) = Len(f[k - 1]) + Len(ss[k])
    /\ Len(f[k]) <= Len(f[Len(ss)])
    /\ \A i \in 1 .. Len(ss[k]) : f[Len(ss)][Len(f[k - 1]) + i] = ss[k][i]

LEMMA JoinedKeeps ==
    ASSUME NEW ss \in Seq(Seq(Byte)), NEW f, Joined(ss, f),
           NEW n \in Nat, n = Len(ss), NEW k \in 1 .. n
    PROVE  Kept(ss, f, k)
<1>0. /\ f \in [0 .. n -> Seq(Byte)]
      /\ \A i \in 1 .. n : ss[i] \in Seq(Byte) /\ f[i] = f[i - 1] \o ss[i]
  <2>1. \A i \in 1 .. n : f[i] = f[i - 1] \o ss[i]
    BY DEF Joined
  <2>2. \A i \in 1 .. n : ss[i] \in Seq(Byte)
    OBVIOUS
  <2> QED
    BY <2>1, <2>2 DEF Joined
<1>1. /\ f[k] \in Seq(Byte) /\ f[k - 1] \in Seq(Byte) /\ ss[k] \in Seq(Byte)
      /\ f[k] = f[k - 1] \o ss[k]
  <2>1. k \in 0 .. n /\ k - 1 \in 0 .. n
    OBVIOUS
  <2> QED
    BY <1>0, <2>1
<1>2. /\ Len(f[k]) = Len(f[k - 1]) + Len(ss[k])
      /\ \A i \in 1 .. Len(ss[k]) : f[k][Len(f[k - 1]) + i] = ss[k][i]
  <2> DEFINE u == f[k - 1]
             w == ss[k]
  <2>1. u \in Seq(Byte) /\ w \in Seq(Byte) /\ f[k] = u \o w
    BY <1>1
  <2> HIDE DEF u, w
  <2>2. Len(u \o w) = Len(u) + Len(w) /\ \A i \in 1 .. Len(w) : (u \o w)[Len(u) + i] = w[i]
    BY <2>1
  <2> QED
    BY <2>1, <2>2 DEF u, w
<1>l. Len(f[k]) \in Nat /\ Len(f[k - 1]) \in Nat /\ Len(ss[k]) \in Nat
  <2>1. f[k] \in Seq(Byte) /\ f[k - 1] \in Seq(Byte) /\ ss[k] \in Seq(Byte)
    BY <1>1
  <2> QED
    BY <2>1, LenProperties
<1> DEFINE T == {d \in Nat : k + d <= n =>
                     /\ Len(f[k]) <= Len(f[k + d])
                     /\ \A i \in 1 .. Len(f[k]) : f[k + d][i] = f[k][i]}
<1>3. 0 \in T
  <2>1. k + 0 = k /\ Len(f[k]) <= Len(f[k])
    BY <1>1
  <2> QED
    BY <2>1
<1>4. ASSUME NEW d \in Nat, d \in T PROVE d + 1 \in T
  <2> SUFFICES ASSUME k + (d + 1) <= n
               PROVE  /\ Len(f[k]) <= Len(f[k + (d + 1)])
                      /\ \A i \in 1 .. Len(f[k]) : f[k + (d + 1)][i] = f[k][i]
    OBVIOUS
  <2>1. /\ k + (d + 1) \in 1 .. n /\ (k + (d + 1)) - 1 = k + d
        /\ k + d \in 0 .. n /\ k + d <= n
    OBVIOUS
  <2> DEFINE u == f[k + d]
             w == ss[k + (d + 1)]
  <2>2. u \in Seq(Byte) /\ w \in Seq(Byte) /\ f[k + (d + 1)] = u \o w
    BY <1>0, <2>1
  <2>3. Len(f[k]) <= Len(u) /\ \A i \in 1 .. Len(f[k]) : u[i] = f[k][i]
    BY <1>4, <2>1
  <2> HIDE DEF u, w
  <2>4. Len(u \o w) >= Len(u) /\ \A i \in 1 .. Len(u) : (u \o w)[i] = u[i]
    BY <2>2, ConcatProperties
  <2>5. ASSUME NEW i \in 1 .. Len(f[k]) PROVE (u \o w)[i] = f[k][i]
    <3>1. i \in 1 .. Len(u)
      <4>1. Len(u) \in Nat
        BY <2>2
      <4> QED
        BY <1>l, <2>3, <4>1
    <3> QED
      BY <2>3, <2>4, <3>1
  <2>6. Len(f[k]) <= Len(u \o w)
    <3>1. Len(u) \in Nat /\ Len(u \o w) \in Nat
      BY <2>2, ConcatProperties
    <3> QED
      BY <1>l, <2>3, <2>4, <3>1
  <2> QED
    BY <2>2, <2>5, <2>6
<1>5. n - k \in T /\ n - k \in Nat
  <2>1. n - k \in Nat
    OBVIOUS
  <2> HIDE DEF T
  <2> QED
    BY <2>1, <1>3, <1>4, Induction
<1>6. Len(f[k]) <= Len(f[n]) /\ \A i \in 1 .. Len(f[k]) : f[n][i] = f[k][i]
  <2>1. k + (n - k) = n
    OBVIOUS
  <2> QED
    BY <1>5, <2>1
<1>7. ASSUME NEW i \in 1 .. Len(ss[k]) PROVE f[n][Len(f[k - 1]) + i] = ss[k][i]
  <2>1. Len(f[k - 1]) + i \in 1 .. Len(f[k])
    <3>1. Len(f[k]) = Len(f[k - 1]) + Len(ss[k])
      BY <1>2
    <3>2. \A a, c \in Nat : \A j \in 1 .. c : a + j \in 1 .. a + c
      OBVIOUS
    <3> QED
      BY <1>l, <3>1, <3>2
  <2> QED
    BY <1>2, <1>6, <2>1
<1> QED
  BY <1>2, <1>6, <1>7 DEF Kept

-----------------------------------------------------------------------------
(* The bytes of a field, and where in a block they are.                    *)
Field == Seq(Byte) \X Seq(Byte)

FieldLen(field) == 3 + Len(field[1]) + Len(field[2])

LEMMA Cat ==
    ASSUME NEW s \in Seq(Byte), NEW t \in Seq(Byte)
    PROVE  /\ s \o t \in Seq(Byte) /\ Len(s) \in Nat /\ Len(t) \in Nat
           /\ Len(s \o t) = Len(s) + Len(t)
           /\ \A i \in 1 .. Len(s) : (s \o t)[i] = s[i]
           /\ \A i \in 1 .. Len(t) : (s \o t)[Len(s) + i] = t[i]
OBVIOUS

LEMMA FieldByte ==
    ASSUME NEW field \in Field
    PROVE  /\ FieldBytes(field) \in Seq(Byte) /\ Len(FieldBytes(field)) = FieldLen(field)
           /\ FieldBytes(field)[1] = CarriageReturn
           /\ FieldBytes(field)[2] = LineFeed
           /\ \A j \in 1 .. Len(field[1]) : FieldBytes(field)[2 + j] = field[1][j]
           /\ FieldBytes(field)[3 + Len(field[1])] = Tab
           /\ \A j \in 1 .. Len(field[2]) :
                 FieldBytes(field)[3 + Len(field[1]) + j] = field[2][j]
<1> DEFINE l == field[1]
           v == field[2]
           start == <<CarriageReturn, LineFeed>>
           a == start \o l
           t == a \o <<Tab>>
<1>1. l \in Seq(Byte) /\ v \in Seq(Byte) /\ Len(l) \in Nat /\ Len(v) \in Nat
  BY DEF Field
<1>2. start \in Seq(Byte) /\ Len(start) = 2 /\ start[1] = CarriageReturn /\ start[2] = LineFeed
  BY DEF Byte, CarriageReturn, LineFeed
<1>3. <<Tab>> \in Seq(Byte) /\ Len(<<Tab>>) = 1 /\ <<Tab>>[1] = Tab
  BY DEF Byte, Tab
<1>4. FieldBytes(field) = t \o v
  BY DEF FieldBytes
<1> HIDE DEF l, v, start
<1>5. /\ a \in Seq(Byte) /\ Len(a) = 2 + Len(l)
      /\ a[1] = CarriageReturn /\ a[2] = LineFeed
      /\ \A j \in 1 .. Len(l) : a[2 + j] = l[j]
  <2>1. /\ a \in Seq(Byte) /\ Len(a) = Len(start) + Len(l)
        /\ \A i \in 1 .. Len(start) : a[i] = start[i]
        /\ \A i \in 1 .. Len(l) : a[Len(start) + i] = l[i]
    BY <1>1, <1>2, Cat
  <2>2. 1 \in 1 .. 2 /\ 2 \in 1 .. 2
    OBVIOUS
  <2> HIDE DEF a
  <2> QED
    BY <1>2, <2>1, <2>2
<1> HIDE DEF a
<1>6. /\ t \in Seq(Byte) /\ Len(t) = 3 + Len(l)
      /\ t[1] = CarriageReturn /\ t[2] = LineFeed
      /\ \A j \in 1 .. Len(l) : t[2 + j] = l[j]
      /\ t[3 + Len(l)] = Tab
  <2>1. /\ t \in Seq(Byte) /\ Len(t) = Len(a) + 1
        /\ \A i \in 1 .. Len(a) : t[i] = a[i]
        /\ t[Len(a) + 1] = Tab
    BY <1>3, <1>5, Cat
  <2>2. /\ 1 \in 1 .. Len(a) /\ 2 \in 1 .. Len(a) /\ Len(a) + 1 = 3 + Len(l)
        /\ \A j \in 1 .. Len(l) : 2 + j \in 1 .. Len(a)
    BY <1>1, <1>5
  <2> HIDE DEF t
  <2> QED
    BY <1>5, <2>1, <2>2
<1> HIDE DEF t
<1>7. /\ t \o v \in Seq(Byte) /\ Len(t \o v) = 3 + Len(l) + Len(v)
      /\ (t \o v)[1] = CarriageReturn /\ (t \o v)[2] = LineFeed
      /\ \A j \in 1 .. Len(l) : (t \o v)[2 + j] = l[j]
      /\ (t \o v)[3 + Len(l)] = Tab
      /\ \A j \in 1 .. Len(v) : (t \o v)[3 + Len(l) + j] = v[j]
  <2> DEFINE u == t \o v
  <2>1. /\ u \in Seq(Byte) /\ Len(u) = Len(t) + Len(v)
        /\ \A i \in 1 .. Len(t) : u[i] = t[i]
        /\ \A i \in 1 .. Len(v) : u[Len(t) + i] = v[i]
    BY <1>1, <1>6, Cat
  <2>2. /\ 1 \in 1 .. Len(t) /\ 2 \in 1 .. Len(t) /\ 3 + Len(l) \in 1 .. Len(t)
        /\ \A j \in 1 .. Len(l) : 2 + j \in 1 .. Len(t)
    BY <1>1, <1>6
  <2> HIDE DEF u
  <2>3. /\ u \in Seq(Byte) /\ Len(u) = 3 + Len(l) + Len(v)
        /\ u[1] = CarriageReturn /\ u[2] = LineFeed
        /\ \A j \in 1 .. Len(l) : u[2 + j] = l[j]
        /\ u[3 + Len(l)] = Tab
        /\ \A j \in 1 .. Len(v) : u[3 + Len(l) + j] = v[j]
    BY <1>6, <2>1, <2>2
  <2> QED
    BY <2>3 DEF u
<1> QED
  BY <1>4, <1>7 DEF l, v, FieldLen

Block == Seq(Field)

Layout(b, e) ==
    /\ e \in [0 .. Len(b) + 1 -> Nat]
    /\ e[0] = 0
    /\ Len(BlockBytes(b)) = e[Len(b) + 1] + 1
    /\ \A k \in 1 .. Len(b) + 1 :
          /\ e[k] = e[k - 1] + FieldLen(Fields(b)[k])
          /\ e[k] < Len(BlockBytes(b))
          /\ \A i \in 1 .. FieldLen(Fields(b)[k]) :
                BlockBytes(b)[e[k - 1] + i] = FieldBytes(Fields(b)[k])[i]

LEMMA FieldsType ==
    ASSUME NEW b \in Block
    PROVE  /\ Fields(b) \in Seq(Field) /\ Len(Fields(b)) = Len(b) + 1 /\ Len(b) \in Nat
           /\ \A k \in 1 .. Len(b) + 1 : Fields(b)[k] \in Field
           /\ \A k \in 1 .. Len(b) : Fields(b)[k] = b[k]
           /\ Fields(b)[Len(b) + 1] = <<ChecksumLabel, <<>>>>
<1>1. ChecksumLabel \in Seq(Byte) /\ <<>> \in Seq(Byte)
  BY DEF ChecksumLabel, Byte
<1>2. <<ChecksumLabel, <<>>>> \in Field
  BY <1>1 DEF Field
<1> DEFINE last == <<ChecksumLabel, <<>>>>
<1> HIDE DEF last
<1>3. /\ Append(b, last) \in Seq(Field) /\ Len(Append(b, last)) = Len(b) + 1
      /\ Len(b) \in Nat
      /\ \A k \in 1 .. Len(b) : Append(b, last)[k] = b[k]
      /\ Append(b, last)[Len(b) + 1] = last
  BY <1>2, AppendProperties DEF Block, last
<1>4. Fields(b) = Append(b, last)
  BY DEF Fields, last
<1>5. \A k \in 1 .. Len(b) + 1 : Append(b, last)[k] \in Field
  BY <1>3
<1> QED
  BY <1>3, <1>4, <1>5 DEF last

(* All but the last byte of a block.                                       *)
SaidBytes(b) == FlattenSeq([k \in 1 .. Len(b) + 1 |-> FieldBytes(Fields(b)[k])])

LEMMA LayoutOfBlock ==
    ASSUME NEW b \in Block
    PROVE  /\ \E e : Layout(b, e)
           /\ SaidBytes(b) \in Seq(Byte)
           /\ BlockBytes(b) \in Seq(Byte)
           /\ SumOf(BlockBytes(b)) = 0
<1> DEFINE N == Len(b) + 1
           ss == [k \in 1 .. N |-> FieldBytes(Fields(b)[k])]
<1>1. N \in Nat /\ N >= 1 /\ Len(b) \in Nat
  BY FieldsType
<1>2. \A k \in 1 .. N : ss[k] \in Seq(Byte) /\ Len(ss[k]) = FieldLen(Fields(b)[k])
  BY FieldsType, FieldByte
<1>3. ss \in Seq(Seq(Byte)) /\ Len(ss) = N
  <2> HIDE DEF N
  <2> QED
    BY <1>1, <1>2
<1>4. PICK f : Joined(ss, f)
  <2> HIDE DEF ss
  <2> QED
    BY <1>3, JoinedExist
<1>5. SaidBytes(b) = f[N]
  <2>1. SaidBytes(b) = FlattenSeq(ss)
    BY DEF SaidBytes
  <2> HIDE DEF ss
  <2> QED
    BY <1>1, <1>3, <1>4, <2>1, JoinedIs
<1>6. f[N] \in Seq(Byte)
  <2>1. f \in [0 .. N -> Seq(Byte)] /\ N \in 0 .. N
    <3> HIDE DEF ss
    <3> QED
      BY <1>1, <1>3, <1>4 DEF Joined
  <2> QED
    BY <2>1
<1> DEFINE x == (256 - SumOf(f[N])) % 256
<1>7. SumOf(f[N]) \in Byte /\ x \in Byte
  <2>1. SumOf(f[N]) \in Byte
    BY <1>6, SumType
  <2>2. 256 - SumOf(f[N]) \in Int
    BY <2>1, ByteInt
  <2> QED
    BY <2>1, <2>2, Mod256
<1>8. BlockBytes(b) = Append(f[N], x)
  BY <1>5 DEF BlockBytes, SaidBytes
<1>9. /\ BlockBytes(b) \in Seq(Byte) /\ Len(BlockBytes(b)) = Len(f[N]) + 1
      /\ \A i \in 1 .. Len(f[N]) : BlockBytes(b)[i] = f[N][i]
  <2> HIDE DEF x
  <2> QED
    BY <1>6, <1>7, <1>8, AppendProperties
<1>10. SumOf(BlockBytes(b)) = 0
  <2>1. SumOf(BlockBytes(b)) = (SumOf(f[N]) + x) % 256
    <3> HIDE DEF x
    <3> QED
      BY <1>6, <1>7, <1>8, SumOfAppend
  <2>2. \A y \in Byte : (y + ((256 - y) % 256)) % 256 = 0
    BY DEF Byte
  <2> QED
    BY <1>7, <2>1, <2>2
<1> DEFINE e == [k \in 0 .. N |-> Len(f[k])]
<1> HIDE DEF ss, x
<1>11. f \in [0 .. N -> Seq(Byte)] /\ f[0] = <<>>
  BY <1>3, <1>4 DEF Joined
<1>12. e \in [0 .. N -> Nat] /\ e[0] = 0
  <2>1. \A k \in 0 .. N : Len(f[k]) \in Nat
    BY <1>11, LenProperties
  <2> QED
    BY <1>1, <1>11, <2>1
<1>13. ASSUME NEW k \in 1 .. N
       PROVE  /\ e[k] = e[k - 1] + FieldLen(Fields(b)[k])
              /\ e[k] < Len(BlockBytes(b))
              /\ \A i \in 1 .. FieldLen(Fields(b)[k]) :
                    BlockBytes(b)[e[k - 1] + i] = FieldBytes(Fields(b)[k])[i]
  <2>1. /\ Len(f[k]) = Len(f[k - 1]) + Len(ss[k])
        /\ Len(f[k]) <= Len(f[N])
        /\ \A i \in 1 .. Len(ss[k]) : f[N][Len(f[k - 1]) + i] = ss[k][i]
    <3>1. N = Len(ss) /\ N \in Nat /\ ss \in Seq(Seq(Byte)) /\ Joined(ss, f)
      BY <1>1, <1>3, <1>4
    <3>2. k \in 1 .. N
      OBVIOUS
    <3> HIDE DEF N
    <3>3. Kept(ss, f, k)
      BY <3>1, <3>2, JoinedKeeps
    <3> QED
      BY <3>1, <3>3 DEF Kept
  <2>2. ss[k] = FieldBytes(Fields(b)[k]) /\ Len(ss[k]) = FieldLen(Fields(b)[k])
    BY <1>2 DEF ss
  <2>3. e[k] = Len(f[k]) /\ e[k - 1] = Len(f[k - 1]) /\ k \in 0 .. N /\ k - 1 \in 0 .. N
    BY <1>1
  <2>4. Len(f[k]) \in Nat /\ Len(f[k - 1]) \in Nat /\ Len(f[N]) \in Nat /\ Len(ss[k]) \in Nat
    BY <1>2, <1>6, <1>11, <2>3, LenProperties
  <2> HIDE DEF e
  <2>5. e[k] < Len(BlockBytes(b))
    <3>1. Len(f[k]) <= Len(f[N]) /\ Len(BlockBytes(b)) = Len(f[N]) + 1 /\ e[k] = Len(f[k])
      BY <1>9, <2>1, <2>3
    <3>2. \A p, q \in Nat : p <= q => p < q + 1
      OBVIOUS
    <3> QED
      BY <2>4, <3>1, <3>2
  <2>6. ASSUME NEW i \in 1 .. FieldLen(Fields(b)[k])
        PROVE  BlockBytes(b)[e[k - 1] + i] = FieldBytes(Fields(b)[k])[i]
    <3>1. \A p, q, r \in Nat : p = q + r => \A j \in 1 .. r : q + j \in 1 .. p
      OBVIOUS
    <3>2. Len(f[k - 1]) + i \in 1 .. Len(f[k])
      BY <2>1, <2>2, <2>4, <3>1
    <3>3. Len(f[k - 1]) + i \in 1 .. Len(f[N])
      <4>1. \A p, q \in Nat : p <= q => 1 .. p \subseteq 1 .. q
        OBVIOUS
      <4>2. Len(f[k]) <= Len(f[N])
        BY <2>1
      <4> QED
        BY <2>4, <3>2, <4>1, <4>2
    <3> QED
      BY <1>9, <2>1, <2>2, <2>3, <3>3
  <2> QED
    BY <2>1, <2>2, <2>3, <2>5, <2>6
<1>14. Len(BlockBytes(b)) = e[N] + 1
  BY <1>1, <1>9
<1>15. Layout(b, e)
  <2> HIDE DEF e
  <2> QED
    BY <1>12, <1>13, <1>14 DEF Layout
<1> QED
  BY <1>5, <1>6, <1>9, <1>10, <1>15

-----------------------------------------------------------------------------
(* How far in block b the reader is when p bytes are read: behind the      *)
(* return that starts field k, behind j bytes of its label, or behind its  *)
(* tab and j bytes of its value.                                           *)
Ends(b) == CHOOSE e : Layout(b, e)

LabelOf(b, k) == Fields(b)[k][1]
ValueOf(b, k) == Fields(b)[k][2]

AtReturn(b, p, k) ==
    k \in 1 .. Len(b) + 1 /\ p = Ends(b)[k - 1] + 1

AtLabel(b, p, k, j) ==
    /\ k \in 1 .. Len(b) + 1 /\ j \in 0 .. Len(LabelOf(b, k))
    /\ p = Ends(b)[k - 1] + 2 + j

AtValue(b, p, k, j) ==
    /\ k \in 1 .. Len(b) + 1 /\ j \in 0 .. Len(ValueOf(b, k))
    /\ p = Ends(b)[k - 1] + 3 + Len(LabelOf(b, k)) + j

LEMMA FieldAt ==
    ASSUME NEW b \in Block, NEW k \in 1 .. Len(b) + 1
    PROVE  LET start == Ends(b)[k - 1]
               l == LabelOf(b, k)
               v == ValueOf(b, k)
               bytes == BlockBytes(b)
           IN  /\ bytes \in Seq(Byte) /\ Len(bytes) \in Nat
               /\ l \in Seq(Byte) /\ v \in Seq(Byte) /\ Len(l) \in Nat /\ Len(v) \in Nat
               /\ start \in Nat /\ Ends(b)[0] = 0
               /\ Ends(b)[k] = start + 3 + Len(l) + Len(v)
               /\ Ends(b)[k] < Len(bytes)
               /\ Len(bytes) = Ends(b)[Len(b) + 1] + 1
               /\ bytes[start + 1] = CarriageReturn
               /\ bytes[start + 2] = LineFeed
               /\ \A j \in 1 .. Len(l) : bytes[start + (2 + j)] = l[j]
               /\ bytes[start + (3 + Len(l))] = Tab
               /\ \A j \in 1 .. Len(v) : bytes[start + (3 + Len(l) + j)] = v[j]
<1> DEFINE start == Ends(b)[k - 1]
           l == LabelOf(b, k)
           v == ValueOf(b, k)
           bytes == BlockBytes(b)
           field == Fields(b)[k]
           n == Len(b)
<1>1. Layout(b, Ends(b))
  BY LayoutOfBlock DEF Ends
<1>2. field \in Field /\ n \in Nat
  BY FieldsType
<1>3. l \in Seq(Byte) /\ v \in Seq(Byte)
  BY <1>2 DEF Field, LabelOf, ValueOf
<1>4. Len(l) \in Nat /\ Len(v) \in Nat /\ bytes \in Seq(Byte) /\ Len(bytes) \in Nat
  <2>1. bytes \in Seq(Byte)
    BY LayoutOfBlock
  <2> QED
    BY <1>3, <2>1, LenProperties
<1>5. FieldLen(field) = 3 + Len(l) + Len(v)
  BY DEF FieldLen, LabelOf, ValueOf
<1>6. Ends(b) \in [0 .. n + 1 -> Nat] /\ Ends(b)[0] = 0 /\ Len(bytes) = Ends(b)[n + 1] + 1
  BY <1>1 DEF Layout
<1>7. start \in Nat
  <2>1. k - 1 \in 0 .. n + 1
    BY <1>2
  <2> QED
    BY <1>6, <2>1
<1>8. /\ Ends(b)[k] = start + FieldLen(field) /\ Ends(b)[k] < Len(bytes)
      /\ \A i \in 1 .. FieldLen(field) : bytes[start + i] = FieldBytes(field)[i]
  BY <1>1 DEF Layout
<1>9. Ends(b)[k] = start + 3 + Len(l) + Len(v)
  <2> HIDE DEF start, l, v
  <2> QED
    BY <1>4, <1>5, <1>7, <1>8
<1>10. /\ FieldBytes(field)[1] = CarriageReturn
       /\ FieldBytes(field)[2] = LineFeed
       /\ \A j \in 1 .. Len(l) : FieldBytes(field)[2 + j] = l[j]
       /\ FieldBytes(field)[3 + Len(l)] = Tab
       /\ \A j \in 1 .. Len(v) : FieldBytes(field)[3 + Len(l) + j] = v[j]
  BY <1>2, FieldByte DEF LabelOf, ValueOf
<1>11. /\ 1 \in 1 .. FieldLen(field) /\ 2 \in 1 .. FieldLen(field)
       /\ 3 + Len(l) \in 1 .. FieldLen(field)
       /\ \A j \in 1 .. Len(l) : 2 + j \in 1 .. FieldLen(field)
       /\ \A j \in 1 .. Len(v) : 3 + Len(l) + j \in 1 .. FieldLen(field)
  <2> HIDE DEF field, l, v
  <2> QED
    BY <1>4, <1>5
<1>12. /\ bytes[start + 1] = CarriageReturn
       /\ bytes[start + 2] = LineFeed
       /\ \A j \in 1 .. Len(l) : bytes[start + (2 + j)] = l[j]
       /\ bytes[start + (3 + Len(l))] = Tab
       /\ \A j \in 1 .. Len(v) : bytes[start + (3 + Len(l) + j)] = v[j]
  <2> HIDE DEF field, l, v, bytes, start
  <2> QED
    BY <1>8, <1>10, <1>11
<1> QED
  BY <1>3, <1>4, <1>6, <1>7, <1>8, <1>9, <1>12

LEMMA FirstPlace ==
    ASSUME NEW b \in Block
    PROVE  /\ Len(BlockBytes(b)) \in Nat /\ 1 < Len(BlockBytes(b))
           /\ BlockBytes(b)[1] = CarriageReturn
           /\ AtReturn(b, 1, 1)
<1>1. 1 \in 1 .. Len(b) + 1 /\ 1 - 1 = 0 /\ 0 + 1 = 1
  BY FieldsType
<1> DEFINE l == LabelOf(b, 1)
           v == ValueOf(b, 1)
           bytes == BlockBytes(b)
<1>2. /\ Len(bytes) \in Nat /\ Len(l) \in Nat /\ Len(v) \in Nat /\ Ends(b)[0] = 0
      /\ Ends(b)[1] = 0 + 3 + Len(l) + Len(v) /\ Ends(b)[1] < Len(bytes)
      /\ bytes[0 + 1] = CarriageReturn
  <2>1. ASSUME NEW m \in 1 .. Len(b) + 1, m = 1
        PROVE  /\ Len(bytes) \in Nat /\ Len(l) \in Nat /\ Len(v) \in Nat /\ Ends(b)[0] = 0
               /\ Ends(b)[m] = Ends(b)[m - 1] + 3 + Len(l) + Len(v) /\ Ends(b)[m] < Len(bytes)
               /\ bytes[Ends(b)[m - 1] + 1] = CarriageReturn
    BY <2>1, FieldAt
  <2> HIDE DEF l, v, bytes
  <2> QED
    BY <1>1, <2>1
<1> HIDE DEF l, v, bytes
<1>3. 1 < Len(bytes)
  BY <1>2
<1> QED
  BY <1>1, <1>2, <1>3 DEF bytes, AtReturn

LEMMA BehindReturn ==
    ASSUME NEW b \in Block, NEW p, NEW k, AtReturn(b, p, k)
    PROVE  /\ p \in Nat /\ 0 < p /\ p + 1 < Len(BlockBytes(b))
           /\ BlockBytes(b)[p + 1] = LineFeed
           /\ AtLabel(b, p + 1, k, 0)
<1> DEFINE start == Ends(b)[k - 1]
           l == LabelOf(b, k)
           v == ValueOf(b, k)
           bytes == BlockBytes(b)
<1>1. k \in 1 .. Len(b) + 1 /\ p = start + 1
  BY DEF AtReturn
<1>2. /\ Len(bytes) \in Nat /\ Len(l) \in Nat /\ Len(v) \in Nat /\ start \in Nat
      /\ Ends(b)[k] = start + 3 + Len(l) + Len(v) /\ Ends(b)[k] < Len(bytes)
      /\ bytes[start + 2] = LineFeed
  BY <1>1, FieldAt
<1> HIDE DEF l, v, bytes, start
<1>3. p \in Nat /\ 0 < p /\ p + 1 < Len(bytes) /\ p + 1 = start + 2 /\ 0 \in 0 .. Len(l)
      /\ start + 2 = start + 2 + 0
  BY <1>1, <1>2
<1> QED
  BY <1>1, <1>2, <1>3 DEF bytes, start, l, AtLabel

LEMMA InLabel ==
    ASSUME NEW b \in Block, NEW p, NEW k, NEW j, AtLabel(b, p, k, j)
    PROVE  /\ p \in Nat /\ 0 < p /\ p + 1 < Len(BlockBytes(b))
           /\ j \in Nat /\ j <= Len(LabelOf(b, k)) /\ LabelOf(b, k) \in Seq(Byte)
           /\ j < Len(LabelOf(b, k)) => /\ BlockBytes(b)[p + 1] = LabelOf(b, k)[j + 1]
                                        /\ AtLabel(b, p + 1, k, j + 1)
           /\ j = Len(LabelOf(b, k)) => /\ BlockBytes(b)[p + 1] = Tab
                                        /\ AtValue(b, p + 1, k, 0)
<1> DEFINE start == Ends(b)[k - 1]
           l == LabelOf(b, k)
           v == ValueOf(b, k)
           bytes == BlockBytes(b)
<1>1. k \in 1 .. Len(b) + 1 /\ j \in 0 .. Len(l) /\ p = start + 2 + j
  BY DEF AtLabel
<1>2. /\ Len(bytes) \in Nat /\ Len(l) \in Nat /\ Len(v) \in Nat /\ start \in Nat
      /\ Ends(b)[k] = start + 3 + Len(l) + Len(v) /\ Ends(b)[k] < Len(bytes)
      /\ \A i \in 1 .. Len(l) : bytes[start + (2 + i)] = l[i]
      /\ bytes[start + (3 + Len(l))] = Tab
      /\ l \in Seq(Byte)
  BY <1>1, FieldAt
<1>a. AtLabel(b, p + 1, k, j + 1) <=> j + 1 \in 0 .. Len(l) /\ p + 1 = start + 2 + (j + 1)
  BY <1>1 DEF AtLabel
<1>v. AtValue(b, p + 1, k, 0) <=> 0 \in 0 .. Len(v) /\ p + 1 = start + 3 + Len(l) + 0
  BY <1>1 DEF AtValue
<1> HIDE DEF l, v, bytes, start
<1>3. p \in Nat /\ 0 < p /\ p + 1 < Len(bytes) /\ j \in Nat /\ j <= Len(l)
  BY <1>1, <1>2
<1>4. ASSUME j < Len(l) PROVE bytes[p + 1] = l[j + 1] /\ AtLabel(b, p + 1, k, j + 1)
  <2>1. j + 1 \in 1 .. Len(l) /\ j + 1 \in 0 .. Len(l)
    BY <1>2, <1>3, <1>4
  <2>2. p + 1 = start + (2 + (j + 1)) /\ p + 1 = start + 2 + (j + 1)
    BY <1>1, <1>2, <1>3
  <2> QED
    BY <1>2, <1>a, <2>1, <2>2
<1>5. ASSUME j = Len(l) PROVE bytes[p + 1] = Tab /\ AtValue(b, p + 1, k, 0)
  <2>1. p + 1 = start + (3 + Len(l)) /\ 0 \in 0 .. Len(v) /\ p + 1 = start + 3 + Len(l) + 0
    BY <1>1, <1>2, <1>5
  <2> QED
    BY <1>2, <1>v, <2>1
<1> QED
  BY <1>2, <1>3, <1>4, <1>5 DEF l, bytes

LEMMA InValue ==
    ASSUME NEW b \in Block, NEW p, NEW k, NEW j, AtValue(b, p, k, j)
    PROVE  /\ p \in Nat /\ 0 < p /\ p + 1 <= Len(BlockBytes(b))
           /\ j \in Nat /\ j <= Len(ValueOf(b, k)) /\ ValueOf(b, k) \in Seq(Byte)
           /\ j < Len(ValueOf(b, k)) => /\ BlockBytes(b)[p + 1] = ValueOf(b, k)[j + 1]
                                        /\ AtValue(b, p + 1, k, j + 1)
                                        /\ p + 1 < Len(BlockBytes(b))
           /\ j = Len(ValueOf(b, k)) /\ k = Len(b) + 1 => p + 1 = Len(BlockBytes(b))
           /\ j = Len(ValueOf(b, k)) /\ k # Len(b) + 1 =>
                 /\ BlockBytes(b)[p + 1] = CarriageReturn
                 /\ AtReturn(b, p + 1, k + 1)
                 /\ p + 1 < Len(BlockBytes(b))
<1> DEFINE start == Ends(b)[k - 1]
           l == LabelOf(b, k)
           v == ValueOf(b, k)
           bytes == BlockBytes(b)
<1>0. Len(b) \in Nat
  BY FieldsType
<1>1. k \in 1 .. Len(b) + 1 /\ j \in 0 .. Len(v) /\ p = start + 3 + Len(l) + j
  BY DEF AtValue
<1>2. /\ Len(bytes) \in Nat /\ Len(l) \in Nat /\ Len(v) \in Nat /\ start \in Nat
      /\ Ends(b)[k] = start + 3 + Len(l) + Len(v) /\ Ends(b)[k] < Len(bytes)
      /\ Len(bytes) = Ends(b)[Len(b) + 1] + 1
      /\ \A i \in 1 .. Len(v) : bytes[start + (3 + Len(l) + i)] = v[i]
      /\ v \in Seq(Byte)
  BY <1>1, FieldAt
<1>a. AtValue(b, p + 1, k, j + 1)
          <=> j + 1 \in 0 .. Len(v) /\ p + 1 = start + 3 + Len(l) + (j + 1)
  BY <1>1 DEF AtValue
<1> HIDE DEF l, v, bytes, start
<1>3. p \in Nat /\ 0 < p /\ p + 1 <= Len(bytes) /\ j \in Nat /\ j <= Len(v)
  BY <1>1, <1>2
<1>4. ASSUME j < Len(v)
      PROVE  bytes[p + 1] = v[j + 1] /\ AtValue(b, p + 1, k, j + 1) /\ p + 1 < Len(bytes)
  <2>1. j + 1 \in 1 .. Len(v) /\ p + 1 = start + (3 + Len(l) + (j + 1)) /\ j + 1 \in 0 .. Len(v)
        /\ p + 1 = start + 3 + Len(l) + (j + 1) /\ p + 1 < Len(bytes)
    BY <1>1, <1>2, <1>4
  <2> QED
    BY <1>2, <1>a, <2>1
<1>5. ASSUME j = Len(v), k = Len(b) + 1 PROVE p + 1 = Len(bytes)
  BY <1>1, <1>2, <1>5
<1>6. ASSUME j = Len(v), k # Len(b) + 1
      PROVE  bytes[p + 1] = CarriageReturn /\ AtReturn(b, p + 1, k + 1) /\ p + 1 < Len(bytes)
  <2>1. p = Ends(b)[k]
    BY <1>1, <1>2, <1>6
  <2>2. k + 1 \in 1 .. Len(b) + 1 /\ (k + 1) - 1 = k
    BY <1>0, <1>1, <1>6
  <2>3. AtReturn(b, p + 1, k + 1)
    BY <2>1, <2>2 DEF AtReturn
  <2>4. bytes[Ends(b)[k] + 1] = CarriageReturn
    <3>1. \A m \in 1 .. Len(b) + 1 : BlockBytes(b)[Ends(b)[m - 1] + 1] = CarriageReturn
      BY FieldAt
    <3> QED
      BY <2>2, <3>1 DEF bytes
  <2>5. (p + 1) + 1 < Len(bytes)
    BY <2>3, BehindReturn DEF bytes
  <2>6. p + 1 < Len(bytes)
    BY <1>2, <1>3, <2>5
  <2> QED
    BY <2>1, <2>3, <2>4, <2>6
<1> QED
  BY <1>2, <1>3, <1>4, <1>5, <1>6 DEF v, bytes

LEMMA ByteInValue ==
    ASSUME NEW b \in Block, NEW p \in Nat, NEW k, NEW j \in Nat, AtValue(b, p, k, j),
           j < Len(ValueOf(b, k))
    PROVE  BlockBytes(b)[p + 1] = ValueOf(b, k)[j + 1]
<1> DEFINE start == Ends(b)[k - 1]
           l == LabelOf(b, k)
           v == ValueOf(b, k)
           bytes == BlockBytes(b)
<1>1. k \in 1 .. Len(b) + 1 /\ p = start + 3 + Len(l) + j
  BY DEF AtValue
<1>2. /\ Len(l) \in Nat /\ Len(v) \in Nat /\ start \in Nat
      /\ \A i \in 1 .. Len(v) : bytes[start + (3 + Len(l) + i)] = v[i]
  BY <1>1, FieldAt
<1> HIDE DEF l, v, bytes, start
<1>3. j + 1 \in 1 .. Len(v) /\ p + 1 = start + (3 + Len(l) + (j + 1))
  BY <1>1, <1>2 DEF v
<1>4. bytes[p + 1] = v[j + 1]
  BY <1>2, <1>3
<1> QED
  BY <1>4 DEF bytes, v

-----------------------------------------------------------------------------
(***************************************************************************)
(* The inductive invariant.                                                *)
(***************************************************************************)
States == {"IDLE", "IN_RUNT_MESSAGE", "START_TEXT_MESSAGE", "IN_TEXT_FIELD_LABEL",
           "IN_TEXT_FIELD_VALUE", "IN_TEXT_CHECKSUM", "IN_HEX_PROTOCOL_MESSAGE"}

TypeOK ==
    /\ state \in States
    /\ textChecksum \in Byte
    /\ label \in Seq(Byte) /\ value \in Seq(Byte)
    /\ textBlock \in Seq(Field)
    /\ wire \in Seq(Byte)
    /\ item.content \in {Text(b) : b \in Blocks} \cup {Hex(m) : m \in HexMessages}

Bytes(content) == IF IsText(content) THEN BlockBytes(content[2]) ELSE HexBytes(content[2])

(* What is left to read of bytes that are not damaged.                     *)
RestOf(w, bytes) ==
    Len(w) <= Len(bytes) /\ w = SubSeq(bytes, Len(bytes) - Len(w) + 1, Len(bytes))

Read == Len(Bytes(item.content)) - Len(wire)

WireOK == item.whole \/ ~lossy => RestOf(wire, Bytes(item.content))

(* A label that started in another one's place is not taken for another.   *)
Strange(string) ==
    Len(string) >= MaxLabelLength \/ \E i \in 1 .. Len(string) : string[i] = CarriageReturn

(* A whole block, whatever the state it started in: the first field may    *)
(* be lost, from the second on the machine follows.                        *)
FollowsReturn(k) ==
    IF k = 1
    THEN \/ state \in {"IDLE", "IN_RUNT_MESSAGE", "IN_TEXT_FIELD_VALUE",
                       "IN_HEX_PROTOCOL_MESSAGE"}
         \/ state = "IN_TEXT_FIELD_LABEL" /\ Strange(label)
    ELSE state \in {"IN_TEXT_FIELD_VALUE", "IN_RUNT_MESSAGE"}

FollowsLabel(b, k, j) ==
    \/ j = 0 /\ state = "START_TEXT_MESSAGE"
    \/ j > 0 /\ state = "IN_TEXT_FIELD_LABEL" /\ label = SubSeq(LabelOf(b, k), 1, j)
    \/ k = 1 /\ state = "IN_TEXT_FIELD_LABEL" /\ Strange(label)
    \/ k = 1 /\ state = IF j = 0 THEN "IDLE" ELSE "IN_RUNT_MESSAGE"

FollowsValue(b, k) ==
    \/ state = IF k = Len(b) + 1 THEN "IN_TEXT_CHECKSUM" ELSE "IN_TEXT_FIELD_VALUE"
    \/ k = 1 /\ state = "IN_RUNT_MESSAGE"

Following(b, p) ==
    \/ p = 0
    \/ \E k : AtReturn(b, p, k) /\ FollowsReturn(k)
    \/ \E k, j : AtLabel(b, p, k, j) /\ FollowsLabel(b, k, j)
    \/ \E k, j : AtValue(b, p, k, j) /\ FollowsValue(b, k)
    \/ p = Len(BlockBytes(b)) /\ state = "IDLE" /\ textChecksum = 0

(* A whole block that starts in step: it is taken byte by byte.            *)
TakesReturn(b, k) ==
    IF k = 1 THEN state = "IDLE"
    ELSE /\ state = "IN_TEXT_FIELD_VALUE"
         /\ <<label, value>> = b[k - 1]
         /\ textBlock = SubSeq(b, 1, k - 2)

TakesLabel(b, k, j) ==
    /\ textBlock = SubSeq(b, 1, k - 1)
    /\ IF j = 0 THEN state = "START_TEXT_MESSAGE"
       ELSE /\ state = "IN_TEXT_FIELD_LABEL"
            /\ label = SubSeq(LabelOf(b, k), 1, j) /\ value = <<>>

TakesValue(b, k, j) ==
    /\ textBlock = SubSeq(b, 1, k - 1)
    /\ IF k = Len(b) + 1 THEN state = "IN_TEXT_CHECKSUM"
       ELSE /\ state = "IN_TEXT_FIELD_VALUE"
            /\ label = LabelOf(b, k) /\ value = SubSeq(ValueOf(b, k), 1, j)

TakingBlock(b, p) ==
    \/ p = 0 /\ state = "IDLE" /\ textChecksum = 0
    \/ /\ textChecksum = SumOf(SubSeq(BlockBytes(b), 1, p))
       /\ \/ \E k : AtReturn(b, p, k) /\ TakesReturn(b, k)
          \/ \E k, j : AtLabel(b, p, k, j) /\ TakesLabel(b, k, j)
          \/ \E k, j : AtValue(b, p, k, j) /\ TakesValue(b, k, j)
    \/ p = Len(BlockBytes(b)) /\ applied = Text(b)

(* The same of a hex message: p characters of it are read.                 *)
HexAfter(m, p) ==
    [message |-> SubSeq(m, 1, p \div 2),
     checksum |-> (85 - SumOf(SubSeq(m, 1, p \div 2))) % 256,
     inputByte |-> IF p = 1 THEN 0
                   ELSE IF p % 2 = 1 THEN 16 * (m[(p + 1) \div 2] \div 16)
                   ELSE m[p \div 2],
     onLowNibble |-> p % 2 = 1,
     messageInError |-> FALSE]

TakingMessage(m, p) ==
    \/ p = 0 /\ state = "IDLE" /\ textChecksum = 0
    \/ p \in 1 .. 2 * Len(m) /\ state = "IN_HEX_PROTOCOL_MESSAGE" /\ hexMessage = HexAfter(m, p)
    \/ p = 2 * Len(m) + 1 /\ state = "IDLE" /\ textChecksum = 0 /\ applied = Hex(m)

(* With nothing lost: as many fields in textBlock as field ends were read. *)
Quiet == state \in {"IDLE", "IN_RUNT_MESSAGE"}

Calm ==
    \/ Quiet
    \/ state = "IN_HEX_PROTOCOL_MESSAGE"
    \/ state = "START_TEXT_MESSAGE" /\ textBlock = <<>>

CountsReturn(k) ==
    \/ Quiet
    \/ k = 1 /\ state = "IN_HEX_PROTOCOL_MESSAGE"
    \/ k = 1 /\ state = "IN_TEXT_FIELD_LABEL" /\ textBlock = <<>>
    \/ k > 1 /\ state = "IN_TEXT_FIELD_VALUE" /\ Len(textBlock) <= k - 2
    \/ state = "IN_TEXT_CHECKSUM"

CountsLabel(b, k, j) ==
    \/ Quiet
    \/ j = 0 /\ state = "START_TEXT_MESSAGE" /\ Len(textBlock) <= k - 1
    \/ /\ state = "IN_TEXT_FIELD_LABEL" /\ Len(textBlock) <= k - 1
       /\ k > 1 => j > 0 /\ label = SubSeq(LabelOf(b, k), 1, j)

CountsValue(b, k) ==
    \/ Quiet
    \/ state = "IN_TEXT_FIELD_VALUE" /\ k <= Len(b) /\ Len(textBlock) <= k - 1
    \/ state = "IN_TEXT_CHECKSUM"

CountingFields(b, p) ==
    \/ p = 0 /\ Calm
    \/ \E k : AtReturn(b, p, k) /\ CountsReturn(k)
    \/ \E k, j : AtLabel(b, p, k, j) /\ CountsLabel(b, k, j)
    \/ \E k, j : AtValue(b, p, k, j) /\ CountsValue(b, k)
    \/ p = Len(BlockBytes(b)) /\ Calm

PassingMessage(m, p) ==
    \/ p = 0 /\ Calm
    \/ p \in 1 .. 2 * Len(m) /\ state = "IN_HEX_PROTOCOL_MESSAGE"
    \/ p = 2 * Len(m) + 1 /\ state = "IDLE"

FollowOK ==
    item.whole /\ ~overrun /\ IsText(item.content) => Following(item.content[2], Read)

StepOK ==
    item.whole /\ ~overrun /\ inStep =>
        IF IsText(item.content) THEN TakingBlock(item.content[2], Read)
        ELSE TakingMessage(item.content[2], Read)

CountOK ==
    ~lossy => /\ ~overrun
              /\ IF IsText(item.content) THEN CountingFields(item.content[2], Read)
                 ELSE PassingMessage(item.content[2], Read)

IInv == TypeOK /\ WireOK /\ FollowOK /\ StepOK /\ CountOK

-----------------------------------------------------------------------------
(***************************************************************************)
(* What a byte does, by the state it is read in.                           *)
(***************************************************************************)
LEMMA Reads ==
    ASSUME processCharInput
    PROVE  /\ ~overrun /\ wire # <<>> /\ wire' = Tail(wire) /\ item' = item /\ inStep' = inStep
           /\ \/ lossy' = lossy
              \/ lossy' = (lossy /\ wire' # <<>>) /\ state' = "IDLE"
           /\ state # "IN_TEXT_FIELD_VALUE" => ~overrun'
BY DEF processCharInput, Input, itemVars, blockVars, textVars, idleInput, StartsHexMessage,
       runtMessageInput, startTextMessageInput, inTextFieldLabelInput, inTextFieldValueInput,
       textChecksumInput, GoodBlock, BadBlock, inputCharacter, hexMessageCompleted

LEMMA IdleReads ==
    ASSUME processCharInput, state = "IDLE", NEW c, c = Head(wire)
    PROVE  /\ c = Colon => /\ state' = "IN_HEX_PROTOCOL_MESSAGE" /\ hexMessage' = HexReset
                           /\ textChecksum' = textChecksum
           /\ c = LineFeed => /\ state' = "START_TEXT_MESSAGE" /\ textBlock' = <<>>
                              /\ textChecksum' = (textChecksum + c) % 256
           /\ c = CarriageReturn => /\ state' = "IDLE" /\ textBlock' = textBlock
                                    /\ textChecksum' = (textChecksum + c) % 256
           /\ c \notin {Colon, LineFeed, CarriageReturn} => state' = "IN_RUNT_MESSAGE"
           /\ label' = label /\ value' = value
           /\ textBlock' \in {textBlock, <<>>}
           /\ textChecksum' \in {textChecksum, (textChecksum + c) % 256}
BY DEF processCharInput, Input, blockVars, textVars, idleInput, StartsHexMessage,
       runtMessageInput, startTextMessageInput, inTextFieldLabelInput, inTextFieldValueInput,
       textChecksumInput, inputCharacter, hexMessageCompleted, addToTextCheckSum,
       Colon, LineFeed, CarriageReturn

LEMMA RuntReads ==
    ASSUME processCharInput, state = "IN_RUNT_MESSAGE", NEW c, c = Head(wire)
    PROVE  /\ c = Colon => state' = "IN_HEX_PROTOCOL_MESSAGE" /\ textBlock' = textBlock
           /\ c = LineFeed => state' = "START_TEXT_MESSAGE" /\ textBlock' = <<>>
           /\ c \notin {Colon, LineFeed} => state' = "IN_RUNT_MESSAGE"
           /\ label' = label /\ value' = value
           /\ textBlock' \in {textBlock, <<>>}
           /\ textChecksum' \in {textChecksum, LineFeed}
BY DEF processCharInput, Input, blockVars, textVars, idleInput, StartsHexMessage,
       runtMessageInput, startTextMessageInput, inTextFieldLabelInput, inTextFieldValueInput,
       textChecksumInput, inputCharacter, hexMessageCompleted, Colon, LineFeed

LEMMA StartReads ==
    ASSUME processCharInput, state = "START_TEXT_MESSAGE", NEW c, c = Head(wire)
    PROVE  /\ c = Colon => /\ state' = "IN_HEX_PROTOCOL_MESSAGE" /\ label' = label
                           /\ value' = value /\ textChecksum' = textChecksum
           /\ c # Colon => /\ state' = "IN_TEXT_FIELD_LABEL" /\ label' = <<c>> /\ value' = <<>>
                           /\ textChecksum' = (textChecksum + c) % 256
           /\ textBlock' = textBlock
BY DEF processCharInput, Input, blockVars, textVars, idleInput, StartsHexMessage,
       runtMessageInput, startTextMessageInput, inTextFieldLabelInput, inTextFieldValueInput,
       textChecksumInput, inputCharacter, hexMessageCompleted, addToTextCheckSum, Colon

LEMMA LabelReads ==
    ASSUME processCharInput, state = "IN_TEXT_FIELD_LABEL", NEW c, c = Head(wire)
    PROVE  /\ c # Tab => /\ state' = "IN_TEXT_FIELD_LABEL"
                         /\ label' = Push(label, c, MaxLabelLength)
           /\ c = Tab => /\ state' = IF label = ChecksumLabel THEN "IN_TEXT_CHECKSUM"
                                                               ELSE "IN_TEXT_FIELD_VALUE"
                         /\ label' = label
           /\ value' = value /\ textBlock' = textBlock
           /\ textChecksum' = (textChecksum + c) % 256
BY DEF processCharInput, Input, blockVars, textVars, idleInput, StartsHexMessage,
       runtMessageInput, startTextMessageInput, inTextFieldLabelInput, inTextFieldValueInput,
       textChecksumInput, inputCharacter, hexMessageCompleted, addToTextCheckSum

LEMMA ValueReads ==
    ASSUME processCharInput, state = "IN_TEXT_FIELD_VALUE", NEW c, c = Head(wire)
    PROVE  /\ c = LineFeed =>
                 /\ state' = "START_TEXT_MESSAGE" /\ value' = value
                 /\ IF Len(textBlock) < MaxFields
                    THEN textBlock' = Append(textBlock, <<label, value>>) /\ overrun' = FALSE
                    ELSE textBlock' = textBlock /\ overrun' = TRUE
           /\ c # LineFeed =>
                 /\ state' = "IN_TEXT_FIELD_VALUE" /\ textBlock' = textBlock /\ overrun' = FALSE
                 /\ value' = IF c = CarriageReturn THEN value ELSE Push(value, c, MaxValueLength)
           /\ label' = label
           /\ textChecksum' = (textChecksum + c) % 256
BY DEF processCharInput, Input, blockVars, textVars, idleInput, StartsHexMessage,
       runtMessageInput, startTextMessageInput, inTextFieldLabelInput, inTextFieldValueInput,
       textChecksumInput, inputCharacter, hexMessageCompleted, addToTextCheckSum

LEMMA ChecksumReads ==
    ASSUME processCharInput, state = "IN_TEXT_CHECKSUM", NEW c, c = Head(wire)
    PROVE  /\ state' = "IDLE" /\ textChecksum' = 0
           /\ label' = label /\ value' = value /\ textBlock' = textBlock
           /\ (textChecksum + c) % 256 = 0 => applied' = Text(textBlock)
BY DEF processCharInput, Input, blockVars, textVars, idleInput, StartsHexMessage,
       runtMessageInput, startTextMessageInput, inTextFieldLabelInput, inTextFieldValueInput,
       textChecksumInput, GoodBlock, inputCharacter, hexMessageCompleted

LEMMA HexReads ==
    ASSUME processCharInput, state = "IN_HEX_PROTOCOL_MESSAGE", NEW c, c = Head(wire)
    PROVE  /\ c = LineFeed =>
                 /\ state' = "IDLE" /\ textChecksum' = 0
                 /\ HexValid(hexMessage) => applied' = Hex(hexMessage.message)
           /\ c # LineFeed =>
                 /\ state' = "IN_HEX_PROTOCOL_MESSAGE"
                 /\ hexMessage' = HexInput(hexMessage, c) /\ textChecksum' = textChecksum
           /\ label' = label /\ value' = value /\ textBlock' = textBlock
BY DEF processCharInput, Input, blockVars, textVars, idleInput, StartsHexMessage,
       runtMessageInput, startTextMessageInput, inTextFieldLabelInput, inTextFieldValueInput,
       textChecksumInput, inputCharacter, hexMessageCompleted

-----------------------------------------------------------------------------
(* A byte is taken off the front of what is left.                          *)
LEMMA RestStep ==
    ASSUME NEW bytes \in Seq(Byte), NEW w \in Seq(Byte), RestOf(w, bytes), w # <<>>,
           NEW p, p = Len(bytes) - Len(w)
    PROVE  /\ RestOf(Tail(w), bytes) /\ Tail(w) \in Seq(Byte)
           /\ Len(bytes) - Len(Tail(w)) = p + 1
           /\ p \in Nat /\ p < Len(bytes) /\ Len(bytes) \in Nat
           /\ Head(w) = bytes[p + 1] /\ Head(w) \in Byte
           /\ Tail(w) = <<>> <=> p + 1 = Len(bytes)
<1> DEFINE L == Len(bytes)
           t == Tail(w)
<1>1. L \in Nat /\ Len(w) \in Nat /\ Len(w) # 0 /\ Len(w) <= L
  BY DEF RestOf
<1>2. p \in Nat /\ p < L /\ p + 1 \in 1 .. L
  BY <1>1
<1>3. w = SubSeq(bytes, p + 1, L)
  BY DEF RestOf
<1>4. \A i \in 1 .. Len(w) : w[i] = bytes[p + i]
  <2>1. ASSUME NEW i \in 1 .. Len(w) PROVE w[i] = bytes[p + i]
    <3>1. i \in 1 .. L - (p + 1) + 1 /\ (p + 1) + i - 1 = p + i
      BY <1>1, <1>2
    <3>2. SubSeq(bytes, p + 1, L)[i] = bytes[(p + 1) + i - 1]
      BY <1>1, <1>2, <3>1
    <3> QED
      BY <1>3, <3>1, <3>2
  <2> QED
    BY <2>1
<1>5. t \in Seq(Byte) /\ Len(t) = Len(w) - 1 /\ \A i \in 1 .. Len(t) : t[i] = w[i + 1]
  BY HeadTailProperties
<1>6. Head(w) = w[1] /\ w[1] = bytes[p + 1] /\ w[1] \in Byte
  BY <1>1, <1>4
<1> HIDE DEF t
<1>7. L - Len(t) = p + 1 /\ Len(t) <= L
  BY <1>1, <1>5
<1>8. t = SubSeq(bytes, L - Len(t) + 1, L)
  <2> DEFINE u == SubSeq(bytes, p + 2, L)
  <2>1. u \in Seq(Byte) /\ Len(u) = L - p - 1 /\ \A i \in 1 .. Len(u) : u[i] = bytes[p + 1 + i]
    <3>1. p + 2 \in 1 .. L + 1 /\ L - (p + 2) + 1 = L - p - 1 /\ L - p - 1 \in Nat
      BY <1>1, <1>2
    <3>2. u \in Seq(Byte) /\ Len(u) = L - (p + 2) + 1
      <4> HIDE DEF L
      <4> QED
        BY <1>1, <3>1, SubSeqProperties DEF L
    <3>3. ASSUME NEW i \in 1 .. L - p - 1 PROVE u[i] = bytes[p + 1 + i]
      <4>1. (p + 2) + i - 1 = p + 1 + i
        BY <1>2
      <4> QED
        BY <1>1, <1>2, <3>1, <3>3, <4>1
    <3> QED
      BY <3>1, <3>2, <3>3
  <2> HIDE DEF u
  <2>2. Len(u) = Len(t)
    BY <1>1, <1>2, <1>5, <2>1
  <2>3. ASSUME NEW i \in 1 .. Len(t) PROVE t[i] = u[i]
    <3>1. i + 1 \in 1 .. Len(w) /\ p + (i + 1) = p + 1 + i
      BY <1>1, <1>2, <1>5
    <3> QED
      BY <1>4, <1>5, <2>1, <2>2, <3>1
  <2>4. t = u
    BY <1>5, <2>1, <2>2, <2>3, SeqEqual
  <2>5. L - Len(t) + 1 = p + 2
    BY <1>1, <1>2, <1>7
  <2> QED
    BY <2>4, <2>5 DEF u
<1>9. t = <<>> <=> p + 1 = L
  <2>1. t = <<>> <=> Len(t) = 0
    BY <1>5, EmptySeq
  <2> QED
    BY <1>1, <1>2, <1>5, <2>1
<1> QED
  BY <1>1, <1>2, <1>5, <1>6, <1>7, <1>8, <1>9 DEF RestOf, t

LEMMA RestAll ==
    ASSUME NEW bytes \in Seq(Byte), NEW n \in 1 .. Len(bytes),
           NEW w, w = SubSeq(bytes, n, Len(bytes))
    PROVE  /\ RestOf(w, bytes) /\ w \in Seq(Byte) /\ Len(bytes) - Len(w) = n - 1
           /\ Len(bytes) \in Nat
<1> DEFINE L == Len(bytes)
<1>1. L \in Nat /\ n \in Nat /\ n <= L /\ n >= 1
  OBVIOUS
<1>2. w \in Seq(Byte) /\ Len(w) = L - n + 1
  BY <1>1
<1>3. Len(w) <= L /\ L - Len(w) + 1 = n /\ L - Len(w) = n - 1
  BY <1>1, <1>2
<1> QED
  BY <1>1, <1>2, <1>3 DEF RestOf

LEMMA AllBytes == ASSUME NEW bytes \in Seq(Byte) PROVE RestOf(bytes, bytes)
<1>1. Len(bytes) \in Nat /\ Len(bytes) - Len(bytes) + 1 = 1
  OBVIOUS
<1>2. SubSeq(bytes, 1, Len(bytes)) = bytes
  OBVIOUS
<1> QED
  BY <1>1, <1>2 DEF RestOf

LEMMA NoBytes == ASSUME NEW bytes \in Seq(Byte) PROVE RestOf(<<>>, bytes)
<1>1. Len(bytes) \in Nat
  OBVIOUS
<1>2. SubSeq(bytes, Len(bytes) + 1, Len(bytes)) = <<>>
  BY <1>1
<1>3. Len(bytes) - Len(<<>>) + 1 = Len(bytes) + 1 /\ Len(<<>>) <= Len(bytes)
  BY <1>1
<1> QED
  BY <1>2, <1>3 DEF RestOf

-----------------------------------------------------------------------------
(* Blocks and hex messages, and their bytes.                               *)
LEMMA ConstantsType ==
    /\ MaxLabelLength \in Nat /\ MaxValueLength \in Nat /\ MaxFields \in Nat
    /\ MaxHexInRow \in Nat /\ MaxHexMessage \in Nat
BY TextAssumption

LEMMA BlockType ==
    ASSUME NEW b \in Blocks
    PROVE  b \in Block /\ Len(b) \in 1 .. MaxFields
BY TextAssumption DEF Block, Field

LEMMA LabelsOf ==
    ASSUME WellFormed, NEW b \in Blocks, NEW k \in 1 .. Len(b) + 1
    PROVE  /\ LabelOf(b, k) \in Seq(Byte) /\ ValueOf(b, k) \in Seq(Byte)
           /\ Len(b) \in Nat
           /\ Len(LabelOf(b, k)) \in 1 .. MaxLabelLength
           /\ NoneOf({CarriageReturn, LineFeed, Tab, Colon}, LabelOf(b, k))
           /\ k <= Len(b) => /\ LabelOf(b, k) # ChecksumLabel
                             /\ b[k] = <<LabelOf(b, k), ValueOf(b, k)>>
                             /\ Len(ValueOf(b, k)) <= MaxValueLength
                             /\ NoneOf({CarriageReturn, LineFeed, Colon}, ValueOf(b, k))
           /\ k > Len(b) => k = Len(b) + 1 /\ LabelOf(b, k) = ChecksumLabel /\ ValueOf(b, k) = <<>>
<1>1. b \in Block /\ Len(b) \in Nat
  BY BlockType, FieldsType
<1>2. Fields(b)[k] \in Field
  BY <1>1, FieldsType
<1>3. LabelOf(b, k) \in Seq(Byte) /\ ValueOf(b, k) \in Seq(Byte)
  BY <1>2 DEF LabelOf, ValueOf, Field
<1>4. CASE k <= Len(b)
  <2>1. k \in 1 .. Len(b) /\ k \in DOMAIN b
    BY <1>1, <1>4 DEF Block
  <2>2. Fields(b)[k] = b[k] /\ b[k] \in Field
    BY <1>1, <1>2, <2>1, FieldsType
  <2>3. b[k] = <<LabelOf(b, k), ValueOf(b, k)>>
    BY <2>2 DEF LabelOf, ValueOf, Field
  <2>4. WellFormedField(b[k])
    BY <2>1 DEF WellFormed
  <2>5. ~(k > Len(b))
    BY <1>1, <1>4
  <2> QED
    BY <1>1, <1>3, <2>2, <2>3, <2>4, <2>5 DEF WellFormedField, LabelOf, ValueOf
<1>5. CASE ~(k <= Len(b))
  <2>1. k = Len(b) + 1
    BY <1>1, <1>5
  <2>2. LabelOf(b, k) = ChecksumLabel /\ ValueOf(b, k) = <<>>
    BY <1>1, <2>1, FieldsType DEF LabelOf, ValueOf
  <2>3. Len(ChecksumLabel) = 8 /\ MaxLabelLength > 8
    BY DEF WellFormed, ChecksumLabel
  <2>4. NoneOf({CarriageReturn, LineFeed, Tab, Colon}, ChecksumLabel)
    BY DEF NoneOf, ChecksumLabel, CarriageReturn, LineFeed, Tab, Colon
  <2>5. Len(ChecksumLabel) \in 1 .. MaxLabelLength
    BY <2>3, ConstantsType
  <2> QED
    BY <1>1, <1>3, <1>5, <2>1, <2>2, <2>4, <2>5
<1> QED
  BY <1>4, <1>5

LEMMA HexDigits ==
    ASSUME NEW n \in 0 .. 15
    PROVE  /\ HexDigit(n) \in Byte /\ HexDigit(n) # LineFeed
           /\ IsHexValue(HexDigit(n)) /\ HexValue(HexDigit(n)) = n
BY DEF HexDigit, Byte, LineFeed, IsHexValue, HexValue

LEMMA Nibbles ==
    ASSUME NEW x \in Byte
    PROVE  /\ x % 16 \in 0 .. 15 /\ x \div 16 \in 0 .. 15
           /\ 16 * (x \div 16) + (x % 16) = x
           /\ x < 16 => x % 16 = x
BY DEF Byte

LEMMA HexType ==
    ASSUME WellFormed, NEW m \in HexMessages
    PROVE  /\ m \in Seq(Byte) /\ Len(m) \in Nat /\ Len(m) >= 2 /\ Len(m) <= MaxHexMessage
           /\ m[1] < 16 /\ SumOf(m) = 85
           /\ \A j \in 1 .. Len(m) : m[j] \in Byte
           /\ HexBytes(m) \in Seq(Byte) /\ Len(HexBytes(m)) = 2 * Len(m) + 1
           /\ HexBytes(m)[1] = Colon
           /\ HexBytes(m)[2 * Len(m) + 1] = LineFeed
           /\ \A j \in 1 .. Len(m) : HexBytes(m)[2 * j] = HexDigit(m[j] % 16)
           /\ \A j \in 2 .. Len(m) : HexBytes(m)[2 * j - 1] = HexDigit(m[j] \div 16)
<1>1. m \in Seq(Byte) /\ WellFormedMessage(m)
  BY TextAssumption DEF WellFormed
<1>2. Len(m) \in Nat /\ Len(m) >= 2 /\ Len(m) <= MaxHexMessage /\ m[1] < 16 /\ SumOf(m) = 85
  BY <1>1, ConstantsType DEF WellFormedMessage
<1>3. \A j \in 1 .. Len(m) : m[j] \in Byte
  BY <1>1
<1> DEFINE L == Len(m)
<1>4. L \in Nat /\ L >= 2
  BY <1>2
<1> HIDE DEF L
<1> DEFINE Char(i) ==
               IF i = 1 THEN Colon
               ELSE IF i = 2 * L + 1 THEN LineFeed
               ELSE IF i % 2 = 0 THEN HexDigit(m[i \div 2] % 16)
               ELSE HexDigit(m[(i + 1) \div 2] \div 16)
<1>5. HexBytes(m) = [i \in 1 .. 2 * L + 1 |-> Char(i)]
  BY DEF HexBytes, L
<1>6. ASSUME NEW j \in 1 .. L PROVE Char(2 * j) = HexDigit(m[j] % 16) /\ 2 * j \in 1 .. 2 * L + 1
  <2>1. 2 * j # 1 /\ 2 * j # 2 * L + 1 /\ (2 * j) % 2 = 0 /\ (2 * j) \div 2 = j
        /\ 2 * j \in 1 .. 2 * L + 1
    BY <1>4
  <2> QED
    BY <2>1
<1>7. ASSUME NEW j \in 2 .. L
      PROVE  Char(2 * j - 1) = HexDigit(m[j] \div 16) /\ 2 * j - 1 \in 1 .. 2 * L + 1
  <2>1. /\ 2 * j - 1 # 1 /\ 2 * j - 1 # 2 * L + 1 /\ (2 * j - 1) % 2 # 0
        /\ ((2 * j - 1) + 1) \div 2 = j /\ 2 * j - 1 \in 1 .. 2 * L + 1
    BY <1>4
  <2> QED
    BY <2>1
<1>8. ASSUME NEW i \in 1 .. 2 * L + 1 PROVE Char(i) \in Byte
  <2>1. Colon \in Byte /\ LineFeed \in Byte
    BY DEF Colon, LineFeed, Byte
  <2>2. CASE i = 1 \/ i = 2 * L + 1
    BY <2>1, <2>2
  <2>3. CASE i # 1 /\ i # 2 * L + 1 /\ i % 2 = 0
    <3>1. i \div 2 \in 1 .. L
      BY <1>4, <2>3
    <3>2. m[i \div 2] % 16 \in 0 .. 15
      BY <1>3, <3>1, Nibbles DEF L
    <3> QED
      BY <2>3, <3>2, HexDigits
  <2>4. CASE i # 1 /\ i # 2 * L + 1 /\ i % 2 # 0
    <3>1. (i + 1) \div 2 \in 1 .. L
      BY <1>4, <2>4
    <3>2. m[(i + 1) \div 2] \div 16 \in 0 .. 15
      BY <1>3, <3>1, Nibbles DEF L
    <3> QED
      BY <2>4, <3>2, HexDigits
  <2> QED
    BY <2>2, <2>3, <2>4
<1>9. HexBytes(m) \in Seq(Byte) /\ Len(HexBytes(m)) = 2 * L + 1
  <2>1. 2 * L + 1 \in Nat
    BY <1>4
  <2> HIDE DEF Char
  <2> QED
    BY <1>5, <1>8, <2>1
<1>10. HexBytes(m)[1] = Colon /\ HexBytes(m)[2 * L + 1] = LineFeed
  <2>1. 1 \in 1 .. 2 * L + 1 /\ 2 * L + 1 \in 1 .. 2 * L + 1 /\ 2 * L + 1 # 1
    BY <1>4
  <2> QED
    BY <1>5, <2>1
<1>11. ASSUME NEW j \in 1 .. L PROVE HexBytes(m)[2 * j] = HexDigit(m[j] % 16)
  <2> HIDE DEF Char
  <2> QED
    BY <1>5, <1>6
<1>12. ASSUME NEW j \in 2 .. L PROVE HexBytes(m)[2 * j - 1] = HexDigit(m[j] \div 16)
  <2> HIDE DEF Char
  <2> QED
    BY <1>5, <1>7
<1> QED
  BY <1>1, <1>2, <1>3, <1>9, <1>10, <1>11, <1>12 DEF L

LEMMA BytesType ==
    ASSUME WellFormed,
           NEW content \in {Text(b) : b \in Blocks} \cup {Hex(m) : m \in HexMessages}
    PROVE  /\ Bytes(content) \in Seq(Byte) /\ Len(Bytes(content)) \in Nat
           /\ Len(Bytes(content)) > 1
           /\ IsText(content) =>
                 /\ content[2] \in Blocks /\ content = Text(content[2])
                 /\ Bytes(content) = BlockBytes(content[2])
           /\ ~IsText(content) =>
                 /\ content[2] \in HexMessages /\ content = Hex(content[2])
                 /\ Bytes(content) = HexBytes(content[2])
                 /\ Len(Bytes(content)) = 2 * Len(content[2]) + 1
<1>1. ASSUME NEW b \in Blocks, content = Text(b)
      PROVE  IsText(content) /\ content[2] = b
  BY <1>1 DEF Text, IsText
<1>2. ASSUME NEW m \in HexMessages, content = Hex(m)
      PROVE  ~IsText(content) /\ content[2] = m
  BY <1>2 DEF Hex, IsText
<1>3. CASE IsText(content)
  <2>1. content[2] \in Blocks /\ content = Text(content[2]) /\ Bytes(content) = BlockBytes(content[2])
    BY <1>1, <1>2, <1>3 DEF Bytes
  <2> QED
    BY <1>3, <2>1, BlockType, LayoutOfBlock, FirstPlace
<1>4. CASE ~IsText(content)
  <2>1. content[2] \in HexMessages /\ content = Hex(content[2]) /\ Bytes(content) = HexBytes(content[2])
    BY <1>1, <1>2, <1>4 DEF Bytes
  <2>2. /\ Len(content[2]) \in Nat /\ Len(content[2]) >= 2
        /\ HexBytes(content[2]) \in Seq(Byte) /\ Len(HexBytes(content[2])) = 2 * Len(content[2]) + 1
    BY <2>1, HexType
  <2> QED
    BY <1>4, <2>1, <2>2
<1> QED
  BY <1>3, <1>4

LEMMA RemoveType ==
    ASSUME NEW bytes \in Seq(Byte), NEW n \in 1 .. Len(bytes)
    PROVE  RemoveAt(bytes, n) \in Seq(Byte)
<1>1. SubSeq(bytes, 1, n - 1) \in Seq(Byte) /\ SubSeq(bytes, n + 1, Len(bytes)) \in Seq(Byte)
  OBVIOUS
<1> QED
  BY <1>1, ConcatProperties DEF RemoveAt

LEMMA PlaceBound ==
    ASSUME NEW b \in Block, NEW p, NEW k, NEW j,
           AtReturn(b, p, k) \/ AtLabel(b, p, k, j) \/ AtValue(b, p, k, j)
    PROVE  p # Len(BlockBytes(b)) /\ p # 0
<1>0. Len(BlockBytes(b)) \in Nat
  BY FirstPlace
<1>1. CASE AtReturn(b, p, k)
  <2>1. p \in Nat /\ 0 < p /\ p + 1 < Len(BlockBytes(b))
    BY <1>1, BehindReturn
  <2> QED
    BY <1>0, <2>1
<1>2. CASE AtLabel(b, p, k, j)
  <2>1. p \in Nat /\ 0 < p /\ p + 1 < Len(BlockBytes(b))
    BY <1>2, InLabel
  <2> QED
    BY <1>0, <2>1
<1>3. CASE AtValue(b, p, k, j)
  <2>1. p \in Nat /\ 0 < p /\ p + 1 <= Len(BlockBytes(b))
    BY <1>3, InValue
  <2> QED
    BY <1>0, <2>1
<1> QED
  BY <1>1, <1>2, <1>3

(* Every byte but the first and the last is somewhere in a field.          *)
LEMMA EveryPlace ==
    ASSUME NEW b \in Block, NEW q \in Nat, 0 < q, q < Len(BlockBytes(b))
    PROVE  \/ \E k : AtReturn(b, q, k)
           \/ \E k, j : AtLabel(b, q, k, j)
           \/ \E k, j : AtValue(b, q, k, j)
<1> DEFINE L == Len(BlockBytes(b))
           At(p) == \/ \E k : AtReturn(b, p, k)
                    \/ \E k, j : AtLabel(b, p, k, j)
                    \/ \E k, j : AtValue(b, p, k, j)
           T == {p \in Nat : 0 < p /\ p < L => At(p)}
<1>0. L \in Nat
  BY FirstPlace
<1>1. 0 \in T
  OBVIOUS
<1>2. ASSUME NEW p \in Nat, p \in T PROVE p + 1 \in T
  <2> SUFFICES ASSUME p + 1 < L PROVE At(p + 1)
    OBVIOUS
  <2>1. CASE p = 0
    <3>1. p + 1 = 1
      BY <2>1
    <3>2. AtReturn(b, 1, 1)
      BY FirstPlace
    <3> QED
      BY <3>1, <3>2
  <2>2. CASE p # 0
    <3>1. At(p)
      <4>1. 0 < p /\ p < L
        BY <1>0, <2>2
      <4> QED
        BY <1>2, <4>1
    <3>2. ASSUME NEW k, AtReturn(b, p, k) PROVE At(p + 1)
      BY <3>2, BehindReturn
    <3>3. ASSUME NEW k, NEW j, AtLabel(b, p, k, j) PROVE At(p + 1)
      <4>1. /\ j \in Nat /\ j <= Len(LabelOf(b, k)) /\ Len(LabelOf(b, k)) \in Nat
            /\ j < Len(LabelOf(b, k)) => AtLabel(b, p + 1, k, j + 1)
            /\ j = Len(LabelOf(b, k)) => AtValue(b, p + 1, k, 0)
        BY <3>3, InLabel, LenProperties
      <4>2. j < Len(LabelOf(b, k)) \/ j = Len(LabelOf(b, k))
        BY <4>1
      <4> QED
        BY <4>1, <4>2
    <3>4. ASSUME NEW k, NEW j, AtValue(b, p, k, j) PROVE At(p + 1)
      <4>1. /\ j \in Nat /\ j <= Len(ValueOf(b, k)) /\ Len(ValueOf(b, k)) \in Nat
            /\ j < Len(ValueOf(b, k)) => AtValue(b, p + 1, k, j + 1)
            /\ j = Len(ValueOf(b, k)) => p + 1 = L \/ AtReturn(b, p + 1, k + 1)
        BY <3>4, InValue, LenProperties
      <4>2. j < Len(ValueOf(b, k)) \/ j = Len(ValueOf(b, k))
        BY <4>1
      <4>3. p + 1 # L
        BY <1>0
      <4> HIDE DEF L
      <4> QED
        BY <4>1, <4>2, <4>3
    <3> QED
      BY <3>1, <3>2, <3>3, <3>4
  <2> QED
    BY <2>1, <2>2
<1>3. q \in T
  <2> HIDE DEF T
  <2> QED
    BY <1>1, <1>2, Induction
<1> QED
  BY <1>3

-----------------------------------------------------------------------------
(***************************************************************************)
(* What the device does.                                                   *)
(***************************************************************************)
LEMMA DeviceSends ==
    ASSUME WellFormed, TypeOK, SendsBlock \/ SendsHexMessage
    PROVE  /\ wire = <<>>
           /\ UNCHANGED <<state, textChecksum, label, value, textBlock, hexMessage, overrun>>
           /\ item'.content \in {Text(b) : b \in Blocks} \cup {Hex(m) : m \in HexMessages}
           /\ wire' \in Seq(Byte)
           /\ \/ item'.whole = TRUE /\ wire' = Bytes(item'.content) /\ lossy' = lossy
              \/ item'.whole = FALSE /\ lossy' = TRUE
           /\ inStep' => item.whole /\ (IsText(item.content) \/ inStep)
<1>1. ASSUME NEW content \in {Text(b) : b \in Blocks} \cup {Hex(m) : m \in HexMessages},
             NEW bytes, bytes = Bytes(content), Sends(content, bytes)
      PROVE  /\ wire = <<>>
             /\ UNCHANGED <<state, textChecksum, label, value, textBlock, hexMessage, overrun>>
             /\ item'.content = content
             /\ wire' \in Seq(Byte)
             /\ \/ item'.whole = TRUE /\ wire' = Bytes(content) /\ lossy' = lossy
                \/ item'.whole = FALSE /\ lossy' = TRUE
             /\ inStep' => item.whole /\ (IsText(item.content) \/ inStep)
  <2>1. bytes \in Seq(Byte)
    BY <1>1, BytesType
  <2>2. \A n \in 1 .. Len(bytes) : RemoveAt(bytes, n) \in Seq(Byte)
    BY <2>1, RemoveType
  <2>3. /\ wire = <<>>
        /\ UNCHANGED <<state, textChecksum, label, value, textBlock, hexMessage, overrun>>
        /\ inStep' = (item.whole /\ (IsText(item.content) \/ inStep))
    BY <1>1 DEF Sends, textVars
  <2>4. CASE wire' = bytes /\ item' = Item(content, TRUE) /\ UNCHANGED lossy
    BY <1>1, <2>1, <2>3, <2>4 DEF Item
  <2>5. CASE /\ \E n \in 1 .. Len(bytes) : wire' = RemoveAt(bytes, n)
             /\ item' = Item(content, FALSE)
             /\ lossy' = TRUE
    BY <2>2, <2>3, <2>5 DEF Item
  <2> QED
    BY <1>1, <2>4, <2>5 DEF Sends
<1>2. ASSUME NEW b \in Blocks PROVE Bytes(Text(b)) = BlockBytes(b)
  BY DEF Bytes, Text, IsText
<1>3. ASSUME NEW m \in HexMessages PROVE Bytes(Hex(m)) = HexBytes(m)
  BY DEF Bytes, Hex, IsText
<1>4. CASE SendsBlock
  <2>1. PICK b \in Blocks : Sends(Text(b), BlockBytes(b))
    BY <1>4 DEF SendsBlock
  <2> QED
    BY <1>1, <1>2, <2>1
<1>5. CASE SendsHexMessage
  <2>1. PICK m \in HexMessages : Sends(Hex(m), HexBytes(m))
    BY <1>5 DEF SendsHexMessage
  <2> QED
    BY <1>1, <1>3, <2>1
<1> QED
  BY <1>4, <1>5

(* How an item leaves the machine.                                         *)
LEMMA AtEnd ==
    ASSUME WellFormed, IInv, wire = <<>>
    PROVE  /\ item.whole /\ ~overrun /\ (IsText(item.content) \/ inStep) =>
                 state = "IDLE" /\ textChecksum = 0
           /\ item.whole /\ ~overrun /\ inStep => applied = item.content
           /\ ~lossy => ~overrun /\ Calm
<1> DEFINE x == item.content[2]
<1>1. /\ Bytes(item.content) \in Seq(Byte) /\ Len(Bytes(item.content)) \in Nat
      /\ Len(Bytes(item.content)) > 1
      /\ IsText(item.content) =>
            /\ x \in Blocks /\ item.content = Text(x) /\ Bytes(item.content) = BlockBytes(x)
      /\ ~IsText(item.content) =>
            /\ x \in HexMessages /\ item.content = Hex(x)
            /\ Len(Bytes(item.content)) = 2 * Len(x) + 1
  BY BytesType DEF IInv, TypeOK
<1>2. Read = Len(Bytes(item.content))
  <2>1. Len(<<>>) = 0
    BY EmptySeq
  <2> QED
    BY <1>1, <2>1 DEF Read
<1>3. ASSUME IsText(item.content)
      PROVE  /\ x \in Block /\ Read = Len(BlockBytes(x)) /\ Read # 0
             /\ \A k, j : ~AtReturn(x, Read, k) /\ ~AtLabel(x, Read, k, j) /\ ~AtValue(x, Read, k, j)
  <2>1. x \in Block /\ Read = Len(BlockBytes(x)) /\ Read # 0
    BY <1>1, <1>2, <1>3, BlockType
  <2> QED
    BY <2>1, PlaceBound
<1>4. ASSUME ~IsText(item.content)
      PROVE  Len(x) \in Nat /\ Read = 2 * Len(x) + 1 /\ Read # 0 /\ Read \notin 1 .. 2 * Len(x)
  <2>1. Len(x) \in Nat /\ Read = 2 * Len(x) + 1
    BY <1>1, <1>2, <1>4, HexType
  <2> QED
    BY <2>1
<1>5. ASSUME item.whole, ~overrun, IsText(item.content)
      PROVE  state = "IDLE" /\ textChecksum = 0
  BY <1>3, <1>5 DEF IInv, FollowOK, Following
<1>6. ASSUME item.whole, ~overrun, ~IsText(item.content), inStep
      PROVE  state = "IDLE" /\ textChecksum = 0 /\ applied = item.content
  BY <1>1, <1>4, <1>6 DEF IInv, StepOK, TakingMessage
<1>7. ASSUME item.whole, ~overrun, IsText(item.content), inStep
      PROVE  applied = item.content
  BY <1>1, <1>3, <1>7 DEF IInv, StepOK, TakingBlock
<1>8. ASSUME ~lossy PROVE ~overrun /\ Calm
  <2>1. CASE IsText(item.content)
    BY <1>3, <1>8, <2>1 DEF IInv, CountOK, CountingFields
  <2>2. CASE ~IsText(item.content)
    BY <1>4, <1>8, <2>2 DEF IInv, CountOK, PassingMessage, Calm, Quiet
  <2> QED
    BY <2>1, <2>2
<1> QED
  BY <1>5, <1>6, <1>7, <1>8

LEMMA SendsIInv ==
    ASSUME WellFormed, IInv, SendsBlock \/ SendsHexMessage
    PROVE  IInv'
<1>t. TypeOK
  BY DEF IInv
<1>1. /\ wire = <<>>
      /\ UNCHANGED <<state, textChecksum, label, value, textBlock, hexMessage, overrun>>
      /\ item'.content \in {Text(b) : b \in Blocks} \cup {Hex(m) : m \in HexMessages}
      /\ wire' \in Seq(Byte)
      /\ \/ item'.whole = TRUE /\ wire' = Bytes(item'.content) /\ lossy' = lossy
         \/ item'.whole = FALSE /\ lossy' = TRUE
      /\ inStep' => item.whole /\ (IsText(item.content) \/ inStep)
  BY <1>t, DeviceSends
<1>2. TypeOK'
  BY <1>t, <1>1 DEF TypeOK
<1>3. CASE item'.whole = FALSE /\ lossy' = TRUE
  BY <1>2, <1>3 DEF IInv, WireOK, FollowOK, StepOK, CountOK
<1>4. CASE item'.whole = TRUE /\ wire' = Bytes(item'.content) /\ lossy' = lossy
  <2>1. Bytes(item'.content) \in Seq(Byte) /\ Len(Bytes(item'.content)) \in Nat
    BY <1>1, BytesType
  <2>2. WireOK'
    BY <1>4, <2>1, AllBytes DEF WireOK, Bytes
  <2>3. Read' = 0
    BY <1>4, <2>1 DEF Read, Bytes
  <2>4. FollowOK'
    BY <2>3 DEF FollowOK, Following
  <2>5. StepOK'
    <3>1. ASSUME ~overrun, inStep' PROVE state = "IDLE" /\ textChecksum = 0
      BY <1>1, <3>1, AtEnd
    <3> QED
      BY <1>1, <2>3, <3>1 DEF StepOK, TakingBlock, TakingMessage
  <2>6. CountOK'
    <3>1. ASSUME ~lossy' PROVE ~overrun /\ Calm
      BY <1>1, <1>4, <3>1, AtEnd
    <3>2. ~lossy' => ~overrun' /\ Calm'
      BY <1>1, <3>1 DEF Calm, Quiet
    <3> QED
      BY <2>3, <3>2 DEF CountOK, CountingFields, PassingMessage
  <2> QED
    BY <1>2, <2>2, <2>4, <2>5, <2>6 DEF IInv
<1> QED
  BY <1>1, <1>3, <1>4

LEMMA InitIInv == ASSUME WellFormed, Init PROVE IInv
<1>0. PICK b \in Blocks : \E n \in 1 .. Len(BlockBytes(b)) :
           /\ wire = SubSeq(BlockBytes(b), n, Len(BlockBytes(b)))
           /\ item = [content |-> Text(b), whole |-> n = 1, hexes |-> 0]
  BY DEF Init
<1>1. PICK n \in 1 .. Len(BlockBytes(b)) :
           /\ wire = SubSeq(BlockBytes(b), n, Len(BlockBytes(b)))
           /\ item = [content |-> Text(b), whole |-> n = 1, hexes |-> 0]
  BY <1>0
<1> DEFINE bytes == BlockBytes(b)
<1>2. b \in Block /\ bytes \in Seq(Byte) /\ Len(bytes) \in Nat
  BY BlockType, LayoutOfBlock, LenProperties
<1>3. item.content = Text(b) /\ IsText(item.content) /\ item.content[2] = b
      /\ Bytes(item.content) = bytes /\ (item.whole <=> n = 1)
  BY <1>1 DEF Text, IsText, Bytes
<1>4. /\ RestOf(wire, bytes) /\ wire \in Seq(Byte) /\ Len(bytes) - Len(wire) = n - 1
  <2> HIDE DEF bytes
  <2> QED
    BY <1>1, <1>2, RestAll DEF bytes
<1>5. Read = n - 1
  BY <1>3, <1>4 DEF Read
<1>6. state = "IDLE" /\ ~overrun /\ ~inStep /\ ~lossy
  BY DEF Init
<1>7. TypeOK
  <2>1. state \in States /\ textChecksum \in Byte
    BY DEF Init, States, Byte
  <2>2. label \in Seq(Byte) /\ value \in Seq(Byte) /\ textBlock \in Seq(Field)
    BY EmptySeq DEF Init
  <2> QED
    BY <1>3, <1>4, <2>1, <2>2 DEF TypeOK
<1>8. WireOK
  BY <1>3, <1>4 DEF WireOK
<1>9. FollowOK
  BY <1>3, <1>5 DEF FollowOK, Following
<1>10. StepOK
  BY <1>6 DEF StepOK
<1>11. CountOK
  <2>1. CASE n = 1
    BY <1>3, <1>5, <1>6, <2>1 DEF CountOK, CountingFields, Calm, Quiet
  <2>2. CASE n # 1
    <3>1. n - 1 \in Nat /\ 0 < n - 1 /\ n - 1 < Len(bytes)
      BY <1>2, <2>2
    <3>2. \/ \E k : AtReturn(b, n - 1, k)
          \/ \E k, j : AtLabel(b, n - 1, k, j)
          \/ \E k, j : AtValue(b, n - 1, k, j)
      BY <1>2, <3>1, EveryPlace
    <3> QED
      BY <1>3, <1>5, <1>6, <3>2
         DEF CountOK, CountingFields, CountsReturn, CountsLabel, CountsValue, Quiet
  <2> QED
    BY <2>1, <2>2
<1> QED
  BY <1>7, <1>8, <1>9, <1>10, <1>11 DEF IInv

-----------------------------------------------------------------------------
(* What is pushed on a string.                                             *)
LEMMA PushType ==
    ASSUME NEW string \in Seq(Byte), NEW c \in Byte, NEW max \in Nat
    PROVE  Push(string, c, max) \in Seq(Byte)
BY AppendProperties DEF Push

LEMMA OneMore ==
    ASSUME NEW S, NEW string \in Seq(S), NEW j \in Nat, j < Len(string)
    PROVE  /\ string[j + 1] \in S
           /\ SubSeq(string, 1, j) \in Seq(S) /\ Len(SubSeq(string, 1, j)) = j
           /\ Append(SubSeq(string, 1, j), string[j + 1]) = SubSeq(string, 1, j + 1)
<1> DEFINE s == SubSeq(string, 1, j)
           c == string[j + 1]
           t == SubSeq(string, 1, j + 1)
<1>0. Len(string) \in Nat /\ j + 1 <= Len(string) /\ j + 1 \in 1 .. Len(string)
  OBVIOUS
<1>1. s \in Seq(S) /\ Len(s) = j /\ \A i \in 1 .. j : s[i] = string[i]
  BY <1>0
<1>2. t \in Seq(S) /\ Len(t) = j + 1 /\ \A i \in 1 .. j + 1 : t[i] = string[i]
  BY <1>0
<1>3. c \in S
  BY <1>0
<1> HIDE DEF s, c, t
<1>4. /\ Append(s, c) \in Seq(S) /\ Len(Append(s, c)) = j + 1
      /\ \A i \in 1 .. j : Append(s, c)[i] = s[i]
      /\ Append(s, c)[j + 1] = c
  BY <1>1, <1>3, AppendProperties
<1>5. \A i \in 1 .. j + 1 : Append(s, c)[i] = t[i]
  BY <1>1, <1>2, <1>4 DEF c
<1>6. Append(s, c) = t
  BY <1>2, <1>4, <1>5, SeqEqual
<1> QED
  BY <1>1, <1>3, <1>6 DEF s, c, t

LEMMA PushPrefix ==
    ASSUME NEW string \in Seq(Byte), NEW max \in Nat, Len(string) <= max,
           NEW j \in Nat, j < Len(string)
    PROVE  Push(SubSeq(string, 1, j), string[j + 1], max) = SubSeq(string, 1, j + 1)
<1>1. Len(string) \in Nat /\ j < max
  OBVIOUS
<1>2. /\ Len(SubSeq(string, 1, j)) = j
      /\ Append(SubSeq(string, 1, j), string[j + 1]) = SubSeq(string, 1, j + 1)
  BY OneMore
<1> QED
  BY <1>1, <1>2 DEF Push

LEMMA NoneAndAllOf ==
    ASSUME NEW string \in Seq(Byte)
    PROVE  SubSeq(string, 1, 0) = <<>> /\ SubSeq(string, 1, Len(string)) = string
<1>1. SubSeq(string, 1, 0) = <<>>
  BY SubSeqEmpty
<1>2. SubSeq(string, 1, Len(string)) = string
  OBVIOUS
<1> QED
  BY <1>1, <1>2

LEMMA FirstOf ==
    ASSUME NEW string \in Seq(Byte), Len(string) >= 1
    PROVE  SubSeq(string, 1, 1) = <<string[1]>>
<1>1. Len(string) \in Nat /\ string[1] \in Byte
  OBVIOUS
<1>2. /\ SubSeq(string, 1, 1) \in Seq(Byte) /\ Len(SubSeq(string, 1, 1)) = 1
      /\ SubSeq(string, 1, 1)[1] = string[1]
  BY <1>1
<1>3. <<string[1]>> \in Seq(Byte) /\ Len(<<string[1]>>) = 1 /\ <<string[1]>>[1] = string[1]
  BY <1>1
<1>4. \A i \in 1 .. 1 : i = 1
  OBVIOUS
<1> QED
  BY <1>2, <1>3, <1>4, SeqEqual

LEMMA StrangeStays ==
    ASSUME NEW string \in Seq(Byte), NEW c \in Byte, Strange(string) \/ c = CarriageReturn
    PROVE  Strange(Push(string, c, MaxLabelLength))
<1>0. Len(string) \in Nat /\ MaxLabelLength \in Nat
  BY ConstantsType
<1>1. CASE Len(string) >= MaxLabelLength
  <2>1. Push(string, c, MaxLabelLength) = string
    BY <1>0, <1>1 DEF Push
  <2> QED
    BY <1>1, <2>1 DEF Strange
<1>2. CASE ~(Len(string) >= MaxLabelLength)
  <2> DEFINE t == Append(string, c)
  <2>1. Push(string, c, MaxLabelLength) = t
    BY <1>0, <1>2 DEF Push
  <2>2. /\ Len(t) = Len(string) + 1 /\ t[Len(string) + 1] = c
        /\ \A i \in 1 .. Len(string) : t[i] = string[i]
    BY AppendProperties
  <2> HIDE DEF t
  <2>3. \E i \in 1 .. Len(t) : t[i] = CarriageReturn
    <3>1. CASE c = CarriageReturn
      BY <1>0, <2>2, <3>1
    <3>2. CASE Strange(string)
      <4>1. PICK i \in 1 .. Len(string) : string[i] = CarriageReturn
        BY <1>2, <3>2 DEF Strange
      <4>2. i \in 1 .. Len(t)
        BY <1>0, <2>2
      <4> QED
        BY <2>2, <4>1, <4>2
    <3> QED
      BY <3>1, <3>2
  <2> QED
    BY <2>1, <2>3 DEF Strange
<1> QED
  BY <1>1, <1>2

LEMMA StrangeIsNotChecksum ==
    ASSUME WellFormed, NEW string, Strange(string)
    PROVE  string # ChecksumLabel
<1> SUFFICES ASSUME string = ChecksumLabel PROVE FALSE
  OBVIOUS
<1>1. Len(ChecksumLabel) = 8 /\ \A i \in 1 .. 8 : ChecksumLabel[i] # CarriageReturn
  BY DEF ChecksumLabel, CarriageReturn
<1>2. ~(8 >= MaxLabelLength)
  BY <1>1, ConstantsType DEF WellFormed
<1> QED
  BY <1>1, <1>2 DEF Strange

LEMMA AllDifferent ==
    /\ CarriageReturn \in Byte /\ LineFeed \in Byte /\ Tab \in Byte /\ Colon \in Byte
    /\ CarriageReturn # LineFeed /\ CarriageReturn # Tab /\ CarriageReturn # Colon
    /\ LineFeed # Tab /\ LineFeed # Colon /\ Tab # Colon
BY DEF CarriageReturn, LineFeed, Tab, Colon, Byte

-----------------------------------------------------------------------------
(***************************************************************************)
(* The types, and what is left to read.                                    *)
(***************************************************************************)
LEMMA ReadType ==
    ASSUME TypeOK, processCharInput
    PROVE  TypeOK' /\ Head(wire) \in Byte
<1> DEFINE c == Head(wire)
<1>1. ~overrun /\ wire # <<>> /\ wire' = Tail(wire) /\ item' = item
  BY Reads
<1>2. c \in Byte /\ wire' \in Seq(Byte)
  BY <1>1, HeadTailProperties DEF TypeOK
<1> HIDE DEF c
<1>3. state \in States /\ textChecksum \in Byte /\ label \in Seq(Byte) /\ value \in Seq(Byte)
      /\ textBlock \in Seq(Field)
  BY DEF TypeOK
<1>4. (textChecksum + c) % 256 \in Byte /\ LineFeed \in Byte /\ 0 \in Byte /\ <<>> \in Seq(Field)
      /\ <<>> \in Seq(Byte) /\ <<c>> \in Seq(Byte)
  <2>1. textChecksum + c \in Int
    BY <1>2, <1>3, ByteInt
  <2>2. (textChecksum + c) % 256 \in Byte
    BY <2>1, Mod256
  <2>3. LineFeed \in Byte /\ 0 \in Byte
    BY DEF LineFeed, Byte
  <2>4. <<>> \in Seq(Field) /\ <<>> \in Seq(Byte) /\ <<c>> \in Seq(Byte)
    BY <1>2, EmptySeq
  <2> QED
    BY <2>2, <2>3, <2>4
<1>5. Push(label, c, MaxLabelLength) \in Seq(Byte) /\ Push(value, c, MaxValueLength) \in Seq(Byte)
  BY <1>2, <1>3, ConstantsType, PushType
<1>6. Append(textBlock, <<label, value>>) \in Seq(Field)
  <2>1. <<label, value>> \in Field
    BY <1>3 DEF Field
  <2> QED
    BY <1>3, <2>1, AppendProperties
<1>7. /\ state' \in States /\ textChecksum' \in Byte /\ label' \in Seq(Byte)
      /\ value' \in Seq(Byte) /\ textBlock' \in Seq(Field)
  <2>1. CASE state = "IDLE"
    <3>1. state' \in States
      BY <2>1, IdleReads DEF States
    <3> QED
      BY <1>3, <1>4, <2>1, <3>1, IdleReads DEF c
  <2>2. CASE state = "IN_RUNT_MESSAGE"
    <3>1. state' \in States
      BY <2>2, RuntReads DEF States
    <3> QED
      BY <1>3, <1>4, <2>2, <3>1, RuntReads DEF c
  <2>3. CASE state = "START_TEXT_MESSAGE"
    <3>1. state' \in States
      BY <2>3, StartReads DEF States
    <3> QED
      BY <1>3, <1>4, <2>3, <3>1, StartReads DEF c
  <2>4. CASE state = "IN_TEXT_FIELD_LABEL"
    <3>1. state' \in States
      BY <2>4, LabelReads DEF States
    <3> QED
      BY <1>3, <1>4, <1>5, <2>4, <3>1, LabelReads DEF c
  <2>5. CASE state = "IN_TEXT_FIELD_VALUE"
    <3>1. state' \in States
      BY <2>5, ValueReads DEF States
    <3> QED
      BY <1>3, <1>4, <1>5, <1>6, <2>5, <3>1, ValueReads DEF c
  <2>6. CASE state = "IN_TEXT_CHECKSUM"
    BY <1>3, <1>4, <2>6, ChecksumReads DEF States
  <2>7. CASE state = "IN_HEX_PROTOCOL_MESSAGE"
    BY <1>3, <1>4, <2>7, HexReads DEF States
  <2> QED
    BY <1>3, <2>1, <2>2, <2>3, <2>4, <2>5, <2>6, <2>7 DEF States
<1> QED
  BY <1>1, <1>2, <1>7 DEF TypeOK, c

LEMMA ReadWire ==
    ASSUME WellFormed, TypeOK, WireOK, processCharInput
    PROVE  /\ WireOK'
           /\ item.whole \/ ~lossy =>
                 /\ Read \in Nat /\ Read < Len(Bytes(item.content))
                 /\ Head(wire) = Bytes(item.content)[Read + 1]
                 /\ Read' = Read + 1
           /\ lossy /\ ~lossy' =>
                 Read' = Len(Bytes(item.content)) /\ state' = "IDLE"
<1> DEFINE bytes == Bytes(item.content)
<1>1. /\ wire # <<>> /\ wire' = Tail(wire) /\ item' = item
      /\ \/ lossy' = lossy
         \/ lossy' = (lossy /\ wire' # <<>>) /\ state' = "IDLE"
  BY Reads
<1>2. bytes \in Seq(Byte) /\ Len(bytes) \in Nat /\ wire \in Seq(Byte)
  BY BytesType DEF TypeOK
<1>3. Bytes(item.content)' = bytes /\ Read' = Len(bytes) - Len(wire')
  BY <1>1 DEF Read, Bytes
<1>4. ASSUME item.whole \/ ~lossy
      PROVE  /\ RestOf(wire', bytes)
             /\ Read \in Nat /\ Read < Len(bytes) /\ Head(wire) = bytes[Read + 1]
             /\ Read' = Read + 1
  <2>1. RestOf(wire, bytes)
    BY <1>4 DEF WireOK
  <2>2. Read = Len(bytes) - Len(wire)
    BY DEF Read
  <2> HIDE DEF bytes
  <2> QED
    BY <1>1, <1>2, <1>3, <2>1, <2>2, RestStep
<1>5. ASSUME lossy, ~lossy'
      PROVE  RestOf(wire', bytes) /\ Read' = Len(bytes) /\ state' = "IDLE"
  <2>1. wire' = <<>> /\ state' = "IDLE"
    BY <1>1, <1>5
  <2>2. Len(<<>>) = 0
    BY EmptySeq
  <2> HIDE DEF bytes
  <2> QED
    BY <1>2, <1>3, <2>1, <2>2, NoBytes
<1>6. WireOK'
  BY <1>1, <1>3, <1>4, <1>5 DEF WireOK
<1> QED
  BY <1>4, <1>5, <1>6

-----------------------------------------------------------------------------
(***************************************************************************)
(* The machine follows a whole block.                                      *)
(***************************************************************************)
LEMMA FollowsFromStart ==
    ASSUME TypeOK, processCharInput, Head(wire) = CarriageReturn
    PROVE  FollowsReturn(1)'
<1>1. CASE state = "IDLE"
  BY <1>1, IdleReads DEF FollowsReturn
<1>2. CASE state = "IN_RUNT_MESSAGE"
  <2>1. state' = "IN_RUNT_MESSAGE"
    BY <1>2, RuntReads, AllDifferent
  <2> QED
    BY <2>1 DEF FollowsReturn
<1>3. CASE state = "START_TEXT_MESSAGE"
  <2>1. state' = "IN_TEXT_FIELD_LABEL" /\ label' = <<CarriageReturn>>
    BY <1>3, StartReads, AllDifferent
  <2>2. 1 \in 1 .. Len(<<CarriageReturn>>) /\ <<CarriageReturn>>[1] = CarriageReturn
    OBVIOUS
  <2>3. Strange(label')
    BY <2>1, <2>2 DEF Strange
  <2> QED
    BY <2>1, <2>3 DEF FollowsReturn, Strange
<1>4. CASE state = "IN_TEXT_FIELD_LABEL"
  <2>1. /\ state' = "IN_TEXT_FIELD_LABEL"
        /\ label' = Push(label, CarriageReturn, MaxLabelLength)
    BY <1>4, LabelReads, AllDifferent
  <2>2. Strange(label')
    BY <2>1, StrangeStays, AllDifferent DEF TypeOK
  <2> QED
    BY <2>1, <2>2 DEF FollowsReturn, Strange
<1>5. CASE state = "IN_TEXT_FIELD_VALUE"
  <2>1. state' = "IN_TEXT_FIELD_VALUE"
    BY <1>5, ValueReads, AllDifferent
  <2> QED
    BY <2>1 DEF FollowsReturn
<1>6. CASE state = "IN_TEXT_CHECKSUM"
  BY <1>6, ChecksumReads DEF FollowsReturn
<1>7. CASE state = "IN_HEX_PROTOCOL_MESSAGE"
  <2>1. state' = "IN_HEX_PROTOCOL_MESSAGE"
    BY <1>7, HexReads, AllDifferent
  <2> QED
    BY <2>1 DEF FollowsReturn
<1> QED
  BY <1>1, <1>2, <1>3, <1>4, <1>5, <1>6, <1>7 DEF TypeOK, States

LEMMA FollowsFromReturn ==
    ASSUME TypeOK, processCharInput, Head(wire) = LineFeed,
           NEW b, NEW k \in Nat, FollowsReturn(k)
    PROVE  FollowsLabel(b, k, 0)'
<1>1. CASE state \in {"IDLE", "IN_RUNT_MESSAGE", "IN_TEXT_FIELD_VALUE"}
  <2>1. state' = "START_TEXT_MESSAGE"
    BY <1>1, IdleReads, RuntReads, ValueReads
  <2> QED
    BY <2>1 DEF FollowsLabel
<1>2. CASE k = 1 /\ state = "IN_HEX_PROTOCOL_MESSAGE"
  <2>1. state' = "IDLE"
    BY <1>2, HexReads
  <2> QED
    BY <1>2, <2>1 DEF FollowsLabel
<1>3. CASE k = 1 /\ state = "IN_TEXT_FIELD_LABEL" /\ Strange(label)
  <2>1. state' = "IN_TEXT_FIELD_LABEL" /\ label' = Push(label, LineFeed, MaxLabelLength)
    BY <1>3, LabelReads, AllDifferent
  <2>2. Strange(label')
    BY <1>3, <2>1, StrangeStays, AllDifferent DEF TypeOK
  <2> QED
    BY <1>3, <2>1, <2>2 DEF FollowsLabel, Strange
<1> QED
  BY <1>1, <1>2, <1>3 DEF FollowsReturn

LEMMA ValueByte ==
    ASSUME WellFormed, NEW b \in Blocks, NEW k \in 1 .. Len(b) + 1,
           NEW j \in Nat, j < Len(ValueOf(b, k))
    PROVE  /\ k # Len(b) + 1 /\ k <= Len(b)
           /\ ValueOf(b, k)[j + 1] \in Byte
           /\ ValueOf(b, k)[j + 1] \notin {CarriageReturn, LineFeed, Colon}
<1> DEFINE v == ValueOf(b, k)
<1>1. /\ v \in Seq(Byte) /\ Len(v) \in Nat /\ Len(b) \in Nat
      /\ k <= Len(b) => NoneOf({CarriageReturn, LineFeed, Colon}, v)
      /\ k > Len(b) => v = <<>>
  BY LabelsOf, LenProperties
<1>2. v # <<>>
  <2>1. Len(<<>>) = 0
    BY EmptySeq
  <2> HIDE DEF v
  <2> QED
    BY <1>1, <2>1 DEF v
<1>3. k <= Len(b) /\ k # Len(b) + 1
  BY <1>1, <1>2
<1>4. j + 1 \in 1 .. Len(v) /\ j + 1 \in DOMAIN v
  BY <1>1
<1> QED
  BY <1>1, <1>3, <1>4 DEF NoneOf

LEMMA FollowsInLabel ==
    ASSUME WellFormed, TypeOK, processCharInput,
           NEW b \in Blocks, NEW k \in 1 .. Len(b) + 1, NEW j \in Nat, j < Len(LabelOf(b, k)),
           Head(wire) = LabelOf(b, k)[j + 1], FollowsLabel(b, k, j)
    PROVE  FollowsLabel(b, k, j + 1)'
<1> DEFINE l == LabelOf(b, k)
           c == l[j + 1]
<1>1. /\ l \in Seq(Byte) /\ Len(l) \in Nat /\ Len(l) >= 1 /\ Len(l) <= MaxLabelLength
      /\ NoneOf({CarriageReturn, LineFeed, Tab, Colon}, l)
  <2>1. /\ l \in Seq(Byte) /\ Len(l) \in 1 .. MaxLabelLength
        /\ NoneOf({CarriageReturn, LineFeed, Tab, Colon}, l)
    BY LabelsOf
  <2> QED
    BY <2>1, ConstantsType
<1>2. j + 1 \in 1 .. Len(l) /\ j + 1 \in DOMAIN l /\ j + 1 > 0 /\ j + 1 # 0
  BY <1>1
<1>3. c \in Byte /\ c \notin {CarriageReturn, LineFeed, Tab, Colon}
  BY <1>1, <1>2 DEF NoneOf
<1>4. SubSeq(l, 1, 1) = <<l[1]>>
  BY <1>1, FirstOf
<1>5. Push(SubSeq(l, 1, j), c, MaxLabelLength) = SubSeq(l, 1, j + 1)
  BY <1>1, ConstantsType, PushPrefix
<1>6. CASE j = 0 /\ state = "START_TEXT_MESSAGE"
  <2>1. state' = "IN_TEXT_FIELD_LABEL" /\ label' = <<c>>
    BY <1>3, <1>6, StartReads
  <2>2. <<c>> = SubSeq(l, 1, j + 1)
    BY <1>4, <1>6
  <2> QED
    BY <1>2, <2>1, <2>2 DEF FollowsLabel
<1>7. CASE j > 0 /\ state = "IN_TEXT_FIELD_LABEL" /\ label = SubSeq(l, 1, j)
  <2>1. state' = "IN_TEXT_FIELD_LABEL" /\ label' = SubSeq(l, 1, j + 1)
    BY <1>3, <1>5, <1>7, LabelReads
  <2> QED
    BY <1>2, <2>1 DEF FollowsLabel
<1>8. CASE k = 1 /\ state = "IN_TEXT_FIELD_LABEL" /\ Strange(label)
  <2>1. state' = "IN_TEXT_FIELD_LABEL" /\ label' = Push(label, c, MaxLabelLength)
    BY <1>3, <1>8, LabelReads
  <2>2. Strange(label')
    BY <1>3, <1>8, <2>1, StrangeStays DEF TypeOK
  <2> QED
    BY <1>8, <2>1, <2>2 DEF FollowsLabel, Strange
<1>9. CASE k = 1 /\ state = IF j = 0 THEN "IDLE" ELSE "IN_RUNT_MESSAGE"
  <2>1. state' = "IN_RUNT_MESSAGE"
    BY <1>3, <1>9, IdleReads, RuntReads
  <2> QED
    BY <1>2, <1>9, <2>1 DEF FollowsLabel
<1> QED
  BY <1>6, <1>7, <1>8, <1>9 DEF FollowsLabel

LEMMA FollowsFromLabel ==
    ASSUME WellFormed, TypeOK, processCharInput,
           NEW b \in Blocks, NEW k \in 1 .. Len(b) + 1, Head(wire) = Tab,
           FollowsLabel(b, k, Len(LabelOf(b, k)))
    PROVE  FollowsValue(b, k)'
<1> DEFINE l == LabelOf(b, k)
<1>1. /\ l \in Seq(Byte) /\ Len(l) \in Nat /\ Len(l) # 0
      /\ k <= Len(b) => l # ChecksumLabel
      /\ k > Len(b) => k = Len(b) + 1 /\ l = ChecksumLabel
  <2>1. /\ l \in Seq(Byte) /\ Len(l) \in 1 .. MaxLabelLength
        /\ k <= Len(b) => l # ChecksumLabel
        /\ k > Len(b) => k = Len(b) + 1 /\ l = ChecksumLabel
    BY LabelsOf
  <2> QED
    BY <2>1, ConstantsType
<1>2. k = Len(b) + 1 <=> l = ChecksumLabel
  <2>1. k \in Nat /\ Len(b) \in Nat
    BY LabelsOf
  <2> QED
    BY <1>1, <2>1
<1>3. k = 1 => k # Len(b) + 1
  BY BlockType
<1>4. SubSeq(l, 1, Len(l)) = l
  BY <1>1, NoneAndAllOf
<1>5. CASE state = "IN_TEXT_FIELD_LABEL" /\ label = SubSeq(l, 1, Len(l))
  <2>1. state' = IF l = ChecksumLabel THEN "IN_TEXT_CHECKSUM" ELSE "IN_TEXT_FIELD_VALUE"
    BY <1>4, <1>5, LabelReads
  <2> QED
    BY <1>2, <2>1 DEF FollowsValue
<1>6. CASE k = 1 /\ state = "IN_TEXT_FIELD_LABEL" /\ Strange(label)
  <2>1. state' = "IN_TEXT_FIELD_VALUE"
    BY <1>6, LabelReads, StrangeIsNotChecksum
  <2> QED
    BY <1>3, <1>6, <2>1 DEF FollowsValue
<1>7. CASE k = 1 /\ state = "IN_RUNT_MESSAGE"
  <2>1. state' = "IN_RUNT_MESSAGE"
    BY <1>7, RuntReads, AllDifferent
  <2> QED
    BY <1>7, <2>1 DEF FollowsValue
<1> QED
  BY <1>1, <1>5, <1>6, <1>7 DEF FollowsLabel

LEMMA FollowsInValue ==
    ASSUME WellFormed, TypeOK, processCharInput,
           NEW b \in Blocks, NEW k \in 1 .. Len(b) + 1, k # Len(b) + 1,
           Head(wire) \notin {LineFeed, Colon}, FollowsValue(b, k)
    PROVE  /\ FollowsValue(b, k)'
           /\ FollowsReturn(k + 1)'
<1>1. k + 1 # 1
  OBVIOUS
<1>2. state \in {"IN_TEXT_FIELD_VALUE", "IN_RUNT_MESSAGE"} /\ state' = state
  BY ValueReads, RuntReads DEF FollowsValue
<1> QED
  BY <1>1, <1>2 DEF FollowsValue, FollowsReturn

LEMMA FollowStep ==
    ASSUME WellFormed, TypeOK, processCharInput,
           NEW b \in Blocks, NEW p \in Nat, p < Len(BlockBytes(b)),
           Head(wire) = BlockBytes(b)[p + 1], Following(b, p)
    PROVE  Following(b, p + 1)'
<1>0. b \in Block /\ Len(b) \in Nat
  BY BlockType, FieldsType
<1>1. CASE p = 0
  <2>1. p + 1 = 1
    BY <1>1
  <2>2. BlockBytes(b)[1] = CarriageReturn /\ AtReturn(b, 1, 1)
    BY <1>0, FirstPlace
  <2>3. FollowsReturn(1)'
    BY <2>1, <2>2, FollowsFromStart
  <2> QED
    BY <2>1, <2>2, <2>3 DEF Following
<1>2. ASSUME NEW k, AtReturn(b, p, k), FollowsReturn(k) PROVE Following(b, p + 1)'
  <2>1. BlockBytes(b)[p + 1] = LineFeed /\ AtLabel(b, p + 1, k, 0)
    BY <1>0, <1>2, BehindReturn
  <2>2. k \in Nat
    BY <1>0, <1>2 DEF AtReturn
  <2>3. FollowsLabel(b, k, 0)'
    BY <1>2, <2>1, <2>2, FollowsFromReturn
  <2> QED
    BY <2>1, <2>3 DEF Following
<1>3. ASSUME NEW k, NEW j, AtLabel(b, p, k, j), FollowsLabel(b, k, j) PROVE Following(b, p + 1)'
  <2>1. /\ j \in Nat /\ j <= Len(LabelOf(b, k)) /\ Len(LabelOf(b, k)) \in Nat
        /\ j < Len(LabelOf(b, k)) => /\ BlockBytes(b)[p + 1] = LabelOf(b, k)[j + 1]
                                     /\ AtLabel(b, p + 1, k, j + 1)
        /\ j = Len(LabelOf(b, k)) => /\ BlockBytes(b)[p + 1] = Tab
                                     /\ AtValue(b, p + 1, k, 0)
    BY <1>0, <1>3, InLabel, LenProperties
  <2>2. k \in 1 .. Len(b) + 1
    BY <1>3 DEF AtLabel
  <2>3. CASE j < Len(LabelOf(b, k))
    <3>1. FollowsLabel(b, k, j + 1)'
      BY <1>3, <2>1, <2>2, <2>3, FollowsInLabel
    <3> QED
      BY <2>1, <2>3, <3>1 DEF Following
  <2>4. CASE j = Len(LabelOf(b, k))
    <3>1. FollowsValue(b, k)'
      BY <1>3, <2>1, <2>2, <2>4, FollowsFromLabel
    <3> QED
      BY <2>1, <2>4, <3>1 DEF Following
  <2> QED
    BY <2>1, <2>3, <2>4
<1>4. ASSUME NEW k, NEW j, AtValue(b, p, k, j), FollowsValue(b, k) PROVE Following(b, p + 1)'
  <2>1. /\ j \in Nat /\ j <= Len(ValueOf(b, k)) /\ Len(ValueOf(b, k)) \in Nat
        /\ j < Len(ValueOf(b, k)) => /\ BlockBytes(b)[p + 1] = ValueOf(b, k)[j + 1]
                                     /\ AtValue(b, p + 1, k, j + 1)
        /\ j = Len(ValueOf(b, k)) /\ k = Len(b) + 1 => p + 1 = Len(BlockBytes(b))
        /\ j = Len(ValueOf(b, k)) /\ k # Len(b) + 1 =>
              BlockBytes(b)[p + 1] = CarriageReturn /\ AtReturn(b, p + 1, k + 1)
    <3>1. ValueOf(b, k) \in Seq(Byte)
      BY <1>0, <1>4, InValue
    <3>2. Len(ValueOf(b, k)) \in Nat
      BY <3>1, LenProperties
    <3>3. j \in Nat /\ j <= Len(ValueOf(b, k))
      BY <1>0, <1>4, InValue
    <3>4. j < Len(ValueOf(b, k)) => /\ BlockBytes(b)[p + 1] = ValueOf(b, k)[j + 1]
                                    /\ AtValue(b, p + 1, k, j + 1)
      <4>1. ASSUME j < Len(ValueOf(b, k)) PROVE BlockBytes(b)[p + 1] = ValueOf(b, k)[j + 1]
        BY <1>0, <1>4, <3>3, <4>1, ByteInValue
      <4>2. j < Len(ValueOf(b, k)) => AtValue(b, p + 1, k, j + 1)
        BY <1>0, <1>4, InValue
      <4> QED
        BY <4>1, <4>2
    <3>5. j = Len(ValueOf(b, k)) /\ k = Len(b) + 1 => p + 1 = Len(BlockBytes(b))
      BY <1>0, <1>4, InValue
    <3>6. j = Len(ValueOf(b, k)) /\ k # Len(b) + 1 =>
              BlockBytes(b)[p + 1] = CarriageReturn /\ AtReturn(b, p + 1, k + 1)
      BY <1>0, <1>4, InValue
    <3> QED
      BY <3>2, <3>3, <3>4, <3>5, <3>6
  <2>2. k \in 1 .. Len(b) + 1
    BY <1>4 DEF AtValue
  <2>3. CASE j < Len(ValueOf(b, k))
    <3>1. /\ k # Len(b) + 1
          /\ ValueOf(b, k)[j + 1] \notin {LineFeed, Colon}
      BY <1>0, <2>1, <2>2, <2>3, ValueByte
    <3>2. FollowsValue(b, k)'
      BY <1>4, <2>1, <2>2, <2>3, <3>1, FollowsInValue
    <3> QED
      BY <2>1, <2>3, <3>2 DEF Following
  <2>4. CASE j = Len(ValueOf(b, k)) /\ k # Len(b) + 1
    <3>1. FollowsReturn(k + 1)'
      BY <1>4, <2>1, <2>2, <2>4, FollowsInValue, AllDifferent
    <3> QED
      BY <2>1, <2>4, <3>1 DEF Following
  <2>5. CASE j = Len(ValueOf(b, k)) /\ k = Len(b) + 1
    <3>1. k # 1
      BY <2>5, BlockType
    <3>2. state' = "IDLE" /\ textChecksum' = 0
      BY <1>4, <2>5, <3>1, ChecksumReads DEF FollowsValue
    <3> QED
      BY <2>1, <2>5, <3>2 DEF Following
  <2> QED
    BY <2>1, <2>3, <2>4, <2>5
<1>5. p # Len(BlockBytes(b))
  BY <1>0, FirstPlace
<1> QED
  BY <1>1, <1>2, <1>3, <1>4, <1>5 DEF Following

-----------------------------------------------------------------------------
(***************************************************************************)
(* The machine takes a whole block that starts in step.                    *)
(***************************************************************************)
LEMMA SumOfPrefix ==
    ASSUME NEW s \in Seq(Byte), NEW p \in Nat, p < Len(s)
    PROVE  SumOf(SubSeq(s, 1, p + 1)) = (SumOf(SubSeq(s, 1, p)) + s[p + 1]) % 256
<1>1. /\ s[p + 1] \in Byte /\ SubSeq(s, 1, p) \in Seq(Byte)
      /\ Append(SubSeq(s, 1, p), s[p + 1]) = SubSeq(s, 1, p + 1)
  BY OneMore
<1> QED
  BY <1>1, SumOfAppend

LEMMA SumOfNothing == SumOf(<<>>) = 0
<1>1. <<>> \in Seq(Byte) /\ Len(<<>>) = 0
  BY EmptySeq
<1>2. PICK f : SumsTo(<<>>, f)
  BY <1>1, SumsExist
<1>3. SumOf(<<>>) = f[Len(<<>>)]
  BY <1>1, <1>2, SumIs
<1>4. f[0] = 0
  BY <1>2 DEF SumsTo, Follows
<1> QED
  BY <1>1, <1>3, <1>4

LEMMA TakesFromReturn ==
    ASSUME WellFormed, TypeOK, processCharInput, Head(wire) = LineFeed,
           NEW b \in Blocks, NEW k \in 1 .. Len(b) + 1, TakesReturn(b, k)
    PROVE  TakesLabel(b, k, 0)' /\ textChecksum' = (textChecksum + LineFeed) % 256
<1>0. b \in Block /\ Len(b) \in Nat /\ Len(b) <= MaxFields /\ MaxFields \in Nat
  BY BlockType, FieldsType, ConstantsType
<1>1. CASE k = 1
  <2>1. /\ state' = "START_TEXT_MESSAGE" /\ textBlock' = <<>>
        /\ textChecksum' = (textChecksum + LineFeed) % 256
    BY <1>1, IdleReads DEF TakesReturn
  <2>2. SubSeq(b, 1, k - 1) = <<>>
    BY <1>1, SubSeqEmpty
  <2> QED
    BY <2>1, <2>2 DEF TakesLabel
<1>2. CASE k # 1
  <2>1. k - 2 \in Nat /\ k - 2 < Len(b) /\ k - 2 < MaxFields /\ (k - 2) + 1 = k - 1
    BY <1>0, <1>2
  <2>2. /\ Len(SubSeq(b, 1, k - 2)) = k - 2
        /\ Append(SubSeq(b, 1, k - 2), b[k - 1]) = SubSeq(b, 1, k - 1)
    <3>1. /\ Len(SubSeq(b, 1, k - 2)) = k - 2
          /\ Append(SubSeq(b, 1, k - 2), b[(k - 2) + 1]) = SubSeq(b, 1, (k - 2) + 1)
      BY <1>0, <2>1, OneMore DEF Block
    <3> QED
      BY <2>1, <3>1
  <2>3. /\ state = "IN_TEXT_FIELD_VALUE" /\ <<label, value>> = b[k - 1]
        /\ textBlock = SubSeq(b, 1, k - 2)
    BY <1>2 DEF TakesReturn
  <2>4. Len(textBlock) < MaxFields
    BY <2>1, <2>2, <2>3
  <2>5. /\ state' = "START_TEXT_MESSAGE" /\ textBlock' = Append(textBlock, <<label, value>>)
        /\ textChecksum' = (textChecksum + LineFeed) % 256
    BY <2>3, <2>4, ValueReads
  <2>6. textBlock' = SubSeq(b, 1, k - 1)
    BY <2>2, <2>3, <2>5
  <2> QED
    BY <2>5, <2>6 DEF TakesLabel
<1> QED
  BY <1>1, <1>2

LEMMA TakesInLabel ==
    ASSUME WellFormed, TypeOK, processCharInput,
           NEW b \in Blocks, NEW k \in 1 .. Len(b) + 1, NEW j \in Nat, j < Len(LabelOf(b, k)),
           Head(wire) = LabelOf(b, k)[j + 1], TakesLabel(b, k, j)
    PROVE  TakesLabel(b, k, j + 1)' /\ textChecksum' = (textChecksum + Head(wire)) % 256
<1> DEFINE l == LabelOf(b, k)
           c == l[j + 1]
<1>1. /\ l \in Seq(Byte) /\ Len(l) \in Nat /\ Len(l) >= 1 /\ Len(l) <= MaxLabelLength
      /\ NoneOf({CarriageReturn, LineFeed, Tab, Colon}, l)
  <2>1. /\ l \in Seq(Byte) /\ Len(l) \in 1 .. MaxLabelLength
        /\ NoneOf({CarriageReturn, LineFeed, Tab, Colon}, l)
    BY LabelsOf
  <2> QED
    BY <2>1, ConstantsType
<1>2. j + 1 \in DOMAIN l /\ j + 1 # 0
  BY <1>1
<1>3. c \notin {CarriageReturn, LineFeed, Tab, Colon}
  BY <1>1, <1>2 DEF NoneOf
<1>4. CASE j = 0
  <2>1. /\ state' = "IN_TEXT_FIELD_LABEL" /\ label' = <<c>> /\ value' = <<>>
        /\ textBlock' = textBlock /\ textChecksum' = (textChecksum + Head(wire)) % 256
    BY <1>3, <1>4, StartReads DEF TakesLabel
  <2>2. <<c>> = SubSeq(l, 1, j + 1)
    BY <1>1, <1>4, FirstOf
  <2> QED
    BY <1>2, <2>1, <2>2 DEF TakesLabel
<1>5. CASE j # 0
  <2>1. /\ state' = "IN_TEXT_FIELD_LABEL" /\ label' = Push(label, c, MaxLabelLength)
        /\ value' = <<>> /\ textBlock' = textBlock
        /\ textChecksum' = (textChecksum + Head(wire)) % 256
    BY <1>3, <1>5, LabelReads DEF TakesLabel
  <2>2. Push(SubSeq(l, 1, j), c, MaxLabelLength) = SubSeq(l, 1, j + 1)
    BY <1>1, ConstantsType, PushPrefix
  <2>3. label = SubSeq(l, 1, j)
    BY <1>5 DEF TakesLabel
  <2> QED
    BY <1>2, <2>1, <2>2, <2>3 DEF TakesLabel
<1> QED
  BY <1>4, <1>5

LEMMA TakesFromLabel ==
    ASSUME WellFormed, TypeOK, processCharInput,
           NEW b \in Blocks, NEW k \in 1 .. Len(b) + 1, Head(wire) = Tab,
           TakesLabel(b, k, Len(LabelOf(b, k)))
    PROVE  TakesValue(b, k, 0)' /\ textChecksum' = (textChecksum + Head(wire)) % 256
<1> DEFINE l == LabelOf(b, k)
<1>1. /\ l \in Seq(Byte) /\ Len(l) \in Nat /\ Len(l) # 0
      /\ k <= Len(b) => l # ChecksumLabel
      /\ k > Len(b) => k = Len(b) + 1 /\ l = ChecksumLabel
  <2>1. /\ l \in Seq(Byte) /\ Len(l) \in 1 .. MaxLabelLength
        /\ k <= Len(b) => l # ChecksumLabel
        /\ k > Len(b) => k = Len(b) + 1 /\ l = ChecksumLabel
    BY LabelsOf
  <2> QED
    BY <2>1, ConstantsType
<1>2. k = Len(b) + 1 <=> l = ChecksumLabel
  <2>1. k \in Nat /\ Len(b) \in Nat
    BY LabelsOf
  <2> QED
    BY <1>1, <2>1
<1>3. /\ state = "IN_TEXT_FIELD_LABEL" /\ label = l /\ value = <<>>
      /\ textBlock = SubSeq(b, 1, k - 1)
  <2>1. SubSeq(l, 1, Len(l)) = l
    BY <1>1, NoneAndAllOf
  <2> QED
    BY <1>1, <2>1 DEF TakesLabel
<1>4. /\ state' = IF l = ChecksumLabel THEN "IN_TEXT_CHECKSUM" ELSE "IN_TEXT_FIELD_VALUE"
      /\ label' = l /\ value' = <<>> /\ textBlock' = SubSeq(b, 1, k - 1)
      /\ textChecksum' = (textChecksum + Head(wire)) % 256
  BY <1>3, LabelReads
<1>5. SubSeq(ValueOf(b, k), 1, 0) = <<>>
  BY SubSeqEmpty, LabelsOf
<1> QED
  BY <1>2, <1>4, <1>5 DEF TakesValue

LEMMA TakesInValue ==
    ASSUME WellFormed, TypeOK, processCharInput,
           NEW b \in Blocks, NEW k \in 1 .. Len(b) + 1, NEW j \in Nat, j < Len(ValueOf(b, k)),
           Head(wire) = ValueOf(b, k)[j + 1], TakesValue(b, k, j)
    PROVE  TakesValue(b, k, j + 1)' /\ textChecksum' = (textChecksum + Head(wire)) % 256
<1> DEFINE v == ValueOf(b, k)
           c == v[j + 1]
<1>1. k # Len(b) + 1 /\ k <= Len(b) /\ c \notin {CarriageReturn, LineFeed, Colon}
  BY ValueByte
<1>2. v \in Seq(Byte) /\ Len(v) <= MaxValueLength
  BY <1>1, LabelsOf
<1>3. Push(SubSeq(v, 1, j), c, MaxValueLength) = SubSeq(v, 1, j + 1)
  BY <1>2, ConstantsType, PushPrefix
<1>4. /\ state = "IN_TEXT_FIELD_VALUE" /\ label = LabelOf(b, k) /\ value = SubSeq(v, 1, j)
      /\ textBlock = SubSeq(b, 1, k - 1)
  BY <1>1 DEF TakesValue
<1>5. /\ state' = "IN_TEXT_FIELD_VALUE" /\ label' = LabelOf(b, k)
      /\ value' = SubSeq(v, 1, j + 1) /\ textBlock' = SubSeq(b, 1, k - 1)
      /\ textChecksum' = (textChecksum + Head(wire)) % 256
  BY <1>1, <1>3, <1>4, ValueReads
<1> QED
  BY <1>1, <1>5 DEF TakesValue

LEMMA TakesFromValue ==
    ASSUME WellFormed, TypeOK, processCharInput,
           NEW b \in Blocks, NEW k \in 1 .. Len(b) + 1, k # Len(b) + 1,
           Head(wire) = CarriageReturn, TakesValue(b, k, Len(ValueOf(b, k)))
    PROVE  TakesReturn(b, k + 1)' /\ textChecksum' = (textChecksum + Head(wire)) % 256
<1> DEFINE v == ValueOf(b, k)
<1>1. Len(b) \in Nat /\ v \in Seq(Byte)
  BY LabelsOf
<1>2. k <= Len(b) /\ k + 1 # 1 /\ (k + 1) - 1 = k /\ (k + 1) - 2 = k - 1
  BY <1>1
<1>3. b[k] = <<LabelOf(b, k), v>> /\ SubSeq(v, 1, Len(v)) = v
  BY <1>1, <1>2, LabelsOf, NoneAndAllOf
<1>4. /\ state = "IN_TEXT_FIELD_VALUE" /\ label = LabelOf(b, k) /\ value = v
      /\ textBlock = SubSeq(b, 1, k - 1)
  BY <1>3 DEF TakesValue
<1>5. /\ state' = "IN_TEXT_FIELD_VALUE" /\ label' = LabelOf(b, k) /\ value' = v
      /\ textBlock' = SubSeq(b, 1, k - 1)
      /\ textChecksum' = (textChecksum + Head(wire)) % 256
  <2>1. /\ state' = "IN_TEXT_FIELD_VALUE" /\ textBlock' = textBlock
        /\ value' = value /\ label' = label
        /\ textChecksum' = (textChecksum + Head(wire)) % 256
    <3>1. state = "IN_TEXT_FIELD_VALUE" /\ Head(wire) # LineFeed
      BY <1>4, AllDifferent
    <3>2. value' = IF Head(wire) = CarriageReturn THEN value
                   ELSE Push(value, Head(wire), MaxValueLength)
      BY <3>1, ValueReads
    <3>3. value' = value
      BY <3>2
    <3> QED
      BY <3>1, <3>3, ValueReads
  <2> QED
    BY <1>4, <2>1
<1> QED
  BY <1>2, <1>3, <1>5 DEF TakesReturn

LEMMA TakesLast ==
    ASSUME WellFormed, TypeOK, processCharInput,
           NEW b \in Blocks, NEW j, TakesValue(b, Len(b) + 1, j),
           (textChecksum + Head(wire)) % 256 = 0
    PROVE  applied' = Text(b)
<1>1. b \in Block /\ Len(b) \in Nat
  BY BlockType, FieldsType
<1>2. SubSeq(b, 1, (Len(b) + 1) - 1) = b
  <2>1. (Len(b) + 1) - 1 = Len(b)
    BY <1>1
  <2>2. SubSeq(b, 1, Len(b)) = b
    BY <1>1 DEF Block
  <2> QED
    BY <2>1, <2>2
<1> QED
  BY <1>2, ChecksumReads DEF TakesValue

LEMMA TakeBlockStep ==
    ASSUME WellFormed, TypeOK, processCharInput,
           NEW b \in Blocks, NEW p \in Nat, p < Len(BlockBytes(b)),
           Head(wire) = BlockBytes(b)[p + 1], TakingBlock(b, p)
    PROVE  TakingBlock(b, p + 1)'
<1> DEFINE bytes == BlockBytes(b)
           c == Head(wire)
           sum == SumOf(SubSeq(bytes, 1, p))
           next == SumOf(SubSeq(bytes, 1, p + 1))
<1>0. /\ b \in Block /\ Len(b) \in Nat /\ bytes \in Seq(Byte) /\ Len(bytes) \in Nat
      /\ SumOf(bytes) = 0
  BY BlockType, FieldsType, LayoutOfBlock, LenProperties
<1>s. next = (sum + c) % 256
  BY <1>0, SumOfPrefix
<1>n. ASSUME textChecksum' = (textChecksum + c) % 256, textChecksum = sum
      PROVE  textChecksum' = next
  BY <1>s, <1>n
<1> HIDE DEF next, sum
<1>1. CASE p = 0
  <2>1. p + 1 = 1 /\ bytes[1] = CarriageReturn /\ AtReturn(b, 1, 1)
    BY <1>0, <1>1, FirstPlace
  <2>2. state = "IDLE" /\ textChecksum = 0
    <3>1. \A k, j : ~AtReturn(b, p, k) /\ ~AtLabel(b, p, k, j) /\ ~AtValue(b, p, k, j)
      BY <1>0, <1>1, PlaceBound
    <3> QED
      BY <1>0, <1>1, <3>1 DEF TakingBlock
  <2>3. sum = 0
    <3>1. SubSeq(bytes, 1, p) = <<>>
      BY <1>0, <1>1, SubSeqEmpty
    <3> QED
      BY <3>1, SumOfNothing DEF sum
  <2>4. state' = "IDLE" /\ textChecksum' = (textChecksum + c) % 256
    BY <2>1, <2>2, IdleReads
  <2>5. TakesReturn(b, 1)'
    BY <2>4 DEF TakesReturn
  <2> QED
    BY <1>n, <2>1, <2>2, <2>3, <2>4, <2>5 DEF TakingBlock, next
<1>2. ASSUME textChecksum = sum, NEW k, AtReturn(b, p, k), TakesReturn(b, k)
      PROVE  TakingBlock(b, p + 1)'
  <2>1. bytes[p + 1] = LineFeed /\ AtLabel(b, p + 1, k, 0)
    BY <1>0, <1>2, BehindReturn
  <2>2. k \in 1 .. Len(b) + 1
    BY <1>2 DEF AtReturn
  <2>3. TakesLabel(b, k, 0)' /\ textChecksum' = (textChecksum + c) % 256
    BY <1>2, <2>1, <2>2, TakesFromReturn
  <2> QED
    BY <1>2, <1>n, <2>1, <2>3 DEF TakingBlock, next
<1>3. ASSUME textChecksum = sum, NEW k, NEW j, AtLabel(b, p, k, j), TakesLabel(b, k, j)
      PROVE  TakingBlock(b, p + 1)'
  <2>1. /\ j \in Nat /\ j <= Len(LabelOf(b, k)) /\ Len(LabelOf(b, k)) \in Nat
        /\ j < Len(LabelOf(b, k)) => /\ bytes[p + 1] = LabelOf(b, k)[j + 1]
                                     /\ AtLabel(b, p + 1, k, j + 1)
        /\ j = Len(LabelOf(b, k)) => /\ bytes[p + 1] = Tab
                                     /\ AtValue(b, p + 1, k, 0)
    BY <1>0, <1>3, InLabel, LenProperties
  <2>2. k \in 1 .. Len(b) + 1
    BY <1>3 DEF AtLabel
  <2>3. CASE j < Len(LabelOf(b, k))
    <3>1. TakesLabel(b, k, j + 1)' /\ textChecksum' = (textChecksum + c) % 256
      BY <1>3, <2>1, <2>2, <2>3, TakesInLabel
    <3> QED
      BY <1>3, <1>n, <2>1, <2>3, <3>1 DEF TakingBlock, next
  <2>4. CASE j = Len(LabelOf(b, k))
    <3>1. TakesValue(b, k, 0)' /\ textChecksum' = (textChecksum + c) % 256
      BY <1>3, <2>1, <2>2, <2>4, TakesFromLabel
    <3> QED
      BY <1>3, <1>n, <2>1, <2>4, <3>1 DEF TakingBlock, next
  <2> QED
    BY <2>1, <2>3, <2>4
<1>4. ASSUME textChecksum = sum, NEW k, NEW j, AtValue(b, p, k, j), TakesValue(b, k, j)
      PROVE  TakingBlock(b, p + 1)'
  <2>1. j \in Nat /\ j <= Len(ValueOf(b, k)) /\ Len(ValueOf(b, k)) \in Nat
    <3>1. j \in Nat /\ j <= Len(ValueOf(b, k)) /\ ValueOf(b, k) \in Seq(Byte)
      BY <1>0, <1>4, InValue
    <3> QED
      BY <3>1, LenProperties
  <2>2. k \in 1 .. Len(b) + 1
    BY <1>4 DEF AtValue
  <2>3. CASE j < Len(ValueOf(b, k))
    <3>1. bytes[p + 1] = ValueOf(b, k)[j + 1]
      BY <1>0, <1>4, <2>1, <2>3, ByteInValue
    <3>2. AtValue(b, p + 1, k, j + 1)
      BY <1>0, <1>4, <2>3, InValue
    <3>3. TakesValue(b, k, j + 1)' /\ textChecksum' = (textChecksum + c) % 256
      BY <1>4, <2>1, <2>2, <2>3, <3>1, TakesInValue
    <3> QED
      BY <1>4, <1>n, <3>2, <3>3 DEF TakingBlock, next
  <2>4. CASE j = Len(ValueOf(b, k)) /\ k # Len(b) + 1
    <3>1. bytes[p + 1] = CarriageReturn /\ AtReturn(b, p + 1, k + 1)
      BY <1>0, <1>4, <2>4, InValue
    <3>2. TakesReturn(b, k + 1)' /\ textChecksum' = (textChecksum + c) % 256
      BY <1>4, <2>2, <2>4, <3>1, TakesFromValue
    <3> QED
      BY <1>4, <1>n, <3>1, <3>2 DEF TakingBlock, next
  <2>5. CASE j = Len(ValueOf(b, k)) /\ k = Len(b) + 1
    <3>1. p + 1 = Len(bytes)
      BY <1>0, <1>4, <2>5, InValue
    <3>2. next = 0
      <4>1. SubSeq(bytes, 1, Len(bytes)) = bytes
        BY <1>0, NoneAndAllOf
      <4> QED
        BY <1>0, <3>1, <4>1 DEF next
    <3>3. (textChecksum + c) % 256 = 0
      BY <1>4, <1>s, <3>2
    <3>4. applied' = Text(b)
      BY <1>4, <2>5, <3>3, TakesLast
    <3> QED
      BY <3>1, <3>4 DEF TakingBlock
  <2> QED
    BY <2>1, <2>3, <2>4, <2>5
<1>5. p # Len(bytes)
  BY <1>0
<1> QED
  BY <1>1, <1>2, <1>3, <1>4, <1>5 DEF TakingBlock, sum

-----------------------------------------------------------------------------
(***************************************************************************)
(* The machine takes a whole hex message that starts in step.              *)
(***************************************************************************)
Halves(i) ==
    /\ (2 * i) \div 2 = i /\ (2 * i) % 2 = 0 /\ 2 * i # 1
    /\ (2 * i - 1) \div 2 = i - 1 /\ (2 * i - 1) % 2 = 1 /\ (2 * i - 1 + 1) \div 2 = i
    /\ 2 * i - 1 = 1 <=> i = 1

LEMMA HalvesOf == ASSUME NEW i \in Nat, i >= 1 PROVE Halves(i)
BY DEF Halves

SumLeft(m, i) == (85 - SumOf(SubSeq(m, 1, i))) % 256

LEMMA AfterByte ==
    ASSUME NEW m, NEW i \in Nat, i >= 1
    PROVE  /\ HexAfter(m, 2 * i) =
                [message |-> SubSeq(m, 1, i), checksum |-> SumLeft(m, i), inputByte |-> m[i],
                 onLowNibble |-> FALSE, messageInError |-> FALSE]
           /\ HexAfter(m, 2 * i - 1) =
                [message |-> SubSeq(m, 1, i - 1), checksum |-> SumLeft(m, i - 1),
                 inputByte |-> IF i = 1 THEN 0 ELSE 16 * (m[i] \div 16),
                 onLowNibble |-> TRUE, messageInError |-> FALSE]
<1> DEFINE p == 2 * i
           q == 2 * i - 1
<1>1. /\ p \div 2 = i /\ p % 2 = 0 /\ p # 1
      /\ q \div 2 = i - 1 /\ q % 2 = 1 /\ (q + 1) \div 2 = i
      /\ q = 1 <=> i = 1
  BY HalvesOf DEF Halves
<1> HIDE DEF p, q
<1>2. HexAfter(m, p) =
                [message |-> SubSeq(m, 1, i), checksum |-> SumLeft(m, i), inputByte |-> m[i],
                 onLowNibble |-> FALSE, messageInError |-> FALSE]
  <2>1. (p % 2 = 1) = FALSE
    BY <1>1
  <2>2. (IF p = 1 THEN 0 ELSE IF p % 2 = 1 THEN 16 * (m[(p + 1) \div 2] \div 16)
         ELSE m[p \div 2]) = m[i]
    BY <1>1, <2>1
  <2>3. (85 - SumOf(SubSeq(m, 1, p \div 2))) % 256 = SumLeft(m, i)
    BY <1>1 DEF SumLeft
  <2>4. SubSeq(m, 1, p \div 2) = SubSeq(m, 1, i)
    BY <1>1
  <2> QED
    BY <2>1, <2>2, <2>3, <2>4, Zenon DEF HexAfter
<1>3. HexAfter(m, q) =
                [message |-> SubSeq(m, 1, i - 1), checksum |-> SumLeft(m, i - 1),
                 inputByte |-> IF i = 1 THEN 0 ELSE 16 * (m[i] \div 16),
                 onLowNibble |-> TRUE, messageInError |-> FALSE]
  BY <1>1 DEF HexAfter, SumLeft
<1> QED
  BY <1>2, <1>3 DEF p, q

LEMMA TakeOff ==
    ASSUME NEW S \in Byte, NEW x \in Byte
    PROVE  (((85 - S) % 256) - x) % 256 = (85 - ((S + x) % 256)) % 256
BY DEF Byte

LEMMA ByteTaken ==
    ASSUME WellFormed, NEW m \in HexMessages, NEW i \in 1 .. Len(m)
    PROVE  HexInput(HexAfter(m, 2 * i - 1), HexDigit(m[i] % 16)) = HexAfter(m, 2 * i)
<1> DEFINE d == HexDigit(m[i] % 16)
           h == HexAfter(m, 2 * i - 1)
<1>1. /\ m \in Seq(Byte) /\ Len(m) \in Nat /\ Len(m) <= MaxHexMessage /\ m[1] < 16
      /\ m[i] \in Byte
  BY HexType
<1>2. i \in Nat /\ i >= 1 /\ i - 1 \in Nat /\ (i - 1) + 1 = i /\ i - 1 < Len(m)
  BY <1>1
<1>3. IsHexValue(d) /\ HexValue(d) = m[i] % 16
  BY <1>1, Nibbles, HexDigits
<1>4. /\ h = [message |-> SubSeq(m, 1, i - 1), checksum |-> SumLeft(m, i - 1),
              inputByte |-> IF i = 1 THEN 0 ELSE 16 * (m[i] \div 16),
              onLowNibble |-> TRUE, messageInError |-> FALSE]
      /\ HexAfter(m, 2 * i) =
             [message |-> SubSeq(m, 1, i), checksum |-> SumLeft(m, i), inputByte |-> m[i],
              onLowNibble |-> FALSE, messageInError |-> FALSE]
  BY <1>2, AfterByte
<1> HIDE DEF d, h
<1>5. h.inputByte + HexValue(d) = m[i]
  <2>1. CASE i = 1
    <3>1. m[i] % 16 = m[i] /\ m[i] \in Int
      BY <1>1, <2>1, Nibbles, ByteInt
    <3> QED
      BY <1>3, <1>4, <2>1, <3>1
  <2>2. CASE i # 1
    <3>1. 16 * (m[i] \div 16) + (m[i] % 16) = m[i]
      BY <1>1, Nibbles
    <3>2. h.inputByte = 16 * (m[i] \div 16)
      BY <1>4, <2>2
    <3> QED
      BY <1>3, <3>1, <3>2
  <2> QED
    BY <2>1, <2>2
<1>6. PushByte(SubSeq(m, 1, i - 1), m[i]) = SubSeq(m, 1, i)
  <2>1. /\ Len(SubSeq(m, 1, i - 1)) = i - 1
        /\ Append(SubSeq(m, 1, i - 1), m[(i - 1) + 1]) = SubSeq(m, 1, (i - 1) + 1)
    BY <1>1, <1>2, OneMore
  <2>2. i - 1 <= MaxHexMessage
    BY <1>1, <1>2, ConstantsType
  <2> QED
    BY <1>2, <2>1, <2>2 DEF PushByte
<1>7. (SumLeft(m, i - 1) - m[i]) % 256 = SumLeft(m, i)
  <2> DEFINE S == SumOf(SubSeq(m, 1, i - 1))
  <2>1. S \in Byte
    BY <1>1, <1>2, OneMore, SumType
  <2>2. SumOf(SubSeq(m, 1, (i - 1) + 1)) = (S + m[(i - 1) + 1]) % 256
    BY <1>1, <1>2, SumOfPrefix
  <2>3. SumOf(SubSeq(m, 1, i)) = (S + m[i]) % 256
    BY <1>2, <2>2
  <2> HIDE DEF S
  <2>4. (((85 - S) % 256) - m[i]) % 256 = (85 - ((S + m[i]) % 256)) % 256
    BY <1>1, <2>1, TakeOff
  <2> QED
    BY <2>3, <2>4 DEF SumLeft, S
<1>8. HexInput(h, d) =
          [h EXCEPT !.message = PushByte(@, m[i]), !.checksum = (@ - m[i]) % 256,
                    !.inputByte = m[i], !.onLowNibble = FALSE]
  BY <1>3, <1>4, <1>5 DEF HexInput
<1>9. h.message = SubSeq(m, 1, i - 1) /\ h.checksum = SumLeft(m, i - 1)
  BY <1>4
<1>10. HexInput(h, d) =
          [h EXCEPT !.message = SubSeq(m, 1, i), !.checksum = SumLeft(m, i),
                    !.inputByte = m[i], !.onLowNibble = FALSE]
  BY <1>6, <1>7, <1>8, <1>9
<1>11. HexInput(h, d) =
             [message |-> SubSeq(m, 1, i), checksum |-> SumLeft(m, i), inputByte |-> m[i],
              onLowNibble |-> FALSE, messageInError |-> FALSE]
  BY <1>4, <1>10
<1> QED
  BY <1>4, <1>11 DEF h, d

LEMMA NibbleTaken ==
    ASSUME WellFormed, NEW m \in HexMessages, NEW i \in 2 .. Len(m)
    PROVE  HexInput(HexAfter(m, 2 * (i - 1)), HexDigit(m[i] \div 16)) = HexAfter(m, 2 * i - 1)
<1> DEFINE d == HexDigit(m[i] \div 16)
           h == HexAfter(m, 2 * (i - 1))
<1>1. Len(m) \in Nat /\ i \in 1 .. Len(m) /\ m[i] \in Byte
  BY HexType
<1>2. i \in Nat /\ i >= 1 /\ i # 1 /\ i - 1 \in Nat /\ i - 1 >= 1
  BY <1>1
<1>3. IsHexValue(d) /\ HexValue(d) = m[i] \div 16
  BY <1>1, Nibbles, HexDigits
<1>4. h = [message |-> SubSeq(m, 1, i - 1), checksum |-> SumLeft(m, i - 1),
           inputByte |-> m[i - 1], onLowNibble |-> FALSE, messageInError |-> FALSE]
  BY <1>2, AfterByte
<1>5. HexAfter(m, 2 * i - 1) =
          [message |-> SubSeq(m, 1, i - 1), checksum |-> SumLeft(m, i - 1),
           inputByte |-> 16 * (m[i] \div 16), onLowNibble |-> TRUE, messageInError |-> FALSE]
  BY <1>2, AfterByte
<1> HIDE DEF d, h
<1>6. HexInput(h, d) = [h EXCEPT !.inputByte = 16 * (m[i] \div 16), !.onLowNibble = TRUE]
  BY <1>3, <1>4 DEF HexInput
<1>7. HexInput(h, d) =
          [message |-> SubSeq(m, 1, i - 1), checksum |-> SumLeft(m, i - 1),
           inputByte |-> 16 * (m[i] \div 16), onLowNibble |-> TRUE, messageInError |-> FALSE]
  BY <1>4, <1>6
<1> QED
  BY <1>5, <1>7 DEF h, d

LEMMA MessageIsValid ==
    ASSUME WellFormed, NEW m \in HexMessages
    PROVE  HexValid(HexAfter(m, 2 * Len(m))) /\ HexAfter(m, 2 * Len(m)).message = m
<1> DEFINE n == Len(m)
<1>1. /\ m \in Seq(Byte) /\ n \in Nat /\ n >= 2 /\ n >= 1 /\ n <= MaxHexMessage
      /\ SumOf(m) = 85
  BY HexType
<1>2. SubSeq(m, 1, n) = m
  BY <1>1, NoneAndAllOf
<1>3. SumLeft(m, n) = 0
  <2> HIDE DEF n
  <2>1. SumOf(SubSeq(m, 1, n)) = 85
    BY <1>1, <1>2
  <2> QED
    BY <2>1 DEF SumLeft
<1>4. HexAfter(m, 2 * n) =
          [message |-> SubSeq(m, 1, n), checksum |-> SumLeft(m, n), inputByte |-> m[n],
           onLowNibble |-> FALSE, messageInError |-> FALSE]
  <2>1. n \in Nat /\ n >= 1
    BY <1>1
  <2> HIDE DEF n
  <2> QED
    BY <2>1, AfterByte
<1>5. ~(n < 2)
  BY <1>1
<1> QED
  BY <1>1, <1>2, <1>3, <1>4, <1>5 DEF HexValid, HexCounted

(* A character of a message is its colon, the digit that starts or the one *)
(* that ends a byte, or the newline.                                       *)
LEMMA EveryCharacter ==
    ASSUME NEW n \in Nat, NEW p \in Nat, p <= 2 * n
    PROVE  \/ p = 0
           \/ \E i \in 1 .. n : p = 2 * i - 1
           \/ \E i \in 2 .. n : p = 2 * (i - 1)
           \/ p = 2 * n
<1> DEFINE i == (p + 1) \div 2
<1>1. i \in Nat /\ (p = 2 * i - 1 \/ p = 2 * i)
  OBVIOUS
<1> HIDE DEF i
<1>2. CASE p = 2 * i - 1
  <2>1. i \in 1 .. n
    BY <1>1, <1>2
  <2> QED
    BY <1>2, <2>1
<1>3. CASE p = 2 * i
  <2>1. p = 0 \/ p = 2 * n \/ (i + 1 \in 2 .. n /\ p = 2 * ((i + 1) - 1))
    BY <1>1, <1>3
  <2> QED
    BY <2>1
<1> QED
  BY <1>1, <1>2, <1>3

LEMMA TakeMessageStep ==
    ASSUME WellFormed, TypeOK, processCharInput,
           NEW m \in HexMessages, NEW p \in Nat, p < Len(HexBytes(m)),
           Head(wire) = HexBytes(m)[p + 1], TakingMessage(m, p)
    PROVE  TakingMessage(m, p + 1)'
<1> DEFINE n == Len(m)
           c == Head(wire)
<1>0. n \in Nat /\ n >= 2 /\ p <= 2 * n /\ \A j \in 1 .. n : m[j] \in Byte
  <2>1. n \in Nat /\ n >= 2 /\ Len(HexBytes(m)) = 2 * n + 1 /\ \A j \in 1 .. n : m[j] \in Byte
    BY HexType
  <2> QED
    BY <2>1
<1> HIDE DEF n
<1>1. CASE p = 0
  <2>1. c = Colon
    BY <1>1, HexType
  <2>2. state = "IDLE"
    BY <1>0, <1>1 DEF TakingMessage, n
  <2>3. state' = "IN_HEX_PROTOCOL_MESSAGE" /\ hexMessage' = HexReset
    BY <2>1, <2>2, IdleReads
  <2>4. HexAfter(m, 2 * 1 - 1) = HexReset
    <3>1. HexAfter(m, 2 * 1 - 1) =
              [message |-> SubSeq(m, 1, 1 - 1), checksum |-> SumLeft(m, 1 - 1), inputByte |-> 0,
               onLowNibble |-> TRUE, messageInError |-> FALSE]
      <4>1. ASSUME NEW i \in Nat, i = 1
            PROVE  HexAfter(m, 2 * i - 1) =
                      [message |-> SubSeq(m, 1, i - 1), checksum |-> SumLeft(m, i - 1),
                       inputByte |-> 0, onLowNibble |-> TRUE, messageInError |-> FALSE]
        <5>1. i >= 1
          BY <4>1
        <5>2. HexAfter(m, 2 * i - 1) =
                  [message |-> SubSeq(m, 1, i - 1), checksum |-> SumLeft(m, i - 1),
                   inputByte |-> IF i = 1 THEN 0 ELSE 16 * (m[i] \div 16),
                   onLowNibble |-> TRUE, messageInError |-> FALSE]
          BY <5>1, AfterByte
        <5> QED
          BY <4>1, <5>2
      <4> QED
        BY <4>1
    <3>2. SubSeq(m, 1, 1 - 1) = <<>>
      BY SubSeqEmpty, HexType
    <3>3. SumLeft(m, 1 - 1) = 85
      <4>1. 85 - 0 = 85 /\ 85 % 256 = 85
        OBVIOUS
      <4>2. SumOf(SubSeq(m, 1, 1 - 1)) = 0
        BY <3>2, SumOfNothing
      <4> QED
        BY <4>1, <4>2, Zenon DEF SumLeft
    <3> QED
      BY <3>1, <3>2, <3>3 DEF HexReset
  <2>5. p + 1 = 2 * 1 - 1 /\ p + 1 \in 1 .. 2 * n
    BY <1>0, <1>1
  <2> QED
    BY <2>3, <2>4, <2>5 DEF TakingMessage, n
<1>s. ASSUME p # 0
      PROVE  state = "IN_HEX_PROTOCOL_MESSAGE" /\ hexMessage = HexAfter(m, p)
  <2>1. p # 2 * n + 1
    BY <1>0
  <2> QED
    BY <1>s, <2>1 DEF TakingMessage, n
<1>2. ASSUME NEW i \in 1 .. n, p = 2 * i - 1 PROVE TakingMessage(m, p + 1)'
  <2>1. p + 1 = 2 * i /\ p # 0 /\ p + 1 \in 1 .. 2 * n
    BY <1>0, <1>2
  <2>2. c = HexDigit(m[i] % 16)
    BY <1>2, <2>1, HexType DEF n
  <2>3. c # LineFeed
    BY <1>0, <2>2, Nibbles, HexDigits
  <2>4. state' = "IN_HEX_PROTOCOL_MESSAGE" /\ hexMessage' = HexInput(HexAfter(m, p), c)
    BY <1>s, <2>1, <2>3, HexReads
  <2>5. HexInput(HexAfter(m, p), c) = HexAfter(m, p + 1)
    BY <1>2, <2>1, <2>2, ByteTaken DEF n
  <2> QED
    BY <2>1, <2>4, <2>5 DEF TakingMessage, n
<1>3. ASSUME NEW i \in 2 .. n, p = 2 * (i - 1) PROVE TakingMessage(m, p + 1)'
  <2>1. p + 1 = 2 * i - 1 /\ p # 0 /\ p + 1 \in 1 .. 2 * n /\ i \in 1 .. n
    BY <1>0, <1>3
  <2>2. c = HexDigit(m[i] \div 16)
    BY <1>3, <2>1, HexType DEF n
  <2>3. c # LineFeed
    BY <1>0, <2>1, <2>2, Nibbles, HexDigits
  <2>4. state' = "IN_HEX_PROTOCOL_MESSAGE" /\ hexMessage' = HexInput(HexAfter(m, p), c)
    BY <1>s, <2>1, <2>3, HexReads
  <2>5. HexInput(HexAfter(m, p), c) = HexAfter(m, p + 1)
    BY <1>3, <2>1, <2>2, NibbleTaken DEF n
  <2> QED
    BY <2>1, <2>4, <2>5 DEF TakingMessage, n
<1>4. CASE p = 2 * n
  <2>1. p + 1 = 2 * n + 1 /\ p # 0
    BY <1>0, <1>4
  <2>2. c = LineFeed
    BY <2>1, HexType DEF n
  <2>3. /\ state' = "IDLE" /\ textChecksum' = 0
        /\ HexValid(HexAfter(m, p)) => applied' = Hex(HexAfter(m, p).message)
    BY <1>s, <2>1, <2>2, HexReads
  <2>4. HexValid(HexAfter(m, p)) /\ HexAfter(m, p).message = m
    BY <1>4, MessageIsValid DEF n
  <2> QED
    BY <2>1, <2>3, <2>4 DEF TakingMessage, n
<1> QED
  BY <1>0, <1>1, <1>2, <1>3, <1>4, EveryCharacter

-----------------------------------------------------------------------------
(***************************************************************************)
(* While nothing is lost, the fields in textBlock are counted.             *)
(***************************************************************************)
LEMMA BlockLength ==
    ASSUME TypeOK
    PROVE  /\ Len(textBlock) \in Nat
           /\ Len(Append(textBlock, <<label, value>>)) = Len(textBlock) + 1
           /\ Len(<<>>) = 0
<1>1. textBlock \in Seq(Field) /\ <<label, value>> \in Field
  BY DEF TypeOK, Field
<1> QED
  BY <1>1, AppendProperties, LenProperties, EmptySeq

LEMMA CountsFromCalm ==
    ASSUME processCharInput, Head(wire) = CarriageReturn, Calm
    PROVE  CountsReturn(1)' /\ ~overrun'
<1>1. CASE Quiet
  BY <1>1, Reads, IdleReads, RuntReads, AllDifferent DEF Quiet, CountsReturn
<1>2. CASE state = "IN_HEX_PROTOCOL_MESSAGE"
  BY <1>2, Reads, HexReads, AllDifferent DEF CountsReturn
<1>3. CASE state = "START_TEXT_MESSAGE" /\ textBlock = <<>>
  BY <1>3, Reads, StartReads, AllDifferent DEF CountsReturn
<1> QED
  BY <1>1, <1>2, <1>3 DEF Calm

LEMMA CountsFromReturn ==
    ASSUME TypeOK, processCharInput, Head(wire) = LineFeed,
           NEW b \in Blocks, NEW k \in 1 .. Len(b) + 1, CountsReturn(k)
    PROVE  CountsLabel(b, k, 0)' /\ ~overrun'
<1>0. /\ Len(b) \in Nat /\ Len(b) <= MaxFields /\ MaxFields \in Nat
      /\ k \in Nat /\ k >= 1 /\ 0 <= k - 1 /\ k <= Len(b) + 1
  <2>1. Len(b) \in Nat /\ Len(b) <= MaxFields /\ MaxFields \in Nat
    BY BlockType, FieldsType, ConstantsType
  <2> QED
    BY <2>1
<1>1. CASE Quiet
  <2>1. state' = "START_TEXT_MESSAGE" /\ textBlock' = <<>> /\ ~overrun'
    BY <1>1, Reads, IdleReads, RuntReads DEF Quiet
  <2> QED
    BY <1>0, <2>1, BlockLength DEF CountsLabel
<1>2. CASE state = "IN_HEX_PROTOCOL_MESSAGE" \/ state = "IN_TEXT_CHECKSUM"
  <2>1. state' = "IDLE" /\ ~overrun'
    BY <1>2, Reads, HexReads, ChecksumReads
  <2> QED
    BY <2>1 DEF CountsLabel, Quiet
<1>3. CASE k = 1 /\ state = "IN_TEXT_FIELD_LABEL" /\ textBlock = <<>>
  <2>1. state' = "IN_TEXT_FIELD_LABEL" /\ textBlock' = <<>> /\ ~overrun'
    BY <1>3, Reads, LabelReads, AllDifferent
  <2> QED
    BY <1>0, <1>3, <2>1, BlockLength DEF CountsLabel
<1>4. CASE k > 1 /\ state = "IN_TEXT_FIELD_VALUE" /\ Len(textBlock) <= k - 2
  <2>1. Len(textBlock) \in Nat /\ Len(Append(textBlock, <<label, value>>)) = Len(textBlock) + 1
    BY BlockLength
  <2>2. Len(textBlock) < MaxFields /\ Len(textBlock) + 1 <= k - 1
    BY <1>0, <1>4, <2>1
  <2>3. /\ state' = "START_TEXT_MESSAGE" /\ textBlock' = Append(textBlock, <<label, value>>)
        /\ ~overrun'
    BY <1>4, <2>2, ValueReads
  <2>4. Len(textBlock') <= k - 1
    BY <2>1, <2>2, <2>3
  <2> QED
    BY <2>3, <2>4 DEF CountsLabel
<1> QED
  BY <1>1, <1>2, <1>3, <1>4 DEF CountsReturn

LEMMA CountsInLabel ==
    ASSUME WellFormed, TypeOK, processCharInput,
           NEW b \in Blocks, NEW k \in 1 .. Len(b) + 1, NEW j \in Nat, j < Len(LabelOf(b, k)),
           Head(wire) = LabelOf(b, k)[j + 1], CountsLabel(b, k, j)
    PROVE  CountsLabel(b, k, j + 1)' /\ ~overrun'
<1> DEFINE l == LabelOf(b, k)
           c == l[j + 1]
<1>1. /\ l \in Seq(Byte) /\ Len(l) \in Nat /\ Len(l) >= 1 /\ Len(l) <= MaxLabelLength
      /\ NoneOf({CarriageReturn, LineFeed, Tab, Colon}, l)
  <2>1. /\ l \in Seq(Byte) /\ Len(l) \in 1 .. MaxLabelLength
        /\ NoneOf({CarriageReturn, LineFeed, Tab, Colon}, l)
    BY LabelsOf
  <2> QED
    BY <2>1, ConstantsType
<1>2. j + 1 \in DOMAIN l /\ j + 1 # 0 /\ j + 1 > 0
  BY <1>1
<1>3. c \notin {CarriageReturn, LineFeed, Tab, Colon}
  BY <1>1, <1>2 DEF NoneOf
<1>4. CASE Quiet
  <2>1. state' = "IN_RUNT_MESSAGE" /\ ~overrun'
    BY <1>3, <1>4, Reads, IdleReads, RuntReads DEF Quiet
  <2> QED
    BY <2>1 DEF CountsLabel, Quiet
<1>5. CASE j = 0 /\ state = "START_TEXT_MESSAGE" /\ Len(textBlock) <= k - 1
  <2>1. state' = "IN_TEXT_FIELD_LABEL" /\ label' = <<c>> /\ textBlock' = textBlock /\ ~overrun'
    BY <1>3, <1>5, Reads, StartReads
  <2>2. <<c>> = SubSeq(l, 1, j + 1)
    BY <1>1, <1>5, FirstOf
  <2> QED
    BY <1>2, <1>5, <2>1, <2>2 DEF CountsLabel
<1>6. CASE /\ state = "IN_TEXT_FIELD_LABEL" /\ Len(textBlock) <= k - 1
           /\ k > 1 => j > 0 /\ label = SubSeq(l, 1, j)
  <2>1. /\ state' = "IN_TEXT_FIELD_LABEL" /\ label' = Push(label, c, MaxLabelLength)
        /\ textBlock' = textBlock /\ ~overrun'
    BY <1>3, <1>6, Reads, LabelReads
  <2>2. Push(SubSeq(l, 1, j), c, MaxLabelLength) = SubSeq(l, 1, j + 1)
    BY <1>1, ConstantsType, PushPrefix
  <2>3. k > 1 => label' = SubSeq(l, 1, j + 1)
    BY <1>6, <2>1, <2>2
  <2> QED
    BY <1>2, <1>6, <2>1, <2>3 DEF CountsLabel
<1> QED
  BY <1>4, <1>5, <1>6 DEF CountsLabel

LEMMA CountsFromLabel ==
    ASSUME WellFormed, TypeOK, processCharInput,
           NEW b \in Blocks, NEW k \in 1 .. Len(b) + 1, Head(wire) = Tab,
           CountsLabel(b, k, Len(LabelOf(b, k)))
    PROVE  CountsValue(b, k)' /\ ~overrun'
<1> DEFINE l == LabelOf(b, k)
<1>1. /\ l \in Seq(Byte) /\ Len(l) \in Nat /\ Len(l) # 0
      /\ k > Len(b) => k = Len(b) + 1 /\ l = ChecksumLabel
      /\ Len(b) \in Nat
  <2>1. /\ l \in Seq(Byte) /\ Len(l) \in 1 .. MaxLabelLength /\ Len(b) \in Nat
        /\ k > Len(b) => k = Len(b) + 1 /\ l = ChecksumLabel
    BY LabelsOf
  <2> QED
    BY <2>1, ConstantsType
<1>2. CASE Quiet
  <2>1. state' = "IN_RUNT_MESSAGE" /\ ~overrun'
    BY <1>2, Reads, IdleReads, RuntReads, AllDifferent DEF Quiet
  <2> QED
    BY <2>1 DEF CountsValue, Quiet
<1>3. CASE /\ state = "IN_TEXT_FIELD_LABEL" /\ Len(textBlock) <= k - 1
           /\ k > 1 => label = SubSeq(l, 1, Len(l))
  <2>1. /\ state' = IF label = ChecksumLabel THEN "IN_TEXT_CHECKSUM" ELSE "IN_TEXT_FIELD_VALUE"
        /\ textBlock' = textBlock /\ ~overrun'
    BY <1>3, Reads, LabelReads
  <2>2. CASE label = ChecksumLabel
    BY <2>1, <2>2 DEF CountsValue
  <2>3. CASE label # ChecksumLabel
    <3>1. k <= Len(b)
      <4>1. Len(b) >= 1
        BY BlockType
      <4>2. SubSeq(l, 1, Len(l)) = l
        BY <1>1, NoneAndAllOf
      <4>3. k > Len(b) => k > 1
        BY <1>1, <4>1
      <4>4. ~(k > Len(b))
        BY <1>1, <1>3, <2>3, <4>2, <4>3
      <4> QED
        BY <1>1, <4>4
    <3> QED
      BY <1>3, <2>1, <2>3, <3>1 DEF CountsValue
  <2> QED
    BY <2>2, <2>3
<1> QED
  BY <1>1, <1>2, <1>3 DEF CountsLabel

LEMMA CountsInValue ==
    ASSUME WellFormed, TypeOK, processCharInput,
           NEW b \in Blocks, NEW k \in 1 .. Len(b) + 1, k # Len(b) + 1,
           Head(wire) \notin {LineFeed, Colon}, CountsValue(b, k)
    PROVE  /\ CountsValue(b, k)'
           /\ Head(wire) = CarriageReturn => CountsReturn(k + 1)'
           /\ ~overrun'
<1>0. Len(b) \in Nat /\ k + 1 > 1 /\ (k + 1) - 2 = k - 1
  BY LabelsOf
<1>1. CASE Quiet \/ state = "IN_TEXT_CHECKSUM"
  <2>1. state' \in {"IDLE", "IN_RUNT_MESSAGE"} /\ ~overrun'
    BY <1>1, Reads, IdleReads, RuntReads, ChecksumReads DEF Quiet
  <2> QED
    BY <2>1 DEF CountsValue, CountsReturn, Quiet
<1>2. CASE state = "IN_TEXT_FIELD_VALUE" /\ k <= Len(b) /\ Len(textBlock) <= k - 1
  <2>1. state' = "IN_TEXT_FIELD_VALUE" /\ textBlock' = textBlock /\ ~overrun'
    BY <1>2, ValueReads
  <2> QED
    BY <1>0, <1>2, <2>1 DEF CountsValue, CountsReturn
<1> QED
  BY <1>1, <1>2 DEF CountsValue

LEMMA CountsLast ==
    ASSUME processCharInput, NEW b \in Blocks, CountsValue(b, Len(b) + 1)
    PROVE  Calm' /\ ~overrun'
<1>0. ~(Len(b) + 1 <= Len(b))
  BY BlockType, FieldsType
<1>1. CASE Quiet
  BY <1>1, Reads, IdleReads, RuntReads DEF Quiet, Calm
<1>2. CASE state = "IN_TEXT_CHECKSUM"
  BY <1>2, Reads, ChecksumReads DEF Quiet, Calm
<1> QED
  BY <1>0, <1>1, <1>2 DEF CountsValue

LEMMA CountStep ==
    ASSUME WellFormed, TypeOK, processCharInput,
           NEW b \in Blocks, NEW p \in Nat, p < Len(BlockBytes(b)),
           Head(wire) = BlockBytes(b)[p + 1], CountingFields(b, p)
    PROVE  CountingFields(b, p + 1)' /\ ~overrun'
<1> DEFINE bytes == BlockBytes(b)
           Goal == CountingFields(b, p + 1)' /\ ~overrun'
<1>0. b \in Block /\ Len(b) \in Nat /\ Len(bytes) \in Nat
  BY BlockType, FieldsType, FirstPlace
<1>1. CASE p = 0
  <2>1. p + 1 = 1 /\ bytes[1] = CarriageReturn /\ AtReturn(b, 1, 1)
    BY <1>0, <1>1, FirstPlace
  <2>2. Calm
    <3>1. \A k, j : ~AtReturn(b, p, k) /\ ~AtLabel(b, p, k, j) /\ ~AtValue(b, p, k, j)
      BY <1>0, <1>1, PlaceBound
    <3> QED
      BY <1>0, <1>1, <3>1 DEF CountingFields
  <2>3. CountsReturn(1)' /\ ~overrun'
    BY <2>1, <2>2, CountsFromCalm
  <2> QED
    BY <2>1, <2>3 DEF CountingFields
<1>2. ASSUME NEW k, AtReturn(b, p, k), CountsReturn(k) PROVE Goal
  <2>1. bytes[p + 1] = LineFeed /\ AtLabel(b, p + 1, k, 0)
    BY <1>0, <1>2, BehindReturn
  <2>2. k \in 1 .. Len(b) + 1
    BY <1>2 DEF AtReturn
  <2>3. CountsLabel(b, k, 0)' /\ ~overrun'
    BY <1>2, <2>1, <2>2, CountsFromReturn
  <2> QED
    BY <2>1, <2>3 DEF CountingFields
<1>3. ASSUME NEW k, NEW j, AtLabel(b, p, k, j), CountsLabel(b, k, j) PROVE Goal
  <2>1. /\ j \in Nat /\ j <= Len(LabelOf(b, k)) /\ Len(LabelOf(b, k)) \in Nat
        /\ j < Len(LabelOf(b, k)) => /\ bytes[p + 1] = LabelOf(b, k)[j + 1]
                                     /\ AtLabel(b, p + 1, k, j + 1)
        /\ j = Len(LabelOf(b, k)) => /\ bytes[p + 1] = Tab
                                     /\ AtValue(b, p + 1, k, 0)
    BY <1>0, <1>3, InLabel, LenProperties
  <2>2. k \in 1 .. Len(b) + 1
    BY <1>3 DEF AtLabel
  <2>3. CASE j < Len(LabelOf(b, k))
    <3>1. CountsLabel(b, k, j + 1)' /\ ~overrun'
      BY <1>3, <2>1, <2>2, <2>3, CountsInLabel
    <3> QED
      BY <2>1, <2>3, <3>1 DEF CountingFields
  <2>4. CASE j = Len(LabelOf(b, k))
    <3>1. CountsValue(b, k)' /\ ~overrun'
      BY <1>3, <2>1, <2>2, <2>4, CountsFromLabel
    <3> QED
      BY <2>1, <2>4, <3>1 DEF CountingFields
  <2> QED
    BY <2>1, <2>3, <2>4
<1>4. ASSUME NEW k, NEW j, AtValue(b, p, k, j), CountsValue(b, k) PROVE Goal
  <2>1. j \in Nat /\ j <= Len(ValueOf(b, k)) /\ Len(ValueOf(b, k)) \in Nat
    <3>1. j \in Nat /\ j <= Len(ValueOf(b, k)) /\ ValueOf(b, k) \in Seq(Byte)
      BY <1>0, <1>4, InValue
    <3> QED
      BY <3>1, LenProperties
  <2>2. k \in 1 .. Len(b) + 1
    BY <1>4 DEF AtValue
  <2>3. CASE j < Len(ValueOf(b, k))
    <3>1. bytes[p + 1] = ValueOf(b, k)[j + 1]
      BY <1>0, <1>4, <2>1, <2>3, ByteInValue
    <3>2. AtValue(b, p + 1, k, j + 1)
      BY <1>0, <1>4, <2>3, InValue
    <3>3. k # Len(b) + 1 /\ ValueOf(b, k)[j + 1] \notin {LineFeed, Colon}
      BY <2>1, <2>2, <2>3, ValueByte
    <3>4. CountsValue(b, k)' /\ ~overrun'
      BY <1>4, <2>2, <3>1, <3>3, CountsInValue
    <3> QED
      BY <3>2, <3>4 DEF CountingFields
  <2>4. CASE j = Len(ValueOf(b, k)) /\ k # Len(b) + 1
    <3>1. bytes[p + 1] = CarriageReturn /\ AtReturn(b, p + 1, k + 1)
      BY <1>0, <1>4, <2>4, InValue
    <3>2. CountsReturn(k + 1)' /\ ~overrun'
      BY <1>4, <2>2, <2>4, <3>1, CountsInValue, AllDifferent
    <3> QED
      BY <3>1, <3>2 DEF CountingFields
  <2>5. CASE j = Len(ValueOf(b, k)) /\ k = Len(b) + 1
    <3>1. p + 1 = Len(bytes)
      BY <1>0, <1>4, <2>5, InValue
    <3>2. Calm' /\ ~overrun'
      BY <1>4, <2>5, CountsLast
    <3> QED
      BY <3>1, <3>2 DEF CountingFields
  <2> QED
    BY <2>1, <2>3, <2>4, <2>5
<1>5. p # Len(bytes)
  BY <1>0
<1> QED
  BY <1>1, <1>2, <1>3, <1>4, <1>5 DEF CountingFields

LEMMA PassStep ==
    ASSUME WellFormed, TypeOK, processCharInput,
           NEW m \in HexMessages, NEW p \in Nat, p < Len(HexBytes(m)),
           Head(wire) = HexBytes(m)[p + 1], PassingMessage(m, p)
    PROVE  PassingMessage(m, p + 1)' /\ ~overrun'
<1> DEFINE n == Len(m)
           c == Head(wire)
<1>0. n \in Nat /\ n >= 2 /\ p <= 2 * n /\ \A j \in 1 .. n : m[j] \in Byte
  <2>1. n \in Nat /\ n >= 2 /\ Len(HexBytes(m)) = 2 * n + 1 /\ \A j \in 1 .. n : m[j] \in Byte
    BY HexType
  <2> QED
    BY <2>1
<1> HIDE DEF n
<1>1. CASE p = 0
  <2>1. c = Colon
    BY <1>1, HexType
  <2>2. Calm
    BY <1>0, <1>1 DEF PassingMessage, n
  <2>3. state' = "IN_HEX_PROTOCOL_MESSAGE" /\ ~overrun'
    BY <2>1, <2>2, Reads, IdleReads, RuntReads, StartReads, HexReads, AllDifferent DEF Calm, Quiet
  <2>4. p + 1 \in 1 .. 2 * n
    BY <1>0, <1>1
  <2> QED
    BY <2>3, <2>4 DEF PassingMessage, n
<1>s. ASSUME p # 0 PROVE state = "IN_HEX_PROTOCOL_MESSAGE" /\ ~overrun'
  <2>1. p # 2 * n + 1
    BY <1>0
  <2>2. state = "IN_HEX_PROTOCOL_MESSAGE"
    BY <1>s, <2>1 DEF PassingMessage, n
  <2> QED
    BY <2>2, Reads
<1>2. ASSUME p # 0, p # 2 * n PROVE PassingMessage(m, p + 1)'
  <2>1. p + 1 \in 1 .. 2 * n
    BY <1>0, <1>2
  <2>2. c # LineFeed
    <3>1. ASSUME NEW i \in 1 .. n, p = 2 * i - 1 PROVE c # LineFeed
      <4>1. p + 1 = 2 * i
        BY <1>0, <3>1
      <4>2. c = HexDigit(m[i] % 16)
        BY <3>1, <4>1, HexType DEF n
      <4> QED
        BY <1>0, <4>2, Nibbles, HexDigits
    <3>2. ASSUME NEW i \in 2 .. n, p = 2 * (i - 1) PROVE c # LineFeed
      <4>1. p + 1 = 2 * i - 1 /\ i \in 1 .. n
        BY <1>0, <3>2
      <4>2. c = HexDigit(m[i] \div 16)
        BY <3>2, <4>1, HexType DEF n
      <4> QED
        BY <1>0, <4>1, <4>2, Nibbles, HexDigits
    <3> QED
      BY <1>0, <1>2, <3>1, <3>2, EveryCharacter
  <2>3. state' = "IN_HEX_PROTOCOL_MESSAGE"
    BY <1>2, <1>s, <2>2, HexReads
  <2> QED
    BY <2>1, <2>3 DEF PassingMessage, n
<1>3. CASE p = 2 * n
  <2>1. p + 1 = 2 * n + 1 /\ p # 0
    BY <1>0, <1>3
  <2>2. c = LineFeed
    BY <2>1, HexType DEF n
  <2>3. state' = "IDLE"
    BY <1>s, <2>1, <2>2, HexReads
  <2> QED
    BY <1>s, <2>1, <2>3 DEF PassingMessage, n
<1> QED
  BY <1>1, <1>2, <1>3, <1>s

-----------------------------------------------------------------------------
(***************************************************************************)
(* Every step preserves the invariant.                                     *)
(***************************************************************************)
LEMMA ReadIInv ==
    ASSUME WellFormed, IInv, processCharInput
    PROVE  IInv'
<1>1. TypeOK /\ WireOK /\ FollowOK /\ StepOK /\ CountOK
  BY DEF IInv
<1>2. /\ ~overrun /\ item' = item /\ inStep' = inStep
      /\ \/ lossy' = lossy
         \/ lossy' = (lossy /\ wire' # <<>>) /\ state' = "IDLE"
      /\ state # "IN_TEXT_FIELD_VALUE" => ~overrun'
  BY Reads
<1>3. TypeOK'
  BY <1>1, ReadType
<1>4. /\ WireOK'
      /\ item.whole \/ ~lossy =>
            /\ Read \in Nat /\ Read < Len(Bytes(item.content))
            /\ Head(wire) = Bytes(item.content)[Read + 1]
            /\ Read' = Read + 1
      /\ lossy /\ ~lossy' =>
            Read' = Len(Bytes(item.content)) /\ state' = "IDLE"
  BY <1>1, ReadWire
<1>5. /\ IsText(item.content) =>
            item.content[2] \in Blocks /\ Bytes(item.content) = BlockBytes(item.content[2])
      /\ ~IsText(item.content) =>
            /\ item.content[2] \in HexMessages
            /\ Bytes(item.content) = HexBytes(item.content[2])
            /\ Len(Bytes(item.content)) = 2 * Len(item.content[2]) + 1
  BY <1>1, BytesType DEF TypeOK
<1>x. PICK x : x = item.content[2]
  OBVIOUS
<1>p. PICK p : p = Read
  OBVIOUS
<1>6. FollowOK'
  <2> SUFFICES ASSUME item.whole, IsText(item.content) PROVE Following(x, p + 1)'
    BY <1>2, <1>4, <1>x, <1>p DEF FollowOK
  <2>1. Following(x, p)
    BY <1>1, <1>2, <1>x, <1>p DEF FollowOK
  <2>2. /\ x \in Blocks /\ p \in Nat /\ p < Len(BlockBytes(x))
        /\ Head(wire) = BlockBytes(x)[p + 1]
    BY <1>4, <1>5, <1>x, <1>p
  <2> QED
    BY <1>1, <2>1, <2>2, FollowStep
<1>7. StepOK'
  <2>1. ASSUME item.whole, inStep, IsText(item.content) PROVE TakingBlock(x, p + 1)'
    <3>1. TakingBlock(x, p)
      BY <1>1, <1>2, <1>x, <1>p, <2>1 DEF StepOK
    <3>2. /\ x \in Blocks /\ p \in Nat /\ p < Len(BlockBytes(x))
          /\ Head(wire) = BlockBytes(x)[p + 1]
      BY <1>4, <1>5, <1>x, <1>p, <2>1
    <3> QED
      BY <1>1, <3>1, <3>2, TakeBlockStep
  <2>2. ASSUME item.whole, inStep, ~IsText(item.content) PROVE TakingMessage(x, p + 1)'
    <3>1. TakingMessage(x, p)
      BY <1>1, <1>2, <1>x, <1>p, <2>2 DEF StepOK
    <3>2. /\ x \in HexMessages /\ p \in Nat /\ p < Len(HexBytes(x))
          /\ Head(wire) = HexBytes(x)[p + 1]
      BY <1>4, <1>5, <1>x, <1>p, <2>2
    <3> QED
      BY <1>1, <3>1, <3>2, TakeMessageStep
  <2> QED
    BY <1>2, <1>4, <1>x, <1>p, <2>1, <2>2 DEF StepOK
<1>8. CountOK'
  <2>1. ASSUME ~lossy, IsText(item.content)
        PROVE  CountingFields(x, p + 1)' /\ ~overrun'
    <3>1. CountingFields(x, p)
      BY <1>1, <1>x, <1>p, <2>1 DEF CountOK
    <3>2. /\ x \in Blocks /\ p \in Nat /\ p < Len(BlockBytes(x))
          /\ Head(wire) = BlockBytes(x)[p + 1]
      BY <1>4, <1>5, <1>x, <1>p, <2>1
    <3> QED
      BY <1>1, <3>1, <3>2, CountStep
  <2>2. ASSUME ~lossy, ~IsText(item.content)
        PROVE  PassingMessage(x, p + 1)' /\ ~overrun'
    <3>1. PassingMessage(x, p)
      BY <1>1, <1>x, <1>p, <2>2 DEF CountOK
    <3>2. /\ x \in HexMessages /\ p \in Nat /\ p < Len(HexBytes(x))
          /\ Head(wire) = HexBytes(x)[p + 1]
      BY <1>4, <1>5, <1>x, <1>p, <2>2
    <3> QED
      BY <1>1, <3>1, <3>2, PassStep
  <2>3. ASSUME lossy, ~lossy'
        PROVE  /\ ~overrun'
               /\ IsText(item.content) => CountingFields(x, Read)'
               /\ ~IsText(item.content) => PassingMessage(x, Read)'
    <3>1. state' = "IDLE"
      BY <1>2, <2>3
    <3>2. ~overrun'
      <4>1. state = "IN_TEXT_FIELD_VALUE" => state' # "IDLE"
        BY ValueReads
      <4> QED
        BY <1>2, <3>1, <4>1
    <3>3. /\ Read' = Len(Bytes(item.content))
          /\ IsText(item.content) => Read' = Len(BlockBytes(x))
          /\ ~IsText(item.content) => Read' = 2 * Len(x) + 1
      BY <1>4, <1>5, <1>x, <2>3
    <3>4. IsText(item.content) => CountingFields(x, Read)'
      BY <3>1, <3>3 DEF CountingFields, Calm, Quiet
    <3>5. ~IsText(item.content) => PassingMessage(x, Read)'
      BY <3>1, <3>3 DEF PassingMessage
    <3> QED
      BY <3>2, <3>4, <3>5
  <2>4. ~lossy' => ~overrun'
    BY <2>1, <2>2, <2>3
  <2> QED
    BY <1>2, <1>4, <1>x, <1>p, <2>1, <2>2, <2>3 DEF CountOK
<1> QED
  BY <1>3, <1>4, <1>6, <1>7, <1>8 DEF IInv

LEMMA NextIInv ==
    ASSUME WellFormed, IInv, [Next]_vars
    PROVE  IInv'
<1>1. CASE SendsBlock \/ SendsHexMessage
  BY <1>1, SendsIInv
<1>2. CASE processCharInput
  BY <1>2, ReadIInv
<1>3. CASE UNCHANGED vars
  BY <1>3 DEF IInv, TypeOK, WireOK, FollowOK, StepOK, CountOK, vars, Read, Bytes, Following,
              FollowsReturn, FollowsLabel, FollowsValue, TakingBlock, TakesReturn, TakesLabel,
              TakesValue, TakingMessage, CountingFields, CountsReturn, CountsLabel, CountsValue,
              PassingMessage, Calm, Quiet
<1> QED
  BY <1>1, <1>2, <1>3 DEF Next

LEMMA Always == ASSUME WellFormed PROVE Spec => []IInv
<1>1. Init => IInv
  BY InitIInv
<1>2. IInv /\ [Next]_vars => IInv'
  BY NextIInv
<1> QED
  BY <1>1, <1>2, PTL DEF Spec

(* Whatever state noise or a start in mid-stream left the machine in, one  *)
(* whole block brings it back to where the next one starts, whatever its   *)
(* fields are (processCharInput and the states behind it).                 *)
THEOREM WholeBlockResyncs == ASSUME WellFormed PROVE Spec => []OneBlockResyncs
<1>1. IInv => OneBlockResyncs
  BY AtEnd DEF OneBlockResyncs, Done
<1> QED
  BY <1>1, Always, PTL

(* Once in step, every whole block and every whole hex message is taken,   *)
(* whatever it says: no label, value or sum is mistaken for another.       *)
THEOREM WholeIsTaken == ASSUME WellFormed PROVE Spec => []WholeIsApplied
<1>1. IInv => WholeIsApplied
  BY AtEnd DEF WholeIsApplied, Done
<1> QED
  BY <1>1, Always, PTL

(* textBlock, of MaxFields fields, is not written behind its end while the *)
(* device keeps to MaxFields fields and no byte is lost, wherever in a     *)
(* block the firmware starts and whatever hex messages come in between.    *)
THEOREM OnlyLossOverruns == ASSUME WellFormed PROVE Spec => []OverrunNeedsLoss
<1>1. IInv => OverrunNeedsLoss
  BY DEF IInv, CountOK, OverrunNeedsLoss
<1> QED
  BY <1>1, Always, PTL
=============================================================================
