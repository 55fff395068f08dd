------------------------- MODULE DeviceLeaves_proofs --------------------------
(***************************************************************************)
(* What the registers read, what the leaves and their subscribers tell,    *)
(* and what the MPPT controllers show of the BMV: for every text and every *)
(* content of a message, every wire, every register and every field.       *)
(*                                                                         *)
(* From the bottom up: recursive functions, numbers and their bytes, the   *)
(* cursor and the messages it reads; the registers (RegistersRead); texts, *)
(* leaves and the fields that feed them (LeavesTell, LateSubscriberIsTold, *)
(* OnlyInt16Cut); the way from the BMV to a sense register (MPPTTold).     *)
(* LEMMA EveryRegisterDoes and LEMMA FieldSays are where the cases of the  *)
(* classes come together.                                                  *)
(***************************************************************************)
EXTENDS DeviceLeaves, SequenceTheorems, FiniteSetTheorems, TLAPS

(* Induction, for a set of numbers in the place of a predicate: were k not *)
(* in T, the numbers of T up to k would be as many as those but 0.         *)
LEMMA Induction ==
    ASSUME NEW T, 0 \in T, \A n \in Nat : n \in T => n + 1 \in T
    PROVE  Nat \subseteq T
<1>1. ASSUME NEW k \in Nat, k \notin T PROVE FALSE
  <2> DEFINE S == {n \in 0 .. k : n \in T}
             f == [n \in S |-> n + 1]
  <2>1. IsFiniteSet(S)
    <3>1. IsFiniteSet(0 .. k) /\ S \subseteq 0 .. k
      BY FS_Interval
    <3> QED
      BY <3>1, FS_Subset
  <2>2. /\ IsFiniteSet(S \ {0})
        /\ Cardinality(S \ {0}) = Cardinality(S) - 1
    <3>1. 0 \in S
      OBVIOUS
    <3> QED
      BY <2>1, <3>1, FS_RemoveElement
  <2>3. Cardinality(S) \in Nat
    BY <2>1, FS_CardinalityType
  <2>4. f \in [S -> S \ {0}]
    <3>1. ASSUME NEW n \in S PROVE n + 1 \in S \ {0}
      BY <1>1
    <3> QED
      BY <3>1
  <2>5. \E x, y \in S : x # y /\ f[x] = f[y]
    <3>1. Cardinality(S \ {0}) < Cardinality(S)
      BY <2>2, <2>3
    <3> HIDE DEF S, f
    <3> QED
      BY <2>1, <2>2, <2>4, <3>1, FS_PigeonHole
  <2> QED
    BY <2>5
<1> QED
  BY <1>1

(* A recursion up to n, its step given by a function.                      *)
Steps(n, S) == [(1 .. n) \X S -> S]

Follows(f, n, S, a, G) ==
    f \in [0 .. n -> S] /\ f[0] = a /\ \A i \in 1 .. n : f[i] = G[<<i, f[i - 1]>>]

LEMMA Recursion ==
    ASSUME NEW n \in Nat, NEW S, NEW a \in S, NEW G \in Steps(n, S)
    PROVE  \E f : Follows(f, n, S, a, G)
<1> USE DEF Steps
<1> DEFINE Upto(k, f) ==
               f \in [0 .. k -> S] /\ f[0] = a /\ \A i \in 1 .. k : f[i] = G[<<i, f[i - 1]>>]
           T == {k \in Nat : k <= n => \E f : Upto(k, f)}
<1>1. 0 \in T
  <2>1. Upto(0, [i \in 0 .. 0 |-> a])
    OBVIOUS
  <2> QED
    BY <2>1
<1>2. ASSUME NEW k \in Nat, k \in T PROVE k + 1 \in T
  <2> SUFFICES ASSUME k + 1 <= n PROVE \E f : Upto(k + 1, f)
    OBVIOUS
  <2>1. PICK f : Upto(k, f)
    BY <1>2
  <2> DEFINE g == [i \in 0 .. k + 1 |-> IF i = k + 1 THEN G[<<k + 1, f[k]>>] ELSE f[i]]
  <2>2. f[k] \in S /\ k + 1 \in 1 .. n
    BY <2>1
  <2>3. G[<<k + 1, f[k]>>] \in S
    BY <2>2
  <2>4. g \in [0 .. k + 1 -> S]
    BY <2>1, <2>3
  <2>5. g[0] = a
    BY <2>1
  <2>6. ASSUME NEW i \in 1 .. k + 1 PROVE g[i] = G[<<i, g[i - 1]>>]
    <3>1. i - 1 \in 0 .. k /\ g[i - 1] = f[i - 1]
      OBVIOUS
    <3>2. CASE i = k + 1
      BY <3>1, <3>2
    <3>3. CASE i # k + 1
      <4>1. i \in 1 .. k /\ g[i] = f[i]
        BY <3>3
      <4> QED
        BY <2>1, <3>1, <4>1
    <3> QED
      BY <3>2, <3>3
  <2>7. Upto(k + 1, g)
    BY <2>4, <2>5, <2>6
  <2> QED
    BY <2>7
<1>3. n \in T
  <2> HIDE DEF T
  <2> QED
    BY <1>1, <1>2, Induction
<1>4. PICK f : Upto(n, f)
  BY <1>3
<1> QED
  BY <1>4 DEF Follows


(* Two recursions with the same start and the same steps.                  *)
LEMMA SameSteps ==
    ASSUME NEW n \in Nat, NEW f, NEW g, f[0] = g[0],
           \A i \in 1 .. n : f[i - 1] = g[i - 1] => f[i] = g[i]
    PROVE  \A i \in 0 .. n : f[i] = g[i]
<1> DEFINE T == {k \in Nat : k <= n => f[k] = g[k]}
<1>1. 0 \in T
  OBVIOUS
<1>2. ASSUME NEW k \in Nat, k \in T PROVE k + 1 \in T
  <2> SUFFICES ASSUME k + 1 <= n PROVE f[k + 1] = g[k + 1]
    OBVIOUS
  <2>1. f[k] = g[k] /\ k + 1 \in 1 .. n /\ (k + 1) - 1 = k
    BY <1>2
  <2> QED
    BY <2>1
<1>3. Nat \subseteq T
  <2> HIDE DEF T
  <2> QED
    BY <1>1, <1>2, Induction
<1> QED
  BY <1>3

-----------------------------------------------------------------------------
Byte == 0 .. 255

LEMMA WordFacts ==
    /\ Word \in Nat
    /\ Word >= 131072
    /\ Word <= 65536 * 65536
    /\ Word % 65536 = 0
BY WordAssumption, SMT

LEMMA Mod256 == ASSUME NEW n \in Int PROVE n % 256 \in Byte /\ (n \in Byte => n % 256 = n)
BY SMT DEF Byte

LEMMA ByteInt == \A x \in Byte : x \in Int
BY DEF Byte

(* The sum of a message, byte by byte.                                     *)
SumsTo(s, f) ==
    /\ f \in [0 .. Len(s) -> Byte]
    /\ f[0] = 0
    /\ \A i \in 1 .. Len(s) : f[i] = (f[i - 1] + s[i]) % 256

LEMMA SumsExist == ASSUME NEW s \in Seq(Byte) PROVE \E f : SumsTo(s, f)
<1> DEFINE n == Len(s)
           G == [x \in (1 .. n) \X Byte |-> (x[2] + s[x[1]]) % 256]
<1>1. n \in Nat /\ 0 \in Byte
  BY DEF Byte
<1>2. G \in Steps(n, Byte)
  <2>1. ASSUME NEW i \in 1 .. n, NEW y \in Byte PROVE (y + s[i]) % 256 \in Byte
    <3>1. s[i] \in Byte
      OBVIOUS
    <3>2. y + s[i] \in Int
      BY <3>1, ByteInt
    <3> QED
      BY <3>2, Mod256
  <2> QED
    BY <2>1 DEF Steps
<1>3. PICK f : Follows(f, n, Byte, 0, G)
  <2> HIDE DEF G, n
  <2> QED
    BY <1>1, <1>2, Recursion
<1>4. ASSUME NEW i \in 1 .. n PROVE f[i] = (f[i - 1] + s[i]) % 256
  <2>1. i - 1 \in 0 .. n
    BY <1>1
  <2>2. <<i, f[i - 1]>> \in (1 .. n) \X Byte
    BY <1>3, <2>1 DEF Follows
  <2> QED
    BY <1>3, <2>2 DEF Follows
<1> QED
  BY <1>3, <1>4 DEF SumsTo, Follows

LEMMA SumIs == ASSUME NEW s \in Seq(Byte), NEW f, SumsTo(s, f) PROVE SumOfBytes(s) = f[Len(s)]
<1> DEFINE n == Len(s)
           Is(g) == g = [i \in 0 .. n |-> IF i = 0 THEN 0 ELSE (g[i - 1] + s[i]) % 256]
           sum == CHOOSE g : Is(g)
<1>1. n \in Nat
  OBVIOUS
<1>2. Is(f)
  BY <1>1 DEF SumsTo
<1>3. Is(sum)
  BY <1>2
<1>4. SumOfBytes(s) = sum[n]
  BY DEF SumOfBytes
<1> HIDE DEF sum
<1>5. sum[0] = f[0]
  BY <1>1, <1>2, <1>3
<1>6. \A i \in 1 .. n : sum[i - 1] = f[i - 1] => sum[i] = f[i]
  BY <1>1, <1>2, <1>3
<1>7. sum[n] = f[n]
  <2>1. \A i \in 0 .. n : sum[i] = f[i]
    <3> HIDE DEF Is, n
    <3> QED
      BY <1>1, <1>5, <1>6, SameSteps
  <2> QED
    BY <1>1, <2>1
<1> QED
  BY <1>4, <1>7

LEMMA SumType == ASSUME NEW s \in Seq(Byte) PROVE SumOfBytes(s) \in Byte
<1>1. PICK f : SumsTo(s, f)
  BY SumsExist
<1>2. SumOfBytes(s) = f[Len(s)] /\ Len(s) \in 0 .. Len(s)
  BY <1>1, SumIs
<1> QED
  BY <1>1, <1>2 DEF SumsTo

(* The sums of a sequence go on in what is appended to it.                 *)
LEMMA SumOfAppend ==
    ASSUME NEW s \in Seq(Byte), NEW x \in Byte
    PROVE  SumOfBytes(Append(s, x)) = (SumOfBytes(s) + x) % 256
<1> DEFINE n == Len(s)
           t == Append(s, x)
<1>0. n \in Nat /\ t \in Seq(Byte) /\ Len(t) = n + 1 /\ t[n + 1] = x
      /\ \A i \in 1 .. n : t[i] = s[i]
  BY AppendProperties
<1>1. PICK f : SumsTo(s, f)
  BY SumsExist
<1> DEFINE y == (f[n] + x) % 256
           g == [i \in 0 .. n + 1 |-> IF i = n + 1 THEN y ELSE f[i]]
<1>2. f \in [0 .. n -> Byte] /\ f[n] \in Byte
  BY <1>0, <1>1 DEF SumsTo
<1>3. y \in Byte
  <2>1. f[n] + x \in Int
    BY <1>2, ByteInt
  <2> QED
    BY <2>1, Mod256
<1>4. g \in [0 .. n + 1 -> Byte] /\ g[0] = 0
  <2>1. f[0] = 0
    BY <1>1 DEF SumsTo
  <2> HIDE DEF y
  <2> QED
    BY <1>0, <1>2, <1>3, <2>1
<1>5. ASSUME NEW i \in 1 .. n + 1 PROVE g[i] = (g[i - 1] + t[i]) % 256
  <2>1. g[i - 1] = f[i - 1]
    BY <1>0
  <2>2. CASE i = n + 1
    <3>1. i - 1 = n /\ t[i] = x /\ g[i] = y
      BY <1>0, <2>2
    <3> QED
      BY <2>1, <3>1
  <2>3. CASE i # n + 1
    <3>1. i \in 1 .. n /\ g[i] = f[i]
      BY <1>0, <2>3
    <3>2. t[i] = s[i]
      BY <1>0, <3>1
    <3>3. f[i] = (f[i - 1] + s[i]) % 256
      BY <1>1, <3>1 DEF SumsTo
    <3> QED
      BY <2>1, <3>1, <3>2, <3>3
  <2> QED
    BY <2>2, <2>3
<1>6. SumsTo(t, g)
  <2> HIDE DEF t, g
  <2> QED
    BY <1>0, <1>4, <1>5 DEF SumsTo
<1>7. SumOfBytes(t) = g[n + 1] /\ SumOfBytes(s) = f[n]
  <2> HIDE DEF t, g
  <2> QED
    BY <1>0, <1>1, <1>6, SumIs
<1>8. g[n + 1] = y
  BY <1>0
<1> QED
  BY <1>7, <1>8

-----------------------------------------------------------------------------
(* Numbers modulo Word.                                                    *)
Number32 == 0 .. Word - 1

LEMMA Remainder ==
    ASSUME NEW R \in Nat, R > 0, NEW x \in Int
    PROVE  /\ x % R \in 0 .. R - 1
           /\ x \div R \in Int
           /\ x = R * (x \div R) + (x % R)
BY SMT

LEMMA RemainderUnique ==
    ASSUME NEW R \in Nat, R > 0, NEW q \in Int, NEW r \in 0 .. R - 1
    PROVE  (R * q + r) % R = r
BY SMT

(* A multiple of R makes no difference.                                    *)
LEMMA MultipleGone ==
    ASSUME NEW R \in Nat, R > 0, NEW q \in Int, NEW x \in Int
    PROVE  (R * q + x) % R = x % R
<1> DEFINE p == x \div R
           r == x % R
<1>1. p \in Int /\ r \in 0 .. R - 1 /\ x = R * p + r
  BY Remainder
<1> HIDE DEF p, r
<1>2. q + p \in Int /\ R * q + x = R * (q + p) + r
  BY <1>1, SMT
<1>3. (R * (q + p) + r) % R = r
  BY <1>1, <1>2, RemainderUnique
<1> QED
  BY <1>2, <1>3 DEF r

LEMMA ModWord ==
    ASSUME NEW x \in Int
    PROVE  /\ x % Word \in Number32
           /\ x \in Number32 => x % Word = x
<1>1. Word \in Nat /\ Word > 0
  BY WordFacts, SMT
<1>2. x % Word \in 0 .. Word - 1
  BY <1>1, Remainder
<1>3. ASSUME x \in 0 .. Word - 1 PROVE x % Word = x
  <2>1. (Word * 0 + x) % Word = x
    BY <1>1, <1>3, RemainderUnique, SMT
  <2> QED
    BY <1>1, <2>1, SMT
<1> QED
  BY <1>2, <1>3 DEF Number32

(* Reading one more byte, below those that were read.                      *)
Below(x, y) == x * 256 + y

LEMMA ShiftedByte ==
    ASSUME NEW x \in Int, NEW y \in Int
    PROVE  Below(x % Word, y) % Word = Below(x, y) % Word /\ Below(x, y) \in Int
<1> DEFINE p == x \div Word
           r == x % Word
<1>1. Word \in Nat /\ Word > 0
  BY WordFacts, SMT
<1>2. p \in Int /\ r \in 0 .. Word - 1 /\ x = Word * p + r
  BY <1>1, Remainder
<1> HIDE DEF p, r
<1>3. p * 256 \in Int /\ Below(r, y) \in Int /\ Below(x, y) \in Int
  BY <1>2 DEF Below
<1>4. Below(x, y) = Word * (p * 256) + Below(r, y)
  <2>1. Word * p \in Int /\ Word * (p * 256) = (Word * p) * 256
    BY <1>1, <1>2, SMT
  <2>2. r \in Int
    BY <1>2
  <2> QED
    BY <1>2, <2>1, <2>2, SMT DEF Below
<1>5. (Word * (p * 256) + Below(r, y)) % Word = Below(r, y) % Word
  BY <1>1, <1>3, MultipleGone
<1> QED
  BY <1>3, <1>4, <1>5 DEF r

LEMMA ByteIsNumber == ASSUME NEW x \in Byte PROVE x \in Number32 /\ x \in Int /\ 0 * 256 + x = x
<1>1. Word \in Nat /\ Word >= 131072
  BY WordFacts
<1> QED
  BY <1>1, SMT DEF Byte, Number32

Number16 == 0 .. 65535

Pair(x, y) == x + 256 * y

LEMMA TwoBytes ==
    ASSUME NEW x \in Byte, NEW y \in Byte
    PROVE  /\ Below(y, x) = Pair(x, y)
           /\ Pair(x, y) \in Number16
           /\ Pair(x, y) \in Number32
           /\ Pair(x, y) \in Int
<1>1. Word \in Nat /\ Word >= 131072
  BY WordFacts
<1>2. Pair(x, y) \in Int /\ Below(y, x) = Pair(x, y)
  BY SMT DEF Byte, Below, Pair
<1>3. Pair(x, y) \in Number16
  BY SMT DEF Byte, Number16, Pair
<1>4. Pair(x, y) <= Word - 1 /\ 0 <= Pair(x, y)
  BY <1>1, SMT DEF Byte, Pair
<1>5. Pair(x, y) \in Number32
  BY <1>1, <1>2, <1>4, SMT DEF Number32
<1> QED
  BY <1>2, <1>3, <1>5

Quad(a, b, c, d) == a + 256 * b + 65536 * c + 16777216 * d

LEMMA FourBytes ==
    ASSUME NEW a \in Byte, NEW b \in Byte, NEW c \in Byte, NEW d \in Byte
    PROVE  Below(Below(Below(d, c), b), a) = Quad(a, b, c, d)
BY SMT DEF Byte, Below, Quad

(* A byte of a message.                                                    *)
LEMMA ByteOf == ASSUME NEW s \in Seq(Byte), NEW i \in 1 .. Len(s) PROVE s[i] \in Byte /\ s[i] \in Int
BY ElementOfSeq, ByteInt

-----------------------------------------------------------------------------
(* The bytes of a number, the lowest first.                                *)
ReadsTo(s, f) ==
    /\ f \in [0 .. Len(s) -> Number32]
    /\ f[0] = 0
    /\ \A i \in 1 .. Len(s) : f[i] = (f[i - 1] * 256 + s[Len(s) + 1 - i]) % Word

LEMMA ReadExist == ASSUME NEW s \in Seq(Byte) PROVE \E f : ReadsTo(s, f)
<1> DEFINE n == Len(s)
           G == [x \in (1 .. n) \X Number32 |-> (x[2] * 256 + s[n + 1 - x[1]]) % Word]
<1>1. n \in Nat /\ 0 \in Number32
  BY WordFacts, SMT DEF Number32
<1>2. G \in Steps(n, Number32)
  <2>1. ASSUME NEW i \in 1 .. n, NEW y \in Number32
        PROVE (y * 256 + s[n + 1 - i]) % Word \in Number32
    <3>1. n + 1 - i \in 1 .. n
      BY <1>1
    <3>2. s[n + 1 - i] \in Byte
      BY <3>1
    <3>3. s[n + 1 - i] \in Int
      BY <3>2, ByteInt
    <3>4. y * 256 + s[n + 1 - i] \in Int
      <4> HIDE DEF n
      <4> QED
        BY <3>3 DEF Number32
    <3> QED
      BY <3>4, ModWord
  <2> HIDE DEF n
  <2> QED
    BY <2>1 DEF Steps
<1>3. PICK f : Follows(f, n, Number32, 0, G)
  <2> HIDE DEF G, n
  <2> QED
    BY <1>1, <1>2, Recursion
<1>4. ASSUME NEW i \in 1 .. n PROVE f[i] = (f[i - 1] * 256 + s[n + 1 - i]) % Word
  <2>1. i - 1 \in 0 .. n
    BY <1>1
  <2>2. <<i, f[i - 1]>> \in (1 .. n) \X Number32
    BY <1>3, <2>1 DEF Follows
  <2> QED
    BY <1>3, <2>2 DEF Follows
<1> QED
  BY <1>3, <1>4 DEF ReadsTo, Follows

LEMMA ReadIs == ASSUME NEW s \in Seq(Byte), NEW f, ReadsTo(s, f) PROVE LittleEndian(s) = f[Len(s)]
<1> DEFINE n == Len(s)
           Is(g) == g = [i \in 0 .. n |-> IF i = 0 THEN 0 ELSE (g[i - 1] * 256 + s[n + 1 - i]) % Word]
           read == CHOOSE g : Is(g)
<1>1. n \in Nat
  OBVIOUS
<1>2. Is(f)
  BY <1>1 DEF ReadsTo
<1>3. Is(read)
  BY <1>2
<1>4. LittleEndian(s) = read[n]
  BY DEF LittleEndian
<1> HIDE DEF read
<1>5. read[0] = f[0]
  BY <1>1, <1>2, <1>3
<1>6. ASSUME NEW i \in 1 .. n, read[i - 1] = f[i - 1] PROVE read[i] = f[i]
  <2>1. i \in 0 .. n /\ i # 0
    BY <1>1
  <2>2. read[i] = (read[i - 1] * 256 + s[n + 1 - i]) % Word
    BY <1>3, <2>1
  <2>3. f[i] = (f[i - 1] * 256 + s[n + 1 - i]) % Word
    BY DEF ReadsTo
  <2> QED
    BY <1>6, <2>2, <2>3
<1>7. read[n] = f[n]
  <2>1. \A i \in 0 .. n : read[i] = f[i]
    <3> HIDE DEF Is, n
    <3> QED
      BY <1>1, <1>5, <1>6, SameSteps
  <2> QED
    BY <1>1, <2>1
<1> QED
  BY <1>4, <1>7

LEMMA ReadType == ASSUME NEW s \in Seq(Byte) PROVE LittleEndian(s) \in Number32
<1>1. PICK f : ReadsTo(s, f)
  BY ReadExist
<1>2. LittleEndian(s) = f[Len(s)] /\ Len(s) \in 0 .. Len(s)
  BY <1>1, ReadIs
<1> QED
  BY <1>1, <1>2 DEF ReadsTo

LEMMA ReadOne == ASSUME NEW s \in Seq(Byte), Len(s) = 1 PROVE LittleEndian(s) = s[1]
<1>1. PICK f : ReadsTo(s, f)
  BY ReadExist
<1>2. LittleEndian(s) = f[1]
  BY <1>1, ReadIs
<1>3. f[0] = 0 /\ f[1] = (f[0] * 256 + s[1]) % Word
  BY <1>1 DEF ReadsTo
<1>4. s[1] \in Byte
  OBVIOUS
<1> QED
  BY <1>2, <1>3, <1>4, ByteIsNumber, ModWord

LEMMA ReadTwo ==
    ASSUME NEW s \in Seq(Byte), Len(s) = 2
    PROVE  /\ LittleEndian(s) = Pair(s[1], s[2])
           /\ LittleEndian(s) \in Number16
<1>1. PICK f : ReadsTo(s, f)
  BY ReadExist
<1>2. LittleEndian(s) = f[2]
  BY <1>1, ReadIs
<1>3. f[0] = 0 /\ f[1] = (f[0] * 256 + s[2]) % Word /\ f[2] = (f[1] * 256 + s[1]) % Word
  BY <1>1 DEF ReadsTo
<1>4. s[1] \in Byte /\ s[2] \in Byte
  OBVIOUS
<1>5. f[1] = s[2]
  BY <1>3, <1>4, ByteIsNumber, ModWord
<1>6. f[2] = Below(s[2], s[1]) % Word
  BY <1>3, <1>5 DEF Below
<1>7. f[2] = Pair(s[1], s[2])
  BY <1>4, <1>6, TwoBytes, ModWord
<1> QED
  BY <1>2, <1>4, <1>7, TwoBytes

LEMMA ReadFour ==
    ASSUME NEW s \in Seq(Byte), Len(s) = 4
    PROVE  LittleEndian(s) = Quad(s[1], s[2], s[3], s[4]) % Word
<1>1. PICK f : ReadsTo(s, f)
  BY ReadExist
<1>2. LittleEndian(s) = f[4]
  BY <1>1, ReadIs
<1>3. /\ f[0] = 0
      /\ f[1] = Below(f[0], s[4]) % Word
      /\ f[2] = Below(f[1], s[3]) % Word
      /\ f[3] = Below(f[2], s[2]) % Word
      /\ f[4] = Below(f[3], s[1]) % Word
  BY <1>1 DEF ReadsTo, Below
<1>4. 1 \in 1 .. Len(s) /\ 2 \in 1 .. Len(s) /\ 3 \in 1 .. Len(s) /\ 4 \in 1 .. Len(s)
  OBVIOUS
<1>5. /\ s[1] \in Byte /\ s[2] \in Byte /\ s[3] \in Byte /\ s[4] \in Byte
      /\ s[1] \in Int /\ s[2] \in Int /\ s[3] \in Int /\ s[4] \in Int
  BY <1>4, ByteOf
<1> DEFINE b == Below(s[4], s[3])
           c == Below(b, s[2])
           d == Below(c, s[1])
<1>6. f[1] = s[4] % Word
  <2>1. Below(0, s[4]) = s[4]
    BY <1>5, ByteIsNumber DEF Below
  <2> QED
    BY <1>3, <2>1
<1>7. f[2] = b % Word /\ b \in Int
  BY <1>3, <1>5, <1>6, ShiftedByte
<1> HIDE DEF b
<1>8. f[3] = c % Word /\ c \in Int
  BY <1>3, <1>5, <1>7, ShiftedByte
<1> HIDE DEF c
<1>9. f[4] = d % Word /\ d \in Int
  BY <1>3, <1>5, <1>8, ShiftedByte
<1>10. d = Quad(s[1], s[2], s[3], s[4])
  BY <1>5, FourBytes DEF b, c
<1> QED
  BY <1>2, <1>9, <1>10

-----------------------------------------------------------------------------
(* The cursor.                                                             *)
Cursor == [readPos : Nat, parseError : BOOLEAN, values : Seq(Int)]

LEMMA NumberInt == \A x \in Number32 : x \in Int
BY WordFacts, SMT DEF Number32

LEMMA Piece ==
    ASSUME NEW message \in Seq(Byte), NEW from \in Nat, NEW size \in Nat, from + size <= Len(message)
    PROVE  LET s == SubSeq(message, from + 1, from + size)
           IN  /\ s \in Seq(Byte)
               /\ Len(s) = size
               /\ \A i \in 1 .. size : s[i] = message[from + i]
<1>1. from + 1 \in 1 .. Len(message) + 1 /\ from + size \in from + 1 - 1 .. Len(message)
  BY LenProperties
<1> QED
  BY <1>1, SubSeqProperties

(* What one read does to the cursor.                                       *)
ReadBy(message, c, size, d) ==
    /\ d \in Cursor
    /\ Len(d.values) = Len(c.values) + 1
    /\ \A i \in 1 .. Len(c.values) : d.values[i] = c.values[i]
    /\ IF remainingBytes(message, c) < size
       THEN d.parseError /\ d.readPos = c.readPos
       ELSE /\ d.parseError = c.parseError
            /\ d.readPos = c.readPos + size
            /\ d.values[Len(d.values)] =
                    LittleEndian(SubSeq(message, c.readPos + 1, c.readPos + size))

LEMMA OneRead ==
    ASSUME NEW message \in Seq(Byte), NEW c \in Cursor, NEW size \in Nat
    PROVE  ReadBy(message, c, size, parseUInt(message, c, size))
<1> DEFINE d == parseUInt(message, c, size)
           v == LittleEndian(SubSeq(message, c.readPos + 1, c.readPos + size))
<1>0. c.readPos \in Nat /\ c.parseError \in BOOLEAN /\ c.values \in Seq(Int)
      /\ c = [readPos |-> c.readPos, parseError |-> c.parseError, values |-> c.values]
      /\ Len(message) \in Nat
  BY DEF Cursor
<1>1. CASE remainingBytes(message, c) < size
  <2>1. d = [readPos |-> c.readPos, parseError |-> TRUE, values |-> Append(c.values, 0)]
    BY <1>0, <1>1 DEF parseUInt
  <2>2. Append(c.values, 0) \in Seq(Int)
    BY <1>0, AppendProperties
  <2>3. d \in Cursor
    BY <1>0, <2>1, <2>2 DEF Cursor
  <2>4. d.parseError = TRUE /\ d.readPos = c.readPos /\ d.values = Append(c.values, 0)
    <3> HIDE DEF d
    <3> QED
      BY <2>1
  <2>5. /\ Len(d.values) = Len(c.values) + 1
        /\ \A i \in 1 .. Len(c.values) : d.values[i] = c.values[i]
    <3> HIDE DEF d
    <3> QED
      BY <1>0, <2>4, AppendProperties
  <2>6. ReadBy(message, c, size, d)
    <3> HIDE DEF d
    <3> QED
      BY <1>1, <2>3, <2>4, <2>5 DEF ReadBy
  <2> QED
    BY <2>6
<1>2. CASE ~(remainingBytes(message, c) < size)
  <2>1. c.readPos + size <= Len(message)
    BY <1>0, <1>2 DEF remainingBytes
  <2>2. v \in Int
    BY <1>0, <2>1, Piece, ReadType, NumberInt
  <2> HIDE DEF v
  <2>3. d = [readPos |-> c.readPos + size, parseError |-> c.parseError, values |-> Append(c.values, v)]
    BY <1>0, <1>2 DEF parseUInt, v
  <2>4. Append(c.values, v) \in Seq(Int)
    BY <1>0, <2>2, AppendProperties
  <2>5. d \in Cursor
    BY <1>0, <2>3, <2>4 DEF Cursor
  <2>6. /\ Len(d.values) = Len(c.values) + 1
        /\ \A i \in 1 .. Len(c.values) : d.values[i] = c.values[i]
        /\ d.values[Len(d.values)] = v
    <3> HIDE DEF d
    <3> QED
      BY <1>0, <2>2, <2>3, AppendProperties
  <2>7. d.parseError = c.parseError /\ d.readPos = c.readPos + size
    <3> HIDE DEF d
    <3> QED
      BY <2>3
  <2>8. ReadBy(message, c, size, d)
    <3> HIDE DEF d
    <3> QED
      BY <1>2, <2>5, <2>6, <2>7 DEF ReadBy, v
  <2> QED
    BY <2>8
<1> QED
  BY <1>1, <1>2

(* The reads of ParseAll, one for each size.                               *)
Reads(message, c, sizes, d) ==
    /\ d \in [0 .. Len(sizes) -> Cursor]
    /\ d[0] = c
    /\ \A i \in 1 .. Len(sizes) : d[i] = parseUInt(message, d[i - 1], sizes[i])

LEMMA ReadsExist ==
    ASSUME NEW message \in Seq(Byte), NEW c \in Cursor, NEW sizes \in Seq(Nat)
    PROVE  \E d : Reads(message, c, sizes, d)
<1> DEFINE n == Len(sizes)
           G == [x \in (1 .. n) \X Cursor |-> parseUInt(message, x[2], sizes[x[1]])]
<1>1. n \in Nat
  OBVIOUS
<1>2. G \in Steps(n, Cursor)
  <2>1. ASSUME NEW i \in 1 .. n, NEW y \in Cursor
        PROVE parseUInt(message, y, sizes[i]) \in Cursor
    <3>1. sizes[i] \in Nat
      BY ElementOfSeq
    <3> QED
      BY <3>1, OneRead DEF ReadBy
  <2> HIDE DEF n
  <2> QED
    BY <2>1 DEF Steps
<1>3. PICK d : Follows(d, n, Cursor, c, G)
  <2> HIDE DEF G, n
  <2> QED
    BY <1>1, <1>2, Recursion
<1>4. ASSUME NEW i \in 1 .. n PROVE d[i] = parseUInt(message, d[i - 1], sizes[i])
  <2>1. i - 1 \in 0 .. n
    BY <1>1
  <2>2. <<i, d[i - 1]>> \in (1 .. n) \X Cursor
    BY <1>3, <2>1 DEF Follows
  <2> QED
    BY <1>3, <2>2 DEF Follows
<1> QED
  BY <1>3, <1>4 DEF Reads, Follows

LEMMA ReadsAre ==
    ASSUME NEW message \in Seq(Byte), NEW c \in Cursor, NEW sizes \in Seq(Nat),
           NEW d, Reads(message, c, sizes, d)
    PROVE  ParseAll(message, c, sizes) = expectedEnd(message, d[Len(sizes)])
<1> DEFINE n == Len(sizes)
           Is(g) == g = [i \in 0 .. n |->
                            IF i = 0 THEN c ELSE parseUInt(message, g[i - 1], sizes[i])]
           all == CHOOSE g : Is(g)
<1>1. n \in Nat
  OBVIOUS
<1>2. Is(d)
  BY <1>1 DEF Reads
<1>3. Is(all)
  BY <1>2
<1>4. ParseAll(message, c, sizes) = expectedEnd(message, all[n])
  BY DEF ParseAll
<1> HIDE DEF all
<1>5. all[0] = d[0]
  BY <1>1, <1>2, <1>3
<1>6. ASSUME NEW i \in 1 .. n, all[i - 1] = d[i - 1] PROVE all[i] = d[i]
  <2>1. i \in 0 .. n /\ i # 0
    BY <1>1
  <2>2. all[i] = parseUInt(message, all[i - 1], sizes[i])
    BY <1>3, <2>1
  <2>3. d[i] = parseUInt(message, d[i - 1], sizes[i])
    BY DEF Reads
  <2> QED
    BY <1>6, <2>2, <2>3
<1>7. all[n] = d[n]
  <2>1. \A i \in 0 .. n : all[i] = d[i]
    <3> HIDE DEF Is, n
    <3> QED
      BY <1>1, <1>5, <1>6, SameSteps
  <2> QED
    BY <1>1, <2>1
<1> QED
  BY <1>4, <1>7

(* The sizes added up, one after the other.                                *)
AddsTo(sizes, f) ==
    /\ f \in [0 .. Len(sizes) -> Nat]
    /\ f[0] = 0
    /\ \A i \in 1 .. Len(sizes) : f[i] = f[i - 1] + sizes[i]

LEMMA AddExist == ASSUME NEW sizes \in Seq(Nat) PROVE \E f : AddsTo(sizes, f)
<1> DEFINE n == Len(sizes)
           G == [x \in (1 .. n) \X Nat |-> x[2] + sizes[x[1]]]
<1>1. n \in Nat /\ 0 \in Nat
  OBVIOUS
<1>2. G \in Steps(n, Nat)
  <2>1. ASSUME NEW i \in 1 .. n, NEW y \in Nat PROVE y + sizes[i] \in Nat
    <3>1. sizes[i] \in Nat
      BY ElementOfSeq
    <3> QED
      BY <3>1
  <2> HIDE DEF n
  <2> QED
    BY <2>1 DEF Steps
<1>3. PICK f : Follows(f, n, Nat, 0, G)
  <2> HIDE DEF G, n
  <2> QED
    BY <1>1, <1>2, Recursion
<1>4. ASSUME NEW i \in 1 .. n PROVE f[i] = f[i - 1] + sizes[i]
  <2>1. i - 1 \in 0 .. n
    BY <1>1
  <2>2. <<i, f[i - 1]>> \in (1 .. n) \X Nat
    BY <1>3, <2>1 DEF Follows
  <2> QED
    BY <1>3, <2>2 DEF Follows
<1> QED
  BY <1>3, <1>4 DEF AddsTo, Follows

LEMMA AddIs == ASSUME NEW sizes \in Seq(Nat), NEW f, AddsTo(sizes, f) PROVE Sum(sizes) = f[Len(sizes)]
<1> DEFINE n == Len(sizes)
           Is(g) == g = [i \in 0 .. n |-> IF i = 0 THEN 0 ELSE g[i - 1] + sizes[i]]
           sum == CHOOSE g : Is(g)
<1>1. n \in Nat
  OBVIOUS
<1>2. Is(f)
  BY <1>1 DEF AddsTo
<1>3. Is(sum)
  BY <1>2
<1>4. Sum(sizes) = sum[n]
  BY DEF Sum
<1> HIDE DEF sum
<1>5. sum[0] = f[0]
  BY <1>1, <1>2, <1>3
<1>6. ASSUME NEW i \in 1 .. n, sum[i - 1] = f[i - 1] PROVE sum[i] = f[i]
  <2>1. i \in 0 .. n /\ i # 0
    BY <1>1
  <2>2. sum[i] = sum[i - 1] + sizes[i]
    BY <1>3, <2>1
  <2>3. f[i] = f[i - 1] + sizes[i]
    BY DEF AddsTo
  <2> QED
    BY <1>6, <2>2, <2>3
<1>7. sum[n] = f[n]
  <2>1. \A i \in 0 .. n : sum[i] = f[i]
    <3> HIDE DEF Is, n
    <3> QED
      BY <1>1, <1>5, <1>6, SameSteps
  <2> QED
    BY <1>1, <2>1
<1> QED
  BY <1>4, <1>7

(* Where a message is read from the cursor on: what so many reads find.    *)
Field(message, c, f, j) ==
    LittleEndian(SubSeq(message, c.readPos + f[j - 1] + 1, c.readPos + f[j]))

Fresh(message, c) ==
    /\ c \in Cursor
    /\ ~c.parseError
    /\ c.values = <<>>
    /\ remainingBytes(message, c) >= 0

ReadSoFar(message, c, f, k, e) ==
    /\ e \in Cursor
    /\ Len(e.values) = k
    /\ f[k] <= remainingBytes(message, c) => ~e.parseError
    /\ ~e.parseError =>
            /\ e.readPos = c.readPos + f[k]
            /\ f[k] <= remainingBytes(message, c)
            /\ \A j \in 1 .. k : e.values[j] = Field(message, c, f, j)

LEMMA ReadsSoFar ==
    ASSUME NEW message \in Seq(Byte), NEW c, Fresh(message, c), NEW sizes \in Seq(Nat),
           NEW d, Reads(message, c, sizes, d), NEW f, AddsTo(sizes, f)
    PROVE  ReadSoFar(message, c, f, Len(sizes), d[Len(sizes)])
<1> DEFINE n == Len(sizes)
           T == {k \in Nat : k <= n => ReadSoFar(message, c, f, k, d[k])}
<1>1. n \in Nat /\ c \in Cursor /\ Len(message) \in Nat /\ c.readPos \in Nat
      /\ f \in [0 .. n -> Nat]
      /\ d \in [0 .. n -> Cursor]
  BY DEF Fresh, Cursor, AddsTo, Reads
<1>2. 0 \in T
  <2>1. d[0] = c /\ f[0] = 0
    BY DEF Reads, AddsTo
  <2> QED
    BY <1>1, <2>1 DEF ReadSoFar, Fresh
<1>3. ASSUME NEW k \in Nat, k \in T PROVE k + 1 \in T
  <2> SUFFICES ASSUME k + 1 <= n PROVE ReadSoFar(message, c, f, k + 1, d[k + 1])
    OBVIOUS
  <2> DEFINE e == d[k]
             size == sizes[k + 1]
             after == d[k + 1]
  <2>1. k \in 0 .. n /\ k + 1 \in 1 .. n /\ k + 1 - 1 = k /\ k + 1 \in 0 .. n
    BY <1>1
  <2>2. ReadSoFar(message, c, f, k, e)
    BY <1>3, <2>1
  <2>3. size \in Nat
    BY <2>1, ElementOfSeq
  <2>4. f[k + 1] = f[k] + size /\ f[k] \in Nat /\ f[k + 1] \in Nat
    <3>1. f[k + 1] = f[k] + size
      BY <2>1 DEF AddsTo
    <3> QED
      BY <1>1, <2>1, <3>1
  <2>5. ReadBy(message, e, size, after)
    <3>1. after = parseUInt(message, e, size)
      BY <2>1 DEF Reads
    <3>2. e \in Cursor
      BY <1>1, <2>1
    <3> QED
      BY <2>3, <3>1, <3>2, OneRead
  <2> HIDE DEF e, size, after
  <2>6. e \in Cursor /\ Len(e.values) = k /\ after \in Cursor /\ Len(after.values) = k + 1
        /\ e.readPos \in Nat
    BY <2>2, <2>5 DEF ReadSoFar, ReadBy, Cursor
  <2>7. remainingBytes(message, c) \in Int /\ remainingBytes(message, e) \in Int
        /\ (e.readPos = c.readPos + f[k] =>
                remainingBytes(message, e) = remainingBytes(message, c) - f[k])
    <3>1. /\ remainingBytes(message, c) = Len(message) - c.readPos - 1
          /\ remainingBytes(message, e) = Len(message) - e.readPos - 1
      BY DEF remainingBytes
    <3>2. c.readPos \in Nat /\ e.readPos \in Nat /\ f[k] \in Nat /\ Len(message) \in Nat
      BY <1>1, <2>4, <2>6
    <3>3. remainingBytes(message, c) \in Int /\ remainingBytes(message, e) \in Int
      BY <3>1, <3>2
    <3>4. ASSUME e.readPos = c.readPos + f[k]
          PROVE  remainingBytes(message, e) = remainingBytes(message, c) - f[k]
      BY <3>1, <3>2, <3>4
    <3> QED
      BY <3>3, <3>4
  <2>8. ASSUME f[k + 1] <= remainingBytes(message, c) PROVE ~after.parseError
    <3>1. f[k] <= remainingBytes(message, c)
      BY <2>3, <2>4, <2>7, <2>8
    <3>2. ~e.parseError /\ e.readPos = c.readPos + f[k]
      BY <2>2, <3>1 DEF ReadSoFar
    <3>3. ~(remainingBytes(message, e) < size)
      BY <2>3, <2>4, <2>7, <2>8, <3>2
    <3> QED
      BY <2>5, <3>2, <3>3 DEF ReadBy
  <2>9. ASSUME ~after.parseError
        PROVE  /\ after.readPos = c.readPos + f[k + 1]
               /\ f[k + 1] <= remainingBytes(message, c)
               /\ \A j \in 1 .. k + 1 : after.values[j] = Field(message, c, f, j)
    <3>1. ~(remainingBytes(message, e) < size)
      BY <2>5, <2>9 DEF ReadBy
    <3>2. /\ after.parseError = e.parseError
          /\ after.readPos = e.readPos + size
          /\ after.values[k + 1] = LittleEndian(SubSeq(message, e.readPos + 1, e.readPos + size))
          /\ \A i \in 1 .. k : after.values[i] = e.values[i]
      BY <2>5, <2>6, <3>1 DEF ReadBy
    <3>3. /\ e.readPos = c.readPos + f[k]
          /\ \A j \in 1 .. k : e.values[j] = Field(message, c, f, j)
      BY <2>2, <2>9, <3>2 DEF ReadSoFar
    <3>4. after.readPos = c.readPos + f[k + 1]
      BY <1>1, <2>3, <2>4, <3>2, <3>3
    <3>5. f[k + 1] <= remainingBytes(message, c)
      BY <2>3, <2>4, <2>7, <3>1, <3>3
    <3>6. after.values[k + 1] = Field(message, c, f, k + 1)
      <4>1. e.readPos + 1 = c.readPos + f[k] + 1 /\ e.readPos + size = c.readPos + f[k + 1]
        BY <1>1, <2>3, <2>4, <3>3
      <4> QED
        BY <2>1, <3>2, <4>1 DEF Field
    <3>7. ASSUME NEW j \in 1 .. k + 1 PROVE after.values[j] = Field(message, c, f, j)
      <4>1. j = k + 1 \/ j \in 1 .. k
        OBVIOUS
      <4> QED
        BY <3>2, <3>3, <3>6, <4>1
    <3> QED
      BY <3>4, <3>5, <3>7
  <2>10. ReadSoFar(message, c, f, k + 1, after)
    BY <2>6, <2>8, <2>9 DEF ReadSoFar
  <2> QED
    BY <2>10 DEF after
<1>4. n \in T
  <2> HIDE DEF T, n
  <2> QED
    BY <1>1, <1>2, <1>3, Induction
<1> QED
  BY <1>1, <1>4

(* A message is read without error exactly if its length is that of its    *)
(* parts, and every part is the number in its bytes.                       *)
LEMMA ReadsAll ==
    ASSUME NEW message \in Seq(Byte), NEW c, Fresh(message, c), NEW sizes \in Seq(Nat),
           NEW f, AddsTo(sizes, f)
    PROVE  LET d == ParseAll(message, c, sizes)
           IN  /\ d \in Cursor
               /\ Len(d.values) = Len(sizes)
               /\ ~d.parseError <=> remainingBytes(message, c) = f[Len(sizes)]
               /\ ~d.parseError => \A j \in 1 .. Len(sizes) : d.values[j] = Field(message, c, f, j)
<1> DEFINE n == Len(sizes)
           d == ParseAll(message, c, sizes)
<1>1. n \in Nat /\ c \in Cursor /\ Len(message) \in Nat /\ c.readPos \in Nat /\ f[n] \in Nat
  BY DEF Fresh, Cursor, AddsTo
<1>2. PICK r : Reads(message, c, sizes, r)
  BY <1>1, ReadsExist
<1> DEFINE e == r[n]
<1>3. ReadSoFar(message, c, f, n, e)
  BY <1>2, ReadsSoFar
<1>4. d = expectedEnd(message, e)
  BY <1>1, <1>2, ReadsAre
<1> HIDE DEF e, d
<1>5. e \in Cursor /\ e.readPos \in Nat /\ e.values \in Seq(Int) /\ Len(e.values) = n
  BY <1>3 DEF ReadSoFar, Cursor
<1>6. remainingBytes(message, c) \in Int /\ remainingBytes(message, e) \in Int
      /\ (e.readPos = c.readPos + f[n] =>
                remainingBytes(message, e) = remainingBytes(message, c) - f[n])
  BY <1>1, <1>5 DEF remainingBytes
<1>7. CASE remainingBytes(message, e) # 0
  <2>1. d = [e EXCEPT !.parseError = TRUE]
    BY <1>4, <1>7 DEF expectedEnd
  <2>2. d = [readPos |-> e.readPos, parseError |-> TRUE, values |-> e.values]
    BY <1>5, <2>1 DEF Cursor
  <2>3. d \in Cursor
    BY <1>5, <2>2 DEF Cursor
  <2>4. d.parseError /\ d.values = e.values
    BY <2>2
  <2>5. remainingBytes(message, c) # f[n]
    <3> SUFFICES ASSUME remainingBytes(message, c) = f[n] PROVE FALSE
      OBVIOUS
    <3>1. ~e.parseError /\ e.readPos = c.readPos + f[n]
      BY <1>1, <1>3 DEF ReadSoFar
    <3> QED
      BY <1>1, <1>6, <1>7, <3>1
  <2> QED
    BY <1>5, <2>3, <2>4, <2>5 DEF d
<1>8. CASE remainingBytes(message, e) = 0
  <2>1. d = e
    BY <1>4, <1>8 DEF expectedEnd
  <2>2. ASSUME ~e.parseError PROVE remainingBytes(message, c) = f[n]
    <3>1. e.readPos = c.readPos + f[n]
      BY <1>3, <2>2 DEF ReadSoFar
    <3> QED
      BY <1>1, <1>6, <1>8, <3>1
  <2>3. ASSUME remainingBytes(message, c) = f[n] PROVE ~e.parseError
    BY <1>1, <1>3, <2>3 DEF ReadSoFar
  <2>4. ~e.parseError => \A j \in 1 .. n : e.values[j] = Field(message, c, f, j)
    BY <1>3 DEF ReadSoFar
  <2> QED
    BY <1>5, <2>1, <2>2, <2>3, <2>4 DEF d
<1> QED
  BY <1>7, <1>8

-----------------------------------------------------------------------------
(***************************************************************************)
(* Messages: a command or response, an ID, what comes after it, and the    *)
(* checksum.                                                               *)
(***************************************************************************)
LEMMA ByteNumbers == {0, 1, 4, 7, 8, 10} \subseteq Byte
BY DEF Byte

LEMMA ChecksumIsByte == ASSUME NEW s \in Seq(Byte) PROVE Checksum(s) \in Byte
<1>1. SumOfBytes(s) \in Byte
  BY SumType
<1>2. 85 - SumOfBytes(s) \in Int
  <2>1. \A x \in Byte : 85 - x \in Int
    BY DEF Byte
  <2> QED
    BY <1>1, <2>1
<1> QED
  BY <1>2, Mod256 DEF Checksum, ChecksumOfMessage

(* The device's checksum is right for every message that was built.        *)
LEMMA ChecksumHolds ==
    ASSUME NEW s \in Seq(Byte)
    PROVE  /\ appendChecksum(s) \in Seq(Byte)
           /\ SumOfBytes(appendChecksum(s)) = ChecksumOfMessage
<1>1. Checksum(s) \in Byte
  BY ChecksumIsByte
<1>2. SumOfBytes(appendChecksum(s)) = (SumOfBytes(s) + Checksum(s)) % 256
  BY <1>1, SumOfAppend DEF appendChecksum
<1>3. SumOfBytes(s) \in Byte
  BY SumType
<1>4. ASSUME NEW x \in Byte, NEW y, y = (85 - x) % 256 PROVE (x + y) % 256 = 85
  BY <1>4, SMT DEF Byte
<1>5. Checksum(s) = (85 - SumOfBytes(s)) % 256
  BY DEF Checksum, ChecksumOfMessage
<1>6. SumOfBytes(appendChecksum(s)) = 85
  <2> DEFINE x == SumOfBytes(s)
             y == Checksum(s)
  <2>1. x \in Byte /\ y = (85 - x) % 256 /\ SumOfBytes(appendChecksum(s)) = (x + y) % 256
    BY <1>2, <1>3, <1>5
  <2> HIDE DEF x, y
  <2>2. (x + y) % 256 = 85
    BY <1>4, <2>1
  <2> QED
    BY <2>1, <2>2
<1> QED
  BY <1>1, <1>6, AppendProperties DEF appendChecksum, ChecksumOfMessage

(* The first three bytes: the command or response and the ID.              *)
Head3(code, id) == appendUInt16(<<code>>, id)

LEMMA Head3Is ==
    ASSUME NEW code \in Byte, NEW id \in Number16
    PROVE  LET h == Head3(code, id)
           IN  /\ h \in Seq(Byte)
               /\ Len(h) = 3
               /\ h[1] = code /\ h[2] = id % 256 /\ h[3] = id \div 256
<1> DEFINE x == id % 256
           y == id \div 256
           h == Head3(code, id)
<1>1. x \in Byte /\ y \in Byte
  <2>1. id \in Nat /\ id <= 65535
    BY DEF Number16
  <2>2. id % 256 \in Byte
    BY <2>1, Mod256
  <2>3. 0 <= id \div 256 /\ id \div 256 <= 255 /\ id \div 256 \in Int
    BY <2>1, SMT
  <2> QED
    BY <2>2, <2>3, SMT DEF Byte
<1>2. h = <<code>> \o <<x, y>>
  BY DEF Head3, appendUInt16
<1> HIDE DEF x, y, h
<1> DEFINE s == <<code>>
           t == <<x, y>>
<1>3. s \in Seq(Byte) /\ t \in Seq(Byte) /\ Len(s) = 1 /\ Len(t) = 2
      /\ s[1] = code /\ t[1] = x /\ t[2] = y
  BY <1>1
<1>4. h = s \o t
  BY <1>2
<1> HIDE DEF s, t
<1>5. /\ h \in Seq(Byte)
      /\ Len(h) = Len(s) + Len(t)
      /\ \A i \in 1 .. Len(s) + Len(t) : h[i] = IF i <= Len(s) THEN s[i] ELSE t[i - Len(s)]
  BY <1>3, <1>4, ConcatProperties
<1>6. h \in Seq(Byte) /\ Len(h) = 3 /\ h[1] = s[1] /\ h[2] = t[1] /\ h[3] = t[2]
  BY <1>3, <1>5
<1> QED
  BY <1>3, <1>6 DEF h, x, y

LEMMA Framed ==
    ASSUME NEW code \in Byte, NEW id \in Number16, NEW payload \in Seq(Byte)
    PROVE  LET message == appendChecksum(Head3(code, id) \o payload)
           IN  /\ message \in Seq(Byte)
               /\ SumOfBytes(message) = ChecksumOfMessage
               /\ Len(message) = Len(payload) + 4
               /\ \A i \in 1 .. Len(payload) : message[3 + i] = payload[i]
               /\ \A i \in 1 .. 3 : message[i] = Head3(code, id)[i]
<1> DEFINE h == Head3(code, id)
           s == h \o payload
           m == appendChecksum(s)
<1>1. h \in Seq(Byte) /\ Len(h) = 3
  BY Head3Is
<1> HIDE DEF h
<1>2. /\ s \in Seq(Byte)
      /\ Len(s) = Len(h) + Len(payload)
      /\ \A i \in 1 .. Len(h) + Len(payload) : s[i] = IF i <= Len(h) THEN h[i] ELSE payload[i - Len(h)]
  BY <1>1, ConcatProperties
<1> HIDE DEF s
<1>3. ASSUME NEW i \in 1 .. Len(payload) PROVE s[3 + i] = payload[i]
  <2>1. 3 + i \in 1 .. Len(h) + Len(payload) /\ ~(3 + i <= Len(h)) /\ (3 + i) - Len(h) = i
    BY <1>1
  <2> QED
    BY <1>2, <2>1
<1>4. ASSUME NEW i \in 1 .. 3 PROVE s[i] = h[i]
  <2>1. i \in 1 .. Len(h) + Len(payload) /\ i <= Len(h)
    BY <1>1
  <2> QED
    BY <1>2, <2>1
<1>5. Checksum(s) \in Byte /\ Len(payload) \in Nat
  BY <1>2, ChecksumIsByte
<1>6. Len(m) = Len(s) + 1 /\ \A i \in 1 .. Len(s) : m[i] = s[i]
  BY <1>2, <1>5, AppendProperties DEF appendChecksum
<1>7. m \in Seq(Byte) /\ SumOfBytes(m) = ChecksumOfMessage
  BY <1>2, ChecksumHolds
<1> HIDE DEF m
<1>8. \A i \in 1 .. Len(payload) : 3 + i \in 1 .. Len(s)
  BY <1>1, <1>2, <1>5
<1>9. \A i \in 1 .. 3 : i \in 1 .. Len(s)
  BY <1>1, <1>2, <1>5
<1>10. Len(m) = Len(payload) + 4
  BY <1>1, <1>2, <1>5, <1>6
<1> QED
  BY <1>3, <1>4, <1>6, <1>7, <1>8, <1>9, <1>10 DEF m, s, h

(* The cursor behind the ID of a message.                                  *)
LEMMA BehindTheID ==
    ASSUME NEW message \in Seq(Byte), Len(message) >= 4
    PROVE  /\ Fresh(message, BehindID(message))
           /\ BehindID(message).readPos = 3
           /\ remainingBytes(message, BehindID(message)) = Len(message) - 4
<1> DEFINE d == parseUInt(message, Start, 2)
           c == BehindID(message)
<1>1. Start \in Cursor /\ Start.readPos = 1 /\ ~Start.parseError
  BY DEF Start, Cursor
<1>2. ReadBy(message, Start, 2, d)
  BY <1>1, OneRead
<1>3. ~(remainingBytes(message, Start) < 2)
  BY <1>1 DEF remainingBytes
<1>4. d \in Cursor /\ d.readPos = 3 /\ ~d.parseError
  BY <1>1, <1>2, <1>3 DEF ReadBy
<1>5. c = [d EXCEPT !.values = <<>>]
  BY DEF BehindID
<1> HIDE DEF d, c
<1>6. c = [readPos |-> 3, parseError |-> d.parseError, values |-> <<>>]
  BY <1>4, <1>5 DEF Cursor
<1>7. c \in Cursor /\ ~c.parseError /\ c.values = <<>> /\ c.readPos = 3
  <2>1. <<>> \in Seq(Int) /\ 3 \in Nat /\ d.parseError \in BOOLEAN
    BY <1>4 DEF Cursor
  <2>2. c \in Cursor
    BY <1>6, <2>1 DEF Cursor
  <2> QED
    BY <1>4, <1>6, <2>2
<1>8. remainingBytes(message, c) = Len(message) - 4
  BY <1>7 DEF remainingBytes
<1>9. remainingBytes(message, c) >= 0
  BY <1>8
<1> QED
  BY <1>7, <1>8, <1>9 DEF Fresh, c

(* A part of a message behind its ID.                                      *)
LEMMA PartOfPayload ==
    ASSUME NEW message \in Seq(Byte), NEW payload \in Seq(Byte), Len(message) = Len(payload) + 4,
           \A i \in 1 .. Len(payload) : message[3 + i] = payload[i],
           NEW from \in Nat, NEW size \in Nat, from + size <= Len(payload)
    PROVE  LET s == SubSeq(message, 3 + from + 1, 3 + (from + size))
           IN  /\ s \in Seq(Byte)
               /\ Len(s) = size
               /\ \A i \in 1 .. size : s[i] = payload[from + i]
<1> DEFINE s == SubSeq(message, (3 + from) + 1, (3 + from) + size)
<1>1. Len(payload) \in Nat /\ 3 + from \in Nat /\ (3 + from) + size <= Len(message)
  OBVIOUS
<1>2. s \in Seq(Byte) /\ Len(s) = size /\ \A i \in 1 .. size : s[i] = message[(3 + from) + i]
  BY <1>1, Piece
<1>3. ASSUME NEW i \in 1 .. size PROVE message[(3 + from) + i] = payload[from + i]
  <2>1. from + i \in 1 .. Len(payload) /\ (3 + from) + i = 3 + (from + i)
    BY <1>1
  <2> QED
    BY <2>1
<1>4. (3 + from) + size = 3 + (from + size)
  OBVIOUS
<1> QED
  BY <1>2, <1>3, <1>4

-----------------------------------------------------------------------------
(***************************************************************************)
(* Registers: what a device sends of them, and what set() makes of it.     *)
(***************************************************************************)

Histories == {"TotalHistory", "DailyHistory"}

Classes ==
    {"UInt8", "UInt8OnOff", "UInt16", "UInt16Range", "UInt24", "UInt32", "Int16", "Int32",
     "String20", "String32"} \cup Histories

LEMMA TwoSizes ==
    ASSUME NEW k \in Nat
    PROVE  <<1, k>> \in Seq(Nat) /\ Len(<<1, k>>) = 2 /\ <<1, k>>[1] = 1 /\ <<1, k>>[2] = k
OBVIOUS

LEMMA TotalSizes ==
    /\ TotalHistorySizes \in Seq(Nat)
    /\ Len(TotalHistorySizes) >= 2
    /\ TotalHistorySizes[1] = 1
    /\ TotalHistorySizes[2] = 1
<1> DEFINE a == <<1, 1>>
           b == <<1, 1, 1, 1, 1>>
           c == <<4, 4, 2, 2, 1, 2>>
           d == [reserved \in 1 .. 13 |-> 1]
<1>1. a \in Seq(Nat) /\ Len(a) = 2 /\ a[1] = 1 /\ a[2] = 1
  OBVIOUS
<1>2. b \in Seq(Nat) /\ c \in Seq(Nat) /\ d \in Seq(Nat)
  OBVIOUS
<1>3. TotalHistorySizes = ((a \o b) \o c) \o d
  BY DEF TotalHistorySizes
<1> HIDE DEF a, b, c, d
<1> DEFINE ab == a \o b
           abc == ab \o c
           abcd == abc \o d
<1>4. ab \in Seq(Nat) /\ Len(ab) >= 2 /\ ab[1] = 1 /\ ab[2] = 1
  <2>1. /\ ab \in Seq(Nat) /\ Len(ab) = Len(a) + Len(b)
        /\ \A i \in 1 .. Len(a) + Len(b) : ab[i] = IF i <= Len(a) THEN a[i] ELSE b[i - Len(a)]
    BY <1>1, <1>2, ConcatProperties
  <2>2. Len(b) \in Nat
    BY <1>2
  <2> HIDE DEF ab
  <2> QED
    BY <1>1, <2>1, <2>2
<1> HIDE DEF ab
<1>5. abc \in Seq(Nat) /\ Len(abc) >= 2 /\ abc[1] = 1 /\ abc[2] = 1
  <2>1. /\ abc \in Seq(Nat) /\ Len(abc) = Len(ab) + Len(c)
        /\ \A i \in 1 .. Len(ab) + Len(c) : abc[i] = IF i <= Len(ab) THEN ab[i] ELSE c[i - Len(ab)]
    BY <1>2, <1>4, ConcatProperties
  <2>2. Len(c) \in Nat /\ Len(ab) \in Nat
    BY <1>2, <1>4
  <2> HIDE DEF abc
  <2> QED
    BY <1>4, <2>1, <2>2
<1> HIDE DEF abc
<1>6. abcd \in Seq(Nat) /\ Len(abcd) >= 2 /\ abcd[1] = 1 /\ abcd[2] = 1
  <2>1. /\ abcd \in Seq(Nat) /\ Len(abcd) = Len(abc) + Len(d)
        /\ \A i \in 1 .. Len(abc) + Len(d) : abcd[i] = IF i <= Len(abc) THEN abc[i] ELSE d[i - Len(abc)]
    BY <1>2, <1>5, ConcatProperties
  <2>2. Len(d) \in Nat /\ Len(abc) \in Nat
    BY <1>2, <1>5
  <2> HIDE DEF abcd
  <2> QED
    BY <1>5, <2>1, <2>2
<1> QED
  BY <1>3, <1>6 DEF ab, abc

LEMMA DailySizes ==
    /\ DailyHistorySizes \in Seq(Nat)
    /\ Len(DailyHistorySizes) = 18
    /\ DailyHistorySizes[1] = 1
    /\ DailyHistorySizes[2] = 1
    /\ \A j \in 3 .. 17 : DailyHistorySizes[j] =
            IF j \in {3, 4, 15} THEN 4 ELSE IF j \in 7 .. 11 THEN 1 ELSE 2
<1>1. DailyHistorySizes \in Seq(Nat) /\ Len(DailyHistorySizes) = 18
  BY DEF DailyHistorySizes
<1>2. DailyHistorySizes[1] = 1 /\ DailyHistorySizes[2] = 1
  BY DEF DailyHistorySizes
<1>3. /\ DailyHistorySizes[3] = 4 /\ DailyHistorySizes[4] = 4 /\ DailyHistorySizes[5] = 2
      /\ DailyHistorySizes[6] = 2 /\ DailyHistorySizes[7] = 1 /\ DailyHistorySizes[8] = 1
      /\ DailyHistorySizes[9] = 1 /\ DailyHistorySizes[10] = 1 /\ DailyHistorySizes[11] = 1
      /\ DailyHistorySizes[12] = 2 /\ DailyHistorySizes[13] = 2 /\ DailyHistorySizes[14] = 2
      /\ DailyHistorySizes[15] = 4 /\ DailyHistorySizes[16] = 2 /\ DailyHistorySizes[17] = 2
  BY DEF DailyHistorySizes
<1>4. ASSUME NEW j \in 3 .. 17
      PROVE  DailyHistorySizes[j] = IF j \in {3, 4, 15} THEN 4 ELSE IF j \in 7 .. 11 THEN 1 ELSE 2
  BY <1>3
<1> QED
  BY <1>1, <1>2, <1>4

LEMMA SizesAre ==
    ASSUME NEW class \in Classes
    PROVE  /\ SizesOf(class) \in Seq(Nat)
           /\ Len(SizesOf(class)) >= 2
           /\ SizesOf(class)[1] = 1
           /\ SizesOf(class)[2] >= 1
           /\ class \in Histories => SizesOf(class)[2] = 1
<1>1. CASE class \in {"UInt8", "UInt8OnOff"}
  <2>1. SizesOf(class) = <<1, 1>> /\ class \notin Histories
    BY <1>1 DEF SizesOf, Histories
  <2> QED
    BY <2>1
<1>2. CASE class \in {"UInt16", "UInt16Range", "Int16"}
  <2>1. SizesOf(class) = <<1, 2>> /\ class \notin Histories
    BY <1>2 DEF SizesOf, Histories
  <2> QED
    BY <2>1
<1>3. CASE class = "UInt24"
  <2>1. SizesOf(class) = <<1, 3>> /\ class \notin Histories
    BY <1>3 DEF SizesOf, Histories
  <2> QED
    BY <2>1
<1>4. CASE class \in {"UInt32", "Int32", "String20", "String32"}
  <2>1. SizesOf(class) = <<1, 4>> /\ class \notin Histories
    BY <1>4 DEF SizesOf, Histories
  <2> QED
    BY <2>1
<1>5. CASE class = "TotalHistory"
  <2>1. SizesOf(class) = TotalHistorySizes
    BY <1>5 DEF SizesOf
  <2> QED
    BY <2>1, TotalSizes
<1>6. CASE class = "DailyHistory"
  <2>1. SizesOf(class) = DailyHistorySizes
    BY <1>6 DEF SizesOf
  <2> QED
    BY <2>1, DailySizes
<1> QED
  BY <1>1, <1>2, <1>3, <1>4, <1>5, <1>6 DEF Classes, Histories

LEMMA AddsFrom ==
    ASSUME NEW sizes \in Seq(Nat), NEW f, AddsTo(sizes, f), NEW j \in 0 .. Len(sizes),
           NEW m \in 0 .. Len(sizes), j <= m
    PROVE  f[j] <= f[m]
<1> DEFINE n == Len(sizes)
           T == {k \in Nat : j <= k /\ k <= n => f[j] <= f[k]}
<1>1. n \in Nat /\ j \in Nat /\ f \in [0 .. n -> Nat] /\ m \in Nat /\ m <= n
  BY DEF AddsTo
<1>2. 0 \in T
  <2>1. j <= 0 => j = 0
    BY <1>1
  <2>2. f[0] \in Nat
    BY <1>1
  <2> QED
    BY <2>1, <2>2
<1>3. ASSUME NEW k \in Nat, k \in T PROVE k + 1 \in T
  <2> SUFFICES ASSUME j <= k + 1, k + 1 <= n PROVE f[j] <= f[k + 1]
    OBVIOUS
  <2>1. k \in 0 .. n /\ k + 1 \in 1 .. n /\ k + 1 - 1 = k /\ k + 1 \in 0 .. n
    BY <1>1
  <2>2. f[k + 1] = f[k] + sizes[k + 1] /\ sizes[k + 1] \in Nat
    <3>1. sizes[k + 1] \in Nat
      BY <2>1, ElementOfSeq
    <3> QED
      BY <2>1, <3>1 DEF AddsTo
  <2>3. f[k] \in Nat /\ f[j] \in Nat /\ f[k + 1] \in Nat
    BY <1>1, <2>1
  <2>4. CASE j <= k
    <3>1. f[j] <= f[k]
      BY <1>3, <2>1, <2>4
    <3> QED
      BY <2>2, <2>3, <3>1
  <2>5. CASE j = k + 1
    BY <2>3, <2>5
  <2> QED
    BY <1>1, <2>4, <2>5
<1>4. m \in T
  <2> HIDE DEF T, n
  <2> QED
    BY <1>1, <1>2, <1>3, Induction
<1> QED
  BY <1>1, <1>4

LEMMA AddsUp ==
    ASSUME NEW sizes \in Seq(Nat), NEW f, AddsTo(sizes, f), NEW j \in 0 .. Len(sizes)
    PROVE  f[j] <= f[Len(sizes)]
<1>1. Len(sizes) \in 0 .. Len(sizes) /\ j <= Len(sizes)
  OBVIOUS
<1> QED
  BY <1>1, AddsFrom


(* The first places of a register, and its length.                         *)
LEMMA FirstSizes ==
    ASSUME NEW class \in Classes, NEW f, AddsTo(SizesOf(class), f)
    PROVE  LET n == Len(SizesOf(class))
           IN  /\ n \in Nat /\ n >= 2
               /\ f \in [0 .. n -> Nat]
               /\ f[0] = 0 /\ f[1] = 1 /\ f[2] = 1 + SizesOf(class)[2]
               /\ f[n] >= 2
<1> DEFINE sizes == SizesOf(class)
           n == Len(sizes)
<1>1. sizes \in Seq(Nat) /\ n \in Nat /\ n >= 2 /\ sizes[1] = 1 /\ sizes[2] >= 1 /\ sizes[2] \in Nat
  <2>1. sizes \in Seq(Nat) /\ n >= 2 /\ sizes[1] = 1 /\ sizes[2] >= 1
    BY SizesAre
  <2>2. n \in Nat
    BY <2>1
  <2>3. sizes[2] \in Nat
    BY <2>1, <2>2, ElementOfSeq
  <2> QED
    BY <2>1, <2>2, <2>3
<1> HIDE DEF sizes, n
<1>2. /\ f \in [0 .. n -> Nat] /\ f[0] = 0
      /\ \A i \in 1 .. n : f[i] = f[i - 1] + sizes[i]
  BY DEF AddsTo, sizes, n
<1>3. f[1] = 1 /\ f[2] = 1 + sizes[2]
  <2>1. 1 \in 1 .. n /\ 2 \in 1 .. n /\ 1 - 1 = 0 /\ 2 - 1 = 1
    BY <1>1
  <2>2. f[1] = f[0] + sizes[1] /\ f[2] = f[1] + sizes[2]
    BY <1>2, <2>1
  <2> QED
    BY <1>1, <1>2, <2>2
<1>4. f[2] <= f[n] /\ f[n] \in Nat
  <2>1. 2 \in 0 .. n /\ n \in 0 .. n
    BY <1>1
  <2>2. f[2] <= f[n]
    BY <1>1, <2>1, AddsUp DEF sizes, n
  <2> QED
    BY <1>2, <2>1, <2>2
<1>5. f[n] >= 2
  BY <1>1, <1>3, <1>4
<1> QED
  BY <1>1, <1>2, <1>3, <1>5 DEF sizes, n

LEMMA DataByteType ==
    ASSUME NEW content \in HexContents, NEW i \in Int
    PROVE  DataByte(content, i) \in Byte
<1>1. content.fill \in Int
  <2>1. content.fill \in 0 .. 255
    BY LeavesAssumption DEF HexContents
  <2> QED
    BY <2>1
<1>2. content.fill + i \in Int
  BY <1>1
<1> QED
  BY <1>2, Mod256 DEF DataByte

DataOf(class, content, i) ==
    IF i = 1 /\ class \in Histories THEN content.version ELSE DataByte(content, i)

LEMMA PayloadIs ==
    ASSUME NEW class \in Classes, NEW content \in HexContents, NEW f, AddsTo(SizesOf(class), f)
    PROVE  LET p == Payload(class, content)
           IN  /\ p \in Seq(Byte)
               /\ Len(p) = f[Len(SizesOf(class))] + content.extra
               /\ Len(p) >= 1
               /\ p[1] = content.flags
               /\ \A i \in 1 .. Len(p) - 1 : p[1 + i] = DataOf(class, content, i)
<1> DEFINE total == f[Len(SizesOf(class))]
           size == total + content.extra - 1
           head == <<content.flags>>
           data == [i \in 1 .. size |-> DataOf(class, content, i)]
           p == head \o data
<1>1. content.flags \in Byte /\ content.version \in Byte /\ content.extra \in {-1, 0, 1}
  BY ByteNumbers DEF HexContents
<1>2. total \in Nat /\ total >= 2 /\ Sum(SizesOf(class)) = total
  <2>1. f[Len(SizesOf(class))] \in Nat /\ f[Len(SizesOf(class))] >= 2
    BY FirstSizes
  <2>2. SizesOf(class) \in Seq(Nat)
    BY SizesAre
  <2> QED
    BY <2>1, <2>2, AddIs
<1>3. Payload(class, content) = p
  <2>1. Payload(class, content) =
            head \o [i \in 1 .. size |-> IF i = 1 /\ class \in {"TotalHistory", "DailyHistory"}
                                         THEN content.version ELSE DataByte(content, i)]
    BY <1>2 DEF Payload
  <2>2. data = [i \in 1 .. size |-> IF i = 1 /\ class \in {"TotalHistory", "DailyHistory"}
                                    THEN content.version ELSE DataByte(content, i)]
    BY DEF DataOf, Histories
  <2> QED
    BY <2>1, <2>2
<1> HIDE DEF total
<1>4. size \in Nat
  BY <1>1, <1>2
<1> HIDE DEF size
<1>5. ASSUME NEW i \in 1 .. size PROVE DataOf(class, content, i) \in Byte
  <2>1. i \in Int
    OBVIOUS
  <2> QED
    BY <1>1, <2>1, DataByteType DEF DataOf
<1>6. data \in Seq(Byte) /\ Len(data) = size /\ \A i \in 1 .. size : data[i] = DataOf(class, content, i)
  BY <1>4, <1>5
<1>7. head \in Seq(Byte) /\ Len(head) = 1 /\ head[1] = content.flags
  BY <1>1
<1> HIDE DEF head, data
<1>8. /\ p \in Seq(Byte)
      /\ Len(p) = Len(head) + Len(data)
      /\ \A i \in 1 .. Len(head) + Len(data) :
            p[i] = IF i <= Len(head) THEN head[i] ELSE data[i - Len(head)]
  BY <1>6, <1>7, ConcatProperties
<1> HIDE DEF p
<1>9. Len(p) = 1 + size /\ p[1] = content.flags
  <2>1. 1 \in 1 .. Len(head) + Len(data) /\ 1 <= Len(head)
    BY <1>4, <1>6, <1>7
  <2> QED
    BY <1>6, <1>7, <1>8, <2>1
<1>10. ASSUME NEW i \in 1 .. Len(p) - 1 PROVE p[1 + i] = DataOf(class, content, i)
  <2>1. 1 + i \in 1 .. Len(head) + Len(data) /\ ~(1 + i <= Len(head)) /\ (1 + i) - Len(head) = i
        /\ i \in 1 .. size
    BY <1>4, <1>6, <1>7, <1>9
  <2> QED
    BY <1>6, <1>8, <2>1
<1>11. Len(p) = total + content.extra /\ Len(p) >= 1
  <2>1. size = total + content.extra - 1
    BY DEF size
  <2>2. 1 + size = total + content.extra
    BY <1>1, <1>2, <2>1
  <2> QED
    BY <1>4, <1>9, <2>2
<1> QED
  BY <1>3, <1>8, <1>9, <1>10, <1>11 DEF total

-----------------------------------------------------------------------------
(* The message and the numbers in it.                                      *)
LEMMA MessageIs ==
    ASSUME NEW class \in Classes, NEW content \in HexContents, NEW f, AddsTo(SizesOf(class), f),
           NEW code \in Byte, NEW id \in Number16
    PROVE  LET message == Response(code, id, Payload(class, content))
               c == BehindID(message)
           IN  /\ message \in Seq(Byte)
               /\ Fresh(message, c)
               /\ c.readPos = 3
               /\ Len(message) = Len(Payload(class, content)) + 4
               /\ remainingBytes(message, c) = f[Len(SizesOf(class))] + content.extra
               /\ \A i \in 1 .. Len(Payload(class, content)) : message[3 + i] = Payload(class, content)[i]
<1> DEFINE p == Payload(class, content)
           m == Response(code, id, p)
           c == BehindID(m)
           total == f[Len(SizesOf(class))]
<1>1. p \in Seq(Byte) /\ Len(p) = total + content.extra
  BY PayloadIs
<1>2. m = appendChecksum(Head3(code, id) \o p)
  BY DEF Response, Head3
<1> HIDE DEF p, m, total
<1>3. /\ m \in Seq(Byte)
      /\ Len(m) = Len(p) + 4
      /\ \A i \in 1 .. Len(p) : m[3 + i] = p[i]
  BY <1>1, <1>2, Framed
<1>4. Len(p) \in Nat
  BY <1>1
<1>5. Len(m) >= 4 /\ Len(m) - 4 = Len(p)
  BY <1>3, <1>4
<1>6. Fresh(m, c) /\ c.readPos = 3 /\ remainingBytes(m, c) = Len(p)
  BY <1>3, <1>5, BehindTheID
<1> QED
  BY <1>1, <1>3, <1>6 DEF p, m, total

(* The bytes of the data from one place on.                                *)
DataBytes(content, first, s) ==
    s \in Seq(Byte) /\ \A i \in 1 .. Len(s) : s[i] = DataByte(content, first + i - 1)

LEMMA RegisterParsed ==
    ASSUME NEW class \in Classes, NEW content \in HexContents, NEW f, AddsTo(SizesOf(class), f),
           NEW code \in Byte, NEW id \in Number16
    PROVE  LET message == Response(code, id, Payload(class, content))
               d == ParseAll(message, BehindID(message), SizesOf(class))
               n == Len(SizesOf(class))
           IN  /\ d \in Cursor
               /\ Len(d.values) = n
               /\ ~d.parseError <=> content.extra = 0
               /\ content.extra = 0 =>
                    /\ d.values[1] = content.flags
                    /\ class \in Histories => d.values[2] = content.version
                    /\ \A j \in 2 .. n : (j = 2 /\ class \in Histories)
                          \/ \E s : /\ DataBytes(content, f[j - 1], s)
                                    /\ Len(s) = SizesOf(class)[j]
                                    /\ d.values[j] = LittleEndian(s)
<1> DEFINE sizes == SizesOf(class)
           n == Len(sizes)
           p == Payload(class, content)
           message == Response(code, id, p)
           c == BehindID(message)
           d == ParseAll(message, c, sizes)
<1>1. sizes \in Seq(Nat) /\ sizes[1] = 1 /\ (class \in Histories => sizes[2] = 1)
  BY SizesAre
<1>2. n \in Nat /\ n >= 2 /\ f \in [0 .. n -> Nat] /\ f[0] = 0 /\ f[1] = 1 /\ f[2] = 1 + sizes[2]
  BY FirstSizes
<1>3. /\ p \in Seq(Byte) /\ Len(p) = f[n] + content.extra
      /\ p[1] = content.flags
      /\ \A i \in 1 .. Len(p) - 1 : p[1 + i] = DataOf(class, content, i)
  BY PayloadIs
<1>4. /\ message \in Seq(Byte) /\ Fresh(message, c) /\ c.readPos = 3
      /\ Len(message) = Len(p) + 4
      /\ remainingBytes(message, c) = f[n] + content.extra
      /\ \A i \in 1 .. Len(p) : message[3 + i] = p[i]
  BY MessageIs
<1>5. content.extra \in {-1, 0, 1}
  BY DEF HexContents
<1>6. AddsTo(sizes, f)
  OBVIOUS
<1> HIDE DEF sizes, n, p, message, c
<1>7. /\ d \in Cursor
      /\ Len(d.values) = n
      /\ ~d.parseError <=> remainingBytes(message, c) = f[n]
      /\ ~d.parseError => \A j \in 1 .. n : d.values[j] = Field(message, c, f, j)
  BY <1>1, <1>4, <1>6, ReadsAll DEF n
<1> HIDE DEF d
<1>8. f[n] \in Nat
  BY <1>2
<1>9. ~d.parseError <=> content.extra = 0
  BY <1>4, <1>5, <1>7, <1>8
<1>10. ASSUME content.extra = 0, NEW j \in 1 .. n
       PROVE  \E s : /\ s \in Seq(Byte)
                     /\ Len(s) = sizes[j]
                     /\ \A i \in 1 .. Len(s) : s[i] = p[f[j - 1] + i] /\ f[j - 1] + i <= Len(p)
                     /\ d.values[j] = LittleEndian(s)
  <2> DEFINE from == f[j - 1]
             size == sizes[j]
             s == SubSeq(message, 3 + from + 1, 3 + (from + size))
  <2>1. from \in Nat /\ size \in Nat /\ f[j] = from + size /\ f[j] <= f[n] /\ f[j] \in Nat
    <3>1. j - 1 \in 0 .. n /\ j \in 0 .. n
      BY <1>2
    <3>2. from \in Nat /\ f[j] \in Nat
      BY <1>2, <3>1
    <3>3. size \in Nat
      BY <1>1, ElementOfSeq DEF n
    <3>4. f[j] = from + size
      BY <1>6 DEF AddsTo, n
    <3>5. f[j] <= f[n]
      BY <1>1, <1>6, <3>1, AddsUp DEF n
    <3> QED
      BY <3>2, <3>3, <3>4, <3>5
  <2>2. Len(p) = f[n]
    BY <1>3, <1>8, <1>10
  <2>3. d.values[j] = LittleEndian(s)
    <3>1. d.values[j] = Field(message, c, f, j)
      BY <1>7, <1>9, <1>10
    <3> QED
      BY <1>4, <2>1, <3>1 DEF Field
  <2> HIDE DEF from, size
  <2>4. from + size <= Len(p)
    BY <2>1, <2>2
  <2>5. s \in Seq(Byte) /\ Len(s) = size /\ \A i \in 1 .. size : s[i] = p[from + i]
    BY <1>3, <1>4, <2>1, <2>4, PartOfPayload
  <2> HIDE DEF s
  <2>6. \A i \in 1 .. Len(s) : s[i] = p[from + i] /\ from + i <= Len(p)
    <3> TAKE i \in 1 .. Len(s)
    <3>1. i \in Nat /\ i <= size /\ Len(p) \in Nat
      BY <1>8, <2>1, <2>2, <2>5
    <3>2. from + i <= Len(p)
      BY <2>1, <2>4, <3>1
    <3> QED
      BY <2>5, <3>2
  <2> QED
    BY <2>3, <2>5, <2>6 DEF from, size
<1>11. ASSUME content.extra = 0 PROVE d.values[1] = content.flags
  <2>1. 1 \in 1 .. n /\ 1 - 1 = 0
    BY <1>2
  <2>2. PICK s : /\ s \in Seq(Byte) /\ Len(s) = 1 /\ d.values[1] = LittleEndian(s)
                 /\ \A i \in 1 .. Len(s) : s[i] = p[f[0] + i]
    <3>1. \E s : /\ s \in Seq(Byte) /\ Len(s) = sizes[1] /\ d.values[1] = LittleEndian(s)
                 /\ \A i \in 1 .. Len(s) : s[i] = p[f[1 - 1] + i] /\ f[1 - 1] + i <= Len(p)
      BY <1>10, <1>11, <2>1
    <3> QED
      BY <1>1, <3>1
  <2>3. s[1] = p[1]
    <3>1. 1 \in 1 .. Len(s) /\ f[0] + 1 = 1
      BY <1>2, <2>2
    <3> QED
      BY <2>2, <3>1
  <2> QED
    BY <1>3, <2>2, <2>3, ReadOne
<1>12. ASSUME content.extra = 0, NEW j \in 2 .. n,
              NEW s \in Seq(Byte),
              \A i \in 1 .. Len(s) : s[i] = p[f[j - 1] + i] /\ f[j - 1] + i <= Len(p)
       PROVE  \A i \in 1 .. Len(s) : s[i] = DataOf(class, content, f[j - 1] + i - 1)
  <2> TAKE i \in 1 .. Len(s)
  <2> DEFINE k == f[j - 1] + i - 1
  <2>1. f[j - 1] \in Nat /\ f[j - 1] >= 1
    <3>1. j - 1 \in 0 .. n /\ 1 \in 0 .. n /\ 1 <= j - 1
      BY <1>2
    <3>2. f[j - 1] \in Nat
      BY <1>2, <3>1
    <3>3. f[1] <= f[j - 1]
      BY <1>1, <1>2, <1>6, <3>1, AddsFrom DEF n
    <3> QED
      BY <1>2, <3>2, <3>3
  <2>2. Len(p) \in Nat /\ i \in Nat /\ i >= 1 /\ f[j - 1] + i <= Len(p)
    BY <1>3, <1>12
  <2>3. k \in 1 .. Len(p) - 1 /\ 1 + k = f[j - 1] + i
    BY <2>1, <2>2
  <2>4. s[i] = p[1 + k]
    BY <1>12, <2>3
  <2> QED
    BY <1>3, <2>3, <2>4
<1>13. ASSUME content.extra = 0, class \in Histories PROVE d.values[2] = content.version
  <2>1. 2 \in 1 .. n /\ 2 - 1 = 1 /\ 2 \in 2 .. n
    BY <1>2
  <2>2. PICK s : /\ s \in Seq(Byte) /\ Len(s) = 1 /\ d.values[2] = LittleEndian(s)
                 /\ \A i \in 1 .. Len(s) : s[i] = p[f[1] + i] /\ f[1] + i <= Len(p)
    <3>1. \E s : /\ s \in Seq(Byte) /\ Len(s) = sizes[2] /\ d.values[2] = LittleEndian(s)
                 /\ \A i \in 1 .. Len(s) : s[i] = p[f[2 - 1] + i] /\ f[2 - 1] + i <= Len(p)
      BY <1>10, <1>13, <2>1
    <3>2. sizes[2] = 1 /\ 2 - 1 = 1
      BY <1>1, <1>13
    <3> HIDE DEF d
    <3> QED
      BY <3>1, <3>2
  <2>3. s[1] = DataOf(class, content, 1)
    <3>1. 1 \in 1 .. Len(s) /\ f[1] + 1 - 1 = 1
      BY <1>2, <2>2
    <3>2. \A i \in 1 .. Len(s) : s[i] = DataOf(class, content, f[1] + i - 1)
      <4>1. \A i \in 1 .. Len(s) : s[i] = p[f[2 - 1] + i] /\ f[2 - 1] + i <= Len(p)
        BY <2>2
      <4>2. \A i \in 1 .. Len(s) : s[i] = DataOf(class, content, f[2 - 1] + i - 1)
        BY <1>12, <1>13, <2>1, <2>2, <4>1
      <4> QED
        BY <4>2
    <3> QED
      BY <3>1, <3>2
  <2> QED
    BY <1>13, <2>2, <2>3, ReadOne DEF DataOf
<1>14. ASSUME content.extra = 0, NEW j \in 2 .. n
       PROVE  (j = 2 /\ class \in Histories)
              \/ \E s : /\ DataBytes(content, f[j - 1], s)
                        /\ Len(s) = sizes[j]
                        /\ d.values[j] = LittleEndian(s)
  <2> SUFFICES ASSUME ~(j = 2 /\ class \in Histories)
               PROVE  \E s : /\ DataBytes(content, f[j - 1], s)
                             /\ Len(s) = sizes[j]
                             /\ d.values[j] = LittleEndian(s)
    OBVIOUS
  <2>1. j \in 1 .. n
    BY <1>2
  <2>2. PICK s : /\ s \in Seq(Byte) /\ Len(s) = sizes[j] /\ d.values[j] = LittleEndian(s)
                 /\ \A i \in 1 .. Len(s) : s[i] = p[f[j - 1] + i] /\ f[j - 1] + i <= Len(p)
    BY <1>10, <1>14, <2>1
  <2>3. ASSUME NEW i \in 1 .. Len(s) PROVE s[i] = DataByte(content, f[j - 1] + i - 1)
    <3>1. s[i] = DataOf(class, content, f[j - 1] + i - 1)
      BY <1>12, <1>14, <2>2
    <3>2. CASE class \notin Histories
      BY <3>1, <3>2 DEF DataOf
    <3>3. CASE class \in Histories /\ j # 2
      <4>1. j - 1 \in 0 .. n /\ 2 \in 0 .. n /\ 2 <= j - 1
        BY <1>2, <3>3
      <4>2. f[2] <= f[j - 1] /\ f[j - 1] \in Nat
        BY <1>1, <1>2, <1>6, <4>1, AddsFrom DEF n
      <4>3. f[2] = 2 /\ i \in Nat /\ i >= 1
        BY <1>1, <1>2, <3>3
      <4>4. f[j - 1] + i - 1 # 1
        BY <4>2, <4>3
      <4> QED
        BY <3>1, <4>4 DEF DataOf
    <3> QED
      BY <3>2, <3>3
  <2> QED
    BY <2>2, <2>3 DEF DataBytes
<1> QED
  BY <1>7, <1>9, <1>11, <1>13, <1>14 DEF d, c, message, p, n, sizes

-----------------------------------------------------------------------------
(* The number in the bytes of the data.                                    *)
LEMMA SumOne ==
    ASSUME NEW s \in Seq(Nat), Len(s) = 1 PROVE Sum(s) = s[1]
<1>1. PICK f : AddsTo(s, f)
  BY AddExist
<1>2. Sum(s) = f[1]
  BY <1>1, AddIs
<1>3. 1 \in 1 .. Len(s) /\ 1 - 1 = 0
  OBVIOUS
<1>4. f[0] = 0 /\ f[1] = f[0] + s[1]
  BY <1>1, <1>3 DEF AddsTo
<1>5. s[1] \in Nat
  BY <1>3, ElementOfSeq
<1> QED
  BY <1>2, <1>4, <1>5

LEMMA SumTwo ==
    ASSUME NEW s \in Seq(Nat), Len(s) = 2 PROVE Sum(s) = s[1] + s[2]
<1>1. PICK f : AddsTo(s, f)
  BY AddExist
<1>2. Sum(s) = f[2]
  BY <1>1, AddIs
<1>3. 1 \in 1 .. Len(s) /\ 1 - 1 = 0 /\ 2 \in 1 .. Len(s) /\ 2 - 1 = 1
  OBVIOUS
<1>4. f[0] = 0 /\ f[1] = f[0] + s[1] /\ f[2] = f[1] + s[2]
  BY <1>1, <1>3 DEF AddsTo
<1>5. s[1] \in Nat /\ s[2] \in Nat
  BY <1>3, ElementOfSeq
<1> QED
  BY <1>2, <1>4, <1>5

LEMMA SumFour ==
    ASSUME NEW s \in Seq(Nat), Len(s) = 4 PROVE Sum(s) = s[1] + s[2] + s[3] + s[4]
<1>1. PICK f : AddsTo(s, f)
  BY AddExist
<1>2. Sum(s) = f[4]
  BY <1>1, AddIs
<1>3. /\ 1 \in 1 .. Len(s) /\ 1 - 1 = 0 /\ 2 \in 1 .. Len(s) /\ 2 - 1 = 1
      /\ 3 \in 1 .. Len(s) /\ 3 - 1 = 2 /\ 4 \in 1 .. Len(s) /\ 4 - 1 = 3
  OBVIOUS
<1>4. /\ f[0] = 0 /\ f[1] = f[0] + s[1] /\ f[2] = f[1] + s[2]
      /\ f[3] = f[2] + s[3] /\ f[4] = f[3] + s[4]
  BY <1>1, <1>3 DEF AddsTo
<1>5. s[1] \in Nat /\ s[2] \in Nat /\ s[3] \in Nat /\ s[4] \in Nat
  BY <1>3, ElementOfSeq
<1> QED
  BY <1>2, <1>4, <1>5

Weight(i) == <<1, 256, 65536, 16777216>>[i] % Word

Top == 16777216     \* the weight of the fourth byte

LEMMA Weights ==
    /\ Weight(1) = 1
    /\ Weight(2) = 256
    /\ Weight(3) = 65536
    /\ Weight(4) \in Nat
    /\ \E q \in Int : Top = Word * q + Weight(4)
<1>1. Word \in Nat /\ Word > 65536
  BY WordFacts, SMT
<1>2. Weight(1) = 1 % Word /\ Weight(2) = 256 % Word /\ Weight(3) = 65536 % Word
      /\ Weight(4) = Top % Word
  BY SMT DEF Weight, Top
<1>3. 1 \in Number32 /\ 256 \in Number32 /\ 65536 \in Number32
  BY <1>1, SMT DEF Number32
<1>4. Weight(1) = 1
  BY <1>2, <1>3, ModWord
<1>5. Weight(2) = 256
  BY <1>2, <1>3, ModWord
<1>6. Weight(3) = 65536
  BY <1>2, <1>3, ModWord
<1>7. Top \in Int
  BY SMT DEF Top
<1>8. /\ Top % Word \in 0 .. Word - 1
      /\ Top \div Word \in Int
      /\ Top = Word * (Top \div Word) + (Top % Word)
  BY <1>1, <1>7, Remainder
<1>9. Weight(4) \in Nat
  BY <1>1, <1>2, <1>8
<1>10. \E q \in Int : Top = Word * q + Weight(4)
  <2>1. Top = Word * (Top \div Word) + Weight(4)
    BY <1>2, <1>8
  <2> QED
    BY <1>8, <2>1
<1> QED
  BY <1>4, <1>5, <1>6, <1>9, <1>10

Weighted(content, first, size) ==
    [i \in 1 .. size |-> DataByte(content, first + i - 1) * Weight(i)]

LEMMA WeightedIs ==
    ASSUME NEW content \in HexContents, NEW first \in Int, NEW size \in {1, 2, 4}
    PROVE  /\ Weighted(content, first, size) \in Seq(Nat)
           /\ Len(Weighted(content, first, size)) = size
           /\ DataNumber(content, first, size) = Sum(Weighted(content, first, size)) % Word
<1>1. ASSUME NEW i \in 1 .. size PROVE DataByte(content, first + i - 1) * Weight(i) \in Nat
  <2>1. first + i - 1 \in Int
    OBVIOUS
  <2>2. DataByte(content, first + i - 1) \in Nat
    <3>1. DataByte(content, first + i - 1) \in Byte
      BY <2>1, DataByteType
    <3> QED
      BY <3>1 DEF Byte
  <2>3. Weight(i) \in Nat
    <3>1. i \in {1, 2, 3, 4}
      OBVIOUS
    <3> QED
      BY <3>1, Weights
  <2> QED
    BY <2>2, <2>3
<1>2. Weighted(content, first, size) \in Seq(Nat) /\ Len(Weighted(content, first, size)) = size
  <2>1. size \in Nat
    OBVIOUS
  <2> QED
    BY <1>1, <2>1 DEF Weighted
<1>3. DataNumber(content, first, size) = Sum(Weighted(content, first, size)) % Word
  BY SMT DEF DataNumber, Weighted, Weight
<1> QED
  BY <1>2, <1>3

LEMMA DataIsRead ==
    ASSUME NEW content \in HexContents, NEW first \in Int, NEW s, DataBytes(content, first, s),
           Len(s) \in {1, 2, 4}
    PROVE  /\ LittleEndian(s) = DataNumber(content, first, Len(s))
           /\ LittleEndian(s) \in Number32
           /\ Len(s) = 1 => LittleEndian(s) \in Byte
           /\ Len(s) = 2 => LittleEndian(s) \in Number16
<1> DEFINE size == Len(s)
           w == Weighted(content, first, size)
<1>1. s \in Seq(Byte) /\ \A i \in 1 .. size : s[i] = DataByte(content, first + i - 1)
  BY DEF DataBytes
<1>2. w \in Seq(Nat) /\ Len(w) = size /\ DataNumber(content, first, size) = Sum(w) % Word
  BY WeightedIs
<1>3. \A i \in 1 .. size : w[i] = s[i] * Weight(i) /\ s[i] \in Byte /\ s[i] \in Int
  <2> TAKE i \in 1 .. size
  <2>1. w[i] = DataByte(content, first + i - 1) * Weight(i)
    BY DEF Weighted
  <2> QED
    BY <1>1, <2>1, ByteOf
<1>4. LittleEndian(s) \in Number32
  BY <1>1, ReadType
<1> HIDE DEF w
<1>5. CASE size = 1
  <2>1. 1 \in 1 .. size
    BY <1>5
  <2>2. LittleEndian(s) = s[1] /\ s[1] \in Byte /\ s[1] \in Int
    BY <1>1, <1>3, <1>5, <2>1, ReadOne
  <2>3. Sum(w) = w[1] /\ w[1] = s[1] * 1
    BY <1>2, <1>3, <1>5, <2>1, SumOne, Weights
  <2>4. Sum(w) = s[1]
    BY <2>2, <2>3
  <2>5. s[1] % Word = s[1]
    BY <2>2, ByteIsNumber, ModWord
  <2> QED
    BY <1>2, <1>4, <1>5, <2>2, <2>4, <2>5
<1>6. CASE size = 2
  <2>1. 1 \in 1 .. size /\ 2 \in 1 .. size
    BY <1>6
  <2>2. LittleEndian(s) = Pair(s[1], s[2]) /\ LittleEndian(s) \in Number16
    BY <1>1, <1>6, ReadTwo
  <2>3. Sum(w) = w[1] + w[2] /\ w[1] = s[1] * 1 /\ w[2] = s[2] * 256
    BY <1>2, <1>3, <1>6, <2>1, SumTwo, Weights
  <2>4. s[1] \in Byte /\ s[2] \in Byte /\ s[1] \in Int /\ s[2] \in Int
    BY <1>3, <2>1
  <2>5. Sum(w) = Pair(s[1], s[2])
    BY <2>3, <2>4 DEF Pair
  <2>6. Pair(s[1], s[2]) % Word = Pair(s[1], s[2])
    BY <2>4, TwoBytes, ModWord
  <2> QED
    BY <1>2, <1>4, <1>6, <2>2, <2>5, <2>6
<1>7. CASE size = 4
  <2>1. 1 \in 1 .. size /\ 2 \in 1 .. size /\ 3 \in 1 .. size /\ 4 \in 1 .. size
    BY <1>7
  <2>2. LittleEndian(s) = Quad(s[1], s[2], s[3], s[4]) % Word
    BY <1>1, <1>7, ReadFour
  <2>3. Sum(w) = w[1] + w[2] + w[3] + w[4]
    BY <1>2, <1>7, SumFour
  <2>4. w[1] = s[1] * 1 /\ w[2] = s[2] * 256 /\ w[3] = s[3] * 65536 /\ w[4] = s[4] * Weight(4)
    BY <1>3, <2>1, Weights
  <2>5. s[1] \in Int /\ s[2] \in Int /\ s[3] \in Int /\ s[4] \in Int
    BY <1>3, <2>1
  <2>6. PICK q \in Int : Top = Word * q + Weight(4)
    BY Weights
  <2> DEFINE low == s[1] + s[2] * 256 + s[3] * 65536
             x == s[4] * Weight(4)
  <2>7. low \in Int /\ x \in Int /\ Sum(w) = low + x /\ Word \in Nat /\ Word > 0 /\ Weight(4) \in Int
    BY <2>3, <2>4, <2>5, Weights, WordFacts, SMT
  <2>8. Quad(s[1], s[2], s[3], s[4]) = low + s[4] * Top
    BY <2>5, SMT DEF Quad, Top
  <2>9. s[4] * Top = Word * (s[4] * q) + x /\ s[4] * q \in Int
    <3>1. s[4] * (Word * q + Weight(4)) = s[4] * (Word * q) + s[4] * Weight(4)
      BY <2>5, <2>7, SMT
    <3>2. s[4] * (Word * q) = Word * (s[4] * q)
      BY <2>5, <2>7, SMT
    <3>3. s[4] * q \in Int
      BY <2>5
    <3> QED
      BY <2>6, <3>1, <3>2, <3>3
  <2> HIDE DEF low, x
  <2>10. Quad(s[1], s[2], s[3], s[4]) = Word * (s[4] * q) + (low + x)
    <3>1. Word * (s[4] * q) \in Int
      BY <2>7, <2>9
    <3> QED
      BY <2>7, <2>8, <2>9, <3>1
  <2>11. low + x \in Int
    BY <2>7
  <2>12. (Word * (s[4] * q) + (low + x)) % Word = (low + x) % Word
    BY <2>7, <2>9, <2>11, MultipleGone
  <2> QED
    BY <1>2, <1>4, <1>7, <2>2, <2>7, <2>10, <2>12
<1> QED
  BY <1>5, <1>6, <1>7

-----------------------------------------------------------------------------
(* The types of C++.                                                       *)
SignedTypes == {"int8", "int16", "int32"}
UnsignedTypes == {"uint8", "uint16", "uint32"}
Types == SignedTypes \cup UnsignedTypes

LowOf(type) == IF type \in SignedTypes THEN -(Modulus(type) \div 2) ELSE 0

RangeOf(type) == LowOf(type) .. MaxOf(type)

LEMMA Moduli ==
    ASSUME NEW type \in Types
    PROVE  Modulus(type) \in Nat /\ Modulus(type) > 0 /\ Modulus(type) % 2 = 0
<1>1. CASE type \in {"uint8", "int8"}
  <2>1. Modulus(type) = 256
    BY <1>1 DEF Modulus
  <2> QED
    BY <2>1, SMT
<1>2. CASE type \in {"uint16", "int16"}
  <2>1. Modulus(type) = 65536
    BY <1>2 DEF Modulus
  <2> QED
    BY <2>1, SMT
<1>3. CASE type \in {"uint32", "int32"}
  <2>1. Modulus(type) = Word
    BY <1>3 DEF Modulus
  <2> QED
    BY <2>1, WordFacts, SMT
<1> QED
  BY <1>1, <1>2, <1>3 DEF Types, SignedTypes, UnsignedTypes

LEMMA Halved ==
    ASSUME NEW M \in Nat, M > 0, M % 2 = 0
    PROVE  M \div 2 \in Nat /\ M = 2 * (M \div 2) /\ M \div 2 > 0
BY SMT

(* A number keeps its residue, falls into the range of the type, and stays *)
(* what it is when it is there already.                                    *)
LEMMA Wrapped ==
    ASSUME NEW type \in Types, NEW n \in Int
    PROVE  /\ Wrap(type, n) \in Int
           /\ Wrap(type, n) \in RangeOf(type)
           /\ Wrap(type, n) % Modulus(type) = n % Modulus(type)
           /\ n \in RangeOf(type) => Wrap(type, n) = n
<1> DEFINE M == Modulus(type)
           H == M \div 2
           r == n % M
           q == n \div M
<1>1. M \in Nat /\ M > 0 /\ M % 2 = 0
  BY Moduli
<1>2. H \in Nat /\ M = 2 * H /\ H > 0
  BY <1>1, Halved
<1>3. r \in 0 .. M - 1 /\ q \in Int /\ n = M * q + r
  BY <1>1, Remainder
<1>4. r \in Int /\ M \in Int /\ H \in Int
  BY <1>1, <1>2, <1>3
<1>5. IsSigned(type) <=> type \in SignedTypes
  BY DEF IsSigned, SignedTypes
<1>6. Wrap(type, n) = IF type \in SignedTypes /\ 2 * r >= M THEN r - M ELSE r
  BY <1>5 DEF Wrap
<1>7. RangeOf(type) = IF type \in SignedTypes THEN -H .. H - 1 ELSE 0 .. M - 1
  <2>1. MaxOf(type) = IF type \in SignedTypes THEN H - 1 ELSE M - 1
    BY <1>5 DEF MaxOf
  <2> QED
    BY <2>1 DEF RangeOf, LowOf
<1> HIDE DEF M, H, r, q
<1>8. CASE type \in SignedTypes /\ 2 * r >= M
  <2>1. Wrap(type, n) = r - M /\ r - M \in Int /\ r - M \in -H .. H - 1
    BY <1>2, <1>3, <1>4, <1>6, <1>8
  <2>2. (r - M) % M = n % M
    <3>1. (M * (-1) + r) % M = r % M
      <4>1. -1 \in Int
        OBVIOUS
      <4> QED
        BY <1>1, <1>4, <4>1, MultipleGone
    <3>2. (M * q + r) % M = r % M
      BY <1>1, <1>3, <1>4, MultipleGone
    <3>3. M * (-1) + r = r - M
      BY <1>4
    <3> QED
      BY <1>3, <3>1, <3>2, <3>3
  <2>3. n \in -H .. H - 1 => n = r - M
    <3>1. CASE q >= 0
      <4>1. M * q >= 0
        BY <1>1, <1>3, <3>1, SMT
      <4> QED
        BY <1>2, <1>3, <1>4, <1>8, <4>1
    <3>2. CASE q = -1
      BY <1>2, <1>3, <1>4, <1>8, <3>2
    <3>3. CASE q <= -2
      <4>1. M * q <= M * (-2)
        BY <1>1, <1>3, <3>3, SMT
      <4>2. M * q \in Int /\ M * (-2) = -2 * M
        BY <1>1, <1>3
      <4> QED
        BY <1>2, <1>3, <1>4, <1>8, <4>1, <4>2
    <3> QED
      BY <1>3, <3>1, <3>2, <3>3
  <2> QED
    BY <1>7, <1>8, <2>1, <2>2, <2>3 DEF M
<1>9. CASE ~(type \in SignedTypes /\ 2 * r >= M)
  <2>1. Wrap(type, n) = r
    BY <1>6, <1>9
  <2>2. r \in RangeOf(type)
    BY <1>2, <1>3, <1>4, <1>7, <1>9
  <2>3. r % M = n % M
    <3>1. (M * q + r) % M = r
      BY <1>1, <1>3, RemainderUnique
    <3>2. (M * 0 + r) % M = r
      BY <1>1, <1>3, RemainderUnique, SMT
    <3>3. M * 0 + r = r
      BY <1>4
    <3> QED
      BY <1>3, <3>1, <3>2, <3>3
  <2>4. n \in RangeOf(type) => n = r
    <3> SUFFICES ASSUME n \in RangeOf(type) PROVE n = r
      OBVIOUS
    <3>1. n >= -H /\ n <= M - 1 /\ (type \notin SignedTypes => n >= 0)
      BY <1>2, <1>3, <1>4, <1>7
    <3>2. CASE q >= 1
      <4>1. M * q >= M
        BY <1>1, <1>3, <3>2, SMT
      <4>2. M * q \in Int
        BY <1>1, <1>3
      <4> QED
        BY <1>3, <1>4, <3>1, <4>1, <4>2
    <3>3. CASE q = 0
      <4>1. M * q = 0
        BY <1>1, <3>3
      <4> QED
        BY <1>3, <1>4, <4>1
    <3>4. CASE q <= -1
      <4>1. M * q <= -M
        BY <1>1, <1>3, <3>4, SMT
      <4>2. M * q \in Int
        BY <1>1, <1>3
      <4>3. n < 0
        BY <1>3, <1>4, <4>1, <4>2
      <4>4. type \in SignedTypes /\ 2 * r < M
        BY <1>4, <1>9, <3>1, <4>3
      <4>5. n < -H
        BY <1>2, <1>3, <1>4, <4>1, <4>2, <4>4
      <4> QED
        BY <1>2, <1>3, <3>1, <4>5
    <3> QED
      BY <1>3, <3>2, <3>3, <3>4
  <2> QED
    BY <1>4, <2>1, <2>2, <2>3, <2>4 DEF M
<1> QED
  BY <1>8, <1>9

LEMMA InRangeIs ==
    ASSUME NEW type \in Types, NEW n \in Int PROVE InRange(type, n) <=> n \in RangeOf(type)
BY Wrapped DEF InRange

Number16Signed == -32768 .. 32767

(* What the ranges are.                                                    *)
LEMMA Ranges ==
    /\ RangeOf("uint8") = Byte
    /\ RangeOf("uint16") = Number16
    /\ RangeOf("uint32") = Number32
    /\ RangeOf("int16") = Number16Signed
    /\ RangeOf("int32") = -(Word \div 2) .. Word \div 2 - 1
<1>1. Modulus("uint8") = 256 /\ Modulus("uint16") = 65536 /\ Modulus("uint32") = Word
      /\ Modulus("int16") = 65536 /\ Modulus("int32") = Word
  BY DEF Modulus
<1>2. RangeOf("uint8") = Byte
  <2>1. MaxOf("uint8") = 255 /\ LowOf("uint8") = 0
    BY <1>1 DEF MaxOf, LowOf, IsSigned, SignedTypes
  <2> QED
    BY <2>1 DEF RangeOf, Byte
<1>3. RangeOf("uint16") = Number16
  <2> DEFINE low == 0
             top == 65535
  <2>1. MaxOf("uint16") = top /\ LowOf("uint16") = low
    BY <1>1, SMT DEF MaxOf, LowOf, IsSigned, SignedTypes
  <2>2. Number16 = low .. top
    BY SMT DEF Number16
  <2> HIDE DEF low, top
  <2>3. RangeOf("uint16") = LowOf("uint16") .. MaxOf("uint16")
    BY DEF RangeOf
  <2> QED
    BY <2>1, <2>2, <2>3, Zenon
<1>4. RangeOf("uint32") = Number32
  <2>1. MaxOf("uint32") = Word - 1 /\ LowOf("uint32") = 0
    BY <1>1 DEF MaxOf, LowOf, IsSigned, SignedTypes
  <2> QED
    BY <2>1 DEF RangeOf, Number32
<1>5. RangeOf("int16") = Number16Signed
  <2> DEFINE low == -32768
             top == 32767
  <2>1. MaxOf("int16") = top /\ LowOf("int16") = low
    BY <1>1, SMT DEF MaxOf, LowOf, IsSigned, SignedTypes
  <2>2. Number16Signed = low .. top
    BY SMT DEF Number16Signed
  <2> HIDE DEF low, top
  <2>3. RangeOf("int16") = LowOf("int16") .. MaxOf("int16")
    BY DEF RangeOf
  <2> QED
    BY <2>1, <2>2, <2>3, Zenon
<1>6. RangeOf("int32") = -(Word \div 2) .. Word \div 2 - 1
  <2>1. MaxOf("int32") = Word \div 2 - 1 /\ LowOf("int32") = -(Word \div 2)
    BY <1>1 DEF MaxOf, LowOf, IsSigned, SignedTypes
  <2> QED
    BY <2>1 DEF RangeOf
<1> QED
  BY <1>2, <1>3, <1>4, <1>5, <1>6

-----------------------------------------------------------------------------
(* The registers: when they take a message, and what they make of it.      *)
LEMMA AtTheEnd ==
    ASSUME NEW message, NEW e \in Cursor
    PROVE  LET d == expectedEnd(message, e)
           IN  /\ d.parseError <=> e.parseError \/ remainingBytes(message, e) # 0
               /\ d.values = e.values
               /\ d.readPos = e.readPos
BY DEF expectedEnd, Cursor

LEMMA SignedParsed ==
    ASSUME NEW message \in Seq(Byte), NEW c \in Cursor, c.values = <<>>, NEW type \in {"int16", "int32"}
    PROVE  LET k == IF type = "int16" THEN 2 ELSE 4
               d == expectedEnd(message, parseInt(message, parseUInt(message, c, 1), type))
               e == ParseAll(message, c, <<1, k>>)
           IN  /\ d.parseError <=> e.parseError
               /\ d.values[1] = e.values[1]
               /\ d.values[2] = Wrap(type, e.values[2])
<1> DEFINE k == IF type = "int16" THEN 2 ELSE 4
           sizes == <<1, k>>
<1>1. k \in Nat /\ sizes \in Seq(Nat) /\ Len(sizes) = 2 /\ sizes[1] = 1 /\ sizes[2] = k
  OBVIOUS
<1>2. parseInt(message, parseUInt(message, c, 1), type) =
        [parseUInt(message, parseUInt(message, c, 1), k) EXCEPT
            !.values[Len(parseUInt(message, parseUInt(message, c, 1), k).values)] = Wrap(type, @)]
  BY DEF parseInt
<1> HIDE DEF k, sizes
<1>3. PICK r : Reads(message, c, sizes, r)
  BY <1>1, ReadsExist
<1>4. ParseAll(message, c, sizes) = expectedEnd(message, r[2])
  BY <1>1, <1>3, ReadsAre
<1>5. r[1] \in Cursor /\ r[2] \in Cursor /\ r[1] = parseUInt(message, c, 1)
      /\ r[2] = parseUInt(message, r[1], k)
  <2>1. 1 \in 1 .. Len(sizes) /\ 2 \in 1 .. Len(sizes) /\ 1 - 1 = 0 /\ 2 - 1 = 1
    BY <1>1
  <2>2. 1 \in 0 .. Len(sizes) /\ 2 \in 0 .. Len(sizes)
    BY <1>1
  <2>3. r[0] = c /\ r[1] = parseUInt(message, r[1 - 1], sizes[1])
        /\ r[2] = parseUInt(message, r[2 - 1], sizes[2])
    BY <1>3, <2>1 DEF Reads
  <2>4. r[1] \in Cursor /\ r[2] \in Cursor
    BY <1>3, <2>2 DEF Reads
  <2> QED
    BY <1>1, <2>1, <2>3, <2>4
<1>6. Len(r[2].values) = 2
  <2>1. Len(r[1].values) = Len(c.values) + 1
    <3>1. ReadBy(message, c, 1, parseUInt(message, c, 1))
      BY OneRead
    <3> QED
      BY <1>5, <3>1 DEF ReadBy
  <2>2. Len(r[2].values) = Len(r[1].values) + 1
    BY <1>1, <1>5, OneRead DEF ReadBy
  <2> QED
    BY <2>1, <2>2
<1> DEFINE u == r[2]
           v == [u EXCEPT !.values[2] = Wrap(type, @)]
<1>7. parseInt(message, parseUInt(message, c, 1), type) = v
  BY <1>2, <1>5, <1>6
<1>8. u \in Cursor /\ Len(u.values) = 2
  BY <1>5, <1>6
<1> HIDE DEF u
<1>9. /\ u.values \in Seq(Int) /\ u.readPos \in Nat /\ u.parseError \in BOOLEAN
      /\ u = [readPos |-> u.readPos, parseError |-> u.parseError, values |-> u.values]
  BY <1>8 DEF Cursor
<1>10. u.values[2] \in Int /\ 2 \in DOMAIN u.values /\ 1 \in DOMAIN u.values
  <2>1. 2 \in 1 .. Len(u.values) /\ 1 \in 1 .. Len(u.values)
    BY <1>8
  <2> QED
    BY <1>9, <2>1, ElementOfSeq
<1>11. Wrap(type, u.values[2]) \in Int
  <2>1. type \in Types
    BY DEF Types, SignedTypes, UnsignedTypes
  <2> QED
    BY <1>10, <2>1, Wrapped
<1>12. /\ v = [readPos |-> u.readPos, parseError |-> u.parseError,
               values |-> [u.values EXCEPT ![2] = Wrap(type, @)]]
  <2>1. ASSUME NEW a, NEW b, NEW s
        PROVE  [[readPos |-> a, parseError |-> b, values |-> s] EXCEPT !.values[2] = Wrap(type, @)] =
               [readPos |-> a, parseError |-> b, values |-> [s EXCEPT ![2] = Wrap(type, @)]]
    OBVIOUS
  <2>2. [[readPos |-> u.readPos, parseError |-> u.parseError, values |-> u.values]
            EXCEPT !.values[2] = Wrap(type, @)] =
        [readPos |-> u.readPos, parseError |-> u.parseError,
         values |-> [u.values EXCEPT ![2] = Wrap(type, @)]]
    BY <2>1
  <2> QED
    BY <1>9, <2>2, Zenon
<1>13. /\ [u.values EXCEPT ![2] = Wrap(type, @)] \in Seq(Int)
       /\ [u.values EXCEPT ![2] = Wrap(type, @)][1] = u.values[1]
       /\ [u.values EXCEPT ![2] = Wrap(type, @)][2] = Wrap(type, u.values[2])
  <2>1. [u.values EXCEPT ![2] = Wrap(type, u.values[2])] \in Seq(Int)
    BY <1>8, <1>9, <1>10, <1>11, ExceptSeq
  <2> QED
    BY <1>10, <2>1
<1> HIDE DEF v
<1>14. v \in Cursor
  BY <1>9, <1>12, <1>13 DEF Cursor
<1>15. v.parseError = u.parseError /\ v.readPos = u.readPos
       /\ v.values[1] = u.values[1] /\ v.values[2] = Wrap(type, u.values[2])
  BY <1>12, <1>13
<1>16. remainingBytes(message, v) = remainingBytes(message, u)
  BY <1>15 DEF remainingBytes
<1>17. ParseAll(message, c, sizes) = expectedEnd(message, u)
  BY <1>4 DEF u
<1>18. /\ expectedEnd(message, v).parseError <=> expectedEnd(message, u).parseError
       /\ expectedEnd(message, v).values[1] = expectedEnd(message, u).values[1]
       /\ expectedEnd(message, v).values[2] = Wrap(type, expectedEnd(message, u).values[2])
  BY <1>8, <1>14, <1>15, <1>16, AtTheEnd
<1> QED
  BY <1>7, <1>17, <1>18 DEF sizes, k

LEMMA StringParsed ==
    ASSUME NEW message \in Seq(Byte), NEW c \in Cursor, remainingBytes(message, c) >= 2
    PROVE  expectedEnd(message, parseString(message, parseUInt(message, c, 1))).parseError
<1> DEFINE u == parseUInt(message, c, 1)
<1>1. u \in Cursor /\ u.readPos = c.readPos + 1
  BY OneRead DEF ReadBy, remainingBytes, Cursor
<1> HIDE DEF u
<1>2. remainingBytes(message, u) >= 1
  <2>1. c.readPos \in Nat /\ Len(message) \in Nat
    BY DEF Cursor
  <2> QED
    BY <1>1, <2>1 DEF remainingBytes
<1>3. parseString(message, u) = u
  <2>1. ~(remainingBytes(message, u) < 1)
    BY <1>1, <1>2 DEF remainingBytes, Cursor
  <2> QED
    BY <2>1 DEF parseString
<1>4. remainingBytes(message, u) # 0
  BY <1>2
<1> QED
  BY <1>1, <1>3, <1>4, AtTheEnd DEF u

Strings == {"String20", "String32"}

NumberClasses ==
    {"UInt8", "UInt8OnOff", "UInt16", "UInt16Range", "UInt24", "UInt32", "Int16", "Int32"}

TypeOf(class) ==
    CASE class \in {"UInt8", "UInt8OnOff"} -> "uint8"
      [] class \in {"UInt16", "UInt16Range"} -> "uint16"
      [] class \in {"UInt24", "UInt32"} -> "uint32"
      [] class = "Int16" -> "int16"
      [] class = "Int32" -> "int32"

DigitsFor(class, digits) == IF class \in {"UInt8OnOff", "UInt16Range"} THEN 0 ELSE digits

Taken(class, content) ==
    /\ content.flags = 0
    /\ content.extra = 0
    /\ class \notin Strings
    /\ class = "TotalHistory" => content.version = 1
    /\ class = "DailyHistory" => content.version = 0

(* A number register that takes a content shows the bytes behind the flags.*)
ReadsNumber(class, content, digits, r) ==
    \E s : /\ DataBytes(content, 1, s)
           /\ Len(s) = SizesOf(class)[2]
           /\ r.value = <<Scaled(TypeOf(class), LittleEndian(s), DigitsFor(class, digits))>>

ReadsDay(content, f, r) ==
    \E v \in Seq(Int) :
        /\ r.value = <<DayValues(v)>>
        /\ \A j \in 3 .. 17 : \E s : /\ DataBytes(content, f[j - 1], s)
                                     /\ Len(s) = DailyHistorySizes[j]
                                     /\ v[j] = LittleEndian(s)

RegisterDoes(class, content, digits, f, r) ==
    /\ r = Failure \/ \E v : r = Reading(v)
    /\ r.ok <=> Taken(class, content)
    /\ r.ok /\ class \in NumberClasses => ReadsNumber(class, content, digits, r)
    /\ r.ok /\ class = "DailyHistory" => ReadsDay(content, f, r)

LEMMA ScaledTwice ==
    ASSUME NEW type \in Types, NEW n \in Int, NEW digits
    PROVE  Scaled(type, Wrap(type, n), digits) = Scaled(type, n, digits)
<1>1. Wrap(type, n) \in Int /\ Wrap(type, n) \in RangeOf(type)
  BY Wrapped
<1>2. Wrap(type, Wrap(type, n)) = Wrap(type, n)
  BY <1>1, Wrapped
<1> QED
  BY <1>2 DEF Scaled

(* What set() of a number register makes of a message.                     *)
LEMMA NumberRegisterIs ==
    ASSUME NEW class \in NumberClasses, NEW m \in Seq(Byte), NEW c \in Cursor, c.values = <<>>,
           ParseAll(m, c, SizesOf(class)).values[2] \in Int, NEW digits
    PROVE  LET e == ParseAll(m, c, SizesOf(class))
           IN  RegisterSet(class, m, c, digits) =
                    IF e.parseError \/ e.values[1] # 0 THEN Failure
                    ELSE Reading(Scaled(TypeOf(class), e.values[2], DigitsFor(class, digits)))
<1> DEFINE sizes == SizesOf(class)
           e == ParseAll(m, c, sizes)
           type == TypeOf(class)
           places == DigitsFor(class, digits)
           r == RegisterSet(class, m, c, digits)
<1>1. type \in Types
  BY DEF TypeOf, NumberClasses, Types, SignedTypes, UnsignedTypes
<1>2. sizes = <<1, sizes[2]>> /\ e.values[2] \in Int
  BY DEF NumberClasses, SizesOf
<1>3. r = IF e.parseError \/ e.values[1] # 0 THEN Failure
          ELSE Reading(Scaled(type, e.values[2], places))
  <2>1. CASE class \notin {"Int16", "Int32"}
    <3>1. r = Unsigned(m, c, sizes[2], type, places)
      <4>1. CASE class \in {"UInt8", "UInt8OnOff"}
        <5>1. sizes[2] = 1 /\ type = "uint8"
          BY <4>1 DEF SizesOf, TypeOf
        <5> HIDE DEF sizes, type
        <5> QED
          BY <4>1, <5>1 DEF RegisterSet, UInt8Register, UInt8OnOffRegister, DigitsFor
      <4>2. CASE class \in {"UInt16", "UInt16Range"}
        <5>1. sizes[2] = 2 /\ type = "uint16"
          BY <4>2 DEF SizesOf, TypeOf
        <5> HIDE DEF sizes, type
        <5> QED
          BY <4>2, <5>1 DEF RegisterSet, UInt16Register, UInt16RangeRegister, DigitsFor
      <4>3. CASE class = "UInt24"
        <5>1. sizes[2] = 3 /\ type = "uint32"
          BY <4>3 DEF SizesOf, TypeOf
        <5> HIDE DEF sizes, type
        <5> QED
          BY <4>3, <5>1 DEF RegisterSet, UInt24Register, DigitsFor
      <4>4. CASE class = "UInt32"
        <5>1. sizes[2] = 4 /\ type = "uint32"
          BY <4>4 DEF SizesOf, TypeOf
        <5> HIDE DEF sizes, type
        <5> QED
          BY <4>4, <5>1 DEF RegisterSet, UInt32Register, DigitsFor
      <4> QED
        BY <2>1, <4>1, <4>2, <4>3, <4>4 DEF NumberClasses
    <3> HIDE DEF sizes, type, places, r
    <3>2. ParseAll(m, c, <<1, sizes[2]>>) = e
      BY <1>2
    <3> HIDE DEF e
    <3> QED
      BY <3>1, <3>2 DEF Unsigned, Checked
  <2>2. CASE class \in {"Int16", "Int32"}
    <3> DEFINE d == expectedEnd(m, parseInt(m, parseUInt(m, c, 1), type))
    <3>1. r = Checked(d, Scaled(type, d.values[2], places))
      <4>1. CASE class = "Int16"
        <5>1. type = "int16"
          BY <4>1 DEF TypeOf
        <5> HIDE DEF type
        <5> QED
          BY <4>1, <5>1 DEF RegisterSet, Int16Register, Signed, DigitsFor
      <4>2. CASE class = "Int32"
        <5>1. type = "int32"
          BY <4>2 DEF TypeOf
        <5> HIDE DEF type
        <5> QED
          BY <4>2, <5>1 DEF RegisterSet, Int32Register, Signed, DigitsFor
      <4> QED
        BY <2>2, <4>1, <4>2
    <3>2. type \in {"int16", "int32"} /\ sizes[2] = IF type = "int16" THEN 2 ELSE 4
      BY <2>2 DEF SizesOf, TypeOf
    <3> HIDE DEF sizes, type, places, r
    <3>3. /\ d.parseError <=> e.parseError
          /\ d.values[1] = e.values[1]
          /\ d.values[2] = Wrap(type, e.values[2])
      <4>1. LET k == IF type = "int16" THEN 2 ELSE 4
                g == ParseAll(m, c, <<1, k>>)
            IN  /\ d.parseError <=> g.parseError
                /\ d.values[1] = g.values[1]
                /\ d.values[2] = Wrap(type, g.values[2])
        BY <3>2, SignedParsed
      <4>2. ParseAll(m, c, <<1, IF type = "int16" THEN 2 ELSE 4>>) = e
        BY <1>2, <3>2
      <4> HIDE DEF d, e
      <4> QED
        BY <4>1, <4>2
    <3> HIDE DEF d, e
    <3>4. Scaled(type, d.values[2], places) = Scaled(type, e.values[2], places)
      BY <1>1, <1>2, <3>3, ScaledTwice
    <3> QED
      BY <3>1, <3>3, <3>4 DEF Checked
  <2> QED
    BY <2>1, <2>2
<1> QED
  BY <1>3

LEMMA NumberRegisterDoes ==
    ASSUME NEW class \in NumberClasses, NEW content \in HexContents,
           NEW f, AddsTo(SizesOf(class), f),
           NEW code \in Byte, NEW id \in Number16, NEW digits
    PROVE  LET m == Response(code, id, Payload(class, content))
           IN  RegisterDoes(class, content, digits, f, RegisterSet(class, m, BehindID(m), digits))
<1> DEFINE sizes == SizesOf(class)
           m == Response(code, id, Payload(class, content))
           c == BehindID(m)
           e == ParseAll(m, c, sizes)
           type == TypeOf(class)
           places == DigitsFor(class, digits)
           r == RegisterSet(class, m, c, digits)
<1>1. class \in Classes /\ class \notin Histories /\ class \notin Strings
  BY DEF NumberClasses, Classes, Histories, Strings
<1>2. /\ e \in Cursor
      /\ Len(e.values) = Len(sizes)
      /\ ~e.parseError <=> content.extra = 0
      /\ content.extra = 0 =>
            /\ e.values[1] = content.flags
            /\ \A j \in 2 .. Len(sizes) : \E s : /\ DataBytes(content, f[j - 1], s)
                                                 /\ Len(s) = sizes[j]
                                                 /\ e.values[j] = LittleEndian(s)
  BY <1>1, RegisterParsed
<1>3. Len(sizes) = 2 /\ sizes = <<1, sizes[2]>> /\ f[1] = 1
  <2>1. f[1] = 1
    BY <1>1, FirstSizes
  <2>2. sizes = <<1, 1>> \/ sizes = <<1, 2>> \/ sizes = <<1, 3>> \/ sizes = <<1, 4>>
    BY DEF NumberClasses, SizesOf
  <2> QED
    BY <2>1, <2>2
<1>4. m \in Seq(Byte) /\ c \in Cursor /\ c.values = <<>>
  BY <1>1, MessageIs DEF Fresh
<1>6. e.values[2] \in Int
  <2>1. 2 \in 1 .. Len(e.values) /\ e.values \in Seq(Int)
    BY <1>2, <1>3 DEF Cursor
  <2> QED
    BY <2>1, ElementOfSeq
<1>7. r = IF e.parseError \/ e.values[1] # 0 THEN Failure
          ELSE Reading(Scaled(type, e.values[2], places))
  BY <1>4, <1>6, NumberRegisterIs
<1> HIDE DEF r
<1>8. r.ok <=> Taken(class, content)
  <2>1. r.ok <=> ~e.parseError /\ e.values[1] = 0
    <3> HIDE DEF e, type, places
    <3> QED
      BY <1>7 DEF Failure, Reading
  <2>2. class # "TotalHistory" /\ class # "DailyHistory"
    BY DEF NumberClasses
  <2> HIDE DEF e
  <2> QED
    BY <1>1, <1>2, <2>1, <2>2 DEF Taken
<1>9. ASSUME r.ok PROVE ReadsNumber(class, content, digits, r)
  <2>1. content.extra = 0
    BY <1>8, <1>9 DEF Taken
  <2>2. PICK s : DataBytes(content, 1, s) /\ Len(s) = sizes[2] /\ e.values[2] = LittleEndian(s)
    <3>1. 2 \in 2 .. Len(sizes) /\ 2 - 1 = 1
      BY <1>3
    <3> HIDE DEF e, sizes
    <3>2. PICK s : DataBytes(content, f[2 - 1], s) /\ Len(s) = sizes[2] /\ e.values[2] = LittleEndian(s)
      BY <1>2, <2>1, <3>1
    <3> QED
      BY <1>3, <3>1, <3>2
  <2>3. r.value = <<Scaled(type, e.values[2], places)>>
    <3> HIDE DEF e, type, places
    <3> QED
      BY <1>7, <1>9 DEF Failure, Reading
  <2> QED
    BY <2>2, <2>3 DEF ReadsNumber
<1>10. r = Failure \/ \E v : r = Reading(v)
  BY <1>7
<1>11. class # "DailyHistory"
  BY <1>1 DEF Histories
<1> QED
  BY <1>8, <1>9, <1>10, <1>11 DEF RegisterDoes, r

LEMMA StringRegisterDoes ==
    ASSUME NEW class \in Strings, NEW content \in HexContents,
           NEW f, AddsTo(SizesOf(class), f),
           NEW code \in Byte, NEW id \in Number16, NEW digits
    PROVE  LET m == Response(code, id, Payload(class, content))
           IN  RegisterDoes(class, content, digits, f, RegisterSet(class, m, BehindID(m), digits))
<1> DEFINE m == Response(code, id, Payload(class, content))
           c == BehindID(m)
           r == RegisterSet(class, m, c, digits)
<1>1. class \in Classes /\ class \notin NumberClasses /\ class # "DailyHistory"
  BY DEF Strings, Classes, NumberClasses, Histories
<1>2. m \in Seq(Byte) /\ c \in Cursor
      /\ remainingBytes(m, c) = f[Len(SizesOf(class))] + content.extra
  BY <1>1, MessageIs DEF Fresh
<1>3. f[Len(SizesOf(class))] \in Nat /\ f[Len(SizesOf(class))] >= 5
  <2>1. SizesOf(class) = <<1, 4>>
    BY DEF SizesOf, Strings
  <2>2. f[2] = 1 + 4
    BY <1>1, <2>1, FirstSizes
  <2> QED
    BY <2>1, <2>2
<1>4. remainingBytes(m, c) >= 2
  <2>1. content.extra \in {-1, 0, 1}
    BY DEF HexContents
  <2> QED
    BY <1>2, <1>3, <2>1
<1> HIDE DEF m, c
<1>5. r = Failure
  <2>1. expectedEnd(m, parseString(m, parseUInt(m, c, 1))).parseError
    BY <1>2, <1>4, StringParsed
  <2>2. r = ReadString(m, c)
    BY DEF RegisterSet, Strings, String20Register, String32Register
  <2> QED
    BY <2>1, <2>2 DEF ReadString, Checked
<1>6. ~r.ok /\ ~Taken(class, content)
  BY <1>5 DEF Failure, Taken
<1> QED
  BY <1>1, <1>5, <1>6 DEF RegisterDoes, m, c

LEMMA HistoryRegisterDoes ==
    ASSUME NEW class \in Histories, NEW content \in HexContents,
           NEW f, AddsTo(SizesOf(class), f),
           NEW code \in Byte, NEW id \in Number16, NEW digits
    PROVE  LET m == Response(code, id, Payload(class, content))
           IN  RegisterDoes(class, content, digits, f, RegisterSet(class, m, BehindID(m), digits))
<1> DEFINE sizes == SizesOf(class)
           m == Response(code, id, Payload(class, content))
           c == BehindID(m)
           e == ParseAll(m, c, sizes)
           r == RegisterSet(class, m, c, digits)
           version == IF class = "TotalHistory" THEN 1 ELSE 0
           value == IF class = "TotalHistory" THEN "total history" ELSE DayValues(e.values)
<1>1. class \in Classes /\ class \notin NumberClasses /\ class \notin Strings
  BY DEF NumberClasses, Classes, Histories, Strings
<1>2. /\ e \in Cursor
      /\ Len(e.values) = Len(sizes)
      /\ ~e.parseError <=> content.extra = 0
      /\ content.extra = 0 =>
            /\ e.values[1] = content.flags
            /\ e.values[2] = content.version
            /\ \A j \in 2 .. Len(sizes) : j = 2 \/
                    \E s : /\ DataBytes(content, f[j - 1], s)
                           /\ Len(s) = sizes[j]
                           /\ e.values[j] = LittleEndian(s)
  BY <1>1, RegisterParsed
<1>3. r = IF e.values[2] # version \/ e.parseError \/ e.values[1] # 0 THEN Failure
          ELSE Reading(value)
  <2>1. CASE class = "TotalHistory"
    <3>1. sizes = TotalHistorySizes
      BY <2>1 DEF SizesOf
    <3>2. r = MPPTTotalHistoryRegister(m, c, digits)
      BY <2>1 DEF RegisterSet
    <3> HIDE DEF m, c, r, sizes
    <3> QED
      BY <2>1, <3>1, <3>2 DEF MPPTTotalHistoryRegister, Checked
  <2>2. CASE class = "DailyHistory"
    <3>1. sizes = DailyHistorySizes
      BY <2>2 DEF SizesOf
    <3>2. r = MPPTDailyHistoryRegister(m, c, digits)
      BY <2>2 DEF RegisterSet
    <3> HIDE DEF m, c, r, sizes
    <3> QED
      BY <2>2, <3>1, <3>2 DEF MPPTDailyHistoryRegister, Checked
  <2> QED
    BY <2>1, <2>2 DEF Histories
<1> HIDE DEF r, e, m, c
<1>4. r.ok <=> Taken(class, content)
  <2>1. r.ok <=> e.values[2] = version /\ ~e.parseError /\ e.values[1] = 0
    <3> HIDE DEF value, version
    <3> QED
      BY <1>3 DEF Failure, Reading
  <2>2. class \in {"TotalHistory", "DailyHistory"}
    BY DEF Histories
  <2> QED
    BY <1>1, <1>2, <2>1, <2>2 DEF Taken
<1>5. ASSUME r.ok, class = "DailyHistory" PROVE ReadsDay(content, f, r)
  <2>1. content.extra = 0
    BY <1>4, <1>5 DEF Taken
  <2>2. sizes = DailyHistorySizes /\ Len(DailyHistorySizes) = 18
    BY <1>5, DailySizes DEF SizesOf
  <2>3. r.value = <<DayValues(e.values)>>
    <3>1. r = Reading(DayValues(e.values))
      BY <1>3, <1>5 DEF Failure
    <3> QED
      BY <3>1 DEF Reading
  <2>4. e.values \in Seq(Int)
    BY <1>2 DEF Cursor
  <2>5. ASSUME NEW j \in 3 .. 17
        PROVE  \E s : /\ DataBytes(content, f[j - 1], s)
                      /\ Len(s) = DailyHistorySizes[j]
                      /\ e.values[j] = LittleEndian(s)
    <3>1. j \in 2 .. Len(sizes) /\ j # 2
      BY <2>2
    <3> HIDE DEF sizes
    <3> QED
      BY <1>2, <2>1, <2>2, <3>1
  <2> QED
    BY <2>3, <2>4, <2>5 DEF ReadsDay
<1>6. r = Failure \/ \E v : r = Reading(v)
  BY <1>3
<1> QED
  BY <1>1, <1>4, <1>5, <1>6 DEF RegisterDoes, r, m, c

LEMMA EveryRegisterDoes ==
    ASSUME NEW class \in Classes, NEW content \in HexContents,
           NEW f, AddsTo(SizesOf(class), f),
           NEW code \in Byte, NEW id \in Number16, NEW digits
    PROVE  LET m == Response(code, id, Payload(class, content))
           IN  RegisterDoes(class, content, digits, f, RegisterSet(class, m, BehindID(m), digits))
<1>1. class \in NumberClasses \/ class \in Strings \/ class \in Histories
  BY DEF Classes, NumberClasses, Strings
<1> QED
  BY <1>1, NumberRegisterDoes, StringRegisterDoes, HistoryRegisterDoes

(* The tables.                                                             *)
LEMMA SenseLeaves ==
    /\ MPPTRegisterLeaf(VoltageSense) = <<[leaf |-> "batteryVoltage", digits |-> 2]>>
    /\ MPPTRegisterLeaf(TemperatureSense) = <<[leaf |-> "batteryTemperature", digits |-> 2]>>
    /\ MPPTRegisterLeaf(CurrentSense) = <<[leaf |-> "batteryCurrent", digits |-> 3]>>
<1>1. VoltageSense # TemperatureSense /\ VoltageSense # CurrentSense /\ TemperatureSense # CurrentSense
  BY SMT DEF VoltageSense, TemperatureSense, CurrentSense
<1>2. {VoltageSense, TemperatureSense, CurrentSense} \cap
        (FirstHistoryRegister .. FirstHistoryRegister + 13) = {}
  BY SMT DEF VoltageSense, TemperatureSense, CurrentSense, FirstHistoryRegister
<1>3. MPPTRegisterLeaf(VoltageSense) = <<[leaf |-> "batteryVoltage", digits |-> 2]>>
  BY <1>1, <1>2 DEF MPPTRegisterLeaf
<1>4. MPPTRegisterLeaf(TemperatureSense) = <<[leaf |-> "batteryTemperature", digits |-> 2]>>
  BY <1>1, <1>2 DEF MPPTRegisterLeaf
<1>5. MPPTRegisterLeaf(CurrentSense) = <<[leaf |-> "batteryCurrent", digits |-> 3]>>
  BY <1>1, <1>2 DEF MPPTRegisterLeaf
<1> QED
  BY <1>3, <1>4, <1>5

LEMMA MPPTIds == ASSUME NEW id \in MPPTRegisterIds PROVE id \in Number16
BY SMTT(60) DEF MPPTRegisterIds, Number16

LEMMA BMVIds == ASSUME NEW id \in BMVRegisterIds PROVE id \in Number16
BY SMTT(60) DEF BMVRegisterIds, Number16

LEMMA MPPTClasses == ASSUME NEW id \in MPPTRegisterIds PROVE MPPTRegisterClass[id] \in Classes
BY SMTT(60) DEF MPPTRegisterClass, Classes, Histories

LEMMA BMVClasses == ASSUME NEW id \in BMVRegisterIds PROVE BMVRegisterClass[id] \in Classes
BY SMTT(60) DEF BMVRegisterClass, Classes, Histories

LEMMA SenseClasses ==
    /\ MPPTRegisterClass[VoltageSense] = "UInt16"
    /\ MPPTRegisterClass[TemperatureSense] = "Int16"
    /\ MPPTRegisterClass[CurrentSense] = "Int32"
BY SMTT(60) DEF MPPTRegisterClass, VoltageSense, TemperatureSense, CurrentSense, MPPTRegisterIds

(* The fields of the MPPT controller, by their kinds.                      *)
MPPTFields ==
    {"stateOfOperation", "errorCode", "trackerOperationMode", "firmware", "serialNumber",
     "yieldHistoric", "yieldToday", "yieldYesterday", "loadCurrent", "maxPowerToday",
     "maxPowerYesterday", "panelPower", "daySequenceNumber", "chargerCurrent", "loadState",
     "relayState", "offReason", "pid", "chargerVoltage", "panelVoltage"}

LEMMA MPPTFieldsAre == ASSUME NEW label \in DOMAIN MPPTFieldMap PROVE MPPTFieldMap[label] \in MPPTFields
BY DEF MPPTFieldMap, MPPTFields

-----------------------------------------------------------------------------
(* The wires.                                                              *)
LEMMA TextWiresAre ==
    ASSUME NEW w \in TextWires
    PROVE  /\ w.kind = "text"
           /\ (w.device = "MPPT" /\ w.leaf \in MPPTFields) \/ w.device = "BMV"
<1>1. CASE \E label \in DOMAIN MPPTFieldMap : w = Wire("text", "MPPT", label, MPPTFieldMap[label])
  <2>1. PICK label \in DOMAIN MPPTFieldMap : w = Wire("text", "MPPT", label, MPPTFieldMap[label])
    BY <1>1
  <2>2. MPPTFieldMap[label] \in MPPTFields
    BY MPPTFieldsAre
  <2> QED
    BY <2>1, <2>2 DEF Wire
<1>2. CASE \E label \in DOMAIN BMVFieldMap : w = Wire("text", "BMV", label, BMVFieldMap[label])
  BY <1>2 DEF Wire
<1> QED
  BY <1>1, <1>2 DEF TextWires

DayNames == Range(DayLeaves)

LEMMA RegisterWiresAre ==
    ASSUME NEW w \in RegisterWires
    PROVE  /\ w.kind = "hex"
           /\ w.key \in Number16
           /\ RegisterClass(w) \in Classes
           /\ \/ w.leaf = "none"
              \/ w.device = "MPPT" /\ w.key = VoltageSense /\ w.leaf = "batteryVoltage"
              \/ w.device = "MPPT" /\ w.key = TemperatureSense /\ w.leaf = "batteryTemperature"
              \/ w.device = "MPPT" /\ w.key = CurrentSense /\ w.leaf = "batteryCurrent"
              \/ w.device = "MPPT" /\ RegisterClass(w) = "DailyHistory" /\ w.leaf \in DayNames
<1>1. CASE \E id \in MPPTRegisters : w = Wire("hex", "MPPT", id, "none")
  <2>1. PICK id \in MPPTRegisterIds : w = Wire("hex", "MPPT", id, "none")
    BY <1>1, LeavesAssumption
  <2>2. w.kind = "hex" /\ w.device = "MPPT" /\ w.key = id /\ w.leaf = "none"
    BY <2>1 DEF Wire
  <2> QED
    BY <2>2, MPPTIds, MPPTClasses DEF RegisterClass
<1>2. CASE \E id \in BMVRegisters : w = Wire("hex", "BMV", id, "none")
  <2>1. PICK id \in BMVRegisterIds : w = Wire("hex", "BMV", id, "none")
    BY <1>2, LeavesAssumption
  <2>2. w.kind = "hex" /\ w.device = "BMV" /\ w.key = id /\ w.leaf = "none"
    BY <2>1 DEF Wire
  <2> QED
    BY <2>2, BMVIds, BMVClasses DEF RegisterClass
<1>3. CASE \E id \in MPPTRegisters \cap {VoltageSense, TemperatureSense, CurrentSense} :
                w = Wire("hex", "MPPT", id, MPPTRegisterLeaf(id)[1].leaf)
  <2>1. PICK id \in MPPTRegisters \cap {VoltageSense, TemperatureSense, CurrentSense} :
                w = Wire("hex", "MPPT", id, MPPTRegisterLeaf(id)[1].leaf)
    BY <1>3
  <2>2. id \in MPPTRegisterIds
    BY LeavesAssumption
  <2>3. w.kind = "hex" /\ w.device = "MPPT" /\ w.key = id /\ w.leaf = MPPTRegisterLeaf(id)[1].leaf
    BY <2>1 DEF Wire
  <2>4. /\ id = VoltageSense => w.leaf = "batteryVoltage"
        /\ id = TemperatureSense => w.leaf = "batteryTemperature"
        /\ id = CurrentSense => w.leaf = "batteryCurrent"
    BY <2>3, SenseLeaves
  <2> QED
    BY <2>2, <2>3, <2>4, MPPTIds, MPPTClasses DEF RegisterClass
<1>4. CASE \E id \in MPPTRegisters, name \in DayNames :
                MPPTRegisterClass[id] = "DailyHistory" /\ w = Wire("hex", "MPPT", id, name)
  <2>1. PICK id \in MPPTRegisterIds, name \in DayNames :
                MPPTRegisterClass[id] = "DailyHistory" /\ w = Wire("hex", "MPPT", id, name)
    BY <1>4, LeavesAssumption
  <2>2. w.kind = "hex" /\ w.device = "MPPT" /\ w.key = id /\ w.leaf = name
    BY <2>1 DEF Wire
  <2> QED
    BY <2>1, <2>2, MPPTIds, MPPTClasses DEF RegisterClass
<1> QED
  BY <1>1, <1>2, <1>3, <1>4 DEF RegisterWires, DayNames

-----------------------------------------------------------------------------
(* A behaviour follows one wire.                                           *)
WireOK == wire \in TextWires \cup RegisterWires

LEMMA WireAtFirst == Init => WireOK
BY DEF Init, WireOK

LEMMA WireStays == [Next]_vars => wire' = wire
BY DEF Next, vars, processTextField, hexMessageReceived, sendUpdate,
       hexProtocolSetResponseReceived, CommandTimesOut

LEMMA ContentKind == ASSUME NEW content \in HexContents PROVE content # None
BY DEF HexContents, None

(* What a message of the wire's register comes to.                         *)
LEMMA MessageTaken ==
    ASSUME NEW w \in RegisterWires, NEW content \in HexContents,
           NEW code \in {GetResponse, SetResponse, AsyncResponse}
    PROVE  LET class == RegisterClass(w)
               message == Response(code, w.key, Payload(class, content))
           IN  \E f : /\ AddsTo(SizesOf(class), f)
                      /\ RegisterDoes(class, content, RegisterDigits(w), f, SetRegister(w, message))
<1> DEFINE class == RegisterClass(w)
<1>1. class \in Classes /\ w.key \in Number16
  BY RegisterWiresAre
<1> HIDE DEF class
<1>2. code \in Byte
  BY ByteNumbers DEF GetResponse, SetResponse, AsyncResponse
<1>3. PICK f : AddsTo(SizesOf(class), f)
  <2>1. SizesOf(class) \in Seq(Nat)
    BY <1>1, SizesAre
  <2> QED
    BY <2>1, AddExist
<1> DEFINE message == Response(code, w.key, Payload(class, content))
<1>4. RegisterDoes(class, content, RegisterDigits(w), f,
                   RegisterSet(class, message, BehindID(message), RegisterDigits(w)))
  BY <1>1, <1>2, <1>3, EveryRegisterDoes
<1> HIDE DEF message
<1>5. SetRegister(w, message) = RegisterSet(class, message, BehindID(message), RegisterDigits(w))
  BY DEF SetRegister, class
<1> QED
  BY <1>3, <1>4, <1>5 DEF message, class

(* The inductive invariant: what was last sent on the wire, and whether    *)
(* the register took it.                                                   *)
RegistersInv ==
    /\ WireOK
    /\ wire.kind = "hex" /\ last # None =>
            last \in HexContents /\ (ok <=> Taken(RegisterClass(wire), last))

LEMMA RegistersStep == RegistersInv /\ [Next]_vars => RegistersInv'
<1> SUFFICES ASSUME RegistersInv, [Next]_vars PROVE RegistersInv'
  OBVIOUS
<1>1. wire' = wire /\ WireOK /\ WireOK'
  BY WireStays DEF RegistersInv, WireOK
<1>2. ASSUME processTextField PROVE RegistersInv'
  <2>1. wire.kind = "text"
    BY <1>2 DEF processTextField
  <2> QED
    BY <1>1, <2>1 DEF RegistersInv
<1>3. ASSUME hexMessageReceived PROVE RegistersInv'
  <2>1. PICK content \in HexContents, code \in {GetResponse, AsyncResponse} :
            LET message == Response(code, wire.key, Payload(RegisterClass(wire), content))
                reading == SetRegister(wire, message)
            IN  wire.kind = "hex" /\ ok' = reading.ok /\ last' = content
    BY <1>3 DEF hexMessageReceived
  <2>2. wire \in RegisterWires
    BY <1>1, <2>1, TextWiresAre DEF WireOK
  <2>3. ok' <=> Taken(RegisterClass(wire), content)
    <3>1. code \in {GetResponse, SetResponse, AsyncResponse}
      OBVIOUS
    <3> DEFINE reading == SetRegister(wire, Response(code, wire.key, Payload(RegisterClass(wire), content)))
    <3>2. \E f : RegisterDoes(RegisterClass(wire), content, RegisterDigits(wire), f, reading)
      BY <2>2, <3>1, MessageTaken
    <3>3. ok' = reading.ok
      BY <2>1
    <3> QED
      BY <3>2, <3>3 DEF RegisterDoes
  <2>4. last' = content
    BY <2>1
  <2> QED
    BY <1>1, <2>3, <2>4 DEF RegistersInv
<1>4. ASSUME UNCHANGED <<wire, last, ok>> PROVE RegistersInv'
  BY <1>1, <1>4 DEF RegistersInv
<1>5. CASE sendUpdate
  BY <1>4, <1>5 DEF sendUpdate
<1>6. CASE hexProtocolSetResponseReceived
  BY <1>4, <1>6 DEF hexProtocolSetResponseReceived
<1>7. CASE CommandTimesOut
  BY <1>4, <1>7 DEF CommandTimesOut
<1>8. CASE UNCHANGED vars
  BY <1>4, <1>8 DEF vars
<1> QED
  BY <1>2, <1>3, <1>5, <1>6, <1>7, <1>8 DEF Next

(* A register takes a message exactly when its flags are clear, it is as   *)
(* long as the register and its version is known: of any length, any data  *)
(* and every register of the two maps.                                     *)
THEOREM RegistersRead == Spec => []RegistersReadTheirLayout
<1>1. Init => RegistersInv
  BY WireAtFirst DEF Init, RegistersInv, WireOK
<1>2. RegistersInv => RegistersReadTheirLayout
  BY DEF RegistersInv, RegistersReadTheirLayout, Taken, Strings
<1> QED
  BY <1>1, <1>2, RegistersStep, PTL DEF Spec

-----------------------------------------------------------------------------
(***************************************************************************)
(* Texts, leaves and fields.                                               *)
(***************************************************************************)

(* How long a text is.                                                     *)
Most16 == 65535

LEMMA In16 == Most16 \in Int /\ \A n : n \in Number16 <=> n \in Int /\ 0 <= n /\ n <= Most16
<1>1. Most16 \in Int
  BY SMT DEF Most16
<1>2. Number16 = 0 .. Most16
  BY DEF Number16, Most16
<1> QED
  BY <1>1, <1>2

LEMMA Powers ==
    /\ DOMAIN PowersOfTen = 1 .. 9
    /\ \A k \in 1 .. 9 : /\ PowersOfTen[k] > 9
                         /\ k > 2 => PowersOfTen[k] > 999
                         /\ k > 3 => PowersOfTen[k] > 9999
                         /\ k > 4 => PowersOfTen[k] > Most16
                         /\ PowersOfTen[k] \in Int
<1>1. DOMAIN PowersOfTen = 1 .. 9
  BY SMT DEF PowersOfTen
<1>2. ASSUME NEW k \in 1 .. 9
      PROVE  /\ PowersOfTen[k] > 9
             /\ k > 2 => PowersOfTen[k] > 999
             /\ k > 3 => PowersOfTen[k] > 9999
             /\ k > 4 => PowersOfTen[k] > Most16
             /\ PowersOfTen[k] \in Int
  BY SMT DEF PowersOfTen, Most16
<1> QED
  BY <1>1, <1>2

LEMMA Digits ==
    ASSUME NEW n \in Int, NEW m \in 0 .. 9, \A k \in 1 .. 9 : k > m => PowersOfTen[k] > n
    PROVE  DigitsOf(n) \in 1 .. 1 + m
<1> DEFINE K == {k \in DOMAIN PowersOfTen : PowersOfTen[k] <= n}
<1>1. K \subseteq 1 .. m
  BY Powers
<1>2. IsFiniteSet(1 .. m) /\ Cardinality(1 .. m) = m
  <2>1. 1 \in Int /\ m \in Int
    OBVIOUS
  <2>2. IsFiniteSet(1 .. m) /\ Cardinality(1 .. m) = IF 1 > m THEN 0 ELSE m - 1 + 1
    BY <2>1, FS_Interval
  <2> QED
    BY <2>2
<1>3. IsFiniteSet(K) /\ Cardinality(K) <= m
  BY <1>1, <1>2, FS_Subset
<1>4. Cardinality(K) \in Nat
  BY <1>3, FS_CardinalityType
<1>5. DigitsOf(n) = 1 + Cardinality(K)
  BY DEF DigitsOf
<1> HIDE DEF K
<1> QED
  BY <1>3, <1>4, <1>5

LEMMA DigitsAre ==
    ASSUME NEW n \in Int
    PROVE  /\ DigitsOf(n) \in 1 .. 10
           /\ n <= 9 => DigitsOf(n) = 1
           /\ n <= 999 => DigitsOf(n) <= 3
           /\ n <= 9999 => DigitsOf(n) <= 4
           /\ n \in Number16 => DigitsOf(n) <= 5
<1>1. DigitsOf(n) \in 1 .. 1 + 9
  BY Digits
<1>2. ASSUME n <= 9 PROVE DigitsOf(n) \in 1 .. 1 + 0
  <2>1. \A k \in 1 .. 9 : k > 0 => PowersOfTen[k] > n
    BY <1>2, Powers
  <2> QED
    BY <2>1, Digits
<1>3. ASSUME n <= 999 PROVE DigitsOf(n) \in 1 .. 1 + 2
  <2>1. \A k \in 1 .. 9 : k > 2 => PowersOfTen[k] > n
    BY <1>3, Powers
  <2> QED
    BY <2>1, Digits
<1>4. ASSUME n <= 9999 PROVE DigitsOf(n) \in 1 .. 1 + 3
  <2>1. \A k \in 1 .. 9 : k > 3 => PowersOfTen[k] > n
    BY <1>4, Powers
  <2> QED
    BY <2>1, Digits
<1>5. ASSUME n \in Number16 PROVE DigitsOf(n) \in 1 .. 1 + 4
  <2>1. \A k \in 1 .. 9 : k > 4 => PowersOfTen[k] > n
    BY <1>5, Powers, In16
  <2> QED
    BY <2>1, Digits
<1> QED
  BY <1>1, <1>2, <1>3, <1>4, <1>5

Exponents == 0 .. 3

LEMMA Lengths ==
    ASSUME NEW v, v.value \in Int, v.denominatorExponent \in Exponents
    PROVE  /\ TextLength(v) \in Int
           /\ TextLength(v) <= 12
           /\ v.denominatorExponent = 0 =>
                /\ v.value \in {0, 1} => TextLength(v) <= 2
                /\ v.value \in Byte => TextLength(v) <= 3
                /\ v.value \in Number16 => TextLength(v) <= 5
                /\ v.value <= 9999 /\ v.value >= -999 => TextLength(v) <= 4
<1> DEFINE n == v.value
           e == v.denominatorExponent
           magnitude == IF n < 0 THEN -n ELSE n
           long == DigitsOf(magnitude)
           digits == IF long < e + 1 THEN e + 1 ELSE long
<1>1. TextLength(v) = digits + (IF n < 0 THEN 1 ELSE 0) + (IF e > 0 THEN 1 ELSE 0)
  BY DEF TextLength
<1>2. magnitude \in Int /\ n \in Int /\ e \in 0 .. 3
  BY DEF Exponents
<1> HIDE DEF n, e
<1>3. /\ long \in 1 .. 10
      /\ magnitude <= 9 => long = 1
      /\ magnitude <= 999 => long <= 3
      /\ magnitude <= 9999 => long <= 4
      /\ magnitude \in Number16 => long <= 5
  <2> HIDE DEF magnitude
  <2> QED
    BY <1>2, DigitsAre
<1>4. /\ n \in {0, 1} => magnitude <= 9 /\ ~(n < 0)
      /\ n \in Byte => magnitude <= 999 /\ ~(n < 0)
      /\ n \in Number16 => magnitude \in Number16 /\ ~(n < 0)
      /\ n <= 9999 /\ n >= -999 => (n < 0 /\ magnitude <= 999) \/ (~(n < 0) /\ magnitude <= 9999)
  <2>1. n \in Byte => magnitude <= 999 /\ ~(n < 0)
    BY <1>2 DEF Byte
  <2>2. n \in Number16 => magnitude \in Number16 /\ ~(n < 0)
    BY <1>2, In16
  <2> QED
    BY <1>2, <2>1, <2>2
<1> HIDE DEF long, magnitude
<1>5. e = 0 => digits = long
  BY <1>2, <1>3
<1>6. digits \in 1 .. 10
  BY <1>2, <1>3
<1> HIDE DEF digits
<1>7. TextLength(v) \in Int /\ TextLength(v) <= 12
  BY <1>1, <1>6
<1>8. ASSUME e = 0
      PROVE  /\ n \in {0, 1} => TextLength(v) <= 2
             /\ n \in Byte => TextLength(v) <= 3
             /\ n \in Number16 => TextLength(v) <= 5
             /\ n <= 9999 /\ n >= -999 => TextLength(v) <= 4
  <2>1. TextLength(v) = long + (IF n < 0 THEN 1 ELSE 0)
    BY <1>1, <1>3, <1>5, <1>8
  <2> QED
    BY <1>2, <1>3, <1>4, <2>1
<1> QED
  BY <1>7, <1>8 DEF n, e

-----------------------------------------------------------------------------
(* The leaves and what is told of them.                                    *)
ScaledLeaf == NumberLeaf(14, 14)

NumberLeaves == {BoolLeaf, UInt8Leaf, UInt16Leaf, UInt32Leaf, Int16Leaf, ScaledLeaf}

IsLeaf(class) == class \in NumberLeaves \/ \E size \in Nat : class = StringLeaf(size)

LEMMA LeafKinds ==
    ASSUME NEW class, IsLeaf(class)
    PROVE  /\ class.kind = "number" => class \in NumberLeaves
           /\ class.kind = "string" => class.size \in Nat
           /\ class.kind \in {"number", "string"}
BY DEF IsLeaf, NumberLeaves, StringLeaf, NumberLeaf, BoolLeaf, UInt8Leaf, UInt16Leaf, UInt32Leaf,
       Int16Leaf, ScaledLeaf

(* A value the buffers of the leaf have room for, or as much as they have. *)
Fits(class, v) ==
    IF class.kind = "string" THEN v \in Texts
    ELSE /\ TextLength(v) \in Int
         /\ class # Int16Leaf => TextLength(v) <= class.published /\ TextLength(v) <= class.retained
         /\ class = Int16Leaf => (TextLength(v) > 4 => v.value > 9999 \/ v.value < -999)

(* What a leaf keeps, and what its subscriber knows of it.                 *)
Kept(class, v) == IF class.kind = "string" THEN v.length <= class.size ELSE Fits(class, v)

Shown(class, l, t) ==
    /\ \E set \in BOOLEAN : \E x : l = [hasBeenSet |-> set, value |-> x]
    /\ l.hasBeenSet => Kept(class, l.value[1]) /\ t = RetainedText(class, l.value[1])
    /\ ~l.hasBeenSet => t = NoText

SentTo(t, effect) == IF effect.sent = <<>> THEN t ELSE effect.sent[1]

LEMMA SameText ==
    ASSUME NEW class, IsLeaf(class), NEW v, class.kind = "number", Fits(class, v)
    PROVE  PublishedText(class, v) = RetainedText(class, v)
<1>1. class \in NumberLeaves /\ class.kind # "string"
  BY LeafKinds
<1>2. CASE class = Int16Leaf
  <2>1. class.published = class.retained
    BY <1>2 DEF Int16Leaf, NumberLeaf
  <2> QED
    BY <1>1, <2>1 DEF PublishedText, RetainedText
<1>3. CASE class # Int16Leaf
  BY <1>1, <1>3 DEF PublishedText, RetainedText, Text, Fits
<1> QED
  BY <1>2, <1>3

LEMMA KeptString ==
    ASSUME NEW s, s.length \in Nat, NEW size \in Nat
    PROVE  Keep(size, s).length <= size \/ ~("length" \in DOMAIN s)
<1>1. CASE s.length <= size
  BY <1>1 DEF Keep
<1>2. CASE ~(s.length <= size) /\ "length" \in DOMAIN s
  <2>1. Keep(size, s) = [s EXCEPT !.length = size]
    BY <1>2 DEF Keep
  <2> QED
    BY <1>2, <2>1
<1> QED
  BY <1>1, <1>2

LEMMA TextRecords ==
    ASSUME NEW text \in Texts
    PROVE  /\ text.n \in Int /\ text.length \in Nat /\ "length" \in DOMAIN text
           /\ text.kind \in {"number", "hex", "---", "ON", "OFF", "other"}
           /\ text.kind \in {"---", "ON", "OFF"} => text \in {Dashes, On, Off}
<1>1. text \in [kind : {"number", "hex", "---", "ON", "OFF", "other"}, n : Int, length : Nat]
      /\ (text.kind \in {"---", "ON", "OFF"} => text \in {Dashes, On, Off})
  BY LeavesAssumption
<1> QED
  BY <1>1

LEMMA StoredIsKept ==
    ASSUME NEW class, IsLeaf(class), NEW v, Fits(class, v)
    PROVE  /\ Kept(class, Stored(class, v))
           /\ Kept(class, v) => Stored(class, v) = v
           /\ PublishedText(class, Stored(class, v)) = RetainedText(class, Stored(class, v))
<1>1. CASE class.kind = "string"
  <2>1. v \in Texts /\ class.size \in Nat
    BY <1>1, LeafKinds DEF Fits
  <2>2. Stored(class, v) = Keep(class.size, v)
    BY <1>1 DEF Stored
  <2>3. Keep(class.size, v).length <= class.size
    BY <2>1, KeptString, TextRecords
  <2>4. v.length <= class.size => Keep(class.size, v) = v
    BY DEF Keep
  <2> QED
    BY <1>1, <2>2, <2>3, <2>4 DEF Kept, PublishedText, RetainedText
<1>2. CASE class.kind = "number"
  <2>1. Stored(class, v) = v
    BY <1>2 DEF Stored
  <2> QED
    BY <1>2, <2>1, SameText DEF Kept
<1> QED
  BY <1>1, <1>2, LeafKinds

LEMMA Assigned ==
    ASSUME NEW class, IsLeaf(class), NEW l, NEW t, Shown(class, l, t), NEW v, Fits(class, v)
    PROVE  LET effect == Assign(class, l, v)
           IN  /\ Shown(class, effect.leaf, SentTo(t, effect))
               /\ effect.leaf.hasBeenSet
               /\ effect.leaf.value[1] = Stored(class, v)
<1> DEFINE effect == Assign(class, l, v)
           stored == Stored(class, v)
<1>1. /\ Kept(class, stored)
      /\ Kept(class, v) => stored = v
      /\ PublishedText(class, stored) = RetainedText(class, stored)
  BY StoredIsKept
<1>2. CASE ~l.hasBeenSet \/ l.value # <<v>>
  <2>1. effect = [leaf |-> [hasBeenSet |-> TRUE, value |-> <<stored>>],
                  sent |-> <<PublishedText(class, stored)>>]
    BY <1>2 DEF Assign
  <2> HIDE DEF effect, stored
  <2>2. SentTo(t, effect) = PublishedText(class, stored)
    BY <2>1 DEF SentTo
  <2>3. effect.leaf = [hasBeenSet |-> TRUE, value |-> <<stored>>]
    BY <2>1
  <2>4. effect.leaf.hasBeenSet /\ effect.leaf.value[1] = stored
    BY <2>3
  <2>5. \E set \in BOOLEAN : \E x : effect.leaf = [hasBeenSet |-> set, value |-> x]
    BY <2>3
  <2>6. Shown(class, effect.leaf, SentTo(t, effect))
    BY <1>1, <2>2, <2>4, <2>5 DEF Shown
  <2> QED
    BY <2>4, <2>6 DEF effect, stored
<1>3. CASE l.hasBeenSet /\ l.value = <<v>>
  <2>1. effect = [leaf |-> l, sent |-> <<>>]
    BY <1>3 DEF Assign
  <2> HIDE DEF effect
  <2>2. SentTo(t, effect) = t /\ effect.leaf = l
    BY <2>1 DEF SentTo
  <2>3. l.value[1] = v
    BY <1>3
  <2>4. stored = v
    BY <1>1, <1>3, <2>3 DEF Shown
  <2> QED
    BY <1>3, <2>2, <2>3, <2>4 DEF effect
<1> QED
  BY <1>2, <1>3 DEF Shown

LEMMA Removed ==
    ASSUME NEW class, NEW l, NEW t, Shown(class, l, t)
    PROVE  LET effect == RemoveValue(l)
           IN  /\ Shown(class, effect.leaf, SentTo(t, effect))
               /\ ~effect.leaf.hasBeenSet
<1> DEFINE effect == RemoveValue(l)
<1>1. PICK set \in BOOLEAN : \E x : l = [hasBeenSet |-> set, value |-> x]
  BY DEF Shown
<1>2. PICK x : l = [hasBeenSet |-> set, value |-> x]
  BY <1>1
<1>3. CASE l.hasBeenSet
  <2>1. effect = [leaf |-> [l EXCEPT !.hasBeenSet = FALSE], sent |-> <<NoText>>]
    BY <1>3 DEF RemoveValue
  <2>2. [l EXCEPT !.hasBeenSet = FALSE] = [hasBeenSet |-> FALSE, value |-> x]
    <3>1. ASSUME NEW a, NEW b, NEW y
          PROVE  [[hasBeenSet |-> b, value |-> y] EXCEPT !.hasBeenSet = a] =
                 [hasBeenSet |-> a, value |-> y]
      OBVIOUS
    <3> QED
      BY <1>2, <3>1, Zenon
  <2> HIDE DEF effect
  <2>3. effect.leaf = [hasBeenSet |-> FALSE, value |-> x] /\ SentTo(t, effect) = NoText
    BY <2>1, <2>2 DEF SentTo
  <2>4. effect.leaf.hasBeenSet = FALSE
    BY <2>3
  <2>5. \E b \in BOOLEAN : \E y : effect.leaf = [hasBeenSet |-> b, value |-> y]
    BY <2>3
  <2>6. Shown(class, effect.leaf, SentTo(t, effect))
    BY <2>3, <2>4, <2>5 DEF Shown
  <2> QED
    BY <2>4, <2>6 DEF effect
<1>4. CASE ~l.hasBeenSet
  <2>1. effect = [leaf |-> l, sent |-> <<>>]
    BY <1>4 DEF RemoveValue
  <2> HIDE DEF effect
  <2>2. effect.leaf = l /\ SentTo(t, effect) = t
    BY <2>1 DEF SentTo
  <2> QED
    BY <1>4, <2>2 DEF effect
<1> QED
  BY <1>3, <1>4

-----------------------------------------------------------------------------
(* The text fields: how they are wired.                                    *)
FieldClassOf(w) == IF w.device = "MPPT" THEN MPPTFieldClass(w.leaf) ELSE BMVFieldClass(w.leaf)

ArgumentsOf(w) == IF w.device = "MPPT" THEN MPPTFieldArguments(w.leaf) ELSE BMVFieldArguments(w.leaf)

Plain32s == {"UInt32", "HexUInt32"}
ScaledFields == {"ScaledUInt16", "ScaledUInt32", "ScaledInt32"}

FieldClasses ==
    {"Int16", "UInt8", "UInt16", "HexUInt16", "OnOff", "String", "BMVVoltage", "BMVTemperature",
     "BMVCurrent"} \cup Plain32s \cup ScaledFields

LeafFor(class, leafClass) ==
    CASE class \in {"Int16", "BMVTemperature"} -> leafClass = Int16Leaf
      [] class = "UInt8" -> leafClass = UInt8Leaf
      [] class \in {"UInt16", "HexUInt16"} -> leafClass = UInt16Leaf
      [] class \in Plain32s -> leafClass = UInt32Leaf
      [] class = "OnOff" -> leafClass = BoolLeaf
      [] class = "String" -> \E size \in Nat : leafClass = StringLeaf(size)
      [] class \in ScaledFields \cup {"BMVVoltage", "BMVCurrent"} -> leafClass = ScaledLeaf

ExceptionFor(class) ==
    CASE class = "UInt8" -> MaxOf("uint8")
      [] class \in {"UInt16", "HexUInt16"} -> MaxOf("uint16")
      [] OTHER -> MaxOf("uint32")

Wired(w) ==
    /\ FieldClassOf(w) \in FieldClasses
    /\ LeafFor(FieldClassOf(w), LeafClass(w))
    /\ ArgumentsOf(w).digits \in Exponents
    /\ ArgumentsOf(w).invert \in BOOLEAN
    /\ FieldClassOf(w) = "Int16" => ArgumentsOf(w).invert = FALSE
    /\ ArgumentsOf(w).exceptionMatch = <<>>
       \/ (w.leaf = "timeToGo" /\ ArgumentsOf(w).exceptionMatch = <<Number(-1)>>)
    /\ ArgumentsOf(w).exceptionValue = ExceptionFor(FieldClassOf(w))
    /\ w.leaf = "voltage" /\ w.device = "BMV" <=> FieldClassOf(w) = "BMVVoltage"
    /\ FieldClassOf(w) \in {"Int16", "BMVTemperature"} =>
            w.device = "BMV" /\ w.leaf \in {"power", "temperature", "monitorMode"}
    /\ w.leaf = "timeToGo" => FieldClassOf(w) = "UInt16"

LEMMA MPPTClassOfField ==
    ASSUME NEW leafName \in MPPTFields
    PROVE  /\ MPPTFieldClass(leafName) \in FieldClasses
           /\ MPPTFieldClass(leafName) \notin {"Int16", "BMVVoltage", "BMVTemperature", "BMVCurrent"}
           /\ LeafFor(MPPTFieldClass(leafName), MPPTLeafClass(leafName))
           /\ leafName \notin {"timeToGo", "voltage"}
<1>0. leafName \notin {"timeToGo", "voltage"}
  BY DEF MPPTFields
<1>1. CASE leafName \in {"stateOfOperation", "errorCode", "trackerOperationMode"}
  <2>1. MPPTFieldClass(leafName) = "UInt8" /\ MPPTLeafClass(leafName) = UInt8Leaf
    BY <1>1 DEF MPPTFieldClass, MPPTLeafClass
  <2> QED
    BY <1>0, <2>1 DEF FieldClasses, LeafFor, Plain32s, ScaledFields
<1>2. CASE leafName \in {"firmware", "serialNumber"}
  <2>1. MPPTFieldClass(leafName) = "String"
        /\ (MPPTLeafClass(leafName) = StringLeaf(10) \/ MPPTLeafClass(leafName) = StringLeaf(20))
    BY <1>2 DEF MPPTFieldClass, MPPTLeafClass
  <2>2. \E size \in Nat : MPPTLeafClass(leafName) = StringLeaf(size)
    BY <2>1
  <2> QED
    BY <1>0, <2>1, <2>2 DEF FieldClasses, LeafFor, Plain32s, ScaledFields
<1>3. CASE leafName \in {"yieldHistoric", "yieldToday", "yieldYesterday", "loadCurrent"}
  <2>1. MPPTFieldClass(leafName) = "ScaledUInt32" /\ MPPTLeafClass(leafName) = ScaledLeaf
    BY <1>3 DEF MPPTFieldClass, MPPTLeafClass, ScaledUInt32Leaf, ScaledLeaf
  <2> QED
    BY <1>0, <2>1 DEF FieldClasses, LeafFor, Plain32s, ScaledFields
<1>4. CASE leafName \in {"maxPowerToday", "maxPowerYesterday", "panelPower"}
  <2>1. MPPTFieldClass(leafName) = "UInt32" /\ MPPTLeafClass(leafName) = UInt32Leaf
    BY <1>4 DEF MPPTFieldClass, MPPTLeafClass
  <2> QED
    BY <1>0, <2>1 DEF FieldClasses, LeafFor, Plain32s, ScaledFields
<1>5. CASE leafName = "daySequenceNumber"
  <2>1. MPPTFieldClass(leafName) = "UInt16" /\ MPPTLeafClass(leafName) = UInt16Leaf
    BY <1>5 DEF MPPTFieldClass, MPPTLeafClass
  <2> QED
    BY <1>0, <2>1 DEF FieldClasses, LeafFor, Plain32s, ScaledFields
<1>6. CASE leafName = "chargerCurrent"
  <2>1. MPPTFieldClass(leafName) = "ScaledInt32" /\ MPPTLeafClass(leafName) = ScaledLeaf
    BY <1>6 DEF MPPTFieldClass, MPPTLeafClass, ScaledInt32Leaf, ScaledLeaf
  <2> QED
    BY <1>0, <2>1 DEF FieldClasses, LeafFor, Plain32s, ScaledFields
<1>7. CASE leafName \in {"loadState", "relayState"}
  <2>1. MPPTFieldClass(leafName) = "OnOff" /\ MPPTLeafClass(leafName) = BoolLeaf
    BY <1>7 DEF MPPTFieldClass, MPPTLeafClass
  <2> QED
    BY <1>0, <2>1 DEF FieldClasses, LeafFor, Plain32s, ScaledFields
<1>8. CASE leafName = "offReason"
  <2>1. MPPTFieldClass(leafName) = "HexUInt32" /\ MPPTLeafClass(leafName) = UInt32Leaf
    BY <1>8 DEF MPPTFieldClass, MPPTLeafClass
  <2> QED
    BY <1>0, <2>1 DEF FieldClasses, LeafFor, Plain32s, ScaledFields
<1>9. CASE leafName = "pid"
  <2>1. MPPTFieldClass(leafName) = "HexUInt16" /\ MPPTLeafClass(leafName) = UInt16Leaf
    BY <1>9 DEF MPPTFieldClass, MPPTLeafClass
  <2> QED
    BY <1>0, <2>1 DEF FieldClasses, LeafFor, Plain32s, ScaledFields
<1>10. CASE leafName \in {"chargerVoltage", "panelVoltage"}
  <2>1. MPPTFieldClass(leafName) = "ScaledUInt16" /\ MPPTLeafClass(leafName) = ScaledLeaf
    BY <1>10 DEF MPPTFieldClass, MPPTLeafClass, ScaledUInt16Leaf, ScaledLeaf
  <2> QED
    BY <1>0, <2>1 DEF FieldClasses, LeafFor, Plain32s, ScaledFields
<1> QED
  BY <1>1, <1>2, <1>3, <1>4, <1>5, <1>6, <1>7, <1>8, <1>9, <1>10 DEF MPPTFields

LEMMA ArgumentsAre ==
    ASSUME NEW class, NEW digits, NEW invert, NEW exceptionMatch
    PROVE  LET f == FieldArguments(class, digits, invert, exceptionMatch)
           IN  /\ f.digits = digits
               /\ f.invert = invert
               /\ f.exceptionMatch = exceptionMatch
               /\ f.exceptionValue = ExceptionFor(class)
BY DEF FieldArguments, ExceptionFor

LEMMA MPPTWired ==
    ASSUME NEW w, w.kind = "text", w.device = "MPPT", w.leaf \in MPPTFields PROVE Wired(w)
<1>1. /\ FieldClassOf(w) = MPPTFieldClass(w.leaf)
      /\ LeafClass(w) = MPPTLeafClass(w.leaf)
      /\ ArgumentsOf(w) = MPPTFieldArguments(w.leaf)
  BY DEF FieldClassOf, LeafClass, ArgumentsOf
<1> DEFINE digits ==
        CASE w.leaf \in {"chargerVoltage", "chargerCurrent", "panelVoltage", "loadCurrent"} -> 3
          [] w.leaf \in {"yieldHistoric", "yieldToday", "yieldYesterday"} -> 2
          [] OTHER -> 0
<1>2. MPPTFieldArguments(w.leaf) = FieldArguments(FieldClassOf(w), digits, FALSE, <<>>)
  BY <1>1 DEF MPPTFieldArguments
<1>3. digits \in Exponents
  BY DEF Exponents
<1> HIDE DEF digits
<1>4. /\ ArgumentsOf(w).digits = digits
      /\ ArgumentsOf(w).invert = FALSE
      /\ ArgumentsOf(w).exceptionMatch = <<>>
      /\ ArgumentsOf(w).exceptionValue = ExceptionFor(FieldClassOf(w))
  <2>1. FALSE \in BOOLEAN
    OBVIOUS
  <2> QED
    <3> DEFINE f == FieldArguments(FieldClassOf(w), digits, FALSE, <<>>)
    <3>1. /\ f.digits = digits /\ f.invert = FALSE /\ f.exceptionMatch = <<>>
          /\ f.exceptionValue = ExceptionFor(FieldClassOf(w))
      BY DEF FieldArguments, ExceptionFor
    <3>2. ArgumentsOf(w) = f
      BY <1>1, <1>2
    <3> HIDE DEF f
    <3> QED
      BY <3>1, <3>2, Zenon
<1>5. /\ FieldClassOf(w) \in FieldClasses
      /\ FieldClassOf(w) \notin {"Int16", "BMVVoltage", "BMVTemperature", "BMVCurrent"}
      /\ LeafFor(FieldClassOf(w), LeafClass(w))
      /\ w.leaf # "timeToGo" /\ w.leaf # "voltage"
  BY <1>1, MPPTClassOfField
<1>6. /\ ArgumentsOf(w).digits \in Exponents
      /\ ArgumentsOf(w).invert \in BOOLEAN
  BY <1>3, <1>4, Zenon
<1>7. /\ FieldClassOf(w) # "Int16" /\ FieldClassOf(w) # "BMVVoltage"
      /\ FieldClassOf(w) # "BMVTemperature"
      /\ FieldClassOf(w) \notin {"Int16", "BMVTemperature"}
  BY <1>5
<1>8. w.leaf = "voltage" /\ w.device = "BMV" <=> FieldClassOf(w) = "BMVVoltage"
  BY <1>5, <1>7
<1>9. FieldClassOf(w) = "Int16" => ArgumentsOf(w).invert = FALSE
  BY <1>7
<1>10. /\ FieldClassOf(w) \in {"Int16", "BMVTemperature"} =>
            w.device = "BMV" /\ w.leaf \in {"power", "temperature", "monitorMode"}
       /\ w.leaf = "timeToGo" => FieldClassOf(w) = "UInt16"
  BY <1>5, <1>7
<1> QED
  BY <1>4, <1>5, <1>6, <1>8, <1>9, <1>10, Zenon DEF Wired

LEMMA BMVClassOfField ==
    ASSUME NEW leafName
    PROVE  /\ BMVFieldClass(leafName) \in FieldClasses
           /\ LeafFor(BMVFieldClass(leafName), BMVLeafClass(leafName))
           /\ leafName = "voltage" <=> BMVFieldClass(leafName) = "BMVVoltage"
           /\ BMVFieldClass(leafName) \in {"Int16", "BMVTemperature"} =>
                    leafName \in {"power", "temperature", "monitorMode"}
           /\ leafName = "timeToGo" => BMVFieldClass(leafName) = "UInt16"
<1> DEFINE counters == {"automaticSynchronizations", "lowVoltageAlarms", "highVoltageAlarms",
                        "cycles", "fullDischarges", "timeSinceLastFullCharge"}
           others == {"alarmReason", "timeToGo", "alarm", "relay", "modelDescription", "firmware",
                      "averageDischarge", "soc", "monitorMode", "power", "pid", "voltage",
                      "temperature", "current"}
<1>1. CASE leafName \in {"alarmReason", "timeToGo"}
  <2>1. BMVFieldClass(leafName) = "UInt16" /\ BMVLeafClass(leafName) = UInt16Leaf
    BY <1>1 DEF BMVFieldClass, BMVLeafClass
  <2> QED
    BY <1>1, <2>1 DEF FieldClasses, LeafFor, Plain32s, ScaledFields
<1>2. CASE leafName \in {"alarm", "relay"}
  <2>1. BMVFieldClass(leafName) = "OnOff" /\ BMVLeafClass(leafName) = BoolLeaf
    BY <1>2 DEF BMVFieldClass, BMVLeafClass
  <2> QED
    BY <1>2, <2>1 DEF FieldClasses, LeafFor, Plain32s, ScaledFields
<1>3. CASE leafName \in {"modelDescription", "firmware"}
  <2>1. BMVFieldClass(leafName) = "String"
        /\ (BMVLeafClass(leafName) = StringLeaf(40) \/ BMVLeafClass(leafName) = StringLeaf(10))
    BY <1>3 DEF BMVFieldClass, BMVLeafClass
  <2>2. \E size \in Nat : BMVLeafClass(leafName) = StringLeaf(size)
    BY <2>1
  <2> QED
    BY <1>3, <2>1, <2>2 DEF FieldClasses, LeafFor, Plain32s, ScaledFields
<1>4. CASE leafName \in counters
  <2>1. BMVFieldClass(leafName) = "UInt32" /\ BMVLeafClass(leafName) = UInt32Leaf
    BY <1>4 DEF BMVFieldClass, BMVLeafClass
  <2> QED
    BY <1>4, <2>1 DEF FieldClasses, LeafFor, Plain32s, ScaledFields
<1>5. CASE leafName = "averageDischarge"
  <2>1. BMVFieldClass(leafName) = "ScaledUInt32" /\ BMVLeafClass(leafName) = ScaledLeaf
    BY <1>5 DEF BMVFieldClass, BMVLeafClass, ScaledUInt32Leaf, ScaledLeaf
  <2> QED
    BY <1>5, <2>1 DEF FieldClasses, LeafFor, Plain32s, ScaledFields
<1>6. CASE leafName = "soc"
  <2>1. BMVFieldClass(leafName) = "ScaledUInt16" /\ BMVLeafClass(leafName) = ScaledLeaf
    BY <1>6 DEF BMVFieldClass, BMVLeafClass, ScaledUInt16Leaf, ScaledLeaf
  <2> QED
    BY <1>6, <2>1 DEF FieldClasses, LeafFor, Plain32s, ScaledFields
<1>7. CASE leafName \in {"monitorMode", "power"}
  <2>1. BMVFieldClass(leafName) = "Int16" /\ BMVLeafClass(leafName) = Int16Leaf
    BY <1>7 DEF BMVFieldClass, BMVLeafClass
  <2> QED
    BY <1>7, <2>1 DEF FieldClasses, LeafFor, Plain32s, ScaledFields
<1>8. CASE leafName = "pid"
  <2>1. BMVFieldClass(leafName) = "HexUInt16" /\ BMVLeafClass(leafName) = UInt16Leaf
    BY <1>8 DEF BMVFieldClass, BMVLeafClass
  <2> QED
    BY <1>8, <2>1 DEF FieldClasses, LeafFor, Plain32s, ScaledFields
<1>9. CASE leafName = "voltage"
  <2>1. BMVFieldClass(leafName) = "BMVVoltage" /\ BMVLeafClass(leafName) = ScaledLeaf
    BY <1>9 DEF BMVFieldClass, BMVLeafClass, ScaledInt16Leaf, ScaledLeaf
  <2> QED
    BY <1>9, <2>1 DEF FieldClasses, LeafFor, Plain32s, ScaledFields
<1>10. CASE leafName = "temperature"
  <2>1. BMVFieldClass(leafName) = "BMVTemperature" /\ BMVLeafClass(leafName) = Int16Leaf
    BY <1>10 DEF BMVFieldClass, BMVLeafClass
  <2> QED
    BY <1>10, <2>1 DEF FieldClasses, LeafFor, Plain32s, ScaledFields
<1>11. CASE leafName = "current"
  <2>1. BMVFieldClass(leafName) = "BMVCurrent" /\ BMVLeafClass(leafName) = ScaledLeaf
    BY <1>11 DEF BMVFieldClass, BMVLeafClass, ScaledInt32Leaf, ScaledLeaf
  <2> QED
    BY <1>11, <2>1 DEF FieldClasses, LeafFor, Plain32s, ScaledFields
<1>12. CASE leafName \notin counters \cup others
  <2>1. BMVFieldClass(leafName) = "ScaledInt32"
    BY <1>12 DEF BMVFieldClass
  <2>2. BMVLeafClass(leafName) = ScaledLeaf
    BY <1>12 DEF BMVLeafClass, ScaledInt32Leaf, ScaledLeaf
  <2> QED
    BY <1>12, <2>1, <2>2 DEF FieldClasses, LeafFor, Plain32s, ScaledFields
<1> QED
  BY <1>1, <1>2, <1>3, <1>4, <1>5, <1>6, <1>7, <1>8, <1>9, <1>10, <1>11, <1>12

LEMMA BMVWired == ASSUME NEW w, w.kind = "text", w.device = "BMV" PROVE Wired(w)
<1>1. /\ FieldClassOf(w) = BMVFieldClass(w.leaf)
      /\ LeafClass(w) = BMVLeafClass(w.leaf)
      /\ ArgumentsOf(w) = BMVFieldArguments(w.leaf)
  BY DEF FieldClassOf, LeafClass, ArgumentsOf
<1> DEFINE digits ==
        CASE w.leaf = "soc" -> 1
          [] w.leaf \in {"dischargedEnergy", "chargedEnergy"} -> 2
          [] BMVFieldClass(w.leaf) \in {"ScaledInt32", "ScaledUInt32"} -> 3
          [] OTHER -> 0
           inverted == {"consumedAmpHours", "deepestDischarge", "lastDischarge",
                        "cumulativeAmpHoursDrawn"}
           match == IF w.leaf = "timeToGo" THEN <<Number(-1)>> ELSE <<>>
           f == FieldArguments(FieldClassOf(w), digits, w.leaf \in inverted, match)
<1>2. BMVFieldArguments(w.leaf) = f
  BY <1>1 DEF BMVFieldArguments
<1>3. digits \in Exponents
  BY DEF Exponents
<1>4. match = <<>> \/ (w.leaf = "timeToGo" /\ match = <<Number(-1)>>)
  OBVIOUS
<1> HIDE DEF digits, match
<1>5. /\ f.digits = digits
      /\ f.exceptionMatch = match
      /\ f.exceptionValue = ExceptionFor(FieldClassOf(w))
  BY DEF FieldArguments, ExceptionFor
<1>6. f.invert = (w.leaf \in inverted)
  BY Zenon DEF FieldArguments
<1> HIDE DEF f
<1>7. /\ FieldClassOf(w) \in FieldClasses
      /\ LeafFor(FieldClassOf(w), LeafClass(w))
      /\ (w.leaf = "voltage" /\ w.device = "BMV") <=> FieldClassOf(w) = "BMVVoltage"
      /\ FieldClassOf(w) \in {"Int16", "BMVTemperature"} =>
            w.device = "BMV" /\ w.leaf \in {"power", "temperature", "monitorMode"}
      /\ w.leaf = "timeToGo" => FieldClassOf(w) = "UInt16"
  BY <1>1, BMVClassOfField
<1>8. ASSUME FieldClassOf(w) = "Int16" PROVE w.leaf \notin inverted
  BY <1>7, <1>8
<1>9. f.invert \in BOOLEAN /\ (FieldClassOf(w) = "Int16" => f.invert = FALSE)
  <2> HIDE DEF inverted
  <2>1. (w.leaf \in inverted) \in BOOLEAN
    OBVIOUS
  <2>2. f.invert \in BOOLEAN
    BY <1>6, <2>1, Zenon
  <2>3. ASSUME FieldClassOf(w) = "Int16" PROVE f.invert = FALSE
    <3>1. (w.leaf \in inverted) = FALSE
      BY <1>8, <2>3
    <3> QED
      BY <1>6, <3>1, Zenon
  <2> QED
    BY <2>2, <2>3
<1>10. ArgumentsOf(w) = f
  BY <1>1, <1>2
<1> QED
  BY <1>3, <1>4, <1>5, <1>7, <1>9, <1>10, Zenon DEF Wired

LEMMA TextsAreWired == ASSUME NEW w \in TextWires PROVE Wired(w)
BY TextWiresAre, MPPTWired, BMVWired

-----------------------------------------------------------------------------
(* Numbers in leaves.                                                      *)
LEMMA ScaledIs ==
    ASSUME NEW type \in Types, NEW n \in Int, NEW digits \in Exponents
    PROVE  LET v == Scaled(type, n, digits)
           IN  /\ v.value = Wrap(type, n)
               /\ v.value \in Int
               /\ v.value \in RangeOf(type)
               /\ v.denominatorExponent = digits
               /\ n \in RangeOf(type) => v.value = n
BY Wrapped DEF Scaled

LEMMA PlainIs ==
    ASSUME NEW type \in Types, NEW n \in Int
    PROVE  LET v == Plain(type, n)
           IN  /\ v.value = Wrap(type, n)
               /\ v.value \in Int
               /\ v.value \in RangeOf(type)
               /\ v.denominatorExponent = 0
               /\ n \in RangeOf(type) => v.value = n
<1>1. 0 \in Exponents
  BY DEF Exponents
<1> QED
  BY <1>1, ScaledIs DEF Plain

LEMMA NumbersFit ==
    ASSUME NEW v, v.value \in Int, v.denominatorExponent \in Exponents
    PROVE  /\ Fits(ScaledLeaf, v)
           /\ v.denominatorExponent = 0 =>
                /\ Fits(UInt32Leaf, v)
                /\ Fits(Int16Leaf, v)
                /\ v.value \in Number16 => Fits(UInt16Leaf, v)
                /\ v.value \in Byte => Fits(UInt8Leaf, v)
                /\ v.value \in {0, 1} => Fits(BoolLeaf, v)
<1>1. /\ TextLength(v) \in Int
      /\ TextLength(v) <= 12
      /\ v.denominatorExponent = 0 =>
            /\ v.value \in {0, 1} => TextLength(v) <= 2
            /\ v.value \in Byte => TextLength(v) <= 3
            /\ v.value \in Number16 => TextLength(v) <= 5
            /\ v.value <= 9999 /\ v.value >= -999 => TextLength(v) <= 4
  BY Lengths
<1>2. /\ ScaledLeaf = [kind |-> "number", published |-> 14, retained |-> 14]
      /\ UInt32Leaf = [kind |-> "number", published |-> 12, retained |-> 12]
      /\ Int16Leaf = [kind |-> "number", published |-> 4, retained |-> 4]
      /\ UInt16Leaf = [kind |-> "number", published |-> 12, retained |-> 5]
      /\ UInt8Leaf = [kind |-> "number", published |-> 12, retained |-> 3]
      /\ BoolLeaf = [kind |-> "number", published |-> 12, retained |-> 2]
  BY DEF ScaledLeaf, UInt32Leaf, Int16Leaf, UInt16Leaf, UInt8Leaf, BoolLeaf, NumberLeaf
<1>3. Fits(ScaledLeaf, v)
  BY <1>1, <1>2 DEF Fits
<1>4. ASSUME v.denominatorExponent = 0 PROVE Fits(UInt32Leaf, v)
  BY <1>1, <1>2, <1>4 DEF Fits
<1>5. ASSUME v.denominatorExponent = 0 PROVE Fits(Int16Leaf, v)
  BY <1>1, <1>2, <1>5 DEF Fits
<1>6. ASSUME v.denominatorExponent = 0, v.value \in Number16 PROVE Fits(UInt16Leaf, v)
  <2>1. TextLength(v) <= 5
    BY <1>1, <1>6
  <2> QED
    BY <1>1, <1>2, <2>1 DEF Fits
<1>7. ASSUME v.denominatorExponent = 0, v.value \in Byte PROVE Fits(UInt8Leaf, v)
  <2>1. TextLength(v) <= 3
    BY <1>1, <1>7
  <2> QED
    BY <1>1, <1>2, <2>1 DEF Fits
<1>8. ASSUME v.denominatorExponent = 0, v.value \in {0, 1} PROVE Fits(BoolLeaf, v)
  <2>1. TextLength(v) <= 2
    BY <1>1, <1>8
  <2> QED
    BY <1>1, <1>2, <2>1 DEF Fits
<1> QED
  BY <1>3, <1>4, <1>5, <1>6, <1>7, <1>8

LEMMA LeavesAre ==
    /\ \A class \in NumberLeaves : IsLeaf(class) /\ class.kind = "number"
    /\ Int16Leaf \notin {ScaledLeaf, UInt32Leaf, UInt16Leaf, UInt8Leaf, BoolLeaf}
BY DEF IsLeaf, NumberLeaves, ScaledLeaf, UInt32Leaf, Int16Leaf, UInt16Leaf, UInt8Leaf, BoolLeaf,
       NumberLeaf

LEMMA TypeNames ==
    /\ {"uint8", "uint16", "uint32", "int16", "int32"} \subseteq Types
    /\ {"uint8", "uint16", "uint32"} \cap SignedTypes = {}
BY DEF Types, SignedTypes, UnsignedTypes

Largest == {MaxOf("uint8"), MaxOf("uint16"), MaxOf("uint32")}

LEMMA MaxInRange ==
    ASSUME NEW type \in Types
    PROVE  MaxOf(type) \in Int /\ MaxOf(type) \in RangeOf(type)
<1> DEFINE M == Modulus(type)
<1>1. M \in Nat /\ M > 0 /\ M % 2 = 0
  BY Moduli
<1>2. M \div 2 \in Nat /\ M = 2 * (M \div 2) /\ M \div 2 > 0
  BY <1>1, Halved
<1>3. MaxOf(type) = IF IsSigned(type) THEN M \div 2 - 1 ELSE M - 1
  BY DEF MaxOf
<1>4. LowOf(type) = IF type \in SignedTypes THEN -(M \div 2) ELSE 0
  BY DEF LowOf
<1> HIDE DEF M
<1>5. MaxOf(type) \in Int /\ LowOf(type) \in Int /\ LowOf(type) <= MaxOf(type)
  BY <1>1, <1>2, <1>3, <1>4
<1> QED
  BY <1>5 DEF RangeOf

LEMMA LowWord == Wrap("uint16", MaxOf("uint32")) = MaxOf("uint16")
<1> DEFINE R == 65536
           k == Word \div R
<1>1. R \in Nat /\ R > 0 /\ k \in Int /\ Word = R * k + 0
  <2>1. R \in Nat /\ R > 0
    OBVIOUS
  <2>2. Word \in Int /\ Word % R = 0
    BY WordFacts
  <2> HIDE DEF R
  <2>3. k \in Int /\ Word = R * k + (Word % R)
    BY <2>1, <2>2, Remainder
  <2> QED
    BY <2>1, <2>2, <2>3
<1>2. MaxOf("uint32") = Word - 1 /\ MaxOf("uint16") = R - 1
  BY SMT DEF MaxOf, IsSigned, Modulus
<1>3. Modulus("uint16") = R /\ ~IsSigned("uint16")
  BY SMT DEF IsSigned, Modulus
<1> HIDE DEF R, k
<1>4. Word - 1 = R * (k - 1) + (R - 1)
  <2>1. R * (k - 1) = R * k - R
    BY <1>1, SMT
  <2>2. R * k \in Int
    BY <1>1
  <2> QED
    BY <1>1, <2>1, <2>2
<1>5. (R * (k - 1) + (R - 1)) % R = R - 1
  <2>1. k - 1 \in Int /\ R - 1 \in 0 .. R - 1
    BY <1>1
  <2> QED
    BY <1>1, <2>1, RemainderUnique
<1>6. Wrap("uint16", Word - 1) = (Word - 1) % R
  BY <1>3 DEF Wrap
<1> QED
  BY <1>2, <1>4, <1>5, <1>6

LEMMA QuotientIs ==
    ASSUME NEW n \in Int
    PROVE  Quotient(n, 10) \in Int /\ Magnitude(Quotient(n, 10)) = Magnitude(n) \div 10
BY DEF Quotient, Magnitude

LEMMA TurnedRound ==
    ASSUME NEW n \in RangeOf("int32")
    PROVE  n \in Int /\ -n \in Int /\ Magnitude(Wrap("int32", -n)) = Magnitude(n)
<1> DEFINE H == Word \div 2
<1>1. H \in Nat /\ Word = 2 * H /\ H > 0
  BY WordFacts, SMT
<1>2. RangeOf("int32") = -H .. H - 1
  BY Ranges
<1>3. Modulus("int32") = Word /\ IsSigned("int32")
  BY DEF Modulus, IsSigned
<1> HIDE DEF H
<1>4. n \in Int /\ -n \in Int
  BY <1>1, <1>2
<1>5. CASE n # -H
  <2>1. -n \in RangeOf("int32")
    BY <1>1, <1>2, <1>5
  <2>2. Wrap("int32", -n) = -n
    BY <1>4, <2>1, TypeNames, Wrapped
  <2> QED
    BY <1>4, <2>2 DEF Magnitude
<1>6. CASE n = -H
  <2>1. -n = H
    BY <1>1, <1>6
  <2>2. H % Word = H
    <3>1. (Word * 0 + H) % Word = H
      BY <1>1, RemainderUnique
    <3> QED
      BY <1>1, <3>1
  <2>3. Wrap("int32", H) = H - Word
    BY <1>1, <1>3, <2>2 DEF Wrap
  <2>4. H - Word = n
    BY <1>1, <1>6
  <2> QED
    BY <1>4, <2>1, <2>3, <2>4
<1> QED
  BY <1>4, <1>5, <1>6

-----------------------------------------------------------------------------
(* What a text field makes of a text: nothing, no value after dashes, or a *)
(* value that fits its leaf and shows the text.                            *)
FieldDoes(w, text, r) ==
    \/ r = Failure
    \/ r = Removal /\ text = Dashes
    \/ \E v : /\ r = Reading(v)
              /\ Fits(LeafClass(w), v)
              /\ ShowsText(w, Stored(LeafClass(w), v), text)

IsMinusOne(w, text) == w.leaf = "timeToGo" /\ text = Number(-1)

LEMMA NotDashes ==
    ASSUME NEW text \in Texts, NEW type \in Types, HasValue(type, text)
    PROVE  text # Dashes /\ text.n \in Int /\ text.n \in RangeOf(type)
<1>1. text.n \in Int
  BY TextRecords
<1>2. text.kind = "number" /\ InRange(type, text.n)
  BY DEF HasValue
<1>3. text # Dashes
  BY <1>2 DEF Dashes
<1> QED
  BY <1>1, <1>2, <1>3, InRangeIs

(* A leaf that shows the number of a text.                                 *)
LEMMA NumberShown ==
    ASSUME NEW w, NEW text, NEW v,
           LeafClass(w) \in NumberLeaves, LeafClass(w) # Int16Leaf,
           ~(w.leaf = "voltage" /\ w.device = "BMV"),
           text # Dashes, ~IsMinusOne(w, text),
           Fits(LeafClass(w), v), Magnitude(v.value) = Magnitude(text.n)
    PROVE  FieldDoes(w, text, Reading(v))
<1>1. LeafClass(w).kind = "number"
  BY LeavesAre
<1>2. Stored(LeafClass(w), v) = v
  BY <1>1 DEF Stored
<1>3. ShowsText(w, v, text)
  BY <1>1 DEF ShowsText, IsMinusOne
<1> QED
  BY <1>2, <1>3 DEF FieldDoes

LEMMA LargestShown ==
    ASSUME NEW w, NEW text, NEW v,
           LeafClass(w) \in NumberLeaves,
           text = Dashes \/ IsMinusOne(w, text),
           Fits(LeafClass(w), v), v.value \in Largest
    PROVE  FieldDoes(w, text, Reading(v))
<1>1. LeafClass(w).kind = "number"
  BY LeavesAre
<1>2. Stored(LeafClass(w), v) = v
  BY <1>1 DEF Stored
<1>3. ShowsText(w, v, text)
  BY <1>1 DEF ShowsText, IsMinusOne, Largest
<1> QED
  BY <1>2, <1>3 DEF FieldDoes

(* The leaves of the unsigned types.                                       *)
LeafOfType(type) ==
    CASE type = "uint8" -> UInt8Leaf
      [] type = "uint16" -> UInt16Leaf
      [] type = "uint32" -> UInt32Leaf

LEMMA PlainFits ==
    ASSUME NEW type \in UnsignedTypes, NEW n \in Int
    PROVE  /\ Fits(LeafOfType(type), Plain(type, n))
           /\ LeafOfType(type) \in NumberLeaves
           /\ LeafOfType(type) # Int16Leaf
<1>1. type \in Types
  BY DEF Types
<1> DEFINE v == Plain(type, n)
<1>2. v.value \in Int /\ v.value \in RangeOf(type) /\ v.denominatorExponent = 0
  BY <1>1, PlainIs
<1>3. v.denominatorExponent \in Exponents
  BY <1>2 DEF Exponents
<1> HIDE DEF v
<1>4. CASE type = "uint8"
  <2>1. LeafOfType(type) = UInt8Leaf /\ v.value \in Byte
    BY <1>2, <1>4, Ranges DEF LeafOfType
  <2> QED
    BY <1>2, <1>3, <2>1, NumbersFit, LeavesAre DEF v, NumberLeaves
<1>5. CASE type = "uint16"
  <2>1. LeafOfType(type) = UInt16Leaf /\ v.value \in Number16
    BY <1>2, <1>5, Ranges DEF LeafOfType
  <2> QED
    BY <1>2, <1>3, <2>1, NumbersFit, LeavesAre DEF v, NumberLeaves
<1>6. CASE type = "uint32"
  <2>1. LeafOfType(type) = UInt32Leaf
    BY <1>6 DEF LeafOfType
  <2> QED
    BY <1>2, <1>3, <2>1, NumbersFit, LeavesAre DEF v, NumberLeaves
<1> QED
  BY <1>4, <1>5, <1>6 DEF UnsignedTypes

(* The fields with an exception.                                           *)
LEMMA ExceptedDoes ==
    ASSUME NEW w, NEW text \in Texts, NEW type \in UnsignedTypes,
           LeafClass(w) = LeafOfType(type),
           NEW f, f.exceptionValue \in Int, Plain(type, f.exceptionValue).value \in Largest,
           f.exceptionMatch = <<>> \/ (w.leaf = "timeToGo" /\ f.exceptionMatch = <<Number(-1)>>),
           IsException(text, f)
    PROVE  FieldDoes(w, text, Excepted(type, text, f))
<1>1. text = Dashes \/ IsMinusOne(w, text)
  <2>1. ASSUME NEW a, NEW b PROVE <<a>> # <<>> /\ (<<a>> = <<b>> => a = b)
    OBVIOUS
  <2>2. text = Dashes \/ <<text>> = f.exceptionMatch
    BY DEF IsException
  <2> QED
    BY <2>1, <2>2 DEF IsMinusOne
<1>2. Fits(LeafClass(w), Plain(type, f.exceptionValue)) /\ LeafClass(w) \in NumberLeaves
  BY PlainFits
<1> QED
  BY <1>1, <1>2, LargestShown DEF Excepted

LEMMA NoMinusOne ==
    ASSUME NEW w, NEW text \in Texts, NEW type \in UnsignedTypes, text.n \in RangeOf(type)
    PROVE  ~IsMinusOne(w, text)
<1>1. text.n >= 0
  <2>1. LowOf(type) = 0
    BY DEF LowOf, UnsignedTypes, SignedTypes
  <2> QED
    BY <2>1 DEF RangeOf
<1>2. Number(-1).n = -1
  BY DEF Number
<1> QED
  BY <1>1, <1>2 DEF IsMinusOne

LEMMA ReadDoes ==
    ASSUME NEW w, NEW text \in Texts, NEW type \in UnsignedTypes,
           LeafClass(w) = LeafOfType(type),
           ~(w.leaf = "voltage" /\ w.device = "BMV"),
           text # Dashes, text.n \in RangeOf(type)
    PROVE  FieldDoes(w, text, Reading(Plain(type, text.n)))
<1>1. type \in Types /\ text.n \in Int
  BY TextRecords DEF Types
<1>2. Plain(type, text.n).value = text.n
  BY <1>1, PlainIs
<1>3. /\ Fits(LeafClass(w), Plain(type, text.n))
      /\ LeafClass(w) \in NumberLeaves /\ LeafClass(w) # Int16Leaf
  BY <1>1, PlainFits
<1> QED
  BY <1>2, <1>3, NoMinusOne, NumberShown

LEMMA PlainFieldDoes ==
    ASSUME NEW w, NEW text \in Texts, NEW type \in UnsignedTypes,
           LeafClass(w) = LeafOfType(type),
           ~(w.leaf = "voltage" /\ w.device = "BMV"),
           NEW f, f.exceptionValue \in Int, Plain(type, f.exceptionValue).value \in Largest,
           f.exceptionMatch = <<>> \/ (w.leaf = "timeToGo" /\ f.exceptionMatch = <<Number(-1)>>)
    PROVE  FieldDoes(w, text, PlainField(type, text, f)) /\ FieldDoes(w, text, HexField(type, text, f))
<1>1. type \in Types
  BY DEF Types
<1>2. FieldDoes(w, text, Failure)
  BY DEF FieldDoes
<1>3. CASE IsException(text, f)
  BY <1>3, ExceptedDoes DEF PlainField, HexField
<1>4. CASE ~IsException(text, f)
  <2>1. text # Dashes
    BY <1>4 DEF IsException
  <2>2. FieldDoes(w, text, PlainField(type, text, f))
    <3>1. CASE HasValue(type, text)
      BY <1>1, <1>4, <3>1, NotDashes, ReadDoes DEF PlainField
    <3>2. CASE ~HasValue(type, text)
      BY <1>2, <1>4, <3>2 DEF PlainField
    <3> QED
      BY <3>1, <3>2
  <2>3. FieldDoes(w, text, HexField(type, text, f))
    <3>1. CASE text.kind = "hex" /\ InRange(type, text.n)
      <4>1. text.n \in RangeOf(type)
        BY <1>1, <3>1, TextRecords, InRangeIs
      <4> QED
        BY <1>4, <2>1, <3>1, <4>1, ReadDoes DEF HexField
    <3>2. CASE ~(text.kind = "hex" /\ InRange(type, text.n))
      BY <1>2, <1>4, <3>2 DEF HexField
    <3> QED
      BY <3>1, <3>2
  <2> QED
    BY <2>2, <2>3
<1> QED
  BY <1>3, <1>4

IsArguments(f) ==
    \E d, i, m, e : f = [digits |-> d, invert |-> i, exceptionMatch |-> m, exceptionValue |-> e]

LEMMA ArgumentsOfWire == ASSUME NEW w PROVE IsArguments(ArgumentsOf(w))
<1>1. ASSUME NEW class, NEW d, NEW i, NEW m PROVE IsArguments(FieldArguments(class, d, i, m))
  BY DEF IsArguments, FieldArguments
<1>2. IsArguments(MPPTFieldArguments(w.leaf))
  BY <1>1 DEF MPPTFieldArguments
<1>3. IsArguments(BMVFieldArguments(w.leaf))
  <2>1. ASSUME NEW d, NEW m, NEW S PROVE IsArguments(FieldArguments(BMVFieldClass(w.leaf), d, w.leaf \in S, m))
    BY Zenon DEF IsArguments, FieldArguments
  <2> QED
    BY <2>1, Zenon DEF BMVFieldArguments
<1> QED
  BY <1>2, <1>3 DEF ArgumentsOf

LEMMA OtherArguments ==
    ASSUME NEW f, IsArguments(f), NEW x, NEW y
    PROVE  /\ [f EXCEPT !.invert = x].digits = f.digits
           /\ [f EXCEPT !.invert = x].invert = x
           /\ [f EXCEPT !.exceptionValue = y].exceptionValue = y
           /\ [f EXCEPT !.exceptionValue = y].exceptionMatch = f.exceptionMatch
<1>1. PICK d, i, m, e : f = [digits |-> d, invert |-> i, exceptionMatch |-> m, exceptionValue |-> e]
  BY DEF IsArguments
<1> DEFINE a(z, g, u, v) == [[digits |-> z, invert |-> g, exceptionMatch |-> u, exceptionValue |-> v]
                                EXCEPT !.invert = x]
           b(z, g, u, v) == [[digits |-> z, invert |-> g, exceptionMatch |-> u, exceptionValue |-> v]
                                EXCEPT !.exceptionValue = y]
<1>2. ASSUME NEW z, NEW g, NEW u, NEW v
      PROVE  /\ a(z, g, u, v).digits = z
             /\ a(z, g, u, v).invert = x
             /\ b(z, g, u, v).exceptionValue = y
             /\ b(z, g, u, v).exceptionMatch = u
  OBVIOUS
<1>3. [f EXCEPT !.invert = x] = a(d, i, m, e) /\ [f EXCEPT !.exceptionValue = y] = b(d, i, m, e)
  BY <1>1
<1>4. f.digits = d /\ f.exceptionMatch = m
  BY <1>1
<1> HIDE DEF a, b
<1> QED
  BY <1>2, <1>3, <1>4

(* The scaled fields.                                                      *)
LEMMA ScaledFieldDoes ==
    ASSUME NEW w, NEW text \in Texts, NEW type \in {"uint16", "uint32", "int32"},
           LeafClass(w) = ScaledLeaf,
           ~(w.leaf = "voltage" /\ w.device = "BMV"), w.leaf # "timeToGo",
           NEW g, g.digits \in Exponents, g.invert \in BOOLEAN, type # "int32" => g.invert = FALSE
    PROVE  FieldDoes(w, text, ScaledField(type, text, g))
<1>1. CASE text = Dashes
  BY <1>1 DEF ScaledField, FieldDoes
<1>2. CASE text # Dashes /\ ~HasValue(type, text)
  BY <1>2 DEF ScaledField, FieldDoes
<1>3. CASE text # Dashes /\ HasValue(type, text)
  <2> DEFINE n == text.n
             m == Inverted(g.invert, n)
             v == Scaled(type, m, g.digits)
  <2>1. type \in Types
    BY TypeNames
  <2>2. n \in Int /\ n \in RangeOf(type)
    BY <1>3, <2>1, NotDashes
  <2> HIDE DEF n
  <2>3. m \in Int /\ Magnitude(Wrap(type, m)) = Magnitude(n)
    <3>1. CASE g.invert = TRUE
      <4>1. type = "int32"
        BY <3>1
      <4>2. m = -n
        BY <3>1 DEF Inverted
      <4> QED
        BY <2>2, <4>1, <4>2, TurnedRound
    <3>2. CASE g.invert = FALSE
      <4>1. m = n
        BY <3>2 DEF Inverted
      <4> QED
        BY <2>1, <2>2, <4>1, Wrapped
    <3> QED
      BY <3>1, <3>2
  <2> HIDE DEF m
  <2>4. v.value = Wrap(type, m) /\ v.value \in Int /\ v.denominatorExponent \in Exponents
    BY <2>1, <2>3, ScaledIs
  <2>5. ScaledField(type, text, g) = Reading(v)
    BY <1>3 DEF ScaledField, m, n
  <2> HIDE DEF v
  <2>6. Fits(LeafClass(w), v)
    BY <2>4, NumbersFit
  <2>7. LeafClass(w) \in NumberLeaves /\ LeafClass(w) # Int16Leaf
    BY LeavesAre DEF NumberLeaves
  <2>8. ~IsMinusOne(w, text)
    BY DEF IsMinusOne
  <2> QED
    BY <1>3, <2>3, <2>4, <2>5, <2>6, <2>7, <2>8, NumberShown DEF n
<1> QED
  BY <1>1, <1>2, <1>3

(* The leaves of 16 bits with a sign.                                      *)
LEMMA Int16Shown ==
    ASSUME NEW w, NEW text \in Texts, LeafClass(w) = Int16Leaf, text # Dashes, w.leaf # "timeToGo"
    PROVE  FieldDoes(w, text, Reading(Plain("int16", text.n)))
<1> DEFINE v == Plain("int16", text.n)
<1>1. v.value = Wrap("int16", text.n) /\ v.value \in Int /\ v.denominatorExponent = 0
  <2>1. text.n \in Int /\ "int16" \in Types
    BY TextRecords, TypeNames
  <2> QED
    BY <2>1, PlainIs
<1>2. v.denominatorExponent \in Exponents
  BY <1>1 DEF Exponents
<1> HIDE DEF v
<1>3. Fits(LeafClass(w), v)
  BY <1>1, <1>2, NumbersFit
<1>4. LeafClass(w).kind = "number"
  BY DEF Int16Leaf, NumberLeaf
<1>5. Stored(LeafClass(w), v) = v /\ ShowsText(w, v, text)
  BY <1>1, <1>4 DEF Stored, ShowsText
<1> QED
  BY <1>3, <1>5 DEF FieldDoes, v

LEMMA Int16FieldDoes ==
    ASSUME NEW w, NEW text \in Texts, LeafClass(w) = Int16Leaf, w.leaf # "timeToGo",
           NEW f, f.invert = FALSE
    PROVE  /\ FieldDoes(w, text, Int16Field(text, f))
           /\ FieldDoes(w, text, BMVTemperatureField(text, f))
<1>1. FieldDoes(w, text, Int16Field(text, f))
  <2>1. CASE HasValue("int32", text)
    <3>1. text # Dashes
      BY <2>1, NotDashes, TypeNames
    <3>2. Int16Field(text, f) = Reading(Plain("int16", text.n))
      BY <2>1 DEF Int16Field, Inverted
    <3> QED
      BY <3>1, <3>2, Int16Shown
  <2>2. CASE ~HasValue("int32", text)
    BY <2>2 DEF Int16Field, FieldDoes
  <2> QED
    BY <2>1, <2>2
<1>2. FieldDoes(w, text, BMVTemperatureField(text, f))
  <2>1. CASE text = Dashes
    BY <2>1 DEF BMVTemperatureField, FieldDoes
  <2>2. CASE text # Dashes /\ HasValue("int16", text)
    BY <2>2, Int16Shown DEF BMVTemperatureField
  <2>3. CASE text # Dashes /\ ~HasValue("int16", text)
    BY <2>3 DEF BMVTemperatureField, FieldDoes
  <2> QED
    BY <2>1, <2>2, <2>3
<1> QED
  BY <1>1, <1>2

LEMMA OnOffFieldDoes ==
    ASSUME NEW w, NEW text \in Texts, LeafClass(w) = BoolLeaf,
           ~(w.leaf = "voltage" /\ w.device = "BMV"), NEW f
    PROVE  FieldDoes(w, text, OnOffField(text, f))
<1>1. LeafClass(w) \in NumberLeaves /\ LeafClass(w) # Int16Leaf
  BY LeavesAre DEF NumberLeaves
<1>2. ASSUME NEW b \in {0, 1}
      PROVE  Plain("uint8", b).value = b /\ Fits(BoolLeaf, Plain("uint8", b))
  <2>1. b \in Int /\ "uint8" \in Types /\ b \in RangeOf("uint8")
    BY Ranges, TypeNames, ByteNumbers
  <2>2. Plain("uint8", b).value = b /\ Plain("uint8", b).denominatorExponent = 0
    BY <2>1, PlainIs
  <2>3. Plain("uint8", b).denominatorExponent \in Exponents
    BY <2>2 DEF Exponents
  <2> QED
    BY <2>1, <2>2, <2>3, NumbersFit
<1>3. CASE text = On
  <2>1. OnOffField(text, f) = Reading(Plain("uint8", 1))
    BY <1>3 DEF OnOffField, Bool
  <2>2. text # Dashes /\ text.n = 1 /\ ~IsMinusOne(w, text)
    BY <1>3 DEF On, Dashes, IsMinusOne, Number
  <2>3. Magnitude(1) = Magnitude(text.n)
    BY <2>2
  <2> QED
    BY <1>1, <1>2, <2>1, <2>2, <2>3, NumberShown
<1>4. CASE text = Off
  <2>1. OnOffField(text, f) = Reading(Plain("uint8", 0))
    <3>1. Off # On
      BY DEF Off, On
    <3> QED
      BY <1>4, <3>1 DEF OnOffField, Bool
  <2>2. text # Dashes /\ text.n = 0 /\ ~IsMinusOne(w, text)
    BY <1>4 DEF Off, Dashes, IsMinusOne, Number
  <2>3. Magnitude(0) = Magnitude(text.n)
    BY <2>2
  <2> QED
    BY <1>1, <1>2, <2>1, <2>2, <2>3, NumberShown
<1>5. CASE text \notin {On, Off}
  BY <1>5 DEF OnOffField, FieldDoes
<1> QED
  BY <1>3, <1>4, <1>5

LEMMA StringFieldDoes ==
    ASSUME NEW w, NEW text \in Texts, NEW size \in Nat, LeafClass(w) = StringLeaf(size), NEW f
    PROVE  FieldDoes(w, text, StringField(text, f))
<1>1. LeafClass(w).kind = "string" /\ LeafClass(w).size = size
  BY DEF StringLeaf
<1>2. Fits(LeafClass(w), text)
  BY <1>1 DEF Fits
<1>3. ShowsText(w, Stored(LeafClass(w), text), text)
  BY <1>1 DEF ShowsText, Stored
<1> QED
  BY <1>2, <1>3 DEF FieldDoes, StringField

LEMMA BMVVoltageFieldDoes ==
    ASSUME NEW w, NEW text \in Texts, LeafClass(w) = ScaledLeaf,
           w.leaf = "voltage", w.device = "BMV", NEW f
    PROVE  FieldDoes(w, text, BMVVoltageField(text, f))
<1>1. CASE text = Dashes
  BY <1>1 DEF BMVVoltageField, FieldDoes
<1>2. CASE text # Dashes /\ ~HasValue("int32", text)
  BY <1>2 DEF BMVVoltageField, FieldDoes
<1>3. CASE text # Dashes /\ HasValue("int32", text)
  <2> DEFINE q == Quotient(text.n, 10)
             v == ScaledInt16(q, 2)
  <2>1. "int16" \in Types /\ text.n \in Int /\ 2 \in Exponents
    BY TypeNames, TextRecords DEF Exponents
  <2>2. q \in Int /\ Magnitude(q) = Magnitude(text.n) \div 10
    BY <2>1, QuotientIs
  <2>3. BMVVoltageField(text, f) = Reading(v)
    BY <1>3 DEF BMVVoltageField
  <2>4. /\ v.value = Wrap("int16", q) /\ v.value \in Int /\ v.denominatorExponent \in Exponents
        /\ InRange("int16", q) => v.value = q
    BY <2>1, <2>2, ScaledIs, InRangeIs DEF ScaledInt16
  <2>5. LeafClass(w).kind = "number" /\ LeafClass(w) # Int16Leaf
    BY LeavesAre DEF NumberLeaves
  <2>6. ShowsText(w, v, text)
    <3> HIDE DEF v
    <3>1. InRange("int16", q) => Magnitude(v.value) = Magnitude(text.n) \div 10
      BY <2>2, <2>4
    <3> QED
      BY <1>3, <2>5, <3>1 DEF ShowsText
  <2> HIDE DEF v
  <2>7. Fits(LeafClass(w), v) /\ Stored(LeafClass(w), v) = v
    BY <2>4, <2>5, NumbersFit DEF Stored
  <2> QED
    BY <2>3, <2>6, <2>7 DEF FieldDoes
<1> QED
  BY <1>1, <1>2, <1>3

LEMMA BMVCurrentFieldDoes ==
    ASSUME NEW w, NEW text \in Texts, LeafClass(w) = ScaledLeaf,
           ~(w.leaf = "voltage" /\ w.device = "BMV"), w.leaf # "timeToGo", NEW f
    PROVE  FieldDoes(w, text, BMVCurrentField(text, f))
<1> DEFINE g == [digits |-> 3, invert |-> FALSE]
<1>1. g.digits \in Exponents /\ g.invert \in BOOLEAN /\ g.digits = 3
  BY DEF Exponents
<1>2. BMVCurrentField(text, f) = ScaledField("int32", text, g)
  BY DEF BMVCurrentField, ScaledField, ScaledInt32, Inverted
<1> HIDE DEF g
<1> QED
  BY <1>1, <1>2, ScaledFieldDoes

LEMMA ExceptionsAre ==
    ASSUME NEW class \in {"UInt8", "UInt16", "HexUInt16", "HexUInt32"}, NEW type \in UnsignedTypes,
           \/ class = "UInt8" /\ type = "uint8"
           \/ class \in {"UInt16", "HexUInt16"} /\ type = "uint16"
           \/ class = "HexUInt32" /\ type = "uint32"
    PROVE  /\ ExceptionFor(class) \in Int
           /\ Plain(type, ExceptionFor(class)).value \in Largest
<1>1. ExceptionFor(class) = MaxOf(type)
  BY DEF ExceptionFor
<1>2. type \in Types
  BY DEF Types
<1>3. MaxOf(type) \in Int /\ MaxOf(type) \in RangeOf(type)
  BY <1>2, MaxInRange
<1>4. Plain(type, MaxOf(type)).value = MaxOf(type)
  BY <1>2, <1>3, PlainIs
<1>5. MaxOf(type) \in Largest
  BY DEF Largest, UnsignedTypes
<1> QED
  BY <1>1, <1>3, <1>4, <1>5

LEMMA ExceptionOfUInt32 ==
    LET e == Wrap("uint16", ExceptionFor("UInt32"))
    IN  e \in Int /\ Plain("uint32", e).value \in Largest
<1>1. Wrap("uint16", ExceptionFor("UInt32")) = MaxOf("uint16")
  BY LowWord DEF ExceptionFor
<1>2. MaxOf("uint16") \in Int /\ MaxOf("uint16") \in Number16
  BY MaxInRange, TypeNames, Ranges
<1>3. MaxOf("uint16") \in Number32
  <2>1. Most16 <= Word - 1 /\ Word \in Int
    BY WordFacts, SMT DEF Most16
  <2> QED
    BY <1>2, <2>1, In16 DEF Number32
<1>4. Plain("uint32", MaxOf("uint16")).value = MaxOf("uint16")
  BY <1>2, <1>3, Ranges, TypeNames, PlainIs
<1> QED
  BY <1>1, <1>2, <1>4 DEF Largest

LEMMA FieldSays ==
    ASSUME NEW w \in TextWires, NEW text \in Texts
    PROVE  /\ FieldDoes(w, text, FieldSet(FieldClassOf(w), text, ArgumentsOf(w)))
           /\ IsLeaf(LeafClass(w))
<1> DEFINE class == FieldClassOf(w)
           f == ArgumentsOf(w)
           r == FieldSet(class, text, f)
<1>1. /\ class \in FieldClasses
      /\ LeafFor(class, LeafClass(w))
      /\ f.digits \in Exponents
      /\ f.invert \in BOOLEAN
      /\ class = "Int16" => f.invert = FALSE
      /\ f.exceptionMatch = <<>> \/ (w.leaf = "timeToGo" /\ f.exceptionMatch = <<Number(-1)>>)
      /\ f.exceptionValue = ExceptionFor(class)
      /\ w.leaf = "voltage" /\ w.device = "BMV" <=> class = "BMVVoltage"
      /\ w.leaf = "timeToGo" => class = "UInt16"
  BY TextsAreWired DEF Wired
<1>2. IsArguments(f)
  BY ArgumentsOfWire
<1> HIDE DEF class, f
<1>3. CASE class \in {"UInt8", "UInt16", "HexUInt16", "HexUInt32"}
  <2>1. PICK type \in UnsignedTypes :
            \/ class = "UInt8" /\ type = "uint8"
            \/ class \in {"UInt16", "HexUInt16"} /\ type = "uint16"
            \/ class = "HexUInt32" /\ type = "uint32"
    BY <1>3 DEF UnsignedTypes
  <2>2. LeafClass(w) = LeafOfType(type)
    BY <1>1, <2>1 DEF LeafFor, LeafOfType, Plain32s, ScaledFields
  <2>3. f.exceptionValue \in Int /\ Plain(type, f.exceptionValue).value \in Largest
    BY <1>1, <1>3, <2>1, ExceptionsAre
  <2>4. FieldDoes(w, text, PlainField(type, text, f)) /\ FieldDoes(w, text, HexField(type, text, f))
    <3>1. ~(w.leaf = "voltage" /\ w.device = "BMV")
      BY <1>1, <1>3
    <3> QED
      BY <1>1, <2>2, <2>3, <3>1, PlainFieldDoes
  <2>5. r = PlainField(type, text, f) \/ r = HexField(type, text, f)
    BY <2>1 DEF FieldSet, UInt8Field, UInt16Field, HexUInt16Field, HexUInt32Field
  <2>6. IsLeaf(LeafClass(w))
    BY <2>2, PlainFits, LeavesAre, TypeNames
  <2> QED
    BY <2>4, <2>5, <2>6 DEF class, f
<1>4. CASE class = "UInt32"
  <2> DEFINE e == Wrap("uint16", f.exceptionValue)
             g == [f EXCEPT !.exceptionValue = Wrap("uint16", f.exceptionValue)]
  <2>1. g.exceptionValue = e /\ g.exceptionMatch = f.exceptionMatch
    BY <1>2, OtherArguments
  <2>2. e \in Int /\ Plain("uint32", e).value \in Largest
    BY <1>1, <1>4, ExceptionOfUInt32
  <2>3. "uint32" \in UnsignedTypes /\ LeafClass(w) = LeafOfType("uint32") /\ LeafClass(w) = UInt32Leaf
    BY <1>1, <1>4 DEF LeafFor, LeafOfType, UnsignedTypes, Plain32s, ScaledFields
  <2>4. r = PlainField("uint32", text, g)
    BY <1>4 DEF FieldSet, UInt32Field
  <2> HIDE DEF e, g, r
  <2>5. FieldDoes(w, text, PlainField("uint32", text, g))
    <3>1. ~(w.leaf = "voltage" /\ w.device = "BMV")
      BY <1>1, <1>4
    <3>2. g.exceptionMatch = <<>> \/ (w.leaf = "timeToGo" /\ g.exceptionMatch = <<Number(-1)>>)
      BY <1>1, <2>1
    <3> QED
      BY <2>1, <2>2, <2>3, <3>1, <3>2, PlainFieldDoes
  <2>6. IsLeaf(LeafClass(w))
    BY <2>3, LeavesAre DEF NumberLeaves
  <2> QED
    BY <2>4, <2>5, <2>6 DEF r, class, f
<1>5. CASE class \in ScaledFields
  <2> DEFINE g == [f EXCEPT !.invert = FALSE]
  <2>1. g.digits = f.digits /\ g.invert = FALSE
    BY <1>2, OtherArguments
  <2>2. LeafClass(w) = ScaledLeaf /\ ~(w.leaf = "voltage" /\ w.device = "BMV") /\ w.leaf # "timeToGo"
    BY <1>1, <1>5 DEF LeafFor, ScaledFields, Plain32s
  <2>3. \/ r = ScaledField("uint16", text, g)
        \/ r = ScaledField("uint32", text, g)
        \/ r = ScaledField("int32", text, f)
    BY <1>5 DEF FieldSet, ScaledUInt16Field, ScaledUInt32Field, ScaledInt32Field, ScaledFields
  <2> HIDE DEF g, r
  <2>4. FieldDoes(w, text, ScaledField("uint16", text, g))
    <3>1. g.digits \in Exponents /\ g.invert \in BOOLEAN
      BY <1>1, <2>1, Zenon
    <3> QED
      BY <2>1, <2>2, <3>1, ScaledFieldDoes
  <2>5. FieldDoes(w, text, ScaledField("uint32", text, g))
    <3>1. g.digits \in Exponents /\ g.invert \in BOOLEAN
      BY <1>1, <2>1, Zenon
    <3> QED
      BY <2>1, <2>2, <3>1, ScaledFieldDoes
  <2>6. FieldDoes(w, text, ScaledField("int32", text, f))
    BY <1>1, <2>2, ScaledFieldDoes
  <2>7. IsLeaf(LeafClass(w))
    BY <2>2, LeavesAre DEF NumberLeaves
  <2> QED
    BY <2>3, <2>4, <2>5, <2>6, <2>7 DEF r, class, f
<1>6. CASE class \in {"Int16", "BMVTemperature"}
  <2> DEFINE g == [f EXCEPT !.invert = FALSE]
  <2>1. g.invert = FALSE
    BY <1>2, OtherArguments
  <2>2. LeafClass(w) = Int16Leaf /\ w.leaf # "timeToGo"
    BY <1>1, <1>6 DEF LeafFor, Plain32s, ScaledFields
  <2>3. ASSUME class = "Int16" PROVE FieldDoes(w, text, r)
    <3>1. r = Int16Field(text, f)
      BY <2>3 DEF FieldSet
    <3>2. FieldDoes(w, text, Int16Field(text, f))
      BY <1>1, <2>2, <2>3, Int16FieldDoes
    <3> QED
      BY <3>1, <3>2
  <2>4. ASSUME class = "BMVTemperature" PROVE FieldDoes(w, text, r)
    <3>1. r = BMVTemperatureField(text, f) /\ r = BMVTemperatureField(text, g)
      BY <2>4 DEF FieldSet, BMVTemperatureField
    <3> HIDE DEF g, r
    <3>2. FieldDoes(w, text, BMVTemperatureField(text, g))
      BY <2>1, <2>2, Int16FieldDoes
    <3> QED
      BY <3>1, <3>2 DEF r
  <2>5. IsLeaf(LeafClass(w))
    BY <2>2, LeavesAre DEF NumberLeaves
  <2> QED
    BY <1>6, <2>3, <2>4, <2>5 DEF class, f
<1>7. CASE class = "OnOff"
  <2>1. LeafClass(w) = BoolLeaf /\ ~(w.leaf = "voltage" /\ w.device = "BMV")
    BY <1>1, <1>7 DEF LeafFor, Plain32s, ScaledFields
  <2>2. r = OnOffField(text, f)
    BY <1>7 DEF FieldSet
  <2>3. FieldDoes(w, text, OnOffField(text, f)) /\ IsLeaf(LeafClass(w))
    BY <2>1, OnOffFieldDoes, LeavesAre DEF NumberLeaves
  <2> QED
    BY <2>2, <2>3 DEF class, f
<1>8. CASE class = "String"
  <2>1. PICK size \in Nat : LeafClass(w) = StringLeaf(size)
    BY <1>1, <1>8 DEF LeafFor, Plain32s, ScaledFields
  <2>2. r = StringField(text, f)
    BY <1>8 DEF FieldSet
  <2>3. FieldDoes(w, text, StringField(text, f)) /\ IsLeaf(LeafClass(w))
    BY <2>1, StringFieldDoes DEF IsLeaf
  <2> QED
    BY <2>2, <2>3 DEF class, f
<1>9. CASE class = "BMVVoltage"
  <2>1. LeafClass(w) = ScaledLeaf /\ w.leaf = "voltage" /\ w.device = "BMV"
    BY <1>1, <1>9 DEF LeafFor, Plain32s, ScaledFields
  <2>2. r = BMVVoltageField(text, f)
    BY <1>9 DEF FieldSet
  <2>3. FieldDoes(w, text, BMVVoltageField(text, f)) /\ IsLeaf(LeafClass(w))
    BY <2>1, BMVVoltageFieldDoes, LeavesAre DEF NumberLeaves
  <2> QED
    BY <2>2, <2>3 DEF class, f
<1>10. CASE class = "BMVCurrent"
  <2>1. LeafClass(w) = ScaledLeaf /\ ~(w.leaf = "voltage" /\ w.device = "BMV") /\ w.leaf # "timeToGo"
    BY <1>1, <1>10 DEF LeafFor, Plain32s, ScaledFields
  <2>2. r = BMVCurrentField(text, f)
    BY <1>10 DEF FieldSet
  <2>3. FieldDoes(w, text, BMVCurrentField(text, f)) /\ IsLeaf(LeafClass(w))
    BY <2>1, BMVCurrentFieldDoes, LeavesAre DEF NumberLeaves
  <2> QED
    BY <2>2, <2>3 DEF class, f
<1> QED
  BY <1>1, <1>3, <1>4, <1>5, <1>6, <1>7, <1>8, <1>9, <1>10 DEF FieldClasses, Plain32s

-----------------------------------------------------------------------------
(* The leaves of registers.                                                *)
LEMMA SumOfFront ==
    ASSUME NEW sizes \in Seq(Nat), NEW f, AddsTo(sizes, f), NEW k \in 0 .. Len(sizes)
    PROVE  Sum(SubSeq(sizes, 1, k)) = f[k]
<1> DEFINE s == SubSeq(sizes, 1, k)
           g == [i \in 0 .. k |-> f[i]]
<1>1. f \in [0 .. Len(sizes) -> Nat] /\ f[0] = 0
      /\ \A i \in 1 .. Len(sizes) : f[i] = f[i - 1] + sizes[i]
  BY DEF AddsTo
<1>2. k \in Nat /\ k <= Len(sizes) /\ Len(sizes) \in Nat
  OBVIOUS
<1>3. s \in Seq(Nat) /\ Len(s) = k /\ \A i \in 1 .. k : s[i] = sizes[i]
  <2>1. 1 \in 1 .. Len(sizes) + 1 /\ k \in 1 - 1 .. Len(sizes)
    BY <1>2
  <2>2. /\ SubSeq(sizes, 1, k) \in Seq(Nat)
        /\ Len(SubSeq(sizes, 1, k)) = k - 1 + 1
        /\ \A i \in 1 .. k - 1 + 1 : SubSeq(sizes, 1, k)[i] = sizes[1 + i - 1]
    BY <2>1, SubSeqProperties
  <2>3. k - 1 + 1 = k /\ \A i \in 1 .. k : 1 + i - 1 = i
    BY <1>2
  <2> QED
    BY <2>2, <2>3
<1>4. AddsTo(s, g)
  <2>1. g \in [0 .. k -> Nat]
    BY <1>1, <1>2
  <2>2. g[0] = 0
    BY <1>1, <1>2
  <2>3. ASSUME NEW i \in 1 .. k PROVE g[i] = g[i - 1] + s[i]
    <3>1. i \in 0 .. k /\ i - 1 \in 0 .. k /\ i \in 1 .. Len(sizes)
      BY <1>2
    <3>2. g[i] = f[i] /\ g[i - 1] = f[i - 1]
      BY <3>1
    <3> QED
      BY <1>1, <1>3, <3>1, <3>2
  <2> HIDE DEF g, s
  <2> QED
    BY <1>3, <2>1, <2>2, <2>3 DEF AddsTo
<1>5. Sum(s) = g[k]
  <2> HIDE DEF g, s
  <2> QED
    BY <1>3, <1>4, AddIs
<1> QED
  BY <1>2, <1>5

(* A number of an unsigned type is its own rest.                           *)
LEMMA OwnRest ==
    ASSUME NEW type \in UnsignedTypes, NEW n \in RangeOf(type)
    PROVE  n % Modulus(type) = n
<1>1. type \in Types /\ type \notin SignedTypes /\ ~IsSigned(type)
  BY DEF Types, UnsignedTypes, SignedTypes, IsSigned
<1> DEFINE M == Modulus(type)
<1>2. M \in Nat /\ M > 0
  BY <1>1, Moduli
<1>3. RangeOf(type) = 0 .. M - 1
  BY <1>1 DEF RangeOf, LowOf, MaxOf
<1> HIDE DEF M
<1>4. (M * 0 + n) % M = n
  BY <1>2, <1>3, RemainderUnique
<1>5. M * 0 + n = n
  BY <1>2, <1>3
<1> QED
  BY <1>4, <1>5 DEF M

SizeType(size) == IF size = 4 THEN "uint32" ELSE IF size = 2 THEN "uint16" ELSE "uint8"

(* What was read of so many bytes is the number they stand for.            *)
LEMMA ReadIsContent ==
    ASSUME NEW content \in HexContents, NEW first \in Int, NEW s, DataBytes(content, first, s),
           Len(s) \in {1, 2, 4}
    PROVE  /\ LittleEndian(s) \in Int
           /\ LittleEndian(s) \in RangeOf(SizeType(Len(s)))
           /\ LittleEndian(s) % Modulus(SizeType(Len(s))) = DataNumber(content, first, Len(s))
<1> DEFINE n == LittleEndian(s)
           type == SizeType(Len(s))
<1>1. /\ n = DataNumber(content, first, Len(s))
      /\ n \in Number32
      /\ Len(s) = 1 => n \in Byte
      /\ Len(s) = 2 => n \in Number16
  BY DataIsRead
<1>2. type \in UnsignedTypes
  BY DEF SizeType, UnsignedTypes
<1>3. n \in Int
  BY <1>1, NumberInt
<1>4. n \in RangeOf(type)
  <2>1. CASE Len(s) = 1
    <3>1. type = "uint8"
      BY <2>1 DEF SizeType
    <3> QED
      BY <1>1, <2>1, <3>1, Ranges
  <2>2. CASE Len(s) = 2
    <3>1. type = "uint16"
      BY <2>2 DEF SizeType
    <3> QED
      BY <1>1, <2>2, <3>1, Ranges
  <2>3. CASE Len(s) = 4
    <3>1. type = "uint32"
      BY <2>3 DEF SizeType
    <3> QED
      BY <1>1, <3>1, Ranges
  <2> QED
    BY <2>1, <2>2, <2>3
<1>5. n % Modulus(type) = n
  BY <1>2, <1>4, OwnRest
<1> QED
  BY <1>1, <1>3, <1>4, <1>5

-----------------------------------------------------------------------------
(* The days.                                                               *)
LEMMA DayNamesAre ==
    ASSUME NEW name \in DayNames
    PROVE  \E i \in 1 .. 15 : /\ i = CHOOSE k \in DOMAIN DayLeaves : DayLeaves[k] = name
                              /\ DayLeaves[i] = name
<1>1. DOMAIN DayLeaves = 1 .. 15
  BY DEF DayLeaves
<1>2. \E k \in DOMAIN DayLeaves : DayLeaves[k] = name
  BY Zenon DEF DayNames, Range
<1> QED
  BY <1>1, <1>2

LEMMA DayIs ==
    ASSUME NEW i \in 1 .. 15
    PROVE  LET name == DayLeaves[i]
               size == DailyHistorySizes[i + 2]
           IN  /\ size \in {1, 2, 4}
               /\ DayDigits(name) \in Exponents
               /\ \/ DayClass(name) = ScaledLeaf
                  \/ DayClass(name) = UInt8Leaf /\ size = 1 /\ DayDigits(name) = 0
                  \/ DayClass(name) = UInt16Leaf /\ size = 2 /\ DayDigits(name) = 0
                  \/ DayClass(name) = UInt32Leaf /\ DayDigits(name) = 0
<1> DEFINE name == DayLeaves[i]
           size == DailyHistorySizes[i + 2]
<1>1. size = IF i + 2 \in {3, 4, 15} THEN 4 ELSE IF i + 2 \in 7 .. 11 THEN 1 ELSE 2
  <2>1. i + 2 \in 3 .. 17
    OBVIOUS
  <2> QED
    BY <2>1, DailySizes
<1> HIDE DEF size
<1>2. CASE i \in {1, 2}
  <2>1. name \in {"yield", "consumed"}
    BY <1>2 DEF DayLeaves
  <2> HIDE DEF name
  <2>2. DayClass(name) = ScaledLeaf /\ DayDigits(name) \in Exponents
    BY <2>1 DEF DayClass, DayDigits, Exponents, ScaledLeaf, ScaledUInt32Leaf
  <2> QED
    BY <1>1, <2>2 DEF name, size
<1>3. CASE i \in {3, 4, 14, 15}
  <2>1. name \in {"batteryVoltageMaximum", "batteryVoltageMinimum", "batteryCurrentMaximum",
                  "panelVoltageMaximum"}
    BY <1>3 DEF DayLeaves
  <2> HIDE DEF name
  <2>2. DayClass(name) = ScaledLeaf /\ DayDigits(name) \in Exponents
    BY <2>1 DEF DayClass, DayDigits, Exponents, ScaledLeaf, ScaledUInt16Leaf
  <2> QED
    BY <1>1, <2>2 DEF name, size
<1>4. CASE i \in 5 .. 9
  <2>1. name \in {"errorDatabase", "error0", "error1", "error2", "error3"}
    BY <1>4 DEF DayLeaves
  <2> HIDE DEF name
  <2>2. DayClass(name) = UInt8Leaf /\ DayDigits(name) = 0 /\ DayDigits(name) \in Exponents
    BY <2>1 DEF DayClass, DayDigits, Exponents
  <2>3. size = 1
    BY <1>1, <1>4
  <2> QED
    BY <2>2, <2>3 DEF name, size
<1>5. CASE i \in 10 .. 12
  <2>1. name \in {"timeBulk", "timeAbsorption", "timeFloat"}
    BY <1>5 DEF DayLeaves
  <2> HIDE DEF name
  <2>2. DayClass(name) = UInt16Leaf /\ DayDigits(name) = 0 /\ DayDigits(name) \in Exponents
    BY <2>1 DEF DayClass, DayDigits, Exponents
  <2>3. size = 2
    BY <1>1, <1>5
  <2> QED
    BY <2>2, <2>3 DEF name, size
<1>6. CASE i = 13
  <2>1. name = "powerMaximum"
    BY <1>6 DEF DayLeaves
  <2> HIDE DEF name
  <2>2. DayClass(name) = UInt32Leaf /\ DayDigits(name) = 0 /\ DayDigits(name) \in Exponents
    BY <2>1 DEF DayClass, DayDigits, Exponents
  <2>3. size = 4
    BY <1>1, <1>6
  <2> QED
    BY <2>2, <2>3 DEF name, size
<1> QED
  BY <1>2, <1>3, <1>4, <1>5, <1>6

(* The number of a register shows the content.                             *)
LEMMA SenseNumber ==
    ASSUME NEW class \in {"UInt16", "Int16", "Int32"}, NEW content \in HexContents,
           NEW digits \in Exponents, NEW r, ReadsNumber(class, content, digits, r)
    PROVE  \E v : /\ r.value = <<v>>
                  /\ v.value \in Int
                  /\ v.denominatorExponent = digits
                  /\ v.value % Modulus(SizeType(SizesOf(class)[2])) =
                        DataNumber(content, 1, SizesOf(class)[2])
<1>1. PICK s : /\ DataBytes(content, 1, s)
               /\ Len(s) = SizesOf(class)[2]
               /\ r.value = <<Scaled(TypeOf(class), LittleEndian(s), DigitsFor(class, digits))>>
  BY DEF ReadsNumber
<1>2. DigitsFor(class, digits) = digits
  BY DEF DigitsFor
<1>3. /\ TypeOf(class) \in Types
      /\ SizesOf(class)[2] \in {1, 2, 4}
      /\ Modulus(TypeOf(class)) = Modulus(SizeType(SizesOf(class)[2]))
  <2>1. CASE class = "UInt16"
    BY <2>1 DEF TypeOf, SizesOf, Types, SignedTypes, UnsignedTypes, SizeType
  <2>2. CASE class = "Int16"
    BY <2>2 DEF TypeOf, SizesOf, Types, SignedTypes, UnsignedTypes, SizeType, Modulus
  <2>3. CASE class = "Int32"
    BY <2>3 DEF TypeOf, SizesOf, Types, SignedTypes, UnsignedTypes, SizeType, Modulus
  <2> QED
    BY <2>1, <2>2, <2>3
<1> DEFINE n == LittleEndian(s)
           v == Scaled(TypeOf(class), n, digits)
<1>4. /\ n \in Int
      /\ n % Modulus(SizeType(Len(s))) = DataNumber(content, 1, Len(s))
  <2>1. 1 \in Int
    OBVIOUS
  <2> QED
    BY <1>1, <1>3, <2>1, ReadIsContent
<1> HIDE DEF n
<1>5. v.value = Wrap(TypeOf(class), n) /\ v.value \in Int /\ v.denominatorExponent = digits
  BY <1>3, <1>4, ScaledIs
<1>6. v.value % Modulus(TypeOf(class)) = n % Modulus(TypeOf(class))
  BY <1>3, <1>4, <1>5, Wrapped
<1>7. r.value = <<v>>
  BY <1>1, <1>2 DEF n
<1> HIDE DEF v
<1> QED
  BY <1>1, <1>3, <1>4, <1>5, <1>6, <1>7

(* The wires of registers with a leaf.                                     *)
IsSense(w) == RegisterClass(w) \in {"UInt16", "Int16", "Int32"}

LEMMA SenseWires ==
    ASSUME NEW w, w.kind = "hex", w.device = "MPPT",
           w.key \in {VoltageSense, TemperatureSense, CurrentSense},
           w.leaf = MPPTRegisterLeaf(w.key)[1].leaf
    PROVE  /\ w.leaf # "none"
           /\ RegisterClass(w) = MPPTRegisterClass[w.key]
           /\ IsSense(w)
           /\ ~IsHistory(w)
           /\ LeafClass(w) = ScaledLeaf
           /\ RegisterDigits(w) \in Exponents
<1>1. PICK name \in {"batteryVoltage", "batteryTemperature", "batteryCurrent"}, digits \in Exponents :
        /\ MPPTRegisterLeaf(w.key) = <<[leaf |-> name, digits |-> digits]>>
        /\ MPPTRegisterClass[w.key] \in {"UInt16", "Int16", "Int32"}
  <2>1. 2 \in Exponents /\ 3 \in Exponents
    BY DEF Exponents
  <2> QED
    BY <2>1, SenseLeaves, SenseClasses
<1>2. w.leaf = name
  BY <1>1
<1>3. RegisterClass(w) = MPPTRegisterClass[w.key]
  BY DEF RegisterClass
<1>4. ~IsHistory(w)
  BY <1>1, <1>3 DEF IsHistory
<1>5. LeafClass(w) = MPPTLeafClass(name)
  BY <1>2, <1>4 DEF LeafClass
<1>6. MPPTLeafClass(name) = ScaledLeaf
  BY DEF MPPTLeafClass, ScaledLeaf, ScaledUInt16Leaf, ScaledInt16Leaf, ScaledInt32Leaf
<1>7. RegisterDigits(w) = digits
  BY <1>1 DEF RegisterDigits
<1> QED
  BY <1>1, <1>2, <1>3, <1>4, <1>5, <1>6, <1>7 DEF IsSense

LEMMA LeafWires ==
    ASSUME NEW w \in RegisterWires, w.leaf # "none"
    PROVE  /\ w.kind = "hex"
           /\ IsSense(w) \/ (RegisterClass(w) = "DailyHistory" /\ w.leaf \in DayNames)
           /\ IsSense(w) => /\ ~IsHistory(w)
                            /\ LeafClass(w) = ScaledLeaf
                            /\ RegisterDigits(w) \in Exponents
           /\ ~IsSense(w) => IsHistory(w) /\ LeafClass(w) = DayClass(w.leaf)
<1>1. w.kind = "hex"
  BY RegisterWiresAre
<1>2. CASE /\ w.device = "MPPT"
           /\ \/ w.key = VoltageSense /\ w.leaf = "batteryVoltage"
              \/ w.key = TemperatureSense /\ w.leaf = "batteryTemperature"
              \/ w.key = CurrentSense /\ w.leaf = "batteryCurrent"
  <2>1. w.leaf = MPPTRegisterLeaf(w.key)[1].leaf
    BY <1>2, SenseLeaves
  <2>2. w.key \in {VoltageSense, TemperatureSense, CurrentSense}
    BY <1>2
  <2> QED
    BY <1>1, <1>2, <2>1, <2>2, SenseWires
<1>3. CASE RegisterClass(w) = "DailyHistory" /\ w.leaf \in DayNames
  <2>1. ~IsSense(w) /\ IsHistory(w)
    BY <1>1, <1>3 DEF IsSense, IsHistory
  <2>2. LeafClass(w) = DayClass(w.leaf)
    BY <1>1, <2>1 DEF LeafClass
  <2> QED
    BY <1>1, <1>3, <2>1, <2>2
<1> QED
  BY <1>2, <1>3, RegisterWiresAre

(* What a message comes to at the leaf of its register.                    *)
LeafAfter(w, content, taken, effect, t) ==
    /\ Shown(LeafClass(w), effect.leaf, SentTo(t, effect))
    /\ ~IsHistory(w) /\ ~taken => ~effect.leaf.hasBeenSet
    /\ taken => effect.leaf.hasBeenSet /\ ShowsContent(w, effect.leaf.value[1], content)

LEMMA SenseLeafDoes ==
    ASSUME NEW w \in RegisterWires, w.leaf # "none", IsSense(w),
           NEW l, NEW t, Shown(LeafClass(w), l, t),
           NEW content \in HexContents, NEW f, NEW r,
           RegisterDoes(RegisterClass(w), content, RegisterDigits(w), f, r)
    PROVE  LeafAfter(w, content, r.ok, TakeRegister(w, l, r), t)
<1> DEFINE class == RegisterClass(w)
           effect == TakeRegister(w, l, r)
<1>1. /\ class \in {"UInt16", "Int16", "Int32"} /\ class \in NumberClasses
      /\ ~IsHistory(w)
      /\ LeafClass(w) = ScaledLeaf
      /\ RegisterDigits(w) \in Exponents
  BY LeafWires DEF IsSense, NumberClasses
<1>2. IsLeaf(ScaledLeaf) /\ ScaledLeaf.kind # "string"
  BY LeavesAre DEF NumberLeaves
<1>3. effect = TakeReading(ScaledLeaf, l, r)
  BY <1>1 DEF TakeRegister
<1>4. /\ r = Failure \/ \E v : r = Reading(v)
      /\ r.ok => ReadsNumber(class, content, RegisterDigits(w), r)
  BY <1>1 DEF RegisterDoes
<1> HIDE DEF effect
<1>5. CASE r.ok
  <2>1. PICK v : /\ r.value = <<v>>
                 /\ v.value \in Int
                 /\ v.denominatorExponent = RegisterDigits(w)
                 /\ v.value % Modulus(SizeType(SizesOf(class)[2])) =
                        DataNumber(content, 1, SizesOf(class)[2])
    BY <1>1, <1>4, <1>5, SenseNumber
  <2>2. Fits(ScaledLeaf, v)
    BY <1>1, <2>1, NumbersFit
  <2>3. effect = Assign(ScaledLeaf, l, v)
    <3>1. r.value # <<>> /\ r.value[1] = v
      BY <2>1
    <3> QED
      BY <1>3, <3>1 DEF TakeReading
  <2>4. /\ Shown(ScaledLeaf, effect.leaf, SentTo(t, effect))
        /\ effect.leaf.hasBeenSet
        /\ effect.leaf.value[1] = Stored(ScaledLeaf, v)
    BY <1>1, <1>2, <2>2, <2>3, Assigned
  <2>5. Stored(ScaledLeaf, v) = v
    BY <1>2 DEF Stored
  <2>6. ShowsContent(w, v, content)
    <3> DEFINE size == SizesOf(class)[2]
    <3>1. v.value % Modulus(IF size = 4 THEN "uint32" ELSE IF size = 2 THEN "uint16" ELSE "uint8") =
          DataNumber(content, 1, size)
      BY <2>1 DEF SizeType
    <3> HIDE DEF size
    <3>2. [first |-> 1, size |-> size].first = 1 /\ [first |-> 1, size |-> size].size = size
      OBVIOUS
    <3> QED
      BY <1>1, <3>1, <3>2 DEF ShowsContent, size
  <2> QED
    BY <1>1, <1>5, <2>4, <2>5, <2>6 DEF LeafAfter, effect
<1>6. CASE ~r.ok
  <2>1. r.value = <<>>
    BY <1>4, <1>6 DEF Failure, Reading
  <2>2. effect = RemoveValue(l)
    BY <1>3, <2>1 DEF TakeReading
  <2>3. Shown(ScaledLeaf, effect.leaf, SentTo(t, effect)) /\ ~effect.leaf.hasBeenSet
    BY <1>1, <2>2, Removed
  <2> QED
    BY <1>1, <1>6, <2>3 DEF LeafAfter, effect
<1> QED
  BY <1>5, <1>6

(* The number of a day shows its place in the content.                     *)
LEMMA DayNumber ==
    ASSUME NEW name \in DayNames, NEW content \in HexContents,
           NEW f, AddsTo(DailyHistorySizes, f), NEW r, ReadsDay(content, f, r)
    PROVE  LET v == r.value[1][name]
               place == DayPlace(name)
           IN  /\ IsLeaf(DayClass(name)) /\ DayClass(name).kind # "string"
               /\ DayClass(name) # Int16Leaf
               /\ Fits(DayClass(name), v)
               /\ v.value % Modulus(SizeType(place.size)) =
                        DataNumber(content, place.first, place.size)
<1> DEFINE v == r.value[1][name]
           place == DayPlace(name)
<1>1. PICK i \in 1 .. 15 : /\ i = CHOOSE k \in DOMAIN DayLeaves : DayLeaves[k] = name
                           /\ DayLeaves[i] = name
  BY DayNamesAre
<1>2. PICK n \in Seq(Int) :
        /\ r.value = <<DayValues(n)>>
        /\ \A j \in 3 .. 17 : \E s : /\ DataBytes(content, f[j - 1], s)
                                     /\ Len(s) = DailyHistorySizes[j]
                                     /\ n[j] = LittleEndian(s)
  BY DEF ReadsDay
<1> DEFINE size == DailyHistorySizes[i + 2]
<1>3. v = [value |-> n[i + 2], denominatorExponent |-> DayDigits(name)]
  <2>1. r.value[1] = DayValues(n)
    BY <1>2
  <2>2. name \in Range(DayLeaves)
    BY DEF DayNames
  <2>3. DayValues(n)[name] =
            LET k == CHOOSE k \in DOMAIN DayLeaves : DayLeaves[k] = name IN
            [value |-> n[k + 2], denominatorExponent |-> DayDigits(name)]
    BY <2>2, Zenon DEF DayValues
  <2> QED
    BY <1>1, <2>1, <2>3
<1>4. /\ size \in {1, 2, 4}
      /\ DayDigits(name) \in Exponents
      /\ \/ DayClass(name) = ScaledLeaf
         \/ DayClass(name) = UInt8Leaf /\ size = 1 /\ DayDigits(name) = 0
         \/ DayClass(name) = UInt16Leaf /\ size = 2 /\ DayDigits(name) = 0
         \/ DayClass(name) = UInt32Leaf /\ DayDigits(name) = 0
  BY <1>1, DayIs
<1>5. PICK s : /\ DataBytes(content, f[i + 1], s)
               /\ Len(s) = size
               /\ n[i + 2] = LittleEndian(s)
  <2> DEFINE j == i + 2
  <2>1. j \in 3 .. 17 /\ j - 1 = i + 1
    OBVIOUS
  <2> HIDE DEF j
  <2>2. \E s : DataBytes(content, f[j - 1], s) /\ Len(s) = DailyHistorySizes[j] /\ n[j] = LittleEndian(s)
    BY <1>2, <2>1
  <2> QED
    BY <2>1, <2>2 DEF j
<1>6. place.first = f[i + 1] /\ place.size = size /\ f[i + 1] \in Int
  <2>1. place = [first |-> Sum(SubSeq(DailyHistorySizes, 1, i + 1)), size |-> size]
    BY <1>1 DEF DayPlace
  <2>2. DailyHistorySizes \in Seq(Nat) /\ Len(DailyHistorySizes) = 18
    BY DailySizes
  <2>3. i + 1 \in 0 .. Len(DailyHistorySizes)
    BY <2>2
  <2>4. Sum(SubSeq(DailyHistorySizes, 1, i + 1)) = f[i + 1]
    BY <2>2, <2>3, SumOfFront
  <2>5. f[i + 1] \in Int
    BY <2>3 DEF AddsTo
  <2> HIDE DEF place, size
  <2> QED
    BY <2>1, <2>4, <2>5
<1>7. /\ v.value = LittleEndian(s)
      /\ v.denominatorExponent = DayDigits(name)
  BY <1>3, <1>5
<1> HIDE DEF v, size, place
<1>8. /\ LittleEndian(s) \in Int
      /\ LittleEndian(s) \in RangeOf(SizeType(size))
      /\ LittleEndian(s) % Modulus(SizeType(size)) = DataNumber(content, f[i + 1], size)
  BY <1>4, <1>5, <1>6, ReadIsContent
<1>9. Fits(DayClass(name), v) /\ DayClass(name) \in {ScaledLeaf, UInt8Leaf, UInt16Leaf, UInt32Leaf}
  <2>1. /\ Fits(ScaledLeaf, v)
        /\ v.denominatorExponent = 0 =>
                /\ Fits(UInt32Leaf, v)
                /\ v.value \in Number16 => Fits(UInt16Leaf, v)
                /\ v.value \in Byte => Fits(UInt8Leaf, v)
    BY <1>4, <1>7, <1>8, NumbersFit
  <2>2. size = 1 => v.value \in Byte
    <3>1. size = 1 => SizeType(size) = "uint8"
      BY DEF SizeType
    <3> QED
      BY <1>7, <1>8, <3>1, Ranges
  <2>3. size = 2 => v.value \in Number16
    <3>1. size = 2 => SizeType(size) = "uint16"
      BY DEF SizeType
    <3> QED
      BY <1>7, <1>8, <3>1, Ranges
  <2> QED
    BY <1>4, <1>7, <2>1, <2>2, <2>3
<1>10. /\ IsLeaf(DayClass(name)) /\ DayClass(name).kind # "string"
       /\ DayClass(name) # Int16Leaf
  <2>1. DayClass(name) \in NumberLeaves
    BY <1>9 DEF NumberLeaves
  <2>2. IsLeaf(DayClass(name)) /\ DayClass(name).kind = "number"
    BY <2>1, LeavesAre
  <2> QED
    BY <1>9, <2>2, LeavesAre
<1> QED
  BY <1>6, <1>7, <1>8, <1>9, <1>10 DEF v, place

LEMMA DayLeafDoes ==
    ASSUME NEW w \in RegisterWires, w.leaf # "none", ~IsSense(w),
           NEW l, NEW t, Shown(LeafClass(w), l, t),
           NEW content \in HexContents, NEW f, AddsTo(SizesOf(RegisterClass(w)), f), NEW r,
           RegisterDoes(RegisterClass(w), content, RegisterDigits(w), f, r)
    PROVE  LeafAfter(w, content, r.ok, TakeRegister(w, l, r), t)
<1> DEFINE class == DayClass(w.leaf)
           effect == TakeRegister(w, l, r)
<1>1. /\ RegisterClass(w) = "DailyHistory"
      /\ w.leaf \in DayNames
      /\ IsHistory(w)
      /\ LeafClass(w) = class
  BY LeafWires
<1>2. AddsTo(DailyHistorySizes, f)
  BY <1>1 DEF SizesOf
<1>3. CASE r.ok
  <2> DEFINE v == r.value[1][w.leaf]
             place == DayPlace(w.leaf)
  <2>1. ReadsDay(content, f, r)
    BY <1>1, <1>3 DEF RegisterDoes
  <2>2. /\ IsLeaf(class) /\ class.kind # "string"
        /\ Fits(class, v)
        /\ v.value % Modulus(SizeType(place.size)) =
                        DataNumber(content, place.first, place.size)
    BY <1>1, <1>2, <2>1, DayNumber
  <2>3. effect = Assign(class, l, v)
    BY <1>1, <1>3 DEF TakeRegister
  <2> HIDE DEF effect, v, class
  <2>4. /\ Shown(class, effect.leaf, SentTo(t, effect))
        /\ effect.leaf.hasBeenSet
        /\ effect.leaf.value[1] = Stored(class, v)
    BY <1>1, <2>2, <2>3, Assigned
  <2>5. Stored(class, v) = v
    BY <2>2 DEF Stored
  <2>6. ShowsContent(w, v, content)
    BY <1>1, <2>2 DEF ShowsContent, SizeType
  <2> QED
    BY <1>1, <1>3, <2>4, <2>5, <2>6 DEF LeafAfter, effect
<1>4. CASE ~r.ok
  <2>1. effect = [leaf |-> l, sent |-> <<>>]
    BY <1>1, <1>4 DEF TakeRegister
  <2> HIDE DEF effect
  <2>2. effect.leaf = l /\ SentTo(t, effect) = t
    BY <2>1 DEF SentTo
  <2> QED
    BY <1>1, <1>4, <2>2 DEF LeafAfter, effect
<1> QED
  BY <1>3, <1>4

(* A message of a register with a leaf.                                    *)
LEMMA RegisterLeaf ==
    ASSUME NEW w \in RegisterWires, w.leaf # "none",
           NEW l, NEW t, Shown(LeafClass(w), l, t),
           NEW content \in HexContents, NEW code \in {GetResponse, SetResponse, AsyncResponse}
    PROVE  LET message == Response(code, w.key, Payload(RegisterClass(w), content))
               r == SetRegister(w, message)
           IN  LeafAfter(w, content, r.ok, TakeRegister(w, l, r), t)
<1> DEFINE message == Response(code, w.key, Payload(RegisterClass(w), content))
           r == SetRegister(w, message)
<1>1. PICK f : /\ AddsTo(SizesOf(RegisterClass(w)), f)
               /\ RegisterDoes(RegisterClass(w), content, RegisterDigits(w), f, r)
  BY MessageTaken
<1> HIDE DEF r
<1>2. CASE IsSense(w)
  BY <1>1, <1>2, SenseLeafDoes DEF r
<1>3. CASE ~IsSense(w)
  BY <1>1, <1>3, DayLeafDoes DEF r
<1> QED
  BY <1>2, <1>3

(* No register feeds an Int16 leaf.                                        *)
LEMMA RegisterLeafIs ==
    ASSUME NEW w \in RegisterWires, w.leaf # "none"
    PROVE  LeafClass(w) \in NumberLeaves /\ LeafClass(w) # Int16Leaf /\ LeafClass(w).kind # "string"
<1>1. CASE IsSense(w)
  BY <1>1, LeafWires, LeavesAre DEF NumberLeaves
<1>2. CASE ~IsSense(w)
  <2>1. w.leaf \in DayNames /\ LeafClass(w) = DayClass(w.leaf)
    BY <1>2, LeafWires
  <2>2. PICK i \in 1 .. 15 : DayLeaves[i] = w.leaf
    BY <2>1, DayNamesAre
  <2>3. DayClass(w.leaf) \in {ScaledLeaf, UInt8Leaf, UInt16Leaf, UInt32Leaf}
    BY <2>2, DayIs
  <2>4. DayClass(w.leaf) \in NumberLeaves
    BY <2>3 DEF NumberLeaves
  <2> QED
    BY <2>1, <2>3, <2>4, LeavesAre
<1> QED
  BY <1>1, <1>2

-----------------------------------------------------------------------------
(* What a leaf and its subscriber make of every message.                   *)
HasLeaf(w) == w \in TextWires \/ (w \in RegisterWires /\ w.leaf # "none")

LEMMA LeafOfWire == ASSUME NEW w, HasLeaf(w) PROVE IsLeaf(LeafClass(w))
<1>1. CASE w \in RegisterWires /\ w.leaf # "none"
  BY <1>1, RegisterLeafIs, LeavesAre
<1>2. CASE w \in TextWires
  <2>1. PICK size \in Nat :
            LeafClass(w) \in NumberLeaves \/ LeafClass(w) = StringLeaf(size)
    <3>1. FieldClassOf(w) \in FieldClasses /\ LeafFor(FieldClassOf(w), LeafClass(w))
      BY <1>2, TextsAreWired DEF Wired
    <3>2. CASE FieldClassOf(w) = "String"
      BY <3>1, <3>2 DEF LeafFor, Plain32s, ScaledFields
    <3>3. CASE FieldClassOf(w) # "String"
      <4>1. LeafClass(w) \in NumberLeaves
        BY <3>1, <3>3 DEF LeafFor, Plain32s, ScaledFields, FieldClasses, NumberLeaves
      <4>2. 0 \in Nat
        OBVIOUS
      <4> QED
        BY <4>1, <4>2
    <3> QED
      BY <3>2, <3>3
  <2> QED
    BY <2>1, LeavesAre DEF IsLeaf
<1> QED
  BY <1>1, <1>2 DEF HasLeaf

(* A text or a message that was taken is what the leaf shows.              *)
Tells(w, l, said, taken) ==
    IF w.kind = "text"
    THEN /\ said \in Texts
         /\ ~taken => ~l.hasBeenSet
         /\ taken /\ l.hasBeenSet => ShowsText(w, l.value[1], said)
         /\ taken /\ ~l.hasBeenSet => said = Dashes
    ELSE /\ said \in HexContents
         /\ ~IsHistory(w) /\ ~taken => ~l.hasBeenSet
         /\ taken => l.hasBeenSet /\ ShowsContent(w, l.value[1], said)

(* The inductive invariant: the leaf and what was told of it are of one    *)
(* value, and that value is of the last message.                           *)
LeavesInv ==
    /\ WireOK
    /\ HasLeaf(wire) =>
            /\ Shown(LeafClass(wire), leaf, told)
            /\ last # None => Tells(wire, leaf, last, ok)
    /\ ~HasLeaf(wire) => told = NoText

LEMMA LeavesAtFirst == Init => LeavesInv
<1> SUFFICES ASSUME Init PROVE LeavesInv
  OBVIOUS
<1>1. WireOK /\ leaf = NoLeaf /\ told = NoText /\ last = None
  BY WireAtFirst DEF Init
<1>2. ASSUME NEW a, a = FALSE, NEW y, leaf = [hasBeenSet |-> a, value |-> y]
      PROVE  Shown(LeafClass(wire), leaf, told)
  <2>1. ~leaf.hasBeenSet
    BY <1>2
  <2>2. a \in BOOLEAN
    BY <1>2
  <2>3. \E set \in BOOLEAN : \E x : leaf = [hasBeenSet |-> set, value |-> x]
    BY <1>2, <2>2
  <2> QED
    BY <1>1, <2>1, <2>3 DEF Shown
<1>3. Shown(LeafClass(wire), leaf, told)
  BY <1>1, <1>2, Zenon DEF NoLeaf
<1> QED
  BY <1>1, <1>3 DEF LeavesInv

LEMMA TextIsTold ==
    ASSUME NEW w \in TextWires, NEW text \in Texts, NEW l, NEW t, Shown(LeafClass(w), l, t)
    PROVE  LET r == FieldSet(FieldClassOf(w), text, ArgumentsOf(w))
               effect == TakeReading(LeafClass(w), l, r)
           IN  /\ Shown(LeafClass(w), effect.leaf, SentTo(t, effect))
               /\ Tells(w, effect.leaf, text, r.ok)
<1> DEFINE r == FieldSet(FieldClassOf(w), text, ArgumentsOf(w))
           effect == TakeReading(LeafClass(w), l, r)
<1>1. FieldDoes(w, text, r) /\ IsLeaf(LeafClass(w)) /\ w.kind = "text"
  BY FieldSays, TextWiresAre
<1> HIDE DEF r
<1>2. ASSUME r = Failure \/ (r = Removal /\ text = Dashes)
      PROVE  /\ Shown(LeafClass(w), effect.leaf, SentTo(t, effect))
             /\ Tells(w, effect.leaf, text, r.ok)
  <2>1. r.value = <<>> /\ (r.ok => text = Dashes)
    BY <1>2 DEF Failure, Removal
  <2>2. effect = RemoveValue(l)
    BY <2>1 DEF TakeReading
  <2> HIDE DEF effect
  <2>3. Shown(LeafClass(w), effect.leaf, SentTo(t, effect)) /\ ~effect.leaf.hasBeenSet
    BY <2>2, Removed
  <2> QED
    BY <1>1, <2>1, <2>3 DEF Tells
<1>3. ASSUME NEW v, r = Reading(v), Fits(LeafClass(w), v),
             ShowsText(w, Stored(LeafClass(w), v), text)
      PROVE  /\ Shown(LeafClass(w), effect.leaf, SentTo(t, effect))
             /\ Tells(w, effect.leaf, text, r.ok)
  <2>1. r.value # <<>> /\ r.value[1] = v /\ r.ok
    BY <1>3 DEF Reading
  <2>2. effect = Assign(LeafClass(w), l, v)
    BY <2>1 DEF TakeReading
  <2> HIDE DEF effect
  <2>3. /\ Shown(LeafClass(w), effect.leaf, SentTo(t, effect))
        /\ effect.leaf.hasBeenSet
        /\ effect.leaf.value[1] = Stored(LeafClass(w), v)
    BY <1>1, <1>3, <2>2, Assigned
  <2> QED
    BY <1>1, <1>3, <2>1, <2>3 DEF Tells
<1> QED
  BY <1>1, <1>2, <1>3 DEF FieldDoes, r

LEMMA LeavesStep == LeavesInv /\ [Next]_vars => LeavesInv'
<1> SUFFICES ASSUME LeavesInv, [Next]_vars PROVE LeavesInv'
  OBVIOUS
<1>1. wire' = wire /\ WireOK /\ WireOK' /\ (HasLeaf(wire') <=> HasLeaf(wire))
  BY WireStays DEF LeavesInv, WireOK
<1>2. ASSUME processTextField PROVE LeavesInv'
  <2> DEFINE r(text) == FieldSet(FieldClassOf(wire), text, ArgumentsOf(wire))
             effect(text) == TakeReading(LeafClass(wire), leaf, r(text))
  <2>1. PICK text \in Texts : /\ wire.kind = "text"
                              /\ leaf' = effect(text).leaf
                              /\ told' = SentTo(told, effect(text))
                              /\ ok' = r(text).ok
                              /\ last' = text
    BY <1>2, Zenon DEF processTextField, FieldClassOf, ArgumentsOf, Told, SentTo
  <2>2. wire \in TextWires
    BY <1>1, <2>1, RegisterWiresAre DEF WireOK
  <2>3. HasLeaf(wire) /\ Shown(LeafClass(wire), leaf, told)
    BY <2>2 DEF LeavesInv, HasLeaf
  <2>4. /\ Shown(LeafClass(wire), effect(text).leaf, SentTo(told, effect(text)))
        /\ Tells(wire, effect(text).leaf, text, r(text).ok)
    BY <2>2, <2>3, TextIsTold
  <2> HIDE DEF r, effect
  <2>5. Shown(LeafClass(wire), leaf', told') /\ Tells(wire, leaf', last', ok')
    BY <2>1, <2>4, Zenon
  <2> QED
    BY <1>1, <2>3, <2>5 DEF LeavesInv
<1>3. ASSUME hexMessageReceived PROVE LeavesInv'
  <2> DEFINE message(content, code) == Response(code, wire.key, Payload(RegisterClass(wire), content))
             r(content, code) == SetRegister(wire, message(content, code))
             effect(content, code) == TakeRegister(wire, leaf, r(content, code))
  <2>1. PICK content \in HexContents, code \in {GetResponse, AsyncResponse} :
            /\ wire.kind = "hex"
            /\ leaf' = effect(content, code).leaf
            /\ told' = SentTo(told, effect(content, code))
            /\ ok' = r(content, code).ok
            /\ last' = content
    BY <1>3, Zenon DEF hexMessageReceived, Told, SentTo
  <2>2. wire \in RegisterWires /\ wire \notin TextWires
    BY <1>1, <2>1, TextWiresAre DEF WireOK
  <2>3. code \in {GetResponse, SetResponse, AsyncResponse}
    OBVIOUS
  <2>4. ASSUME wire.leaf # "none"
        PROVE  LeavesInv'
    <3>1. HasLeaf(wire) /\ Shown(LeafClass(wire), leaf, told)
      BY <2>2, <2>4 DEF LeavesInv, HasLeaf
    <3>2. LeafAfter(wire, content, r(content, code).ok, effect(content, code), told)
      BY <2>2, <2>3, <2>4, <3>1, RegisterLeaf
    <3> HIDE DEF r, effect, message
    <3>3. /\ Shown(LeafClass(wire), effect(content, code).leaf, SentTo(told, effect(content, code)))
          /\ Tells(wire, effect(content, code).leaf, content, r(content, code).ok)
      BY <2>1, <3>2 DEF LeafAfter, Tells
    <3>4. Shown(LeafClass(wire), leaf', told') /\ Tells(wire, leaf', last', ok')
      BY <2>1, <3>3, Zenon
    <3> QED
      BY <1>1, <3>1, <3>4 DEF LeavesInv
  <2>5. ASSUME wire.leaf = "none"
        PROVE  LeavesInv'
    <3>1. ~HasLeaf(wire) /\ told = NoText
      BY <2>2, <2>5 DEF LeavesInv, HasLeaf
    <3>2. effect(content, code) = [leaf |-> leaf, sent |-> <<>>]
      BY <2>5 DEF TakeRegister
    <3> HIDE DEF effect
    <3>3. told' = told
      BY <2>1, <3>2 DEF SentTo
    <3> QED
      BY <1>1, <3>1, <3>3 DEF LeavesInv
  <2> QED
    BY <2>4, <2>5
<1>4. ASSUME UNCHANGED <<wire, leaf, told, last, ok>> PROVE LeavesInv'
  BY <1>1, <1>4 DEF LeavesInv
<1>5. CASE sendUpdate
  BY <1>4, <1>5 DEF sendUpdate
<1>6. CASE hexProtocolSetResponseReceived
  BY <1>4, <1>6 DEF hexProtocolSetResponseReceived
<1>7. CASE CommandTimesOut
  BY <1>4, <1>7 DEF CommandTimesOut
<1>8. CASE UNCHANGED vars
  BY <1>4, <1>8 DEF vars
<1> QED
  BY <1>2, <1>3, <1>5, <1>6, <1>7, <1>8 DEF Next

LEMMA LeavesKept == Spec => []LeavesInv
BY LeavesAtFirst, LeavesStep, PTL DEF Spec

LEMMA Int16Wires ==
    ASSUME NEW w, HasLeaf(w), LeafClass(w) = Int16Leaf
    PROVE  w.device = "BMV" /\ w.leaf \in {"power", "temperature", "monitorMode"}
<1>1. w \in TextWires
  BY RegisterLeafIs DEF HasLeaf
<1>2. /\ FieldClassOf(w) \in FieldClasses
      /\ LeafFor(FieldClassOf(w), LeafClass(w))
      /\ FieldClassOf(w) \in {"Int16", "BMVTemperature"} =>
            w.device = "BMV" /\ w.leaf \in {"power", "temperature", "monitorMode"}
  BY <1>1, TextsAreWired DEF Wired
<1>3. /\ \A size \in Nat : Int16Leaf # StringLeaf(size)
      /\ Int16Leaf \notin {ScaledLeaf, UInt32Leaf, UInt16Leaf, UInt8Leaf, BoolLeaf}
  <2>1. Int16Leaf.kind = "number" /\ \A size \in Nat : StringLeaf(size).kind = "string"
    BY DEF Int16Leaf, NumberLeaf, StringLeaf
  <2> QED
    BY <2>1, LeavesAre
<1>4. FieldClassOf(w) \in {"Int16", "BMVTemperature"}
  <2> DEFINE class == FieldClassOf(w)
             leafClass == LeafClass(w)
  <2>1. /\ class = "UInt8" => leafClass = UInt8Leaf
        /\ class \in {"UInt16", "HexUInt16"} => leafClass = UInt16Leaf
        /\ class \in Plain32s => leafClass = UInt32Leaf
        /\ class = "OnOff" => leafClass = BoolLeaf
        /\ class = "String" => \E size \in Nat : leafClass = StringLeaf(size)
        /\ class \in ScaledFields \cup {"BMVVoltage", "BMVCurrent"} => leafClass = ScaledLeaf
    BY <1>2 DEF LeafFor, Plain32s, ScaledFields
  <2> HIDE DEF class, leafClass
  <2> QED
    BY <1>2, <1>3, <2>1 DEF FieldClasses, class, leafClass
<1> QED
  BY <1>2, <1>4

(* Every leaf tells of the last message of its wire and of none before:    *)
(* for every field of the two maps, every text, every register with a leaf *)
(* and every content of a message.                                         *)
THEOREM LeavesTell == Spec => []LeafTellsLastMessage
<1>1. LeavesInv => LeafTellsLastMessage
  <2> SUFFICES ASSUME LeavesInv, last # None, wire.leaf # "none"
               PROVE  IF ~ok THEN IsHistory(wire) \/ ~leaf.hasBeenSet
                      ELSE IF leaf.hasBeenSet
                      THEN IF wire.kind = "text" THEN ShowsText(wire, leaf.value[1], last)
                           ELSE ShowsContent(wire, leaf.value[1], last)
                      ELSE last = Dashes
    BY DEF LeafTellsLastMessage
  <2>1. HasLeaf(wire)
    BY DEF LeavesInv, WireOK, HasLeaf
  <2>2. Tells(wire, leaf, last, ok)
    BY <2>1 DEF LeavesInv
  <2> QED
    BY <2>2 DEF Tells
<1> QED
  BY <1>1, LeavesKept, PTL

(* Whoever subscribes now is told what the others were told last.          *)
THEOREM LateSubscriberIsTold == Spec => []LateSubscriberIsToldTheSame
<1>1. LeavesInv => LateSubscriberIsToldTheSame
  <2> SUFFICES ASSUME LeavesInv, wire.leaf # "none"
               PROVE  SendRetainedValue(LeafClass(wire), leaf) =
                            IF told = NoText THEN <<>> ELSE <<told>>
    BY DEF LateSubscriberIsToldTheSame
  <2>1. HasLeaf(wire)
    BY DEF LeavesInv, WireOK, HasLeaf
  <2>2. Shown(LeafClass(wire), leaf, told)
    BY <2>1 DEF LeavesInv
  <2>3. RetainedText(LeafClass(wire), leaf.value[1]) # NoText
    BY DEF RetainedText, Text, NoText
  <2> QED
    BY <2>2, <2>3 DEF Shown, SendRetainedValue
<1> QED
  BY <1>1, LeavesKept, PTL

(* Every text fits the buffers of its leaf, whatever the number of the     *)
(* type the leaf was given, but those of the Int16 leaves of the BMV.      *)
THEOREM OnlyInt16Cut == Spec => []OnlyInt16TextsAreCut
<1>1. LeavesInv => OnlyInt16TextsAreCut
  <2> SUFFICES ASSUME LeavesInv, Len(told) = 2
               PROVE  /\ wire.device = "BMV" /\ wire.leaf \in {"power", "temperature", "monitorMode"}
                      /\ told[1].value > 9999 \/ told[1].value < -999
    BY DEF OnlyInt16TextsAreCut
  <2> DEFINE class == LeafClass(wire)
             v == leaf.value[1]
  <2>1. told # NoText
    BY DEF NoText
  <2>2. HasLeaf(wire)
    BY <2>1 DEF LeavesInv
  <2>3. Shown(class, leaf, told) /\ IsLeaf(class)
    BY <2>2, LeafOfWire DEF LeavesInv
  <2>4. Kept(class, v) /\ told = RetainedText(class, v)
    BY <2>1, <2>3 DEF Shown
  <2> HIDE DEF v, class
  <2>5. class.kind # "string" /\ told = Text(class.retained, v)
    <3>1. Len(<<v>>) = 1
      OBVIOUS
    <3> QED
      BY <2>4, <3>1 DEF RetainedText
  <2>6. ~(TextLength(v) <= class.retained) /\ told = <<v, "cut">>
    <3>1. Len(<<v>>) = 1
      OBVIOUS
    <3> QED
      BY <2>5, <3>1 DEF Text
  <2>7. Fits(class, v)
    BY <2>4, <2>5 DEF Kept
  <2>8. class = Int16Leaf /\ TextLength(v) \in Int
    BY <2>5, <2>6, <2>7 DEF Fits
  <2>9. class.retained = 4
    BY <2>8 DEF Int16Leaf, NumberLeaf
  <2>10. v.value > 9999 \/ v.value < -999
    BY <2>5, <2>6, <2>7, <2>8, <2>9 DEF Fits
  <2>11. told[1] = v
    BY <2>6
  <2> QED
    BY <2>2, <2>8, <2>10, <2>11, Int16Wires DEF class
<1> QED
  BY <1>1, LeavesKept, PTL

-----------------------------------------------------------------------------
(***************************************************************************)
(* From the BMV to the sense registers of the MPPT controllers.            *)
(***************************************************************************)

(* A number in bytes and back.                                             *)
LEMMA SplitTwo ==
    ASSUME NEW v \in Number16
    PROVE  /\ v % 256 \in Byte
           /\ v \div 256 \in Byte
           /\ Pair(v % 256, v \div 256) = v
<1>1. v \in Int /\ v >= 0 /\ v <= 65535
  BY SMT DEF Number16
<1>2. v % 256 \in 0 .. 255 /\ v \div 256 \in Int /\ v = 256 * (v \div 256) + (v % 256)
  <2>1. 256 \in Nat /\ 256 > 0 /\ 256 - 1 = 255
    OBVIOUS
  <2> QED
    BY <1>1, <2>1, Remainder
<1>3. v \div 256 \in 0 .. 255
  <2> DEFINE r == v % 256
             q == v \div 256
  <2>1. r \in 0 .. 255 /\ q \in Int /\ v = 256 * q + r
    BY <1>2
  <2> HIDE DEF r, q
  <2>2. q \in 0 .. 255
    BY <1>1, <2>1, SMT
  <2> QED
    BY <2>2 DEF q
<1> QED
  BY <1>1, <1>2, <1>3 DEF Byte, Pair

LEMMA SplitFour ==
    ASSUME NEW v \in Number32
    PROVE  LET s == <<v % 256, (v \div 256) % 256, (v \div 65536) % 256, v \div 16777216>>
           IN  /\ s \in Seq(Byte)
               /\ Len(s) = 4
               /\ LittleEndian(s) = v
<1> DEFINE a == v % 256
           b == (v \div 256) % 256
           c == (v \div 65536) % 256
           d == v \div 16777216
           s == <<a, b, c, d>>
<1>1. v \in Int /\ v >= 0 /\ v <= 65536 * 65536 - 1
  BY WordFacts, SMT DEF Number32
<1>2. a \in 0 .. 255 /\ b \in 0 .. 255 /\ c \in 0 .. 255 /\ d \in 0 .. 255
  BY <1>1, SMT
<1>3. v = a + 256 * b + 65536 * c + 16777216 * d
  BY <1>1, SMT
<1> HIDE DEF a, b, c, d
<1>4. a \in Byte /\ b \in Byte /\ c \in Byte /\ d \in Byte
  BY <1>2 DEF Byte
<1>5. s \in Seq(Byte) /\ Len(s) = 4
  BY <1>4
<1>6. s[1] = a /\ s[2] = b /\ s[3] = c /\ s[4] = d
  OBVIOUS
<1>7. LittleEndian(s) = Quad(a, b, c, d) % Word
  <2> HIDE DEF s
  <2> QED
    BY <1>5, <1>6, ReadFour
<1>8. Quad(a, b, c, d) = v
  BY <1>3 DEF Quad
<1>9. v % Word = v
  BY <1>1, ModWord
<1> QED
  BY <1>5, <1>7, <1>8, <1>9 DEF a, b, c, d

-----------------------------------------------------------------------------
(* A command that sets a register and what the device answers.             *)
Setting(id, data) == appendChecksum(Head3(SetCommand, id) \o (<<0>> \o data))

Answered(id, flags, data) == appendChecksum(Head3(SetResponse, id) \o (<<flags>> \o data))

LEMMA Bytes ==
    ASSUME NEW flags \in Byte, NEW data \in Seq(Byte)
    PROVE  LET p == <<flags>> \o data
           IN  /\ p \in Seq(Byte)
               /\ Len(p) = 1 + Len(data)
               /\ p[1] = flags
               /\ \A i \in 1 .. Len(data) : p[1 + i] = data[i]
<1>1. <<flags>> \in Seq(Byte) /\ Len(<<flags>>) = 1 /\ <<flags>>[1] = flags
  OBVIOUS
<1> QED
  BY <1>1, ConcatProperties

LEMMA HeadThenFlags ==
    ASSUME NEW code \in Byte, NEW id \in Number16, NEW flags \in Byte, NEW data \in Seq(Byte)
    PROVE  /\ Append(Head3(code, id), flags) \o data = Head3(code, id) \o (<<flags>> \o data)
           /\ (Head3(code, id) \o <<flags>>) \o data = Head3(code, id) \o (<<flags>> \o data)
<1> DEFINE h == Head3(code, id)
<1>1. h \in Seq(Byte)
  BY Head3Is
<1>2. <<flags>> \in Seq(Byte)
  OBVIOUS
<1> HIDE DEF h
<1>3. Append(h, flags) = h \o <<flags>>
  BY <1>1, AppendIsConcat
<1>4. (h \o <<flags>>) \o data = h \o (<<flags>> \o data)
  BY <1>1, <1>2, ConcatAssociative
<1> QED
  BY <1>3, <1>4 DEF h

LEMMA SettingIsAnswered ==
    ASSUME NEW id \in Number16, NEW flags \in Byte, NEW data \in Seq(Byte)
    PROVE  /\ Answer(Setting(id, data), flags) = Answered(id, flags, data)
           /\ Setting(id, data) # <<>>
           /\ SumOfBytes(Setting(id, data)) = ChecksumOfMessage
<1> DEFINE p == <<0>> \o data
           h == Head3(SetCommand, id)
           m == Setting(id, data)
<1>1. p \in Seq(Byte) /\ Len(p) = 1 + Len(data) /\ \A i \in 1 .. Len(data) : p[1 + i] = data[i]
  BY Bytes, ByteNumbers
<1>2. SetCommand \in Byte /\ SetResponse \in Byte /\ SetCommand = SetResponse
  BY ByteNumbers DEF SetCommand, SetResponse
<1>3. h[2] = id % 256 /\ h[3] = id \div 256
  BY <1>2, Head3Is
<1>4. /\ m \in Seq(Byte)
      /\ SumOfBytes(m) = ChecksumOfMessage
      /\ Len(m) = Len(p) + 4
      /\ \A i \in 1 .. Len(p) : m[3 + i] = p[i]
      /\ \A i \in 1 .. 3 : m[i] = h[i]
  BY <1>1, <1>2, Framed DEF Setting
<1> HIDE DEF m, p, h
<1>5. Len(data) \in Nat /\ Len(m) = Len(data) + 5
  BY <1>1, <1>4
<1>6. m # <<>>
  BY <1>5
<1>7. SubSeq(m, 2, 3) = <<id % 256, id \div 256>>
  <2> DEFINE s == SubSeq(m, 2, 3)
  <2>1. s \in Seq(Byte) /\ Len(s) = 2 /\ s[1] = m[2] /\ s[2] = m[3]
    BY <1>4, <1>5
  <2> HIDE DEF s
  <2>2. s = <<s[1], s[2]>>
    BY <2>1
  <2> QED
    BY <1>3, <1>4, <2>1, <2>2 DEF s
<1>8. CommandData(m) = data
  <2> DEFINE s == SubSeq(m, 5, Len(m) - 1)
  <2>1. s \in Seq(Byte) /\ Len(s) = Len(data)
    BY <1>4, <1>5
  <2>2. ASSUME NEW i \in 1 .. Len(data) PROVE s[i] = data[i]
    <3>1. s[i] = m[4 + i]
      BY <1>4, <1>5
    <3>2. 1 + i \in 1 .. Len(p) /\ 3 + (1 + i) = 4 + i
      BY <1>1, <1>5
    <3>3. m[4 + i] = p[1 + i]
      BY <1>4, <3>2
    <3> QED
      BY <1>1, <3>1, <3>3
  <2> HIDE DEF s
  <2>3. s = data
    BY <2>1, <2>2, SeqEqual
  <2> QED
    BY <2>3 DEF CommandData, s
<1>9. Answer(m, flags) = appendChecksum((Head3(SetResponse, id) \o <<flags>>) \o data)
  BY <1>7, <1>8 DEF Answer, Head3, appendUInt16
<1>10. (Head3(SetResponse, id) \o <<flags>>) \o data = Head3(SetResponse, id) \o (<<flags>> \o data)
  BY <1>2, HeadThenFlags
<1> QED
  BY <1>4, <1>6, <1>9, <1>10 DEF Answered, m

(* What a register that is one number makes of an answer.                  *)
LEMMA AnswerParsed ==
    ASSUME NEW id \in Number16, NEW flags \in Byte, NEW data \in Seq(Byte), NEW k \in {2, 4},
           Len(data) = k
    PROVE  LET m == Answered(id, flags, data)
               c == BehindID(m)
               e == ParseAll(m, c, <<1, k>>)
           IN  /\ m \in Seq(Byte)
               /\ c \in Cursor /\ c.values = <<>>
               /\ ~e.parseError
               /\ e.values[1] = flags
               /\ e.values[2] = LittleEndian(data)
               /\ e.values[2] \in Int
<1> DEFINE p == <<flags>> \o data
           m == Answered(id, flags, data)
           c == BehindID(m)
           sizes == <<1, k>>
           e == ParseAll(m, c, sizes)
<1>1. /\ p \in Seq(Byte)
      /\ Len(p) = 1 + k
      /\ p[1] = flags
      /\ \A i \in 1 .. k : p[1 + i] = data[i]
  BY Bytes
<1>2. SetResponse \in Byte
  BY ByteNumbers DEF SetResponse
<1>3. /\ m \in Seq(Byte)
      /\ Len(m) = Len(p) + 4
      /\ \A i \in 1 .. Len(p) : m[3 + i] = p[i]
  BY <1>1, <1>2, Framed DEF Answered
<1> HIDE DEF m, p
<1>4. /\ Fresh(m, c)
      /\ c.readPos = 3
      /\ remainingBytes(m, c) = 1 + k
  BY <1>1, <1>3, BehindTheID
<1> HIDE DEF c
<1>5. sizes \in Seq(Nat) /\ Len(sizes) = 2 /\ sizes[1] = 1 /\ sizes[2] = k
  BY TwoSizes
<1> HIDE DEF sizes
<1>6. PICK f : AddsTo(sizes, f)
  BY <1>5, AddExist
<1>7. f[0] = 0 /\ f[1] = 1 /\ f[2] = 1 + k
  <2>1. f[0] = 0 /\ \A i \in 1 .. 2 : f[i] = f[i - 1] + sizes[i]
    BY <1>5, <1>6 DEF AddsTo
  <2>2. f[1] = f[0] + sizes[1]
    <3>1. 1 \in 1 .. 2 /\ 1 - 1 = 0
      OBVIOUS
    <3> QED
      BY <2>1, <3>1
  <2>3. f[2] = f[1] + sizes[2]
    <3>1. 2 \in 1 .. 2 /\ 2 - 1 = 1
      OBVIOUS
    <3> QED
      BY <2>1, <3>1
  <2> QED
    BY <1>5, <2>1, <2>2, <2>3
<1>8. /\ ~e.parseError
      /\ \A j \in 1 .. 2 : e.values[j] = Field(m, c, f, j)
  <2>1. m \in Seq(Byte) /\ Fresh(m, c) /\ sizes \in Seq(Nat) /\ AddsTo(sizes, f)
    BY <1>3, <1>4, <1>5, <1>6
  <2>2. /\ ~e.parseError <=> remainingBytes(m, c) = f[Len(sizes)]
        /\ ~e.parseError => \A j \in 1 .. Len(sizes) : e.values[j] = Field(m, c, f, j)
    BY <2>1, ReadsAll
  <2> HIDE DEF e
  <2> QED
    BY <1>4, <1>5, <1>7, <2>2
<1> HIDE DEF e
<1>9. e.values[1] = flags
  <2> DEFINE s == SubSeq(m, 3 + 0 + 1, 3 + (0 + 1))
  <2>1. s \in Seq(Byte) /\ Len(s) = 1 /\ \A i \in 1 .. 1 : s[i] = p[0 + i]
    <3>1. 0 \in Nat /\ 1 \in Nat /\ 0 + 1 <= Len(p)
      BY <1>1
    <3> QED
      BY <1>1, <1>3, <3>1, PartOfPayload
  <2>2. s[1] = flags
    BY <1>1, <2>1
  <2>3. Field(m, c, f, 1) = LittleEndian(s)
    <3>1. 1 - 1 = 0 /\ 3 + 0 + 1 = 3 + f[1 - 1] + 1 /\ 3 + (0 + 1) = 3 + f[1]
      BY <1>7
    <3> QED
      BY <1>4, <3>1 DEF Field
  <2> HIDE DEF s
  <2>4. LittleEndian(s) = flags
    BY <2>1, <2>2, ReadOne
  <2>5. 1 \in 1 .. 2
    OBVIOUS
  <2> QED
    BY <1>8, <2>3, <2>4, <2>5
<1>10. e.values[2] = LittleEndian(data)
  <2> DEFINE s == SubSeq(m, 3 + 1 + 1, 3 + (1 + k))
  <2>1. s \in Seq(Byte) /\ Len(s) = k /\ \A i \in 1 .. k : s[i] = p[1 + i]
    <3>1. 1 \in Nat /\ k \in Nat /\ 1 + k <= Len(p)
      BY <1>1
    <3> QED
      BY <1>1, <1>3, <3>1, PartOfPayload
  <2>2. Field(m, c, f, 2) = LittleEndian(s)
    <3>1. 2 - 1 = 1 /\ 3 + 1 + 1 = 3 + f[2 - 1] + 1 /\ 3 + (1 + k) = 3 + f[2]
      BY <1>7
    <3> QED
      BY <1>4, <3>1 DEF Field
  <2> HIDE DEF s
  <2>3. s = data
    BY <1>1, <2>1, SeqEqual
  <2>4. 2 \in 1 .. 2
    OBVIOUS
  <2> QED
    BY <1>8, <2>2, <2>3, <2>4
<1>11. e.values[2] \in Int
  BY <1>10, ReadType, NumberInt
<1>12. c \in Cursor /\ c.values = <<>>
  BY <1>4 DEF Fresh
<1> QED
  BY <1>3, <1>8, <1>9, <1>10, <1>11, <1>12 DEF m, c, e, sizes

SenseTypes == {"UInt16", "Int16", "Int32"}

LEMMA AnswerTaken ==
    ASSUME NEW class \in SenseTypes, NEW id \in Number16, NEW flags \in Byte,
           NEW data \in Seq(Byte), Len(data) = SizesOf(class)[2], NEW digits
    PROVE  LET m == Answered(id, flags, data)
           IN  RegisterSet(class, m, BehindID(m), digits) =
                    IF flags # 0 THEN Failure
                    ELSE Reading(Scaled(TypeOf(class), LittleEndian(data), digits))
<1> DEFINE m == Answered(id, flags, data)
           c == BehindID(m)
           k == SizesOf(class)[2]
<1>1. /\ class \in NumberClasses
      /\ SizesOf(class) = <<1, k>>
      /\ k \in {2, 4}
      /\ DigitsFor(class, digits) = digits
  BY DEF SenseTypes, NumberClasses, SizesOf, DigitsFor
<1> HIDE DEF k
<1> DEFINE e == ParseAll(m, c, <<1, k>>)
<1>2. /\ m \in Seq(Byte)
      /\ c \in Cursor /\ c.values = <<>>
      /\ ~e.parseError
      /\ e.values[1] = flags
      /\ e.values[2] = LittleEndian(data)
      /\ e.values[2] \in Int
  BY <1>1, AnswerParsed DEF k
<1> HIDE DEF m, c
<1>3. e = ParseAll(m, c, SizesOf(class))
  BY <1>1
<1> HIDE DEF e
<1>4. RegisterSet(class, m, c, digits) =
        IF e.parseError \/ e.values[1] # 0 THEN Failure
        ELSE Reading(Scaled(TypeOf(class), e.values[2], DigitsFor(class, digits)))
  BY <1>1, <1>2, <1>3, NumberRegisterIs
<1> QED
  BY <1>1, <1>2, <1>4 DEF m, c

-----------------------------------------------------------------------------
SenseFields == {"voltage", "temperature", "current"}

SenseClass(w) ==
    CASE w.leaf = "voltage" -> "UInt16"
      [] w.leaf = "temperature" -> "Int16"
      [] w.leaf = "current" -> "Int32"

SenseType(w) == TypeOf(SenseClass(w))

SenseWire(w) ==
    Wire("hex", "MPPT", SenseRegister(w), MPPTRegisterLeaf(SenseRegister(w))[1].leaf)

LEMMA SenseWireIs ==
    ASSUME NEW w, w.leaf \in SenseFields
    PROVE  LET s == SenseWire(w)
           IN  /\ s.leaf # "none"
               /\ ~IsHistory(s)
               /\ LeafClass(s) = ScaledLeaf
               /\ RegisterDigits(s) \in Exponents
               /\ RegisterClass(s) = SenseClass(w)
               /\ SenseClass(w) \in SenseTypes
               /\ SenseRegister(w) \in Number16
<1> DEFINE s == SenseWire(w)
           id == SenseRegister(w)
<1>1. /\ id \in {VoltageSense, TemperatureSense, CurrentSense}
      /\ MPPTRegisterClass[id] = SenseClass(w)
      /\ SenseClass(w) \in SenseTypes
  BY SenseClasses DEF SenseRegister, SenseFields, SenseClass, SenseTypes
<1>2. s.kind = "hex" /\ s.device = "MPPT" /\ s.key = id /\ s.leaf = MPPTRegisterLeaf(id)[1].leaf
  BY DEF SenseWire, Wire
<1>3. id \in Number16
  BY <1>1, SMT DEF VoltageSense, TemperatureSense, CurrentSense, Number16
<1> HIDE DEF s, id
<1>4. /\ s.leaf # "none" /\ ~IsHistory(s) /\ LeafClass(s) = ScaledLeaf
      /\ RegisterDigits(s) \in Exponents /\ RegisterClass(s) = MPPTRegisterClass[id]
  BY <1>1, <1>2, SenseWires
<1> QED
  BY <1>1, <1>3, <1>4 DEF s, id

(* The bytes of a command carry the value, as far as its type goes.        *)
Carries(w, data, v) ==
    /\ data \in Seq(Byte)
    /\ Len(data) = SizesOf(SenseClass(w))[2]
    /\ Wrap(SenseType(w), LittleEndian(data)) = Wrap(SenseType(w), v)

CommandFor(w, v) ==
    IF w.leaf = "current" THEN sendSet32(CurrentSense, v) ELSE sendSet16(SenseRegister(w), v)

LEMMA WrapOfWrap ==
    ASSUME NEW type \in Types, NEW other \in Types, Modulus(type) = Modulus(other), NEW n \in Int
    PROVE  Wrap(type, Wrap(other, n)) = Wrap(type, n)
<1>1. Wrap(other, n) % Modulus(type) = n % Modulus(type)
  BY Wrapped
<1> QED
  BY <1>1 DEF Wrap

LEMMA PrefixIs ==
    ASSUME NEW id \in Number16, NEW data \in Seq(Byte)
    PROVE  SetPrefix(id) \o data = Head3(SetCommand, id) \o (<<0>> \o data)
<1>1. SetPrefix(id) = Append(Head3(SetCommand, id), 0)
  BY DEF SetPrefix, appendFlags, SetOut, Head3
<1>2. SetCommand \in Byte /\ 0 \in Byte
  BY ByteNumbers DEF SetCommand
<1> QED
  BY <1>1, <1>2, HeadThenFlags

LEMMA CommandIs ==
    ASSUME NEW w, w.leaf \in SenseFields, NEW v \in Int
    PROVE  \E data : /\ Carries(w, data, v)
                     /\ CommandFor(w, v) = Setting(SenseRegister(w), data)
<1>1. SenseRegister(w) \in Number16
  BY SenseWireIs
<1>2. CASE w.leaf = "current"
  <2> DEFINE n == Wrap("uint32", v)
             data == <<n % 256, (n \div 256) % 256, (n \div 65536) % 256, n \div 16777216>>
  <2>1. n \in Number32
    BY TypeNames, Wrapped, Ranges
  <2>2. data \in Seq(Byte) /\ Len(data) = 4 /\ LittleEndian(data) = n
    BY <2>1, SplitFour
  <2>3. SenseClass(w) = "Int32" /\ SenseType(w) = "int32" /\ SizesOf("Int32")[2] = 4
        /\ SenseRegister(w) = CurrentSense
    BY <1>2 DEF SenseClass, SenseType, TypeOf, SizesOf, SenseRegister
  <2>4. Wrap("int32", n) = Wrap("int32", v)
    <3>1. Modulus("int32") = Modulus("uint32")
      BY DEF Modulus
    <3> QED
      BY <3>1, TypeNames, WrapOfWrap
  <2>5. CommandFor(w, v) = appendChecksum(SetPrefix(CurrentSense) \o data)
    BY <1>2 DEF CommandFor, sendSet32, appendUInt32
  <2> HIDE DEF data, n
  <2>6. CommandFor(w, v) = Setting(SenseRegister(w), data)
    BY <1>1, <2>2, <2>3, <2>5, PrefixIs DEF Setting
  <2>7. Carries(w, data, v)
    BY <2>2, <2>3, <2>4 DEF Carries
  <2> QED
    BY <2>6, <2>7
<1>3. CASE w.leaf # "current"
  <2> DEFINE n == Wrap("uint16", v)
             a == n % 256
             b == n \div 256
             data == <<a, b>>
  <2>1. n \in Number16
    BY TypeNames, Wrapped, Ranges
  <2>2. a \in Byte /\ b \in Byte /\ Pair(a, b) = n
    BY <2>1, SplitTwo
  <2>3. CommandFor(w, v) = appendChecksum(SetPrefix(SenseRegister(w)) \o data)
    BY <1>3 DEF CommandFor, sendSet16, appendUInt16
  <2> HIDE DEF a, b, n
  <2>4. data \in Seq(Byte) /\ Len(data) = 2 /\ data[1] = a /\ data[2] = b
    BY <2>2
  <2> HIDE DEF data
  <2>5. LittleEndian(data) = n
    BY <2>2, <2>4, ReadTwo
  <2>6. SizesOf(SenseClass(w))[2] = 2 /\ SenseType(w) \in {"uint16", "int16"}
    BY <1>3 DEF SenseFields, SenseClass, SenseType, TypeOf, SizesOf
  <2>7. Wrap(SenseType(w), n) = Wrap(SenseType(w), v)
    <3>1. Modulus(SenseType(w)) = Modulus("uint16")
      BY <2>6 DEF Modulus
    <3> QED
      BY <2>6, <3>1, TypeNames, WrapOfWrap DEF n
  <2>8. CommandFor(w, v) = Setting(SenseRegister(w), data)
    BY <1>1, <2>3, <2>4, PrefixIs DEF Setting
  <2>9. Carries(w, data, v)
    BY <2>4, <2>5, <2>6, <2>7 DEF Carries
  <2> QED
    BY <2>8, <2>9
<1> QED
  BY <1>2, <1>3

(* What the controllers are told, in the unit of the register, is what the *)
(* BMV showed.                                                             *)
LEMMA UpdateIs ==
    ASSUME NEW w, w.leaf \in SenseFields, NEW text \in Texts
    PROVE  /\ UpdateValue(w.leaf, text) \in Int
           /\ InSenseRange(w, text) =>
                Wrap(SenseType(w), UpdateValue(w.leaf, text)) = SenseValue(w, text)
<1> DEFINE n == text.n
           v == UpdateValue(w.leaf, text)
<1>1. n \in Int
  BY TextRecords
<1>2. /\ HasValue("int32", text) => text.kind = "number" /\ n \in RangeOf("int32")
      /\ HasValue("int16", text) => text.kind = "number"
  BY <1>1, TypeNames, InRangeIs DEF HasValue
<1>3. CASE w.leaf = "voltage"
  <2>1. SenseType(w) = "uint16"
    BY <1>3 DEF SenseType, SenseClass, TypeOf
  <2>2. CASE HasValue("int32", text)
    <3> DEFINE u == Wrap("uint32", n)
               q == u \div 10
    <3>1. v = Wrap("uint16", q)
      BY <1>3, <2>2 DEF UpdateValue, setBatteryVoltage
    <3>2. u \in Int
      BY <1>1, TypeNames, Wrapped
    <3>3. q \in Int
      BY <3>2
    <3>4. v \in Int /\ Wrap("uint16", v) = Wrap("uint16", q)
      <4> HIDE DEF q
      <4> QED
        BY <3>1, <3>3, TypeNames, Wrapped, WrapOfWrap
    <3>5. ASSUME InSenseRange(w, text) PROVE Wrap("uint16", q) = SenseValue(w, text)
      <4>1. n \div 10 \in RangeOf("uint16") /\ n \div 10 \in Int
        <5>1. n \div 10 \in Int
          BY <1>1
        <5>2. InRange("uint16", n \div 10)
          BY <1>2, <1>3, <2>2, <3>5 DEF InSenseRange
        <5> QED
          BY <5>1, <5>2, TypeNames, InRangeIs
      <4>2. n >= 0
        <5>1. n \div 10 >= 0
          BY <4>1, Ranges, In16
        <5> QED
          BY <1>1, <5>1
      <4>3. n \in RangeOf("uint32")
        <5>1. n \in -(Word \div 2) .. Word \div 2 - 1
          BY <1>2, <2>2, Ranges
        <5>2. n <= Word - 1
          BY <1>1, <4>2, <5>1, WordFacts, SMT
        <5>3. n \in Number32
          BY <1>1, <4>2, <5>2, WordFacts DEF Number32
        <5> QED
          BY <5>3, Ranges
      <4>4. u = n
        BY <1>1, <4>3, TypeNames, Wrapped
      <4>5. q = n \div 10
        BY <4>4
      <4> HIDE DEF q
      <4>6. Wrap("uint16", q) = q
        BY <4>1, <4>5, TypeNames, Wrapped
      <4>7. SenseValue(w, text) = n \div 10
        BY <1>3, <2>2 DEF SenseValue
      <4> QED
        BY <4>5, <4>6, <4>7
    <3> HIDE DEF q, v
    <3> QED
      BY <2>1, <3>4, <3>5 DEF v
  <2>3. CASE ~HasValue("int32", text)
    <3>1. v = MaxOf("uint16")
      BY <1>3, <2>3 DEF UpdateValue, clearBatteryVoltage
    <3>2. v \in Int /\ Wrap("uint16", v) = v
      BY <3>1, TypeNames, MaxInRange, Wrapped
    <3>3. SenseValue(w, text) = MaxOf("uint16")
      BY <1>3, <2>3 DEF SenseValue
    <3> QED
      BY <2>1, <3>1, <3>2, <3>3
  <2> QED
    BY <2>2, <2>3
<1>4. CASE w.leaf = "temperature"
  <2>1. SenseType(w) = "int16" /\ Modulus("int16") = Modulus("uint16")
    BY <1>4 DEF SenseType, SenseClass, TypeOf, Modulus
  <2>2. CASE HasValue("int16", text)
    <3> DEFINE h == n * 100
               g == Wrap("int16", h)
    <3>1. v = Wrap("uint16", g)
      BY <1>4, <2>2 DEF UpdateValue, setBatteryTemperature
    <3>2. h \in Int
      BY <1>1
    <3> HIDE DEF h
    <3>3. g \in Int /\ Wrap("int16", g) = g
      BY <3>2, TypeNames, Wrapped
    <3> HIDE DEF g
    <3>4. v \in Int /\ Wrap("int16", v) = g
      BY <2>1, <3>1, <3>3, TypeNames, Wrapped, WrapOfWrap
    <3>5. ASSUME InSenseRange(w, text) PROVE g = SenseValue(w, text)
      <4>1. InRange("int16", 100 * n)
        BY <1>2, <1>4, <2>2, <3>5 DEF InSenseRange
      <4>2. 100 * n = h
        BY <1>1 DEF h
      <4>3. g = h
        BY <4>1, <4>2 DEF g, InRange
      <4>4. SenseValue(w, text) = 100 * n
        BY <1>4, <2>2 DEF SenseValue
      <4> QED
        BY <4>2, <4>3, <4>4
    <3> HIDE DEF v
    <3> QED
      BY <2>1, <3>4, <3>5 DEF v
  <2>3. CASE ~HasValue("int16", text)
    <3>1. v = MaxOf("int16")
      BY <1>4, <2>3 DEF UpdateValue, clearBatteryTemperature
    <3>2. v \in Int /\ Wrap("int16", v) = v
      BY <3>1, TypeNames, MaxInRange, Wrapped
    <3>3. SenseValue(w, text) = MaxOf("int16")
      BY <1>4, <2>3 DEF SenseValue
    <3> QED
      BY <2>1, <3>1, <3>2, <3>3
  <2> QED
    BY <2>2, <2>3
<1>5. CASE w.leaf = "current"
  <2>1. SenseType(w) = "int32"
    BY <1>5 DEF SenseType, SenseClass, TypeOf
  <2>2. CASE HasValue("int32", text)
    <3>1. v = n /\ SenseValue(w, text) = n
      BY <1>5, <2>2 DEF UpdateValue, setBatteryCurrent, SenseValue
    <3>2. Wrap("int32", n) = n
      BY <1>1, <1>2, <2>2, TypeNames, Wrapped
    <3> QED
      BY <1>1, <2>1, <3>1, <3>2
  <2>3. CASE ~HasValue("int32", text)
    <3>1. v = MaxOf("int32") /\ SenseValue(w, text) = MaxOf("int32")
      BY <1>5, <2>3 DEF UpdateValue, clearBatteryCurrent, SenseValue
    <3>2. v \in Int /\ Wrap("int32", v) = v
      BY <3>1, TypeNames, MaxInRange, Wrapped
    <3> QED
      BY <2>1, <3>1, <3>2
  <2> QED
    BY <2>2, <2>3
<1> QED
  BY <1>3, <1>4, <1>5 DEF SenseFields

(* An answer to a command: with flags nothing is known any more, else the  *)
(* leaf shows the value of the command.                                    *)
LEMMA AnswerShown ==
    ASSUME NEW w, w.leaf \in SenseFields, NEW v \in Int, NEW data, Carries(w, data, v),
           NEW flags \in {0, 4}, NEW l, NEW t, Shown(ScaledLeaf, l, t)
    PROVE  LET message == Answer(Setting(SenseRegister(w), data), flags)
               effect == TakeRegister(SenseWire(w), l, SetRegister(SenseWire(w), message))
           IN  /\ Shown(ScaledLeaf, effect.leaf, SentTo(t, effect))
               /\ effect.leaf.hasBeenSet => effect.leaf.value[1].value = Wrap(SenseType(w), v)
<1> DEFINE s == SenseWire(w)
           id == SenseRegister(w)
           class == SenseClass(w)
           digits == RegisterDigits(s)
           message == Answer(Setting(id, data), flags)
           r == SetRegister(s, message)
           effect == TakeRegister(s, l, r)
           x == Scaled(SenseType(w), LittleEndian(data), digits)
<1>1. /\ s.leaf # "none"
      /\ ~IsHistory(s)
      /\ LeafClass(s) = ScaledLeaf
      /\ digits \in Exponents
      /\ RegisterClass(s) = class
      /\ class \in SenseTypes
      /\ id \in Number16
  BY SenseWireIs
<1>2. /\ data \in Seq(Byte)
      /\ Len(data) = SizesOf(class)[2]
      /\ Wrap(SenseType(w), LittleEndian(data)) = Wrap(SenseType(w), v)
  BY DEF Carries
<1>3. flags \in Byte
  BY ByteNumbers
<1>4. message = Answered(id, flags, data)
  BY <1>1, <1>2, <1>3, SettingIsAnswered
<1> HIDE DEF message, id
<1>5. r = RegisterSet(class, message, BehindID(message), digits)
  BY <1>1 DEF SetRegister
<1> HIDE DEF class, digits
<1>6. r = IF flags # 0 THEN Failure ELSE Reading(x)
  BY <1>1, <1>2, <1>3, <1>4, <1>5, AnswerTaken DEF SenseType, class
<1> HIDE DEF r
<1>7. effect = TakeReading(ScaledLeaf, l, r)
  BY <1>1 DEF TakeRegister
<1> HIDE DEF effect, s
<1>8. IsLeaf(ScaledLeaf) /\ ScaledLeaf.kind # "string"
  BY LeavesAre DEF NumberLeaves
<1>9. /\ Shown(ScaledLeaf, effect.leaf, SentTo(t, effect))
      /\ effect.leaf.hasBeenSet => effect.leaf.value[1].value = Wrap(SenseType(w), v)
  <2>1. CASE flags # 0
    <3>1. r.value = <<>>
      BY <1>6, <2>1 DEF Failure
    <3>2. effect = RemoveValue(l)
      BY <1>7, <3>1 DEF TakeReading
    <3> QED
      BY <3>2, Removed
  <2>2. CASE flags = 0
    <3>1. r.value # <<>> /\ r.value[1] = x
      BY <1>6, <2>2 DEF Reading
    <3>2. effect = Assign(ScaledLeaf, l, x)
      BY <1>7, <3>1 DEF TakeReading
    <3>3. x.value = Wrap(SenseType(w), LittleEndian(data)) /\ x.value \in Int
          /\ x.denominatorExponent = digits
      <4>1. SenseType(w) \in Types
        BY <1>1, TypeNames DEF SenseType, SenseTypes, TypeOf, class
      <4>2. LittleEndian(data) \in Int
        BY <1>2, ReadType, NumberInt
      <4> QED
        BY <1>1, <4>1, <4>2, ScaledIs
    <3> HIDE DEF x
    <3>4. Fits(ScaledLeaf, x)
      BY <1>1, <3>3, NumbersFit
    <3>5. /\ Shown(ScaledLeaf, effect.leaf, SentTo(t, effect))
          /\ effect.leaf.value[1] = Stored(ScaledLeaf, x)
      BY <1>8, <3>2, <3>4, Assigned
    <3>6. Stored(ScaledLeaf, x) = x
      BY <1>8 DEF Stored
    <3> QED
      BY <1>2, <3>3, <3>5, <3>6
  <2> QED
    BY <2>1, <2>2
<1> QED
  BY <1>9 DEF effect, r, message, s, id

-----------------------------------------------------------------------------
(* What is on its way, and what has arrived, comes from a text of the BMV. *)
UpdateInv ==
    /\ \E p \in BOOLEAN : \E v, text : update = [pending |-> p, value |-> v, from |-> text]
    /\ update.pending => /\ TellsMPPTs(wire)
                         /\ update.from \in Texts
                         /\ update.value = UpdateValue(wire.leaf, update.from)

CommandInv ==
    command.bytes # <<>> =>
        /\ TellsMPPTs(wire)
        /\ command.from \in Texts
        /\ \E data : /\ Carries(wire, data, UpdateValue(wire.leaf, command.from))
                     /\ command.bytes = Setting(SenseRegister(wire), data)

ArrivedInv ==
    /\ \E t : Shown(ScaledLeaf, sense.leaf, t)
    /\ sense.leaf.hasBeenSet =>
            /\ TellsMPPTs(wire)
            /\ sense.from \in Texts
            /\ sense.leaf.value[1].value =
                    Wrap(SenseType(wire), UpdateValue(wire.leaf, sense.from))

SenseInv == UpdateInv /\ CommandInv /\ ArrivedInv

LEMMA Told3 == ASSUME NEW w, TellsMPPTs(w) PROVE w.leaf \in SenseFields
BY DEF TellsMPPTs, SenseFields

LEMMA SenseAtFirst == Init => SenseInv
<1> SUFFICES ASSUME Init PROVE SenseInv
  OBVIOUS
<1>1. ASSUME NEW a, a = FALSE,
             update = [pending |-> a, value |-> 0, from |-> None]
      PROVE  UpdateInv
  <2>1. a \in BOOLEAN /\ ~update.pending
    BY <1>1
  <2>2. \E p \in BOOLEAN : \E v, text : update = [pending |-> p, value |-> v, from |-> text]
    BY <1>1, <2>1
  <2> QED
    BY <2>1, <2>2 DEF UpdateInv
<1>2. UpdateInv
  BY <1>1, Zenon DEF Init
<1>3. CommandInv
  BY DEF Init, CommandInv
<1>4. ASSUME NEW a, a = FALSE, sense = [leaf |-> [hasBeenSet |-> a, value |-> <<>>], from |-> None]
      PROVE  ArrivedInv
  <2>1. ~sense.leaf.hasBeenSet /\ a \in BOOLEAN
    BY <1>4
  <2>2. \E set \in BOOLEAN : \E x : sense.leaf = [hasBeenSet |-> set, value |-> x]
    BY <1>4, <2>1
  <2>3. Shown(ScaledLeaf, sense.leaf, NoText)
    BY <2>1, <2>2 DEF Shown
  <2> QED
    BY <2>1, <2>3 DEF ArrivedInv
<1>5. ArrivedInv
  BY <1>4, Zenon DEF Init, NoLeaf
<1> QED
  BY <1>2, <1>3, <1>5 DEF SenseInv

LEMMA SenseStep == SenseInv /\ [Next]_vars => SenseInv'
<1> SUFFICES ASSUME SenseInv, [Next]_vars PROVE SenseInv'
  OBVIOUS
<1>1. wire' = wire
  BY WireStays
<1>2. ASSUME UNCHANGED update PROVE UpdateInv'
  BY <1>1, <1>2 DEF SenseInv, UpdateInv
<1>3. ASSUME UNCHANGED command PROVE CommandInv'
  BY <1>1, <1>3 DEF SenseInv, CommandInv
<1>4. ASSUME UNCHANGED sense PROVE ArrivedInv'
  BY <1>1, <1>4 DEF SenseInv, ArrivedInv
<1>5. ASSUME command' = [bytes |-> <<>>, from |-> None] PROVE CommandInv'
  BY <1>5 DEF CommandInv
<1>6. CASE processTextField
  <2>1. PICK text \in Texts :
            update' = IF TellsMPPTs(wire)
                      THEN [pending |-> TRUE, value |-> UpdateValue(wire.leaf, text), from |-> text]
                      ELSE update
    BY <1>6, Zenon DEF processTextField
  <2>2. UpdateInv'
    <3>1. ASSUME NEW a, a = TRUE, TellsMPPTs(wire),
                 update' = [pending |-> a, value |-> UpdateValue(wire.leaf, text), from |-> text]
          PROVE  UpdateInv'
      <4>1. /\ a \in BOOLEAN
            /\ update'.from = text
            /\ update'.value = UpdateValue(wire.leaf, text)
        BY <3>1
      <4>2. \E p \in BOOLEAN : \E v, said : update' = [pending |-> p, value |-> v, from |-> said]
        BY <3>1, <4>1
      <4> QED
        BY <1>1, <3>1, <4>1, <4>2 DEF UpdateInv
    <3>2. CASE TellsMPPTs(wire)
      <4>1. update' = [pending |-> TRUE, value |-> UpdateValue(wire.leaf, text), from |-> text]
        BY <2>1, <3>2
      <4> QED
        BY <3>1, <3>2, <4>1, Zenon
    <3>3. CASE ~TellsMPPTs(wire)
      BY <1>2, <2>1, <3>3
    <3> QED
      BY <3>2, <3>3
  <2>3. UNCHANGED <<command, sense>>
    BY <1>6, Zenon DEF processTextField
  <2> QED
    BY <1>3, <1>4, <2>2, <2>3 DEF SenseInv
<1>7. CASE hexMessageReceived
  BY <1>2, <1>3, <1>4, <1>7 DEF hexMessageReceived, SenseInv
<1>8. CASE sendUpdate
  <2>1. /\ update.pending
        /\ command' = [bytes |-> CommandFor(wire, update.value), from |-> update.from]
        /\ update' = [update EXCEPT !.pending = FALSE]
        /\ UNCHANGED sense
    BY <1>8 DEF sendUpdate, CommandFor
  <2>2. /\ TellsMPPTs(wire)
        /\ update.from \in Texts
        /\ update.value = UpdateValue(wire.leaf, update.from)
    BY <2>1 DEF SenseInv, UpdateInv
  <2>3. wire.leaf \in SenseFields
    BY <2>2, Told3
  <2>4. UpdateValue(wire.leaf, update.from) \in Int
    BY <2>2, <2>3, UpdateIs
  <2>5. PICK data : /\ Carries(wire, data, UpdateValue(wire.leaf, update.from))
                    /\ CommandFor(wire, update.value) = Setting(SenseRegister(wire), data)
    BY <2>2, <2>3, <2>4, CommandIs
  <2>6. CommandInv'
    <3>1. /\ command'.from = update.from
          /\ command'.bytes = Setting(SenseRegister(wire), data)
      BY <2>1, <2>5
    <3> QED
      BY <1>1, <2>2, <2>5, <3>1 DEF CommandInv
  <2>7. UpdateInv'
    <3>0. PICK p \in BOOLEAN : \E v, text : update = [pending |-> p, value |-> v, from |-> text]
      BY DEF SenseInv, UpdateInv
    <3>1. PICK v, text : update = [pending |-> p, value |-> v, from |-> text]
      BY <3>0
    <3>2. update' = [pending |-> FALSE, value |-> v, from |-> text]
      <4>1. ASSUME NEW a, NEW b, NEW y, NEW z
            PROVE  [[pending |-> b, value |-> y, from |-> z] EXCEPT !.pending = a] =
                   [pending |-> a, value |-> y, from |-> z]
        OBVIOUS
      <4> QED
        BY <2>1, <3>1, <4>1, Zenon
    <3>3. ASSUME NEW a, a = FALSE, update' = [pending |-> a, value |-> v, from |-> text]
          PROVE  UpdateInv'
      <4>1. a \in BOOLEAN /\ ~update'.pending
        BY <3>3
      <4>2. \E q \in BOOLEAN : \E x, said : update' = [pending |-> q, value |-> x, from |-> said]
        BY <3>3, <4>1
      <4> QED
        BY <4>1, <4>2 DEF UpdateInv
    <3> QED
      BY <3>2, <3>3, Zenon
  <2> QED
    BY <1>4, <2>1, <2>6, <2>7 DEF SenseInv
<1>9. CASE hexProtocolSetResponseReceived
  <2> DEFINE effect(flags) ==
                TakeRegister(SenseWire(wire), sense.leaf,
                             SetRegister(SenseWire(wire), Answer(command.bytes, flags)))
  <2>1. PICK flags \in {0, 4} :
            /\ command.bytes # <<>>
            /\ sense' = [leaf |-> effect(flags).leaf, from |-> command.from]
            /\ command' = [bytes |-> <<>>, from |-> None]
            /\ UNCHANGED update
    BY <1>9, Zenon DEF hexProtocolSetResponseReceived, SenseWire
  <2>2. /\ TellsMPPTs(wire)
        /\ command.from \in Texts
    BY <2>1 DEF SenseInv, CommandInv
  <2> DEFINE v == UpdateValue(wire.leaf, command.from)
  <2>3. PICK data : Carries(wire, data, v) /\ command.bytes = Setting(SenseRegister(wire), data)
    BY <2>1 DEF SenseInv, CommandInv
  <2>4. wire.leaf \in SenseFields /\ v \in Int
    BY <2>2, Told3, UpdateIs
  <2>5. PICK t : Shown(ScaledLeaf, sense.leaf, t)
    BY DEF SenseInv, ArrivedInv
  <2> HIDE DEF v
  <2>6. /\ Shown(ScaledLeaf, effect(flags).leaf, SentTo(t, effect(flags)))
        /\ effect(flags).leaf.hasBeenSet =>
                effect(flags).leaf.value[1].value = Wrap(SenseType(wire), v)
    BY <2>3, <2>4, <2>5, AnswerShown
  <2> HIDE DEF effect
  <2>7. sense'.leaf = effect(flags).leaf /\ sense'.from = command.from
    BY <2>1
  <2>8. ArrivedInv'
    BY <1>1, <2>2, <2>6, <2>7 DEF ArrivedInv, v
  <2> QED
    BY <1>2, <1>5, <2>1, <2>8 DEF SenseInv
<1>10. CASE CommandTimesOut
  BY <1>2, <1>4, <1>5, <1>10 DEF CommandTimesOut, SenseInv
<1>11. CASE UNCHANGED vars
  BY <1>2, <1>3, <1>4, <1>11 DEF vars, SenseInv
<1> QED
  BY <1>6, <1>7, <1>8, <1>9, <1>10, <1>11 DEF Next

(* A sense leaf of an MPPT controller shows what the BMV read: for every   *)
(* text, through the conversions of the calls, the bytes of the command,   *)
(* the answer and the register; and every command passes the checksum.     *)
THEOREM MPPTTold == Spec => []MPPTShowsBMV
<1>1. SenseInv => MPPTShowsBMV
  <2> SUFFICES ASSUME SenseInv PROVE MPPTShowsBMV
    OBVIOUS
  <2>1. ASSUME command.bytes # <<>>
        PROVE  SumOfBytes(command.bytes) = ChecksumOfMessage
    <3>1. PICK data : /\ TellsMPPTs(wire)
                      /\ data \in Seq(Byte)
                      /\ command.bytes = Setting(SenseRegister(wire), data)
      BY <2>1 DEF SenseInv, CommandInv, Carries
    <3>2. SenseRegister(wire) \in Number16 /\ 0 \in Byte
      BY <3>1, Told3, SenseWireIs, ByteNumbers
    <3> QED
      BY <3>1, <3>2, SettingIsAnswered
  <2>2. ASSUME sense.leaf.hasBeenSet, InSenseRange(wire, sense.from)
        PROVE  sense.leaf.value[1].value = SenseValue(wire, sense.from)
    <3>1. /\ TellsMPPTs(wire)
          /\ sense.from \in Texts
          /\ sense.leaf.value[1].value =
                    Wrap(SenseType(wire), UpdateValue(wire.leaf, sense.from))
      BY <2>2 DEF SenseInv, ArrivedInv
    <3> QED
      BY <2>2, <3>1, Told3, UpdateIs
  <2> QED
    BY <2>1, <2>2 DEF MPPTShowsBMV
<1> QED
  BY <1>1, SenseAtFirst, SenseStep, PTL DEF Spec

===============================================================================
