--------------------------- MODULE RouterDataProofs ---------------------------
(***************************************************************************)
(* What the data parts of the router compute, for every value of the       *)
(* constants: buffers, address lists, domain matchers and hosts, and, with *)
(* MessagesProofs, messages and replies. Then the hot reload of the data   *)
(* files, for every set of loaders and groups of them, of contents and of  *)
(* concurrent requests.                                                    *)
(***************************************************************************)
EXTENDS RouterData, DataReload, MessagesProofs

(* Powers of two.                                                          *)

(* A power of two counts the subsets of an interval. *)
LEMMA PowerCounts ==
    ASSUME NEW k \in Nat
    PROVE  IsFiniteSet(SUBSET (1..k)) /\ Cardinality(SUBSET (1..k)) = 2^k
<1>1. IsFiniteSet(1..k) /\ Cardinality(1..k) = k
  BY FS_Interval
<1> QED BY <1>1, FS_SUBSET

(* A power of two is a positive number. *)
LEMMA PowerPositive ==
    ASSUME NEW k \in Nat
    PROVE  2^k \in Nat /\ 2^k >= 1
<1> DEFINE A == SUBSET (1..k)
<1>1. IsFiniteSet(A) /\ Cardinality(A) = 2^k
  BY PowerCounts
<1>2. A # {}
  OBVIOUS
<1> HIDE DEF A
<1>3. Cardinality(A) \in Nat /\ Cardinality(A) # 0
  BY <1>1, <1>2, FS_CardinalityType, FS_EmptySet
<1> QED BY <1>1, <1>3

(* The next power of two is twice as large: a set has twice the subsets     *)
(* once it has one more element.                                            *)
LEMMA PowerDoubles ==
    ASSUME NEW k \in Nat
    PROVE  2^(k + 1) = 2 * 2^k
<1> DEFINE A == SUBSET (1..k)
           B == {x \cup {k + 1} : x \in A}
           f == [x \in A |-> x \cup {k + 1}]
<1>1. IsFiniteSet(A) /\ Cardinality(A) = 2^k
  BY PowerCounts
<1>2. IsFiniteSet(SUBSET (1..(k + 1))) /\ Cardinality(SUBSET (1..(k + 1))) = 2^(k + 1)
  BY PowerCounts
<1>3. 1..(k + 1) = (1..k) \cup {k + 1} /\ k + 1 \notin 1..k
  OBVIOUS
<1>4. A \cup B = SUBSET (1..(k + 1))
  <2>1. ASSUME NEW x \in SUBSET (1..(k + 1)) PROVE x \in A \cup B
    <3>1. CASE k + 1 \notin x
      BY <1>3, <3>1
    <3>2. CASE k + 1 \in x
      <4>1. x \ {k + 1} \in A
        BY <1>3
      <4>2. x = (x \ {k + 1}) \cup {k + 1}
        BY <3>2
      <4> QED BY <4>1, <4>2
    <3> QED BY <3>1, <3>2
  <2>2. A \cup B \subseteq SUBSET (1..(k + 1))
    BY <1>3
  <2> QED BY <2>1, <2>2
<1>5. A \cap B = {}
  BY <1>3
<1>6. f \in Bijection(A, B)
  <2>1. f \in [A -> B]
    OBVIOUS
  <2>2. ASSUME NEW x \in A, NEW y \in A, x \cup {k + 1} = y \cup {k + 1} PROVE x = y
    BY <1>3, <2>2
  <2>3. f \in Injection(A, B)
    BY <2>1, <2>2 DEF Injection, IsInjective
  <2>4. f \in Surjection(A, B)
    BY <2>1 DEF Surjection
  <2> QED BY <2>3, <2>4 DEF Bijection
<1>7. IsFiniteSet(B) /\ Cardinality(B) = 2^k
  <2>1. ExistsBijection(A, B)
    BY <1>6 DEF ExistsBijection
  <2> HIDE DEF A, B
  <2> QED BY <2>1, <1>1, FS_Bijection
<1>8. 2^k \in Nat
  BY PowerPositive
<1> HIDE DEF A, B
<1>9. Cardinality(A \cup B) = Cardinality(A) + Cardinality(B) - Cardinality(A \cap B)
  BY <1>1, <1>7, FS_Union
<1>10. Cardinality(A \cap B) = 0
  BY <1>5, FS_EmptySet
<1>11. Cardinality(A \cup B) = 2^(k + 1)
  BY <1>2, <1>4, Zenon
<1>12. 2^(k + 1) = 2^k + 2^k - 0
  BY <1>1, <1>7, <1>9, <1>10, <1>11, Zenon
<1> QED BY <1>8, <1>12

(* Powers of two grow. *)
LEMMA PowerGrows ==
    ASSUME NEW i \in Nat, NEW j \in Nat, i <= j
    PROVE  2^i <= 2^j
<1> DEFINE T == {d \in Nat : 2^i <= 2^(i + d)}
<1>1. 0 \in T
  BY PowerPositive
<1>2. ASSUME NEW d \in T PROVE d + 1 \in T
  <2>1. i + d \in Nat /\ i + (d + 1) = (i + d) + 1
    OBVIOUS
  <2>2. 2^(i + (d + 1)) = 2 * 2^(i + d) /\ 2^(i + d) \in Nat /\ 2^i \in Nat
    BY <2>1, PowerDoubles, PowerPositive
  <2> QED BY <2>2
<1>3. Nat \subseteq T
  <2>1. \A d \in T \cap Nat : d + 1 \in T
    BY <1>2
  <2> QED BY <1>1, <2>1, Induction, Zenon
<1>4. j - i \in T /\ i + (j - i) = j
  BY <1>3
<1> QED BY <1>4

-----------------------------------------------------------------------------
(* Buffers: get and release agree on the class of a capacity.              *)

(* bits.Len: the number k with 2^(k-1) <= n < 2^k is the one BitLen         *)
(* picks.                                                                   *)
LEMMA BitLenIs ==
    ASSUME NEW n \in Nat, NEW k \in 0..30, 2^k > n, k > 0 => 2^(k - 1) <= n
    PROVE  BitLen(n) = k
<1> DEFINE P(j) == 2^j > n /\ (j > 0 => 2^(j - 1) <= n)
<1>1. ASSUME NEW j \in 0..30, P(j), NEW i \in 0..30, P(i), j < i PROVE FALSE
  <2>1. 2^j <= 2^(i - 1)
    BY <1>1, PowerGrows
  <2>2. 2^j \in Nat /\ 2^(i - 1) \in Nat
    BY <1>1, PowerPositive
  <2> QED BY <1>1, <2>1, <2>2
<1>2. \A j \in 0..30 : P(j) => j = k
  <2>1. SUFFICES ASSUME NEW j \in 0..30, P(j), j # k PROVE FALSE
    OBVIOUS
  <2>2. P(k)
    OBVIOUS
  <2>3. CASE j < k
    BY <1>1, <2>1, <2>2, <2>3
  <2>4. CASE k < j
    BY <1>1, <2>1, <2>2, <2>4
  <2> QED BY <2>1, <2>3, <2>4
<1>3. P(k)
  OBVIOUS
<1>4. BitLen(n) = CHOOSE j \in 0..30 : P(j)
  BY DEF BitLen
<1> HIDE DEF P
<1> QED BY <1>2, <1>3, <1>4

(* Every number below 1 GB has such a k, so that the class of every         *)
(* pooled size is defined.                                                  *)
LEMMA BitLenExists ==
    ASSUME NEW n \in Nat, n < 2^30
    PROVE  \E k \in 0..30 : BitLen(n) = k /\ 2^k > n /\ (k > 0 => 2^(k - 1) <= n)
<1> DEFINE T == {k \in Nat : 2^k > n}
<1>1. 30 \in T
  BY Zenon
<1>2. PICK k \in T : \A j \in T : k <= j
  BY <1>1, Least, T \subseteq Nat, Zenon
<1>3. k \in 0..30 /\ 2^k > n
  <2>1. k <= 30 /\ k \in Nat /\ 2^k > n
    BY <1>1, <1>2, Zenon
  <2> QED BY <2>1
<1>4. ASSUME k > 0 PROVE 2^(k - 1) <= n
  <2>1. k - 1 \in Nat /\ k - 1 \notin T
    BY <1>2, <1>4
  <2>2. 2^(k - 1) \in Nat
    BY <2>1, PowerPositive
  <2> QED BY <2>1, <2>2
<1>5. BitLen(n) = k
  BY <1>3, <1>4, BitLenIs
<1> QED BY <1>3, <1>4, <1>5

(* A size and a power of two within the same class. *)
LEMMA LargeClass ==
    ASSUME NEW size \in Nat, size > 2^8, NEW k \in 9..30, 2^(k - 1) <= size - 1, size - 1 < 2^k
    PROVE  \E u \in Nat, d \in 4..7 :
             /\ u >= 1 /\ 2^(k - 3) = u /\ 2^(k - 1) = 4 * u /\ 2^k = 8 * u
             /\ d * u <= size - 1 /\ size - 1 < (d + 1) * u
             /\ Class(size) = <<"large", k - 9, d - 4>>
             /\ ClassSize(Class(size)) = (d + 1) * u
<1> DEFINE u == 2^(k - 3)
           d == (size - 1) \div u
<1>1. u \in Nat /\ u >= 1
  BY PowerPositive
<1>2. 2^(k - 2) = 2 * u /\ 2^(k - 1) = 2 * 2^(k - 2) /\ 2^k = 2 * 2^(k - 1)
  <2>1. (k - 3) + 1 = k - 2 /\ (k - 2) + 1 = k - 1 /\ (k - 1) + 1 = k /\ k - 3 \in Nat /\ k - 2 \in Nat /\ k - 1 \in Nat
    OBVIOUS
  <2> QED BY <2>1, PowerDoubles
<1>3. 2^(k - 1) = 4 * u /\ 2^k = 8 * u
  BY <1>1, <1>2
<1>4. BitLen(size - 1) = k
  <2> DEFINE n == size - 1
  <2>1. n \in Nat /\ k \in 0..30 /\ 2^k > n /\ (k > 0 => 2^(k - 1) <= n)
    BY <1>1, <1>3
  <2> HIDE DEF n
  <2>2. BitLen(n) = k
    BY <2>1, BitLenIs, Zenon
  <2> QED BY <2>2 DEF n
<1> HIDE DEF u
<1>5. d \in 4..7 /\ d * u <= size - 1 /\ size - 1 < (d + 1) * u
  BY <1>1, <1>3
<1>6. d % 4 = d - 4
  BY <1>5
<1>7. Class(size) = <<"large", k - 9, d - 4>>
  <2>1. ~(size <= SmallMax)
    BY SizesAssumption
  <2> QED BY <1>4, <1>6, <2>1, Zenon DEF Class, u
<1>8. (k - 9) + 8 = k - 1 /\ (k - 9) + 6 = k - 3
  OBVIOUS
<1>9. ClassSize(Class(size)) = 2^((k - 9) + 8) + ((d - 4) + 1) * 2^((k - 9) + 6)
  BY <1>7 DEF ClassSize
<1>10. ClassSize(Class(size)) = 4 * u + ((d - 4) + 1) * u
  BY <1>3, <1>8, <1>9 DEF u
<1>11. 4 * u + ((d - 4) + 1) * u = (d + 1) * u
  BY <1>1, <1>5
<1> QED BY <1>1, <1>3, <1>5, <1>7, <1>10, <1>11 DEF u

(* The size of a class holds every size of it, and is of it. *)
LEMMA ClassHolds ==
    ASSUME NEW size \in 1..LargeMax
    PROVE  LET cs == ClassSize(Class(size))
           IN  cs \in 1..LargeMax /\ size <= cs /\ Class(cs) = Class(size)
<1> DEFINE cs == ClassSize(Class(size))
<1>1. PICK k \in 0..30 : BitLen(size - 1) = k /\ 2^k > size - 1 /\ (k > 0 => 2^(k - 1) <= size - 1)
  BY BitLenExists, SizesAssumption
<1>2. CASE size <= 2^8
  <2>1. k <= 8
    <3>1. SUFFICES ASSUME k > 8 PROVE FALSE
      OBVIOUS
    <3>2. 2^8 <= 2^(k - 1)
      <4>1. 8 \in Nat /\ k - 1 \in Nat /\ 8 <= k - 1
        BY <3>1
      <4> QED BY <4>1, PowerGrows, Zenon
    <3>3. 2^(k - 1) \in Nat
      BY <3>1, PowerPositive
    <3> QED BY <1>1, <1>2, <3>1, <3>2, <3>3
  <2>2. Class(size) = <<"small", k>>
    BY <1>1, <1>2, SizesAssumption DEF Class
  <2>3. cs = 2^k
    BY <2>2 DEF ClassSize
  <2>4. 2^k \in Nat /\ 2^k >= 1 /\ 2^k <= 2^8
    <3>1. k \in Nat /\ 8 \in Nat /\ k <= 8
      BY <2>1
    <3> QED BY <3>1, PowerPositive, PowerGrows, Zenon
  <2>5. k > 0 => 2^(k - 1) <= 2^k - 1
    <3>1. SUFFICES ASSUME k > 0 PROVE 2^(k - 1) <= 2^k - 1
      OBVIOUS
    <3>2. 2^((k - 1) + 1) = 2 * 2^(k - 1) /\ 2^(k - 1) \in Nat /\ 2^(k - 1) >= 1
      BY <3>1, PowerDoubles, PowerPositive
    <3>3. (k - 1) + 1 = k
      OBVIOUS
    <3> QED BY <3>2, <3>3
  <2>6. BitLen(2^k - 1) = k
    <3> DEFINE n == 2^k - 1
    <3>1. n \in Nat /\ 2^k > n /\ (k > 0 => 2^(k - 1) <= n)
      BY <2>4, <2>5
    <3> HIDE DEF n
    <3>2. BitLen(n) = k
      BY <3>1, BitLenIs, Zenon
    <3> QED BY <3>2 DEF n
  <2>7. Class(2^k) = <<"small", k>>
    BY <2>4, <2>6, SizesAssumption DEF Class
  <2>8. cs \in 1..LargeMax /\ size <= cs
    BY <1>1, <2>3, <2>4, SizesAssumption
  <2> QED BY <2>2, <2>3, <2>7, <2>8
<1>3. CASE size > 2^8
  <2>1. k \in 9..30
    <3>1. SUFFICES ASSUME k <= 8 PROVE FALSE
      OBVIOUS
    <3>2. 2^k <= 2^8 /\ 2^k \in Nat
      <4>1. k \in Nat /\ 8 \in Nat /\ k <= 8
        BY <3>1
      <4> QED BY <4>1, PowerPositive, PowerGrows, Zenon
    <3> QED BY <1>1, <1>3, <3>1, <3>2
  <2>2. size \in Nat /\ 2^(k - 1) <= size - 1 /\ size - 1 < 2^k
    BY <1>1, <2>1
  <2>3. PICK u \in Nat, d \in 4..7 :
             /\ u >= 1 /\ 2^(k - 3) = u /\ 2^(k - 1) = 4 * u /\ 2^k = 8 * u
             /\ d * u <= size - 1 /\ size - 1 < (d + 1) * u
             /\ Class(size) = <<"large", k - 9, d - 4>>
             /\ cs = (d + 1) * u
    BY <1>3, <2>1, <2>2, LargeClass
  <2>4. cs \in Nat /\ 4 * u <= cs - 1 /\ cs - 1 < 8 * u /\ size <= cs /\ d * u <= cs - 1 /\ cs <= 8 * u
    BY <2>3
  <2>5. 2^k <= 2^30
    <3>1. k \in Nat /\ 30 \in Nat /\ k <= 30
      BY <2>1
    <3> QED BY <3>1, PowerGrows, Zenon
  <2>6. cs > 2^8 /\ cs \in 1..LargeMax
    BY <1>3, <2>3, <2>4, <2>5, SizesAssumption
  <2>7. PICK v \in Nat, e \in 4..7 :
             /\ v >= 1 /\ 2^(k - 3) = v
             /\ e * v <= cs - 1 /\ cs - 1 < (e + 1) * v
             /\ Class(cs) = <<"large", k - 9, e - 4>>
    <3>1. 2^(k - 1) <= cs - 1 /\ cs - 1 < 2^k
      BY <2>3, <2>4
    <3> HIDE DEF cs
    <3> QED BY <2>1, <2>4, <2>6, <3>1, LargeClass
  <2>8. u = v /\ e = d
    BY <2>3, <2>4, <2>7
  <2> QED BY <2>3, <2>4, <2>6, <2>7, <2>8
<1> QED BY <1>2, <1>3, SizesAssumption

(* Every array pooled is as large as its class says, and every buffer out   *)
(* is either too large or too small to be pooled, and is its own memory, or *)
(* fits the size of a class.                                                *)
BufferIInv ==
    /\ ~panicked
    /\ \A a \in arrays : \E size \in 1..LargeMax : a.class = Class(size) /\ a.real = ClassSize(a.class)
    /\ \A b \in held :
         /\ b.len <= b.cap /\ b.cap <= b.real
         /\ b.cap \in 1..LargeMax =>
              \E size \in 1..LargeMax : b.cap = ClassSize(Class(size)) /\ b.real = b.cap

(* Nothing is out or pooled at first. *)
LEMMA BufferInitIInv == BufferInit => BufferIInv
BY DEF BufferInit, BufferIInv

(* get, release and a collection of the pool keep it: a buffer leaves       *)
(* with the capacity of its class and comes back to the pool of that        *)
(* capacity.                                                                *)
LEMMA BufferStepIInv == BufferIInv /\ BufferStep => BufferIInv'
<1> SUFFICES ASSUME BufferIInv, BufferStep PROVE BufferIInv'
  OBVIOUS
<1> USE DEF BufferIInv
<1>1. ASSUME NEW size \in Sizes, Get(size) PROVE BufferIInv'
  <2>0. size \in Nat
    BY SizesAssumption
  <2>1. CASE size \notin 1..LargeMax
    <3> DEFINE b == [len |-> size, cap |-> size, real |-> size]
    <3>1. held' = held \cup {b} /\ arrays' = arrays /\ panicked' = panicked
      BY <1>1, <2>1 DEF Get
    <3>2. b.len <= b.cap /\ b.cap <= b.real /\ b.cap \notin 1..LargeMax
      BY <2>0, <2>1
    <3> QED BY <3>1, <3>2
  <2>2. CASE size \in 1..LargeMax
    <3> DEFINE cs == ClassSize(Class(size))
               b == [len |-> size, cap |-> cs, real |-> cs]
    <3>1. cs \in 1..LargeMax /\ size <= cs
      BY <2>2, ClassHolds
    <3>2. held' = held \cup {b} /\ arrays' \subseteq arrays /\ panicked' = panicked
      <4>1. CASE \E a \in arrays : /\ a.class = Class(size) /\ arrays' = arrays \ {a}
                                   /\ held' = held \cup {[len |-> size, cap |-> cs, real |-> a.real]}
        BY <1>1, <4>1 DEF Get
      <4>2. CASE held' = held \cup {b} /\ arrays' = arrays
        BY <1>1, <4>2 DEF Get
      <4> HIDE DEF cs
      <4> QED BY <1>1, <2>2, <4>1, <4>2 DEF Get, cs
    <3>3. b.len <= b.cap /\ b.cap <= b.real /\ b.cap = ClassSize(Class(size)) /\ b.real = b.cap
      <4>1. b.len = size /\ b.cap = cs /\ b.real = cs
        OBVIOUS
      <4>2. size \in Int /\ cs \in Int /\ size <= cs
        <5> HIDE DEF cs
        <5> QED BY <2>0, <3>1
      <4> HIDE DEF b, cs
      <4>3. b.len <= b.cap /\ b.cap <= b.real /\ b.cap = cs /\ b.real = b.cap
        BY <4>1, <4>2
      <4> QED BY <4>3 DEF cs
    <3> HIDE DEF b
    <3> QED BY <2>2, <3>2, <3>3
  <2> QED BY <2>1, <2>2
<1>2. ASSUME NEW b \in held, Release(b) PROVE BufferIInv'
  <2>1. CASE b.cap \notin 1..LargeMax
    BY <1>2, <2>1 DEF Release
  <2>2. CASE b.cap \in 1..LargeMax
    <3>1. PICK size \in 1..LargeMax : b.cap = ClassSize(Class(size)) /\ b.real = b.cap
      BY <2>2
    <3>2. Class(b.cap) = Class(size)
      BY <3>1, ClassHolds
    <3>3. b.cap = ClassSize(Class(b.cap))
      BY <3>1, <3>2
    <3>4. /\ held' = held \ {b} /\ panicked' = FALSE
          /\ arrays' = arrays \cup {[class |-> Class(b.cap), real |-> b.real]}
      BY <1>2, <2>2, <3>3 DEF Release
    <3> QED BY <2>2, <3>1, <3>3, <3>4
  <2> QED BY <2>1, <2>2
<1>3. ASSUME NEW a \in arrays, Collected(a) PROVE BufferIInv'
  BY <1>3 DEF Collected
<1> QED BY <1>1, <1>2, <1>3 DEF BufferStep

-----------------------------------------------------------------------------
(* Address lists: what a list built from a file answers.                   *)

Intervals == [start : Int, end : Int, v : Nat]
Ordered(e) == \A i, j \in 1..Len(e) : i < j => e[i].start <= e[j].start

(* The ends of a range of a list are numbers. *)
LEMMA IntervalEnds ==
    ASSUME NEW e \in Seq(Intervals), NEW k \in 1..Len(e)
    PROVE  e[k].start \in Int /\ e[k].end \in Int /\ e[k].v \in Nat
<1>1. e[k] \in Intervals
  OBVIOUS
<1> QED BY <1>1 DEF Intervals

(* The position after which all starts are beyond ip. *)
Cut(e, ip, t) ==
    /\ \A k \in 1..t : e[k].start <= ip
    /\ \A k \in (t + 1)..Len(e) : ip < e[k].start

(* A list in ascending order has one place where its starts pass an         *)
(* address.                                                                 *)
LEMMA CutExists ==
    ASSUME NEW e \in Seq(Intervals), Ordered(e), NEW ip \in Int
    PROVE  \E t \in 0..Len(e) : Cut(e, ip, t)
<1> DEFINE n == Len(e)
           T == {t \in 0..n : t = n \/ ip < e[t + 1].start}
<1>0. n \in Nat /\ \A k \in 1..n : e[k].start \in Int
  BY IntervalEnds
<1> HIDE DEF n
<1>1. n \in T /\ T \subseteq Nat
  BY <1>0
<1>2. PICK t \in T : \A u \in T : t <= u
  BY <1>1, Least, Zenon
<1>3. t \in 0..n
  BY <1>2
<1>4. ASSUME NEW k \in 1..t PROVE e[k].start <= ip
  <2>1. k - 1 \in 0..n /\ k - 1 \notin T /\ k \in 1..n
    <3>1. k - 1 \in 0..n /\ ~(t <= k - 1) /\ k \in 1..n
      BY <1>3, <1>0
    <3> QED BY <3>1, <1>2, Zenon
  <2>2. ~(ip < e[(k - 1) + 1].start) /\ (k - 1) + 1 = k
    BY <2>1
  <2> QED BY <1>0, <2>1, <2>2
<1>5. ASSUME NEW k \in (t + 1)..n PROVE ip < e[k].start
  <2>1. ip < e[t + 1].start /\ t + 1 \in 1..n /\ k \in 1..n
    BY <1>2, <1>3, <1>0
  <2>2. e[t + 1].start <= e[k].start
    <3>1. CASE t + 1 < k
      BY <2>1, <3>1 DEF Ordered, n
    <3>2. CASE t + 1 = k
      BY <1>0, <2>1, <3>2
    <3> QED BY <3>1, <3>2, <2>1, <1>3, <1>0
  <2> QED BY <1>0, <2>1, <2>2
<1>6. Cut(e, ip, t)
  BY <1>4, <1>5 DEF Cut, n
<1> QED BY <1>3, <1>6 DEF n

(* What the bisection between i and j finds. *)
Clamp(c, i, j) == IF i >= j \/ c < i THEN i ELSE IF c > j THEN j ELSE c

(* One comparison of sort.Search keeps the place looked for between its     *)
(* two bounds.                                                              *)
LEMMA BisectionStep ==
    ASSUME NEW e \in Seq(Intervals), NEW ip \in Int, NEW c \in 0..Len(e), Cut(e, ip, c),
           NEW i \in 0..Len(e), NEW j \in 0..Len(e), i < j
    PROVE  LET h == (i + j) \div 2
           IN  /\ h \in i..(j - 1)
               /\ Clamp(c, i, j) = IF ip < e[h + 1].start THEN Clamp(c, i, h) ELSE Clamp(c, h + 1, j)
<1> DEFINE n == Len(e)
           h == (i + j) \div 2
<1>1. n \in Nat /\ \A k \in 1..n : e[k].start \in Int
  BY IntervalEnds
<1> HIDE DEF n
<1>2. h \in i..(j - 1)
  BY DEF n
<1> HIDE DEF h
<1>3. h \in Int /\ i <= h /\ h < j /\ h + 1 \in 1..n /\ i \in 0..n /\ j \in 0..n /\ c \in 0..n
  BY <1>1, <1>2 DEF n
<1>4. CASE ip < e[h + 1].start
  <2>1. c <= h
    <3>1. ~(h + 1 \in 1..c)
      BY <1>1, <1>3, <1>4 DEF Cut
    <3> QED BY <1>3, <3>1
  <2>2. Clamp(c, i, j) = Clamp(c, i, h)
    BY <1>3, <2>1 DEF Clamp
  <2> QED BY <1>2, <1>4, <2>2 DEF h
<1>5. CASE ~(ip < e[h + 1].start)
  <2>1. c >= h + 1
    <3>1. ~(h + 1 \in (c + 1)..n)
      BY <1>1, <1>3, <1>5 DEF Cut, n
    <3> QED BY <1>3, <3>1
  <2>2. Clamp(c, i, j) = Clamp(c, h + 1, j)
    BY <1>3, <2>1 DEF Clamp
  <2> QED BY <1>2, <1>5, <2>2 DEF h
<1> QED BY <1>4, <1>5

(* The bisection finds the cut: its recursive definition has a solution,    *)
(* and by induction on the distance of the bounds every solution is it.     *)
LEMMA FirstAfterCuts ==
    ASSUME NEW e \in Seq(Intervals), Ordered(e), NEW ip \in Int
    PROVE  FirstAfter(e, ip) \in 0..Len(e) /\ Cut(e, ip, FirstAfter(e, ip))
<1> DEFINE n == Len(e)
           D == (0..n) \X (0..n)
<1>0. n \in Nat
  OBVIOUS
<1>1. PICK c \in 0..n : Cut(e, ip, c)
  BY CutExists
<1> DEFINE Half(b) == (b[1] + b[2]) \div 2
           F(f) == [b \in D |->
                      IF b[1] >= b[2] THEN b[1]
                      ELSE IF ip < e[Half(b) + 1].start THEN f[<<b[1], Half(b)>>]
                      ELSE f[<<Half(b) + 1, b[2]>>]]
           Bisect == CHOOSE f : f = F(f)
           G == [b \in D |-> Clamp(c, b[1], b[2])]
<1>2. FirstAfter(e, ip) = Bisect[<<0, n>>]
  BY Zenon DEF FirstAfter
<1>3. G = F(G)
  <2>1. ASSUME NEW b \in D PROVE G[b] = F(G)[b]
    <3> DEFINE i == b[1]
               j == b[2]
               h == Half(b)
    <3>0. i \in 0..n /\ j \in 0..n
      OBVIOUS
    <3>1. CASE i >= j
      <4>1. Clamp(c, i, j) = i
        BY <3>0, <3>1 DEF Clamp
      <4> QED BY <4>1, <3>1
    <3>2. CASE ~(i >= j)
      <4>1. /\ h \in i..(j - 1)
            /\ Clamp(c, i, j) = IF ip < e[h + 1].start THEN Clamp(c, i, h) ELSE Clamp(c, h + 1, j)
        <5>1. i < j
          BY <3>0, <3>2
        <5> HIDE DEF i, j
        <5> QED BY <1>1, <3>0, <5>1, BisectionStep DEF h, i, j
      <4>2. h \in 0..n /\ h + 1 \in 0..n
        BY <3>0, <4>1, <1>0
      <4>3. <<i, h>> \in D /\ <<h + 1, j>> \in D
        BY <3>0, <4>2
      <4> HIDE DEF D, i, j, h
      <4>4. G[<<i, h>>] = Clamp(c, i, h) /\ G[<<h + 1, j>>] = Clamp(c, h + 1, j)
        BY <4>3
      <4>5. G[b] = Clamp(c, i, j)
        BY DEF i, j
      <4>6. F(G)[b] = IF ip < e[h + 1].start THEN G[<<i, h>>] ELSE G[<<h + 1, j>>]
        <5> HIDE DEF G
        <5> QED BY <3>2 DEF h, i, j
      <4> QED BY <4>1, <4>4, <4>5, <4>6
    <3> QED BY <3>1, <3>2
  <2> QED BY <2>1
<1>4. Bisect = F(Bisect)
  <2> HIDE DEF F, G
  <2> QED BY <1>3
<1> HIDE DEF Bisect
<1> DEFINE T == {d \in Nat : \A b \in D : b[2] - b[1] = d => Bisect[b] = Clamp(c, b[1], b[2])}
<1>5. ASSUME NEW d \in Nat, \A m \in 0..(d - 1) : m \in T PROVE d \in T
  <2>1. SUFFICES ASSUME NEW b \in D, b[2] - b[1] = d PROVE Bisect[b] = Clamp(c, b[1], b[2])
    OBVIOUS
  <2> DEFINE i == b[1]
             j == b[2]
             h == Half(b)
  <2>0. i \in 0..n /\ j \in 0..n
    OBVIOUS
  <2>2. Bisect[b] = IF i >= j THEN i ELSE IF ip < e[h + 1].start THEN Bisect[<<i, h>>] ELSE Bisect[<<h + 1, j>>]
    <3>1. Bisect[b] = F(Bisect)[b]
      BY <1>4, Zenon
    <3> QED BY <3>1
  <2>3. CASE i >= j
    <3>1. Clamp(c, i, j) = i
      BY <2>0, <2>3 DEF Clamp
    <3> QED BY <2>2, <2>3, <3>1
  <2>4. CASE ~(i >= j)
    <3>1. /\ h \in i..(j - 1)
          /\ Clamp(c, i, j) = IF ip < e[h + 1].start THEN Clamp(c, i, h) ELSE Clamp(c, h + 1, j)
      <4>1. i < j
        BY <2>0, <2>4
      <4> HIDE DEF i, j
      <4> QED BY <1>1, <2>0, <4>1, BisectionStep DEF h, i, j
    <3>a. j - i = d
      BY <2>1
    <3> HIDE DEF h, i, j
    <3>2. h - i \in 0..(d - 1) /\ j - (h + 1) \in 0..(d - 1) /\ h \in 0..n /\ h + 1 \in 0..n
      <4>1. h \in i..(j - 1)
        BY <3>1
      <4> HIDE DEF n
      <4> QED BY <1>0, <2>0, <3>a, <4>1
    <3>3. Bisect[<<i, h>>] = Clamp(c, i, h)
      <4>1. <<i, h>> \in D /\ h - i \in T
        BY <1>5, <2>0, <3>2
      <4> QED BY <4>1
    <3>4. Bisect[<<h + 1, j>>] = Clamp(c, h + 1, j)
      <4>1. <<h + 1, j>> \in D /\ j - (h + 1) \in T
        BY <1>5, <2>0, <3>2
      <4> QED BY <4>1
    <3>5. Bisect[b] = Clamp(c, i, j)
      BY <2>2, <2>4, <3>1, <3>3, <3>4
    <3> QED BY <3>5 DEF i, j
  <2> QED BY <2>3, <2>4
<1>6. Nat \subseteq T
  <2> HIDE DEF T
  <2> QED BY <1>5, StrongInduction, Zenon
<1>7. Bisect[<<0, n>>] = Clamp(c, 0, n)
  <2>1. <<0, n>> \in D /\ n - 0 = n
    BY <1>0
  <2>2. n \in T
    BY <1>0, <1>6
  <2> QED BY <2>1, <2>2
<1>8. Clamp(c, 0, n) = c
  BY <1>0, <1>1 DEF Clamp
<1> QED BY <1>1, <1>2, <1>7, <1>8

CidrLine(p) == [start |-> Masked(p), end |-> LastIP(p), mark |-> "-"]
WrittenLines == {CidrLine(p) : p \in Cidrs} \cup Ranges
ZoneMarks == {l.mark : l \in WrittenLines}

(* addr2Ipv6 maps the two families to numbers, an address of IPv4 among     *)
(* those of IPv6.                                                           *)
LEMMA AddressNumbers ==
    ASSUME NEW a \in Addresses
    PROVE  a.n \in Nat /\ Addr2Ipv6(a) \in Int
<1>1. 2^V4Bits \in Nat /\ 2^V6Bits \in Nat
  BY WidthAssumption, PowerPositive
<1>2. a.n \in Nat
  BY <1>1 DEF Addresses
<1> QED BY <1>2, WidthAssumption DEF Addr2Ipv6

(* Masking a prefix keeps it within its family; its last address follows.   *)
LEMMA PrefixBounds ==
    ASSUME NEW p \in Cidrs
    PROVE  Masked(p) \in Addresses /\ Addr2Ipv6(LastIP(p)) \in Int
<1> DEFINE a == [fam |-> p.fam, n |-> p.n]
           size == 2^(Width(p.fam) - p.bits)
           m == (p.n \div size) * size
<1>1. a \in Addresses /\ p.bits \in 0..Width(p.fam)
  BY LinesAssumption
<1>2. p.n \in Nat /\ p.fam = a.fam
  BY <1>1, AddressNumbers
<1>3. Width(p.fam) \in Nat
  BY WidthAssumption DEF Width
<1>4. Width(p.fam) - p.bits \in Nat
  BY <1>1, <1>3
<1>5. size \in Nat /\ size >= 1
  BY <1>4, PowerPositive
<1>6. 2^V4Bits \in Nat /\ 2^V6Bits \in Nat
  BY WidthAssumption, PowerPositive
<1> HIDE DEF size
<1>7. m \in 0..p.n
  BY <1>2, <1>5
<1>8. Masked(p) = [fam |-> p.fam, n |-> m]
  BY DEF Masked, size
<1>9. LastIP(p) = [fam |-> p.fam, n |-> m + size - 1]
  BY <1>8 DEF LastIP, size
<1> HIDE DEF m
<1>10. Masked(p) \in Addresses
  BY <1>1, <1>2, <1>6, <1>7, <1>8 DEF Addresses
<1>11. Addr2Ipv6(LastIP(p)) \in Int
  BY <1>2, <1>5, <1>7, <1>9, WidthAssumption DEF Addr2Ipv6
<1> QED BY <1>10, <1>11

(* The two ends of every line a file can hold are addresses. *)
LEMMA LineEnds ==
    ASSUME NEW l \in WrittenLines
    PROVE  l.start \in Addresses /\ Addr2Ipv6(l.start) \in Int /\ Addr2Ipv6(l.end) \in Int
<1>1. CASE l \in Ranges
  BY <1>1, LinesAssumption, AddressNumbers
<1>2. ASSUME NEW p \in Cidrs, l = CidrLine(p)
      PROVE l.start \in Addresses /\ Addr2Ipv6(l.start) \in Int /\ Addr2Ipv6(l.end) \in Int
  <2>1. l.start = Masked(p) /\ l.end = LastIP(p)
    BY <1>2 DEF CidrLine
  <2> QED BY <2>1, PrefixBounds, AddressNumbers
<1> QED BY <1>1, <1>2 DEF WrittenLines

(* A range of a list stands for a line: its numbers, and its mark.          *)
Matches(kd, r, m, l) ==
    /\ r.start = Addr2Ipv6(l.start) /\ r.end = Addr2Ipv6(l.end) /\ r.start <= r.end
    /\ kd = "marker" => r.v + 1 \in 1..Len(m) /\ m[r.v + 1] = l.mark

Apart(e) == \A i \in 1..(Len(e) - 1) : e[i].end < e[i + 1].start

(* A list built holds the lines of its file, in ascending order and apart.  *)
Answers(kd, list, ls) ==
    /\ Len(list.e) = Len(ls) /\ Ordered(list.e) /\ Apart(list.e)
    /\ \E p \in Bijection(1..Len(ls), 1..Len(ls)) :
         \A k \in 1..Len(ls) : Matches(kd, list.e[k], list.marks, ls[p[k]])

AddressTypeOK ==
    /\ kind \in {"cidr", "marker"} /\ refused \in {"no", "line", "overlap"}
    /\ lines \in Seq(Seq(WrittenLines)) /\ ranges \in Seq(Intervals) /\ marks \in Seq(ZoneMarks)
    /\ lists \in Seq([e : Seq(Intervals), marks : Seq(ZoneMarks)])

AddressIInv ==
    /\ AddressTypeOK
    /\ Len(lists) <= Len(lines)
    /\ Reading => /\ Len(lines) = Len(lists) + 1
                  /\ Len(ranges) = Len(Last(lines))
                  /\ \A k \in 1..Len(ranges) : Matches(kind, ranges[k], marks, Last(lines)[k])
    /\ \A i \in 1..Len(lists) : Answers(kind, lists[i], lines[i])
    /\ refused = "overlap" =>
         \E a \in Addresses : Cardinality(LinesOver(Len(lines), a)) > 1

(* No file has been read at first. *)
LEMMA AddressInitIInv == AddressInit => AddressIInv
<1> SUFFICES ASSUME AddressInit PROVE AddressIInv
  OBVIOUS
<1>1. <<>> \in Seq(WrittenLines) /\ <<>> \in Seq(Intervals) /\ <<>> \in Seq(ZoneMarks)
      /\ <<>> \in Seq([e : Seq(Intervals), marks : Seq(ZoneMarks)])
  OBVIOUS
<1>2. AddressTypeOK
  BY <1>1 DEF AddressInit, AddressTypeOK
<1>3. Len(lines) = 1 /\ Len(lists) = 0 /\ Len(ranges) = 0 /\ Last(lines) = <<>> /\ Len(Last(lines)) = 0
  BY DEF AddressInit, Last
<1>4. \A k \in 1..Len(ranges) : Matches(kind, ranges[k], marks, Last(lines)[k])
  BY <1>3
<1>5. \A i \in 1..Len(lists) : Answers(kind, lists[i], lines[i])
  BY <1>3
<1>6. refused = "no"
  BY DEF AddressInit
<1> QED BY <1>2, <1>3, <1>4, <1>5, <1>6 DEF AddressIInv

(* ListBuilder.Add of a line: the builder has one range more, for that      *)
(* line, or the line is refused.                                            *)
LEMMA AddRangeIInv ==
    ASSUME AddressIInv, CanAdd, NEW l \in WrittenLines, NEW v \in Nat,
           marks' \in Seq(ZoneMarks),
           \A i \in 1..Len(marks) : i \in 1..Len(marks') /\ marks'[i] = marks[i],
           kind = "marker" => v + 1 \in 1..Len(marks') /\ marks'[v + 1] = l.mark,
           AddRange(l.start, l.end, v, l), UNCHANGED <<kind, lists>>
    PROVE  AddressIInv'
<1> DEFINE n == Len(lines)
           r == [start |-> Addr2Ipv6(l.start), end |-> Addr2Ipv6(l.end), v |-> v]
<1>0. AddressTypeOK /\ Reading /\ n = Len(lists) + 1 /\ n \in Nat /\ Len(lists) \in Nat
  BY DEF AddressIInv, CanAdd, AddressTypeOK
<1>1. r \in Intervals
  BY LineEnds DEF Intervals
<1>2. /\ refused' = IF r.start > r.end THEN "line" ELSE "no"
      /\ ranges' = IF r.start > r.end THEN ranges ELSE Append(ranges, r)
      /\ lines' = [lines EXCEPT ![n] = Append(lines[n], l)]
  BY DEF AddRange
<1>3. lines[n] \in Seq(WrittenLines) /\ n \in 1..n
  BY <1>0 DEF AddressTypeOK
<1>4. Append(lines[n], l) \in Seq(WrittenLines)
  BY <1>3
<1>5. lines' \in Seq(Seq(WrittenLines)) /\ Len(lines') = n /\ lines'[n] = Append(lines[n], l)
      /\ \A i \in 1..Len(lists) : lines'[i] = lines[i]
  BY <1>0, <1>2, <1>3, <1>4 DEF AddressTypeOK
<1>6. Last(lines) = lines[n] /\ Last(lines') = Append(lines[n], l)
  BY <1>5 DEF Last
<1>7. AddressTypeOK'
  BY <1>0, <1>1, <1>2, <1>5 DEF AddressTypeOK
<1>8. kind' = kind /\ lists' = lists
  OBVIOUS
<1>9. \A i \in 1..Len(lists') : Answers(kind, lists'[i], lines'[i])
  <2>1. ASSUME NEW i \in 1..Len(lists) PROVE Answers(kind, lists'[i], lines'[i])
    <3>1. Answers(kind, lists[i], lines[i]) /\ lists' = lists /\ lines'[i] = lines[i]
      BY <1>5, <1>8 DEF AddressIInv
    <3> QED BY <3>1
  <2> QED BY <2>1, <1>8
<1>10. ASSUME Reading'
       PROVE  /\ Len(lines') = Len(lists') + 1
              /\ Len(ranges') = Len(Last(lines'))
              /\ \A k \in 1..Len(ranges') : Matches(kind, ranges'[k], marks', Last(lines')[k])
  <2>1. ~(r.start > r.end) /\ ranges' = Append(ranges, r)
    BY <1>2, <1>10 DEF Reading
  <2>2. Len(ranges) = Len(lines[n]) /\ Len(ranges) \in Nat
    BY <1>0, <1>6 DEF AddressIInv, AddressTypeOK
  <2>3. Len(ranges') = Len(ranges) + 1 /\ Len(Last(lines')) = Len(ranges) + 1
    <3>1. ranges \in Seq(Intervals)
      BY <1>0 DEF AddressTypeOK
    <3> HIDE DEF r
    <3>2. Len(Append(ranges, r)) = Len(ranges) + 1
      BY <3>1, <1>1, AppendProperties
    <3>3. Len(Append(lines[n], l)) = Len(lines[n]) + 1
      BY <1>3, AppendProperties
    <3> QED BY <1>6, <2>1, <2>2, <3>2, <3>3
  <2>a. ranges \in Seq(Intervals)
    BY <1>0 DEF AddressTypeOK
  <2>4. ASSUME NEW k \in 1..Len(ranges')
        PROVE  Matches(kind, ranges'[k], marks', Last(lines')[k])
    <3>1. CASE k \in 1..Len(ranges)
      <4>1. ranges'[k] = ranges[k] /\ Last(lines')[k] = Last(lines)[k]
        BY <1>1, <1>3, <1>6, <2>1, <2>2, <2>a, <3>1, AppendProperties
      <4>2. Matches(kind, ranges[k], marks, Last(lines)[k])
        BY <1>0, <3>1 DEF AddressIInv
      <4>3. kind = "marker" => ranges[k].v + 1 \in 1..Len(marks) /\ marks[ranges[k].v + 1] = Last(lines)[k].mark
        BY <4>2 DEF Matches
      <4>4. kind = "marker" => ranges[k].v + 1 \in 1..Len(marks') /\ marks'[ranges[k].v + 1] = Last(lines)[k].mark
        BY <4>3
      <4> QED BY <4>1, <4>2, <4>4 DEF Matches
    <3>2. CASE k = Len(ranges) + 1
      <4>1. ranges'[k] = r /\ Last(lines')[k] = l
        BY <1>1, <1>3, <1>6, <2>1, <2>2, <2>a, <3>2, AppendProperties
      <4>2. r.start <= r.end
        BY <2>1, LineEnds
      <4>3. r.start = Addr2Ipv6(l.start) /\ r.end = Addr2Ipv6(l.end) /\ r.v = v
        OBVIOUS
      <4> HIDE DEF r
      <4> QED BY <4>1, <4>2, <4>3 DEF Matches
    <3> QED BY <2>2, <2>3, <3>1, <3>2
  <2> QED BY <1>0, <1>5, <2>3, <2>4
<1>11. refused' # "overlap"
  BY <1>2
<1>12. Len(lists') <= Len(lines')
  BY <1>0, <1>5
<1> QED BY <1>7, <1>9, <1>10, <1>11, <1>12 DEF AddressIInv

(* A CIDR line of an ip set file keeps the invariant. *)
LEMMA ReadPrefixIInv ==
    ASSUME AddressIInv, NEW p \in Cidrs, ReadPrefix(p) PROVE AddressIInv'
<1> DEFINE l == CidrLine(p)
<1>1. l \in WrittenLines
  BY DEF WrittenLines
<1>2. l.start = Masked(p) /\ l.end = LastIP(p) /\ l = [start |-> Masked(p), end |-> LastIP(p), mark |-> "-"]
  BY DEF CidrLine
<1>3. AddRange(l.start, l.end, 0, l) /\ CanAdd /\ UNCHANGED <<kind, marks, lists>> /\ kind = "cidr"
  BY <1>2, Zenon DEF ReadPrefix
<1>4. marks' \in Seq(ZoneMarks) /\ \A i \in 1..Len(marks) : i \in 1..Len(marks') /\ marks'[i] = marks[i]
  BY <1>3 DEF AddressIInv, AddressTypeOK
<1>5. kind # "marker" /\ UNCHANGED <<kind, lists>>
  BY <1>3
<1> HIDE DEF l
<1> QED BY <1>1, <1>3, <1>4, <1>5, AddRangeIInv, 0 \in Nat

(* A line of a zone file keeps the invariant, also when its mark is new. *)
LEMMA ReadRangeIInv ==
    ASSUME AddressIInv, NEW l \in Ranges, ReadRange(l) PROVE AddressIInv'
<1> DEFINE seen == {i \in 1..Len(marks) : marks[i] = l.mark}
           v == IF seen = {} THEN Len(marks) ELSE (CHOOSE i \in seen : TRUE) - 1
<1>1. l \in WrittenLines
  BY DEF WrittenLines
<1>2. AddRange(l.start, l.end, v, l) /\ CanAdd /\ UNCHANGED <<kind, lists>>
  BY Zenon DEF ReadRange
<1>3. marks' = IF seen = {} THEN Append(marks, l.mark) ELSE marks
  BY DEF ReadRange
<1>4. marks \in Seq(ZoneMarks) /\ l.mark \in ZoneMarks /\ Len(marks) \in Nat
  BY <1>1 DEF AddressIInv, AddressTypeOK, ZoneMarks
<1>5. CASE seen = {}
  <2>1. v = Len(marks) /\ marks' = Append(marks, l.mark)
    BY <1>3, <1>5
  <2>2. /\ marks' \in Seq(ZoneMarks) /\ Len(marks') = Len(marks) + 1
        /\ marks'[Len(marks) + 1] = l.mark
        /\ \A i \in 1..Len(marks) : marks'[i] = marks[i]
    BY <1>4, <2>1, AppendProperties
  <2>3. v \in Nat /\ v + 1 \in 1..Len(marks') /\ marks'[v + 1] = l.mark
    <3> HIDE DEF v
    <3> QED BY <1>4, <2>1, <2>2
  <2>4. \A i \in 1..Len(marks) : i \in 1..Len(marks') /\ marks'[i] = marks[i]
    BY <1>4, <2>2
  <2> HIDE DEF v
  <2> QED BY <1>1, <1>2, <2>2, <2>3, <2>4, AddRangeIInv
<1>6. CASE seen # {}
  <2>1. PICK i \in seen : v = i - 1
    <3>1. (CHOOSE i \in seen : TRUE) \in seen
      BY <1>6
    <3> QED BY <1>6, <3>1
  <2>2. v \in Nat /\ v + 1 \in 1..Len(marks) /\ marks[v + 1] = l.mark
    <3>1. i \in 1..Len(marks) /\ marks[i] = l.mark
      OBVIOUS
    <3> HIDE DEF v
    <3>2. v \in Nat /\ v + 1 = i
      BY <1>4, <2>1, <3>1
    <3> QED BY <3>1, <3>2
  <2>3. marks' = marks
    BY <1>3, <1>6
  <2> HIDE DEF v
  <2> QED BY <1>1, <1>2, <1>4, <2>2, <2>3, AddRangeIInv
<1> QED BY <1>5, <1>6

(* What is not read anymore stays as it is. *)
LEMMA ReadFailsIInv == ASSUME AddressIInv, ReadFails PROVE AddressIInv'
<1>1. refused' = "line" /\ UNCHANGED <<kind, lines, ranges, marks, lists>>
  BY DEF ReadFails
<1>2. ~Reading'
  BY <1>1 DEF Reading
<1> QED BY <1>1, <1>2 DEF AddressIInv, AddressTypeOK

(* Two lines of a file share an address when two sorted neighbours do not   *)
(* come one after the other.                                                *)
LEMMA OverlapIsShared ==
    ASSUME NEW ls \in Seq(WrittenLines), NEW p \in Bijection(1..Len(ls), 1..Len(ls)),
           NEW rs, Len(rs) = Len(ls), NEW kd, NEW m,
           \A k \in 1..Len(ls) : Matches(kd, rs[k], m, ls[p[k]]),
           Ordered(rs), Overlaps(rs)
    PROVE  \E a \in Addresses : Cardinality({k \in 1..Len(ls) : Covers(ls[k], a)}) > 1
<1> DEFINE n == Len(ls)
<1>0. n \in Nat
  OBVIOUS
<1>1. PICK i \in 1..(n - 1) : rs[i].end >= rs[i + 1].start
  BY DEF Overlaps
<1> DEFINE j == p[i]
           k == p[i + 1]
           a == ls[k].start
           over == {x \in 1..n : Covers(ls[x], a)}
<1>2. i \in 1..n /\ i + 1 \in 1..n /\ i < i + 1
  BY <1>0
<1>3. j \in 1..n /\ k \in 1..n /\ j # k
  BY <1>2 DEF Bijection, Injection, IsInjective
<1>4. ls[j] \in WrittenLines /\ ls[k] \in WrittenLines
  BY <1>3
<1>5. a \in Addresses
  BY <1>4, LineEnds
<1>6. Matches(kd, rs[i], m, ls[j]) /\ Matches(kd, rs[i + 1], m, ls[k])
  BY <1>2
<1> HIDE DEF j, k
<1>7. rs[i].start <= rs[i + 1].start
  BY <1>2 DEF Ordered
<1>8. Covers(ls[j], a) /\ Covers(ls[k], a)
  <2> DEFINE as == Addr2Ipv6(ls[j].start)
             ae == Addr2Ipv6(ls[j].end)
             bs == Addr2Ipv6(ls[k].start)
             be == Addr2Ipv6(ls[k].end)
  <2>1. as \in Int /\ ae \in Int /\ bs \in Int /\ be \in Int
    BY <1>4, LineEnds
  <2>2. rs[i].start = as /\ rs[i].end = ae /\ rs[i + 1].start = bs /\ rs[i + 1].end = be
        /\ rs[i + 1].start <= rs[i + 1].end
    BY <1>6 DEF Matches
  <2> HIDE DEF as, ae, bs, be
  <2>3. as <= bs /\ bs <= ae /\ bs <= be
    BY <1>1, <1>7, <2>1, <2>2
  <2>4. bs <= bs
    BY <2>1
  <2> QED BY <2>3, <2>4 DEF Covers, as, ae, bs, be
<1>9. j \in over /\ k \in over
  BY <1>3, <1>8
<1>10. IsFiniteSet(over)
  <2>1. IsFiniteSet(1..n)
    BY <1>0, FS_Interval
  <2> QED BY <2>1, FS_Subset
<1> HIDE DEF over
<1>11. Cardinality(over) > 1
  BY <1>3, <1>9, <1>10, TwoElements
<1> QED BY <1>5, <1>11 DEF over

(* Sorting a file and checking it for overlaps keeps the invariant: what    *)
(* is appended holds the lines of the file in ascending order and apart.    *)
LEMMA BuildIInv == ASSUME AddressIInv, Build PROVE AddressIInv'
<1> DEFINE n == Len(lines)
           ls == lines[n]
<1>1. PICK rs \in Sorted(ranges) :
        /\ Reading
        /\ refused' = IF Overlaps(rs) THEN "overlap" ELSE "no"
        /\ lists' = IF Overlaps(rs) THEN lists ELSE Append(lists, [e |-> rs, marks |-> marks])
        /\ ranges' = <<>> /\ marks' = <<>>
        /\ lines' = IF Overlaps(rs) \/ Len(lists') = MaxFiles THEN lines ELSE Append(lines, <<>>)
        /\ UNCHANGED kind
  BY Zenon DEF Build
<1>2. /\ AddressTypeOK /\ n = Len(lists) + 1 /\ n \in Nat /\ Len(lists) \in Nat
      /\ Len(ranges) = Len(ls) /\ ls \in Seq(WrittenLines)
      /\ \A k \in 1..Len(ls) : Matches(kind, ranges[k], marks, ls[k])
  BY <1>1 DEF AddressIInv, AddressTypeOK, Last
<1>3. PICK p \in Bijection(1..Len(ls), 1..Len(ls)) :
        rs = [i \in 1..Len(ls) |-> ranges[p[i]]] /\ Ordered(rs)
  <2>1. PICK p \in Bijection(1..Len(ranges), 1..Len(ranges)) :
          /\ rs = [i \in 1..Len(ranges) |-> ranges[p[i]]]
          /\ \A i, j \in 1..Len(ranges) : i < j => rs[i].start <= rs[j].start
    BY Zenon DEF Sorted
  <2>2. Len(rs) = Len(ranges)
    BY <1>2, <2>1
  <2> QED BY <1>2, <2>1, <2>2 DEF Ordered
<1>4. \A k \in 1..Len(ls) : p[k] \in 1..Len(ls)
  BY DEF Bijection, Injection
<1>5. rs \in Seq(Intervals) /\ Len(rs) = Len(ls)
  <2>1. ranges \in Seq(Intervals) /\ Len(ls) \in Nat
    BY <1>2 DEF AddressTypeOK
  <2>2. \A i \in 1..Len(ls) : ranges[p[i]] \in Intervals
    BY <1>2, <1>4, <2>1
  <2> QED BY <1>3, <2>1, <2>2
<1>6. \A k \in 1..Len(ls) : Matches(kind, rs[k], marks, ls[p[k]])
  <2>1. ASSUME NEW k \in 1..Len(ls) PROVE Matches(kind, rs[k], marks, ls[p[k]])
    <3>1. rs[k] = ranges[p[k]] /\ p[k] \in 1..Len(ls)
      BY <1>3, <1>4
    <3> QED BY <1>2, <3>1
  <2> QED BY <2>1
<1> HIDE DEF ls
<1>7. <<>> \in Seq(Intervals) /\ <<>> \in Seq(ZoneMarks) /\ <<>> \in Seq(WrittenLines)
  OBVIOUS
<1>8. CASE Overlaps(rs)
  <2>1. refused' = "overlap" /\ UNCHANGED <<lists, lines, kind>> /\ ~Reading'
    BY <1>1, <1>8 DEF Reading
  <2>2. \E a \in Addresses : Cardinality({k \in 1..Len(ls) : Covers(ls[k], a)}) > 1
    BY <1>2, <1>3, <1>5, <1>6, <1>8, OverlapIsShared
  <2>3. (\E a \in Addresses : Cardinality(LinesOver(Len(lines), a)) > 1)'
    <3>1. \A a : LinesOver(Len(lines), a)' = {k \in 1..Len(ls) : Covers(ls[k], a)}
      BY <2>1 DEF LinesOver, ls
    <3> QED BY <2>2, <3>1
  <2>4. AddressTypeOK'
    BY <1>1, <1>2, <1>7, <2>1 DEF AddressTypeOK
  <2> QED BY <2>1, <2>3, <2>4 DEF AddressIInv
<1>9. CASE ~Overlaps(rs)
  <2> DEFINE new == [e |-> rs, marks |-> marks]
  <2>1. refused' = "no" /\ lists' = Append(lists, new) /\ kind' = kind /\ ranges' = <<>> /\ marks' = <<>>
    BY <1>1, <1>9
  <2>2. lists \in Seq([e : Seq(Intervals), marks : Seq(ZoneMarks)])
        /\ new \in [e : Seq(Intervals), marks : Seq(ZoneMarks)]
    BY <1>2, <1>5 DEF AddressTypeOK
  <2>3. Answers(kind, new, ls)
    <3>1. Apart(rs)
      <4>1. ASSUME NEW i \in 1..(Len(rs) - 1) PROVE rs[i].end < rs[i + 1].start
        <5>1. i \in 1..Len(rs) /\ i + 1 \in 1..Len(rs)
          BY <1>5
        <5>2. rs[i].end \in Int /\ rs[i + 1].start \in Int
          BY <1>5, <5>1, IntervalEnds
        <5> QED BY <1>9, <5>2 DEF Overlaps
      <4> QED BY <4>1 DEF Apart
    <3>2. new.e = rs /\ new.marks = marks
      OBVIOUS
    <3> HIDE DEF new
    <3> QED BY <1>3, <1>5, <1>6, <3>1, <3>2 DEF Answers
  <2> HIDE DEF new
  <2>4. /\ lists' \in Seq([e : Seq(Intervals), marks : Seq(ZoneMarks)]) /\ Len(lists') = n
        /\ lists'[n] = new /\ \A i \in 1..Len(lists) : lists'[i] = lists[i]
    BY <1>2, <2>1, <2>2, AppendProperties
  <2>5. /\ lines' \in Seq(Seq(WrittenLines)) /\ \A i \in 1..n : lines'[i] = lines[i]
        /\ Len(lines') = n \/ (Len(lines') = n + 1 /\ lines'[n + 1] = <<>>)
        /\ Len(lines') # n + 1 => Len(lists') = MaxFiles
    <3>1. CASE Len(lists') = MaxFiles
      BY <1>1, <1>2, <3>1 DEF AddressTypeOK
    <3>2. CASE Len(lists') # MaxFiles
      <4>1. lines' = Append(lines, <<>>)
        BY <1>1, <1>9, <3>2
      <4>2. lines \in Seq(Seq(WrittenLines)) /\ <<>> \in Seq(WrittenLines)
        BY <1>2, <1>7 DEF AddressTypeOK
      <4> QED BY <1>2, <4>1, <4>2, AppendProperties
    <3> QED BY <3>1, <3>2
  <2>6. AddressTypeOK'
    BY <1>2, <1>7, <2>1, <2>4, <2>5 DEF AddressTypeOK
  <2>7. ASSUME NEW i \in 1..Len(lists') PROVE Answers(kind', lists'[i], lines'[i])
    <3>1. CASE i = n
      <4>1. lines'[i] = ls
        BY <1>2, <2>4, <2>5, <3>1 DEF ls
      <4> QED BY <2>1, <2>3, <2>4, <3>1, <4>1
    <3>2. CASE i # n
      <4>1. i \in 1..Len(lists) /\ i \in 1..n
        BY <1>2, <2>4, <3>2
      <4>2. Answers(kind, lists[i], lines[i])
        BY <4>1 DEF AddressIInv
      <4> QED BY <2>1, <2>4, <2>5, <4>1, <4>2
    <3> QED BY <3>1, <3>2
  <2>8. ASSUME Reading' PROVE Len(lines') = Len(lists') + 1 /\ Len(ranges') = Len(Last(lines'))
                              /\ Len(ranges') = 0
    <3>1. Len(lists') # MaxFiles
      BY <1>2, <2>4, <2>8 DEF Reading
    <3>2. Len(lines') = n + 1 /\ lines'[n + 1] = <<>>
      BY <1>2, <2>5, <3>1
    <3> QED BY <2>1, <2>4, <3>2 DEF Last
  <2>9. Len(lists') <= Len(lines')
    BY <1>2, <2>4, <2>5
  <2> QED BY <2>1, <2>6, <2>7, <2>8, <2>9 DEF AddressIInv
<1> QED BY <1>8, <1>9

(* So does every step of a loader. *)
LEMMA AddressStepIInv == ASSUME AddressIInv, AddressStep \/ UNCHANGED addressVars PROVE AddressIInv'
<1>1. CASE UNCHANGED addressVars
  BY <1>1 DEF addressVars, AddressIInv, AddressTypeOK, Reading, LinesOver
<1> QED BY <1>1, ReadPrefixIInv, ReadRangeIInv, ReadFailsIInv, BuildIInv DEF AddressStep

(* Of ranges apart, at most one holds a number. *)
LEMMA OneHolds ==
    ASSUME NEW e \in Seq(Intervals), Ordered(e), Apart(e), NEW ip \in Int,
           NEW k \in 1..Len(e), e[k].start <= ip, ip <= e[k].end
    PROVE  \A t \in 0..Len(e) : Cut(e, ip, t) => t = k
<1> SUFFICES ASSUME NEW t \in 0..Len(e), Cut(e, ip, t), t # k PROVE FALSE
  OBVIOUS
<1>1. e[k].start \in Int /\ e[k].end \in Int /\ Len(e) \in Nat
  BY IntervalEnds
<1>2. CASE t < k
  <2>1. k \in (t + 1)..Len(e)
    BY <1>1, <1>2
  <2> QED BY <1>1, <2>1 DEF Cut
<1>3. CASE k < t
  <2>1. k \in 1..(Len(e) - 1) /\ k + 1 \in 1..t /\ k + 1 \in 1..Len(e)
    BY <1>1, <1>3
  <2>2. e[k + 1].start \in Int
    BY <2>1, IntervalEnds
  <2>3. e[k].end < e[k + 1].start /\ e[k + 1].start <= ip
    BY <2>1 DEF Apart, Cut
  <2> QED BY <1>1, <2>2, <2>3
<1> QED BY <1>1, <1>2, <1>3

LineSet(ls, a) == {k \in 1..Len(ls) : Covers(ls[k], a)}

Finds(kd, list, ls, a) ==
    \/ LineSet(ls, a) = {} /\ Lookup(list, Addr2Ipv6(a)) = {}
    \/ \E k \in LineSet(ls, a), v \in Lookup(list, Addr2Ipv6(a)) :
         /\ LineSet(ls, a) = {k} /\ Lookup(list, Addr2Ipv6(a)) = {v}
         /\ kd = "marker" => list.marks[v + 1] = ls[k].mark

(* A list that answers for a file finds the one line over an address, or none. *)
LEMMA LookupExact ==
    ASSUME NEW kd, NEW list \in [e : Seq(Intervals), marks : Seq(ZoneMarks)],
           NEW ls \in Seq(WrittenLines), Answers(kd, list, ls), NEW a \in Addresses
    PROVE  Finds(kd, list, ls, a)
<1> DEFINE e == list.e
           n == Len(ls)
           ip == Addr2Ipv6(a)
           t == FirstAfter(e, ip)
           over == {k \in 1..n : Covers(ls[k], a)}
           found == Lookup(list, ip)
<1>0. e \in Seq(Intervals) /\ n \in Nat /\ ip \in Int
  BY AddressNumbers
<1>1. Len(e) = n /\ Ordered(e) /\ Apart(e)
  BY DEF Answers
<1>2. PICK p \in Bijection(1..n, 1..n) : \A k \in 1..n : Matches(kd, e[k], list.marks, ls[p[k]])
  BY DEF Answers
<1>3. t \in 0..n /\ Cut(e, ip, t)
  <2> HIDE DEF e, ip
  <2> QED BY <1>0, <1>1, FirstAfterCuts DEF t
<1>4. found = IF t > 0 /\ e[t].start <= ip /\ ip <= e[t].end THEN {e[t].v} ELSE {}
  BY Zenon DEF Lookup
<1> HIDE DEF e, ip, t, found
<1>5. ASSUME NEW k \in 1..n PROVE p[k] \in 1..n /\ (Covers(ls[p[k]], a) <=> e[k].start <= ip /\ ip <= e[k].end)
  BY <1>2 DEF Matches, Covers, Bijection, Injection, ip
<1>6. \A x \in 1..n : \E k \in 1..n : p[k] = x
  BY DEF Bijection, Surjection
<1>7. ASSUME NEW k \in 1..n, e[k].start <= ip, ip <= e[k].end PROVE k = t
  <2>1. k \in 1..Len(e) /\ t \in 0..Len(e) /\ Cut(e, ip, t)
    BY <1>1, <1>3
  <2>2. \A s \in 0..Len(e) : Cut(e, ip, s) => s = k
    BY <1>0, <1>1, <1>7, <2>1, OneHolds
  <2> QED BY <2>1, <2>2
<1>8. CASE t > 0 /\ e[t].start <= ip /\ ip <= e[t].end
  <2>1. t \in 1..n /\ found = {e[t].v}
    BY <1>3, <1>4, <1>8
  <2>2. p[t] \in over
    BY <1>5, <1>8, <2>1
  <2>3. ASSUME NEW x \in over PROVE x = p[t]
    <3>1. PICK k \in 1..n : p[k] = x
      BY <1>6
    <3>2. e[k].start <= ip /\ ip <= e[k].end
      BY <1>5, <3>1
    <3> QED BY <1>7, <3>1, <3>2
  <2>4. over = {p[t]}
    BY <2>2, <2>3
  <2>5. kd = "marker" => list.marks[e[t].v + 1] = ls[p[t]].mark
    BY <1>2, <2>1 DEF Matches
  <2>6. e[t].v \in found
    BY <2>1
  <2> HIDE DEF over
  <2>7. \E k \in over, v \in found : /\ over = {k} /\ found = {v}
                                     /\ kd = "marker" => list.marks[v + 1] = ls[k].mark
    BY <2>1, <2>2, <2>4, <2>5, <2>6
  <2> QED BY <2>7 DEF over, found, ip, LineSet, Finds
<1>9. CASE ~(t > 0 /\ e[t].start <= ip /\ ip <= e[t].end)
  <2>1. found = {}
    BY <1>4, <1>9
  <2>2. ASSUME NEW x \in over PROVE FALSE
    <3>1. PICK k \in 1..n : p[k] = x
      BY <1>6
    <3>2. e[k].start <= ip /\ ip <= e[k].end
      BY <1>5, <3>1
    <3>3. k = t /\ t > 0
      BY <1>7, <3>2
    <3> QED BY <1>9, <3>2, <3>3
  <2>3. over = {} /\ found = {}
    BY <2>1, <2>2
  <2> QED BY <2>3 DEF found, ip, LineSet, Finds
<1> QED BY <1>8, <1>9

(* The invariant gives the property: an address is in a set, and a zone     *)
(* has a mark for it, exactly as the lines of its files say.                *)
LEMMA AddressIInvExact == AddressIInv => AddressesExact
<1> SUFFICES ASSUME AddressIInv PROVE AddressesExact
  OBVIOUS
<1>0. AddressTypeOK /\ Len(lists) \in Nat /\ Len(lines) \in Nat /\ Len(lists) <= Len(lines)
  BY DEF AddressIInv, AddressTypeOK
<1>a. ASSUME NEW i \in 1..Len(lists)
      PROVE  /\ lists[i] \in [e : Seq(Intervals), marks : Seq(ZoneMarks)]
             /\ lines[i] \in Seq(WrittenLines)
             /\ Answers(kind, lists[i], lines[i])
  <2>1. i \in 1..Len(lines)
    BY <1>0
  <2>2. lists[i] \in [e : Seq(Intervals), marks : Seq(ZoneMarks)]
    BY <1>0, ElementOfSeq DEF AddressTypeOK
  <2>3. lines[i] \in Seq(WrittenLines)
    BY <1>0, <2>1, ElementOfSeq DEF AddressTypeOK
  <2>4. Answers(kind, lists[i], lines[i])
    BY Zenon DEF AddressIInv
  <2> QED BY <2>2, <2>3, <2>4
<1>1. ASSUME NEW i \in 1..Len(lists), NEW a \in Addresses
      PROVE  \/ LinesOver(i, a) = {} /\ Lookup(lists[i], Addr2Ipv6(a)) = {}
             \/ \E k \in LinesOver(i, a), v \in Lookup(lists[i], Addr2Ipv6(a)) :
                  /\ LinesOver(i, a) = {k} /\ Lookup(lists[i], Addr2Ipv6(a)) = {v}
                  /\ kind = "marker" => lists[i].marks[v + 1] = lines[i][k].mark
  <2>1. LinesOver(i, a) = LineSet(lines[i], a)
    BY DEF LinesOver, LineSet
  <2>2. \/ LineSet(lines[i], a) = {} /\ Lookup(lists[i], Addr2Ipv6(a)) = {}
        \/ \E k \in LineSet(lines[i], a), v \in Lookup(lists[i], Addr2Ipv6(a)) :
             /\ LineSet(lines[i], a) = {k} /\ Lookup(lists[i], Addr2Ipv6(a)) = {v}
             /\ kind = "marker" => lists[i].marks[v + 1] = lines[i][k].mark
    <3> DEFINE list == lists[i]
               ls == lines[i]
    <3>1. /\ list \in [e : Seq(Intervals), marks : Seq(ZoneMarks)] /\ ls \in Seq(WrittenLines)
          /\ Answers(kind, list, ls)
      BY <1>a
    <3> HIDE DEF list, ls
    <3>2. Finds(kind, list, ls, a)
      BY <3>1, LookupExact
    <3> QED BY <3>2 DEF list, ls, Finds
  <2> QED BY <2>1, <2>2
<1>2. refused = "overlap" => \E a \in Addresses : Cardinality(LinesOver(Len(lines), a)) > 1
  BY DEF AddressIInv
<1>3. ASSUME NEW i \in 1..Len(lists), NEW a \in Addresses PROVE Cardinality(LinesOver(i, a)) <= 1
  <2>1. CASE LinesOver(i, a) = {}
    BY <2>1, FS_EmptySet
  <2>2. ASSUME NEW k, LinesOver(i, a) = {k} PROVE Cardinality(LinesOver(i, a)) <= 1
    <3>1. Cardinality({k}) = 1
      BY FS_Singleton
    <3>2. Cardinality(LinesOver(i, a)) = 1
      BY <2>2, <3>1, Zenon
    <3> QED BY <3>2
  <2> QED BY <1>1, <2>1, <2>2
<1>4. ASSUME NEW a \in Addresses
      PROVE  LET over == {i \in 1..Len(lists) : LinesOver(i, a) # {}}
                 fileNo == CHOOSE i \in over : \A j \in over : i <= j
             IN  /\ MatchAddr(a) <=> over # {}
                 /\ MatchMsg(<<a>>) <=> over # {}
                 /\ kind = "marker" =>
                      Mark(a) = IF over = {} THEN {}
                                ELSE {lines[fileNo][k].mark : k \in LinesOver(fileNo, a)}
  <2> DEFINE ip == Addr2Ipv6(a)
             over == {i \in 1..Len(lists) : LinesOver(i, a) # {}}
             hits == {i \in 1..Len(lists) : Lookup(lists[i], ip) # {}}
             fileNo == CHOOSE i \in over : \A j \in over : i <= j
             first == CHOOSE i \in hits : \A j \in hits : i <= j
  <2>1. hits = over
    <3>1. \A i \in 1..Len(lists) : LinesOver(i, a) = {} <=> Lookup(lists[i], ip) = {}
      BY <1>1
    <3> QED BY <3>1
  <2>2. MatchAddr(a) <=> over # {}
    BY <2>1 DEF MatchAddr
  <2>3. MatchMsg(<<a>>) <=> MatchAddr(a)
    BY DEF MatchMsg
  <2>4. Mark(a) = IF hits = {} THEN {} ELSE {lists[first].marks[v + 1] : v \in Lookup(lists[first], ip)}
    BY Zenon DEF Mark
  <2>5. first = fileNo
    BY <2>1, Zenon
  <2>6. ASSUME kind = "marker", over # {}
        PROVE  {lists[fileNo].marks[v + 1] : v \in Lookup(lists[fileNo], ip)}
                 = {lines[fileNo][k].mark : k \in LinesOver(fileNo, a)}
    <3>1. fileNo \in over
      <4>1. over \subseteq Nat
        OBVIOUS
      <4>2. \E i \in over : \A j \in over : i <= j
        BY <2>6, <4>1, Least, Zenon
      <4> HIDE DEF over
      <4> QED BY <4>2
    <3>2. fileNo \in 1..Len(lists) /\ LinesOver(fileNo, a) # {}
      BY <3>1
    <3> HIDE DEF fileNo
    <3>3. PICK k \in LinesOver(fileNo, a), v \in Lookup(lists[fileNo], ip) :
             /\ LinesOver(fileNo, a) = {k} /\ Lookup(lists[fileNo], ip) = {v}
             /\ lists[fileNo].marks[v + 1] = lines[fileNo][k].mark
      BY <1>1, <2>6, <3>2
    <3> QED BY <3>3
  <2>7. ASSUME kind = "marker"
        PROVE  Mark(a) = IF over = {} THEN {} ELSE {lines[fileNo][k].mark : k \in LinesOver(fileNo, a)}
    <3> HIDE DEF fileNo, first, hits, over
    <3> QED BY <2>1, <2>4, <2>5, <2>6, <2>7
  <2> HIDE DEF fileNo, first, hits
  <2> QED BY <2>2, <2>3, <2>7 DEF fileNo
<1> QED BY <1>2, <1>3, <1>4 DEF AddressesExact

-----------------------------------------------------------------------------
(* Domain matcher: what a file answers once it is compiled.                *)

Stats == {"none", "domain", "full"}
SegAddr == [off : Nat, l : Nat]
Node == [childIdxSeg : SegAddr, stat : Stats]
Entry == [labelSeg : SegAddr, childIdx : Nat]
Sections == [nodes : Seq(Node), idxNodes : Seq(Entry), labels : Seq(Nat)]

(* A tree: with a path all its ancestors, numbered without repetition from  *)
(* the root on.                                                             *)
TreeShape(t) ==
    /\ IsFiniteSet(DOMAIN t) /\ DOMAIN t \subseteq Seq(Nat) /\ <<>> \in DOMAIN t
    /\ t \in [DOMAIN t -> [idx : Nat, stat : Stats]]
    /\ \A p \in DOMAIN t : \A k \in 0..Len(p) : SubSeq(p, 1, k) \in DOMAIN t
    /\ t[<<>>].idx = 0
    /\ \A p \in DOMAIN t : t[p].idx < Cardinality(DOMAIN t)
    /\ \A p, q \in DOMAIN t : t[p].idx = t[q].idx => p = q

(* The rule the tree keeps for a name: the last line written for it.        *)
Governs(k) ==
    /\ rules[k].typ # "regexp"
    /\ \A j \in (k + 1)..Len(rules) : rules[j].typ # "regexp" => rules[j].name # rules[k].name

Governed(q) ==
    \/ \E k \in 1..Len(rules) : rules[k].typ = "regexp" /\ q \in rules[k].accepts
    \/ \E k \in 1..Len(rules) :
         /\ Governs(k)
         /\ IF rules[k].typ = "full" THEN rules[k].name = q ELSE IsPrefix(rules[k].name, q)

(* What the tree and the expressions keep of the lines. *)
RulesKept ==
    /\ rules \in Seq(Line)
    /\ \A k \in 1..Len(rules) : rules[k].typ # "regexp" =>
         rules[k].name \in DOMAIN tree /\ tree[rules[k].name].stat # "none"
    /\ \A k \in 1..Len(rules) : Governs(k) => tree[rules[k].name].stat = rules[k].typ
    /\ \A p \in DOMAIN tree : tree[p].stat # "none" =>
         \E k \in 1..Len(rules) : Governs(k) /\ rules[k].name = p
    /\ re = {rules[k].accepts : k \in {j \in 1..Len(rules) : rules[j].typ = "regexp"}}

(* The label of the k-th entry of the index section. *)
EntryLabel(c, k) == c.labels[c.idxNodes[k].labelSeg.off + 1]

(* A segment of the index section is inside of it and in ascending order.   *)
SegmentOK(c, sa) ==
    /\ sa.off + sa.l <= Len(c.idxNodes)
    /\ \A i, j \in 1..sa.l : i < j => EntryLabel(c, sa.off + i) < EntryLabel(c, sa.off + j)

CompiledOK(c) ==
    /\ c \in Sections
    /\ Len(c.nodes) = Cardinality(DOMAIN tree)
    /\ \A p \in DOMAIN tree : c.nodes[tree[p].idx + 1].stat = tree[p].stat
    /\ \A k \in 1..Len(c.idxNodes) : /\ c.idxNodes[k].labelSeg.l = 1
                                     /\ c.idxNodes[k].labelSeg.off < Len(c.labels)
                                     /\ c.idxNodes[k].childIdx < Len(c.nodes)
    /\ \A n \in 1..Len(c.nodes) : SegmentOK(c, c.nodes[n].childIdxSeg)

(* The segment of a node holds an entry for each of its children, and no other. *)
Points(c, k, ch) == c.idxNodes[k].childIdx = tree[ch].idx /\ EntryLabel(c, k) = Last(ch)
Indexed(c, p) ==
    LET sa == c.nodes[tree[p].idx + 1].childIdxSeg
    IN  /\ \A j \in 1..sa.l : \E ch \in Children(p) : Points(c, sa.off + j, ch)
        /\ \A ch \in Children(p) : \E j \in 1..sa.l : Points(c, sa.off + j, ch)

(* A node is below one that the recursion has still to visit. *)
Pending(fs, p) == \E i \in 1..Len(fs) : \E r \in fs[i] : \E k \in 0..Len(p) : SubSeq(p, 1, k) = r

DomainIInv ==
    /\ TreeShape(tree) /\ RulesKept
    /\ stage \in {"adding", "compiling", "compiled", "reloaded", "refused"}
    /\ frames \in Seq(SUBSET DOMAIN tree)
    /\ stage \in {"adding", "refused"} => ct = NoTree
    /\ stage \in {"compiling", "compiled", "reloaded"} =>
         CompiledOK(ct) /\ \A p \in DOMAIN tree : Indexed(ct, p) \/ Pending(frames, p)
    /\ stage = "compiling" => frames # <<>>
    /\ stage \in {"compiled", "reloaded"} => frames = <<>>

(* A segment whose labels are numbers in ascending order. *)
SortedSegment(s, labels) ==
    /\ Len(s) \in Nat
    /\ \A k \in 1..Len(s) : LabelOf(s[k], labels) \in Nat
    /\ \A i, j \in 1..Len(s) : i < j => LabelOf(s[i], labels) < LabelOf(s[j], labels)

(* The position up to which the labels are below the target. *)
Below(s, labels, x, t) ==
    /\ \A k \in 1..t : LabelOf(s[k], labels) < x
    /\ \A k \in (t + 1)..Len(s) : x <= LabelOf(s[k], labels)

(* There is one. *)
LEMMA BelowExists ==
    ASSUME NEW s, NEW labels, SortedSegment(s, labels), NEW x \in Nat
    PROVE  \E t \in 0..Len(s) : Below(s, labels, x, t)
<1> DEFINE n == Len(s)
           L(k) == LabelOf(s[k], labels)
           T == {t \in 0..n : t = n \/ x <= L(t + 1)}
<1>0. n \in Nat /\ (\A k \in 1..n : L(k) \in Nat) /\ \A i, j \in 1..n : i < j => L(i) < L(j)
  BY DEF SortedSegment
<1> HIDE DEF n, L
<1>1. n \in T /\ T \subseteq Nat
  BY <1>0
<1>2. PICK t \in T : \A u \in T : t <= u
  BY <1>1, Least, Zenon
<1>3. t \in 0..n
  BY <1>2
<1>4. ASSUME NEW k \in 1..t PROVE L(k) < x
  <2>1. k - 1 \in 0..n /\ k - 1 \notin T /\ k \in 1..n
    <3>1. k - 1 \in 0..n /\ ~(t <= k - 1) /\ k \in 1..n
      BY <1>3, <1>0
    <3> QED BY <3>1, <1>2, Zenon
  <2>2. ~(x <= L((k - 1) + 1)) /\ (k - 1) + 1 = k
    BY <2>1
  <2> QED BY <1>0, <2>1, <2>2
<1>5. ASSUME NEW k \in (t + 1)..n PROVE x <= L(k)
  <2>1. x <= L(t + 1) /\ t + 1 \in 1..n /\ k \in 1..n
    BY <1>2, <1>3, <1>0
  <2>2. L(t + 1) <= L(k)
    <3>1. CASE t + 1 < k
      BY <1>0, <2>1, <3>1
    <3>2. CASE t + 1 = k
      BY <1>0, <2>1, <3>2
    <3> QED BY <3>1, <3>2, <2>1, <1>3, <1>0
  <2> QED BY <1>0, <2>1, <2>2
<1>6. Below(s, labels, x, t)
  BY <1>4, <1>5 DEF Below, n, L
<1> QED BY <1>3, <1>6 DEF n

(* One comparison of binarySearchIdx keeps the place looked for between its *)
(* two bounds.                                                              *)
LEMMA SearchStep ==
    ASSUME NEW s, NEW labels, SortedSegment(s, labels), NEW x \in Nat,
           NEW c \in 0..Len(s), Below(s, labels, x, c),
           NEW i \in 0..Len(s), NEW j \in 0..Len(s), i < j
    PROVE  LET h == (i + j) \div 2
           IN  /\ h \in i..(j - 1)
               /\ Clamp(c, i, j) = IF LabelOf(s[h + 1], labels) < x THEN Clamp(c, h + 1, j) ELSE Clamp(c, i, h)
<1> DEFINE n == Len(s)
           h == (i + j) \div 2
           L(k) == LabelOf(s[k], labels)
<1>1. n \in Nat /\ \A k \in 1..n : L(k) \in Nat
  BY DEF SortedSegment
<1>a. (\A k \in 1..c : L(k) < x) /\ \A k \in (c + 1)..n : x <= L(k)
  BY DEF Below
<1> HIDE DEF n, L
<1>2. h \in i..(j - 1)
  BY <1>1 DEF n
<1> HIDE DEF h
<1>3. h \in Int /\ i <= h /\ h < j /\ h + 1 \in 1..n /\ i \in 0..n /\ j \in 0..n /\ c \in 0..n
  BY <1>1, <1>2 DEF n
<1>4. CASE ~(L(h + 1) < x)
  <2>1. c <= h
    <3>1. ~(h + 1 \in 1..c)
      BY <1>1, <1>3, <1>4, <1>a
    <3> QED BY <1>3, <3>1
  <2>2. Clamp(c, i, j) = Clamp(c, i, h)
    BY <1>3, <2>1 DEF Clamp
  <2> QED BY <1>2, <1>4, <2>2 DEF h, L
<1>5. CASE L(h + 1) < x
  <2>1. c >= h + 1
    <3>1. ~(h + 1 \in (c + 1)..n)
      BY <1>1, <1>3, <1>5, <1>a
    <3> QED BY <1>3, <3>1
  <2>2. Clamp(c, i, j) = Clamp(c, h + 1, j)
    BY <1>3, <2>1 DEF Clamp
  <2> QED BY <1>2, <1>5, <2>2 DEF h, L
<1> QED BY <1>4, <1>5

(* The position binarySearchIdx ends at. *)
Lowest(s, labels, x) ==
    LET Lower[b \in (0..Len(s)) \X (0..Len(s))] ==
            LET i == b[1]
                j == b[2]
                h == (i + j) \div 2
            IN  IF i >= j THEN i
                ELSE IF LabelOf(s[h + 1], labels) < x THEN Lower[<<h + 1, j>>]
                ELSE Lower[<<i, h>>]
    IN  Lower[<<0, Len(s)>>]

(* It is the place the labels pass the target: the recursive definition has *)
(* a solution, and by induction on the distance of the bounds every         *)
(* solution is it.                                                          *)
LEMMA LowestIs ==
    ASSUME NEW s, NEW labels, SortedSegment(s, labels), NEW x \in Nat
    PROVE  Lowest(s, labels, x) \in 0..Len(s) /\ Below(s, labels, x, Lowest(s, labels, x))
<1> DEFINE n == Len(s)
           D == (0..n) \X (0..n)
           L(k) == LabelOf(s[k], labels)
<1>0. n \in Nat
  BY DEF SortedSegment
<1>1. PICK c \in 0..n : Below(s, labels, x, c)
  BY BelowExists
<1> DEFINE Half(b) == (b[1] + b[2]) \div 2
           F(f) == [b \in D |->
                      IF b[1] >= b[2] THEN b[1]
                      ELSE IF L(Half(b) + 1) < x THEN f[<<Half(b) + 1, b[2]>>]
                      ELSE f[<<b[1], Half(b)>>]]
           Lower == CHOOSE f : f = F(f)
           G == [b \in D |-> Clamp(c, b[1], b[2])]
<1>2. Lowest(s, labels, x) = Lower[<<0, n>>]
  BY Zenon DEF Lowest
<1>a. ASSUME NEW i \in 0..n, NEW j \in 0..n, i < j
      PROVE  LET h == (i + j) \div 2
             IN  /\ h \in i..(j - 1)
                 /\ Clamp(c, i, j) = IF L(h + 1) < x THEN Clamp(c, h + 1, j) ELSE Clamp(c, i, h)
  BY <1>1, <1>a, SearchStep
<1> HIDE DEF L
<1>3. G = F(G)
  <2>1. ASSUME NEW b \in D PROVE G[b] = F(G)[b]
    <3> DEFINE i == b[1]
               j == b[2]
               h == Half(b)
    <3>0. i \in 0..n /\ j \in 0..n
      OBVIOUS
    <3>1. CASE i >= j
      <4>1. Clamp(c, i, j) = i
        BY <3>0, <3>1 DEF Clamp
      <4> QED BY <4>1, <3>1
    <3>2. CASE ~(i >= j)
      <4>1. /\ h \in i..(j - 1)
            /\ Clamp(c, i, j) = IF L(h + 1) < x THEN Clamp(c, h + 1, j) ELSE Clamp(c, i, h)
        <5>1. i < j
          BY <3>0, <3>2
        <5> HIDE DEF i, j
        <5> QED BY <1>a, <3>0, <5>1 DEF h, i, j
      <4>2. h \in 0..n /\ h + 1 \in 0..n
        BY <3>0, <4>1, <1>0
      <4>3. <<i, h>> \in D /\ <<h + 1, j>> \in D
        BY <3>0, <4>2
      <4> HIDE DEF D, i, j, h
      <4>4. G[<<i, h>>] = Clamp(c, i, h) /\ G[<<h + 1, j>>] = Clamp(c, h + 1, j)
        BY <4>3
      <4>5. G[b] = Clamp(c, i, j)
        BY DEF i, j
      <4>6. F(G)[b] = IF L(h + 1) < x THEN G[<<h + 1, j>>] ELSE G[<<i, h>>]
        <5> HIDE DEF G
        <5> QED BY <3>2 DEF h, i, j
      <4> QED BY <4>1, <4>4, <4>5, <4>6
    <3> QED BY <3>1, <3>2
  <2> QED BY <2>1
<1>4. Lower = F(Lower)
  <2> HIDE DEF F, G
  <2> QED BY <1>3
<1> HIDE DEF Lower
<1> DEFINE T == {d \in Nat : \A b \in D : b[2] - b[1] = d => Lower[b] = Clamp(c, b[1], b[2])}
<1>5. ASSUME NEW d \in Nat, \A m \in 0..(d - 1) : m \in T PROVE d \in T
  <2>1. SUFFICES ASSUME NEW b \in D, b[2] - b[1] = d PROVE Lower[b] = Clamp(c, b[1], b[2])
    OBVIOUS
  <2> DEFINE i == b[1]
             j == b[2]
             h == Half(b)
  <2>0. i \in 0..n /\ j \in 0..n
    OBVIOUS
  <2>2. Lower[b] = IF i >= j THEN i ELSE IF L(h + 1) < x THEN Lower[<<h + 1, j>>] ELSE Lower[<<i, h>>]
    <3>1. Lower[b] = F(Lower)[b]
      BY <1>4, Zenon
    <3> QED BY <3>1
  <2>3. CASE i >= j
    <3>1. Clamp(c, i, j) = i
      BY <2>0, <2>3 DEF Clamp
    <3> QED BY <2>2, <2>3, <3>1
  <2>4. CASE ~(i >= j)
    <3>1. /\ h \in i..(j - 1)
          /\ Clamp(c, i, j) = IF L(h + 1) < x THEN Clamp(c, h + 1, j) ELSE Clamp(c, i, h)
      <4>1. i < j
        BY <2>0, <2>4
      <4> HIDE DEF i, j
      <4> QED BY <1>a, <2>0, <4>1 DEF h, i, j
    <3>a. j - i = d
      BY <2>1
    <3> HIDE DEF h, i, j
    <3>2. h - i \in 0..(d - 1) /\ j - (h + 1) \in 0..(d - 1) /\ h \in 0..n /\ h + 1 \in 0..n
      <4>1. h \in i..(j - 1)
        BY <3>1
      <4> HIDE DEF n
      <4> QED BY <1>0, <2>0, <3>a, <4>1
    <3>3. Lower[<<i, h>>] = Clamp(c, i, h)
      <4>1. <<i, h>> \in D /\ h - i \in T
        BY <1>5, <2>0, <3>2
      <4> QED BY <4>1
    <3>4. Lower[<<h + 1, j>>] = Clamp(c, h + 1, j)
      <4>1. <<h + 1, j>> \in D /\ j - (h + 1) \in T
        BY <1>5, <2>0, <3>2
      <4> QED BY <4>1
    <3>5. Lower[b] = Clamp(c, i, j)
      BY <2>2, <2>4, <3>1, <3>3, <3>4
    <3> QED BY <3>5 DEF i, j
  <2> QED BY <2>3, <2>4
<1>6. Nat \subseteq T
  <2> HIDE DEF T
  <2> QED BY <1>5, StrongInduction, Zenon
<1>7. Lower[<<0, n>>] = Clamp(c, 0, n)
  <2>1. <<0, n>> \in D /\ n - 0 = n
    BY <1>0
  <2>2. n \in T
    BY <1>0, <1>6
  <2> QED BY <2>1, <2>2
<1>8. Clamp(c, 0, n) = c
  BY <1>0, <1>1 DEF Clamp
<1> QED BY <1>1, <1>2, <1>7, <1>8

(* binarySearchIdx finds the label when it is there, and nothing else. *)
LEMMA BinarySearchIs ==
    ASSUME NEW s, NEW labels, SortedSegment(s, labels), NEW x \in Nat
    PROVE  LET k == BinarySearchIdx(s, labels, x)
           IN  /\ k \in 0..Len(s)
               /\ k # 0 => LabelOf(s[k], labels) = x
               /\ k = 0 => \A j \in 1..Len(s) : LabelOf(s[j], labels) # x
<1> DEFINE n == Len(s)
           L(k) == LabelOf(s[k], labels)
           at == Lowest(s, labels, x)
           r == BinarySearchIdx(s, labels, x)
<1>1. n \in Nat /\ (\A k \in 1..n : L(k) \in Nat) /\ \A i, j \in 1..n : i < j => L(i) < L(j)
  BY DEF SortedSegment
<1>2. at \in 0..n
  BY LowestIs
<1>3. (\A k \in 1..at : L(k) < x) /\ \A k \in (at + 1)..n : x <= L(k)
  BY LowestIs DEF Below
<1>4. r = IF at < n /\ L(at + 1) = x THEN at + 1 ELSE 0
  BY Zenon DEF BinarySearchIdx, Lowest
<1> HIDE DEF n, L, at, r
<1>5. r \in 0..n /\ (r # 0 => L(r) = x)
  BY <1>1, <1>2, <1>4
<1>6. ASSUME r = 0, NEW j \in 1..n, L(j) = x PROVE FALSE
  <2>1. j = at + 1 \/ at + 1 < j
    <3>1. ~(j \in 1..at)
      BY <1>1, <1>3, <1>6
    <3> QED BY <1>1, <1>2, <3>1
  <2>2. at + 1 \in 1..n /\ at < n
    BY <1>1, <1>2, <2>1
  <2>3. x <= L(at + 1)
    BY <1>2, <1>3, <2>2
  <2>4. L(at + 1) <= L(j)
    BY <1>1, <2>1, <2>2
  <2>5. L(at + 1) = x
    BY <1>1, <1>6, <2>2, <2>3, <2>4
  <2> QED BY <1>2, <1>4, <1>6, <2>2, <2>5
<1> QED BY <1>5, <1>6 DEF n, L, r

(* The first labels of a name. *)
LEMMA PrefixIs ==
    ASSUME NEW q \in Seq(Nat), NEW k \in 0..Len(q)
    PROVE  /\ SubSeq(q, 1, k) \in Seq(Nat) /\ Len(SubSeq(q, 1, k)) = k
           /\ \A i \in 1..k : SubSeq(q, 1, k)[i] = q[i]
           /\ \A j \in 0..k : SubSeq(SubSeq(q, 1, k), 1, j) = SubSeq(q, 1, j)
           /\ SubSeq(q, 1, Len(q)) = q /\ SubSeq(q, 1, 0) = <<>>
<1>0. Len(q) \in Nat /\ k \in Nat /\ k <= Len(q)
  OBVIOUS
<1>1. /\ SubSeq(q, 1, k) \in Seq(Nat) /\ Len(SubSeq(q, 1, k)) = k
      /\ \A i \in 1..k : SubSeq(q, 1, k)[i] = q[i]
  BY <1>0
<1>2. ASSUME NEW j \in 0..k PROVE SubSeq(SubSeq(q, 1, k), 1, j) = SubSeq(q, 1, j)
  BY <1>0, <1>1
<1>3. SubSeq(q, 1, Len(q)) = q /\ SubSeq(q, 1, 0) = <<>>
  BY <1>0
<1> QED BY <1>1, <1>2, <1>3

(* Two names with the same labels are the same. *)
LEMMA SameName ==
    ASSUME NEW p \in Seq(Nat), NEW q \in Seq(Nat), Len(p) = Len(q),
           \A i \in 1..Len(p) : p[i] = q[i]
    PROVE  p = q
OBVIOUS

(* A node and its parent: the parent's labels and one more. *)
LEMMA ChildIs ==
    ASSUME NEW p \in Seq(Nat), NEW q \in Seq(Nat),
           Len(q) = Len(p) + 1, SubSeq(q, 1, Len(p)) = p
    PROVE  Last(q) = q[Len(p) + 1] /\ Last(q) \in Nat /\ q = Append(p, Last(q))
<1>1. Last(q) = q[Len(p) + 1] /\ Last(q) \in Nat
  BY DEF Last
<1>2. \A i \in 1..Len(p) : q[i] = p[i]
  BY PrefixIs, Len(p) \in 0..Len(q)
<1>3. Append(p, Last(q)) \in Seq(Nat) /\ Len(Append(p, Last(q))) = Len(q)
  BY <1>1
<1>4. ASSUME NEW i \in 1..Len(q) PROVE q[i] = Append(p, Last(q))[i]
  BY <1>1, <1>2
<1>5. q = Append(p, Last(q))
  BY <1>3, <1>4, SameName
<1> QED BY <1>1, <1>5

Path(name) == {SubSeq(name, 1, k) : k \in 0..Len(name)}

(* The ancestors of a name, and theirs. *)
LEMMA PathIs ==
    ASSUME NEW name \in Seq(Nat)
    PROVE  /\ IsFiniteSet(Path(name)) /\ Path(name) \subseteq Seq(Nat)
           /\ name \in Path(name) /\ <<>> \in Path(name)
           /\ \A p \in Path(name) : Len(p) \in 0..Len(name) /\ p = SubSeq(name, 1, Len(p))
           /\ \A p \in Path(name) : \A k \in 0..Len(p) : SubSeq(p, 1, k) \in Path(name)
<1> DEFINE n == Len(name)
           f == [k \in 0..n |-> SubSeq(name, 1, k)]
<1>1. n \in Nat /\ IsFiniteSet(0..n)
  BY FS_Interval
<1>2. IsFiniteSet(Path(name))
  <2>1. f \in Surjection(0..n, Path(name))
    BY DEF Surjection, Path
  <2> QED BY <1>1, <2>1, FS_Surjection
<1>3. ASSUME NEW p \in Path(name)
      PROVE  p \in Seq(Nat) /\ Len(p) \in 0..n /\ p = SubSeq(name, 1, Len(p))
  BY PrefixIs DEF Path
<1>4. name \in Path(name) /\ <<>> \in Path(name)
  <2>1. SubSeq(name, 1, n) = name /\ SubSeq(name, 1, 0) = <<>> /\ 0 \in 0..n /\ n \in 0..n
    BY <1>1, PrefixIs
  <2> QED BY <2>1 DEF Path
<1>5. ASSUME NEW p \in Path(name), NEW k \in 0..Len(p) PROVE SubSeq(p, 1, k) \in Path(name)
  <2>1. SubSeq(p, 1, k) = SubSeq(name, 1, k) /\ k \in 0..n
    <3>1. \A j \in 0..Len(p) : SubSeq(SubSeq(name, 1, Len(p)), 1, j) = SubSeq(name, 1, j)
      BY <1>3, PrefixIs
    <3> QED BY <1>3, <3>1
  <2> QED BY <2>1 DEF Path
<1> QED BY <1>2, <1>3, <1>4, <1>5

(* The number tree.Add gives to a new node. *)
NewIdx(t, name, p) ==
    LET new == Path(name) \ DOMAIN t
    IN  Cardinality(DOMAIN t) + Cardinality({q \in new : Len(q) < Len(p)})

(* The tree a line leaves. *)
LEMMA TreeAddIs ==
    ASSUME NEW name, NEW inherit
    PROVE  TreeAdd(name, inherit) =
             [p \in DOMAIN tree \cup Path(name) |->
                [idx |-> IF p \in Path(name) \ DOMAIN tree THEN NewIdx(tree, name, p) ELSE tree[p].idx,
                 stat |-> IF p = name THEN (IF inherit THEN "domain" ELSE "full")
                          ELSE IF p \in Path(name) \ DOMAIN tree THEN "none" ELSE tree[p].stat]]
BY Zenon DEF TreeAdd, NewIdx, Path

(* The new nodes are numbered after the old ones, each differently. *)
LEMMA NewIdxIs ==
    ASSUME NEW t, IsFiniteSet(DOMAIN t), NEW name \in Seq(Nat)
    PROVE  LET new == Path(name) \ DOMAIN t
               all == DOMAIN t \cup Path(name)
           IN  /\ IsFiniteSet(all) /\ Cardinality(all) \in Nat
               /\ Cardinality(DOMAIN t) \in Nat /\ Cardinality(DOMAIN t) <= Cardinality(all)
               /\ \A p \in new : /\ NewIdx(t, name, p) \in Nat
                                 /\ NewIdx(t, name, p) >= Cardinality(DOMAIN t)
                                 /\ NewIdx(t, name, p) < Cardinality(all)
               /\ \A p, q \in new : NewIdx(t, name, p) = NewIdx(t, name, q) => p = q
<1> DEFINE new == Path(name) \ DOMAIN t
           all == DOMAIN t \cup Path(name)
           d == Cardinality(DOMAIN t)
           B(p) == {q \in new : Len(q) < Len(p)}
<1>1. IsFiniteSet(Path(name)) /\ \A p \in Path(name) : Len(p) \in Nat /\ p = SubSeq(name, 1, Len(p))
  BY PathIs
<1>2. IsFiniteSet(new) /\ IsFiniteSet(all)
  <2>1. IsFiniteSet(new)
    BY <1>1, FS_Subset, new \in SUBSET Path(name)
  <2>2. IsFiniteSet(all)
    BY <1>1, FS_Union
  <2> QED BY <2>1, <2>2
<1>3. d \in Nat /\ Cardinality(new) \in Nat /\ Cardinality(all) = d + Cardinality(new)
  <2>1. all = DOMAIN t \cup new /\ DOMAIN t \cap new = {}
    OBVIOUS
  <2>2. Cardinality(DOMAIN t \cup new) = d + Cardinality(new) - Cardinality(DOMAIN t \cap new)
    BY <1>2, FS_Union
  <2>3. Cardinality({}) = 0
    BY FS_EmptySet
  <2>4. d \in Nat /\ Cardinality(new) \in Nat
    BY <1>2, FS_CardinalityType
  <2> HIDE DEF d, new, all
  <2>5. Cardinality(DOMAIN t \cap new) = 0
    BY <2>1, <2>3, Zenon
  <2>6. Cardinality(all) = d + Cardinality(new) - 0
    BY <2>1, <2>2, <2>5, Zenon
  <2> QED BY <2>4, <2>6
<1>4. ASSUME NEW p \in new
      PROVE  IsFiniteSet(B(p)) /\ Cardinality(B(p)) \in Nat /\ Cardinality(B(p)) < Cardinality(new)
  <2>1. B(p) \in SUBSET new /\ p \in new /\ p \notin B(p)
    BY <1>1
  <2>2. IsFiniteSet(B(p)) /\ Cardinality(B(p)) <= Cardinality(new) /\ Cardinality(B(p)) # Cardinality(new)
    BY <1>2, <2>1, FS_Subset, Zenon
  <2>3. Cardinality(B(p)) \in Nat
    BY <2>2, FS_CardinalityType
  <2> HIDE DEF B, new
  <2> QED BY <1>3, <2>2, <2>3
<1>5. ASSUME NEW p \in new, NEW q \in new, Len(p) < Len(q)
      PROVE  Cardinality(B(p)) < Cardinality(B(q))
  <2>1. B(p) \in SUBSET B(q) /\ p \in B(q) /\ p \notin B(p)
    <3>1. \A r \in new : Len(r) < Len(p) => Len(r) < Len(q)
      BY <1>1, <1>5
    <3> QED BY <1>1, <1>5, <3>1
  <2>2. Cardinality(B(p)) <= Cardinality(B(q)) /\ Cardinality(B(p)) # Cardinality(B(q))
    BY <1>4, <2>1, FS_Subset, Zenon
  <2>3. Cardinality(B(p)) \in Nat /\ Cardinality(B(q)) \in Nat
    BY <1>4
  <2> HIDE DEF B, new
  <2> QED BY <2>2, <2>3
<1>6. \A p : NewIdx(t, name, p) = d + Cardinality(B(p))
  BY Zenon DEF NewIdx
<1>7. ASSUME NEW p \in new, NEW q \in new, NewIdx(t, name, p) = NewIdx(t, name, q) PROVE p = q
  <2> DEFINE bp == Cardinality(B(p))
             bq == Cardinality(B(q))
  <2>1. bp = bq
    <3>1. d + bp = d + bq /\ bp \in Nat /\ bq \in Nat
      BY <1>4, <1>6, <1>7, Zenon
    <3> HIDE DEF bp, bq, d
    <3> QED BY <1>3, <3>1
  <2>2. bp \in Nat /\ bq \in Nat
    BY <1>4
  <2>3. ~(bp < bq) /\ ~(bq < bp)
    <3> HIDE DEF bp, bq
    <3> QED BY <2>1, <2>2
  <2>4. ~(Len(p) < Len(q)) /\ ~(Len(q) < Len(p))
    <3> HIDE DEF B, new
    <3> QED BY <1>5, <2>3
  <2>5. Len(p) = Len(q)
    <3>1. Len(p) \in Nat /\ Len(q) \in Nat
      BY <1>1
    <3> QED BY <2>4, <3>1
  <2> QED BY <1>1, <2>5
<1>8. ASSUME NEW p \in new
      PROVE  /\ NewIdx(t, name, p) \in Nat /\ NewIdx(t, name, p) >= d
             /\ NewIdx(t, name, p) < Cardinality(all)
  <2> DEFINE b == Cardinality(B(p))
  <2>1. b \in Nat /\ b < Cardinality(new) /\ NewIdx(t, name, p) = d + b
    BY <1>4, <1>6
  <2> HIDE DEF b, new, all, d
  <2> QED BY <1>3, <2>1
<1>9. Cardinality(all) \in Nat /\ d <= Cardinality(all)
  <2> HIDE DEF d, new, all
  <2> QED BY <1>3
<1> QED BY <1>2, <1>3, <1>7, <1>8, <1>9, Zenon

(* The tree a line leaves is one, with the old nodes numbered as they were. *)
LEMMA TreeAddShape ==
    ASSUME TreeShape(tree), NEW name \in Seq(Nat), NEW inherit \in BOOLEAN
    PROVE  LET t == TreeAdd(name, inherit)
           IN  /\ TreeShape(t)
               /\ DOMAIN t = DOMAIN tree \cup Path(name)
               /\ t[name].stat = IF inherit THEN "domain" ELSE "full"
               /\ \A p \in DOMAIN t : p # name => t[p].stat = IF p \in DOMAIN tree THEN tree[p].stat ELSE "none"
<1> DEFINE t == TreeAdd(name, inherit)
           new == Path(name) \ DOMAIN tree
           N(p) == NewIdx(tree, name, p)
           d == Cardinality(DOMAIN tree)
           e == Cardinality(DOMAIN tree \cup Path(name))
<1>1. t = [p \in DOMAIN tree \cup Path(name) |->
                [idx |-> IF p \in new THEN N(p) ELSE tree[p].idx,
                 stat |-> IF p = name THEN (IF inherit THEN "domain" ELSE "full")
                          ELSE IF p \in new THEN "none" ELSE tree[p].stat]]
  BY TreeAddIs, Zenon
<1>2. /\ IsFiniteSet(DOMAIN tree) /\ DOMAIN tree \subseteq Seq(Nat) /\ <<>> \in DOMAIN tree
      /\ tree \in [DOMAIN tree -> [idx : Nat, stat : Stats]]
      /\ \A p \in DOMAIN tree : \A k \in 0..Len(p) : SubSeq(p, 1, k) \in DOMAIN tree
      /\ tree[<<>>].idx = 0
      /\ \A p \in DOMAIN tree : tree[p].idx < d
      /\ \A p, q \in DOMAIN tree : tree[p].idx = tree[q].idx => p = q
  BY DEF TreeShape
<1>3. /\ IsFiniteSet(DOMAIN tree \cup Path(name)) /\ e \in Nat /\ d \in Nat /\ d <= e
      /\ \A p \in new : N(p) \in Nat /\ N(p) >= d /\ N(p) < e
      /\ \A p, q \in new : N(p) = N(q) => p = q
  BY <1>2, NewIdxIs
<1>4. /\ Path(name) \subseteq Seq(Nat) /\ name \in Path(name)
      /\ \A p \in Path(name) : \A k \in 0..Len(p) : SubSeq(p, 1, k) \in Path(name)
  BY PathIs
<1> HIDE DEF N, d, e, t
<1>5. DOMAIN t = DOMAIN tree \cup Path(name)
  BY <1>1
<1>6. /\ \A p \in DOMAIN t : t[p].idx = IF p \in new THEN N(p) ELSE tree[p].idx
      /\ \A p \in DOMAIN t : t[p].stat = IF p = name THEN (IF inherit THEN "domain" ELSE "full")
                                         ELSE IF p \in new THEN "none" ELSE tree[p].stat
      /\ t = [p \in DOMAIN t |-> [idx |-> t[p].idx, stat |-> t[p].stat]]
  BY <1>1
<1>7. t \in [DOMAIN t -> [idx : Nat, stat : Stats]]
  <2>1. ASSUME NEW p \in DOMAIN t PROVE t[p].idx \in Nat /\ t[p].stat \in Stats
    <3>1. p \in DOMAIN tree => tree[p].idx \in Nat /\ tree[p].stat \in Stats
      BY <1>2
    <3>2. p \in DOMAIN tree \/ p \in new
      BY <1>5
    <3>3. t[p].idx \in Nat
      BY <1>3, <1>6, <3>1, <3>2
    <3>4. t[p].stat \in Stats
      BY <1>6, <3>1, <3>2 DEF Stats
    <3> QED BY <3>3, <3>4
  <2> QED BY <1>6, <2>1
<1>8. \A p \in DOMAIN t : t[p].idx < e
  <2>1. \A p \in DOMAIN tree : tree[p].idx \in Nat
    BY <1>2
  <2> QED BY <1>2, <1>3, <1>5, <1>6, <2>1
<1>9. ASSUME NEW p \in DOMAIN t, NEW q \in DOMAIN t, t[p].idx = t[q].idx PROVE p = q
  <2>1. \A r \in DOMAIN tree : tree[r].idx \in Nat /\ tree[r].idx < d
    BY <1>2
  <2>2. CASE p \in new /\ q \in new
    BY <1>3, <1>6, <1>9, <2>2
  <2>3. CASE p \in new /\ q \notin new
    <3>1. q \in DOMAIN tree /\ t[q].idx = tree[q].idx /\ t[p].idx = N(p)
      BY <1>5, <1>6, <2>3
    <3> QED BY <1>3, <1>9, <2>1, <2>3, <3>1
  <2>4. CASE p \notin new /\ q \in new
    <3>1. p \in DOMAIN tree /\ t[p].idx = tree[p].idx /\ t[q].idx = N(q)
      BY <1>5, <1>6, <2>4
    <3>2. N(q) \in Nat /\ N(q) >= d /\ tree[p].idx \in Nat /\ tree[p].idx < d
      BY <1>3, <2>1, <2>4, <3>1
    <3>3. N(q) = tree[p].idx
      BY <1>9, <3>1
    <3> QED BY <1>3, <3>2, <3>3
  <2>5. CASE p \notin new /\ q \notin new
    BY <1>2, <1>5, <1>6, <1>9, <2>5
  <2> QED BY <2>2, <2>3, <2>4, <2>5
<1>10. TreeShape(t)
  <2>1. IsFiniteSet(DOMAIN t) /\ DOMAIN t \subseteq Seq(Nat) /\ <<>> \in DOMAIN t
    BY <1>2, <1>3, <1>4, <1>5
  <2>2. \A p \in DOMAIN t : \A k \in 0..Len(p) : SubSeq(p, 1, k) \in DOMAIN t
    BY <1>2, <1>4, <1>5
  <2>3. t[<<>>].idx = 0
    BY <1>2, <1>5, <1>6
  <2>4. e = Cardinality(DOMAIN t)
    BY <1>5 DEF e
  <2> QED BY <2>1, <2>2, <2>3, <2>4, <1>7, <1>8, <1>9 DEF TreeShape
<1>11. t[name].stat = IF inherit THEN "domain" ELSE "full"
  BY <1>4, <1>5, <1>6
<1>12. \A p \in DOMAIN t : p # name => t[p].stat = IF p \in DOMAIN tree THEN tree[p].stat ELSE "none"
  BY <1>5, <1>6
<1> QED BY <1>5, <1>10, <1>11, <1>12 DEF t

(* A line and the rules a file leaves, for the state before and after it. *)
LEMMA LineIs ==
    ASSUME NEW line \in Line
    PROVE  /\ line.typ # "regexp" => line.name \in RuleNames /\ line.name \in Seq(Nat) /\ line.typ \in {"domain", "full"}
           /\ line.typ \in {"domain", "full", "regexp"}
BY DomainAssumption DEF Line

(* Which rule governs after one more line. *)
LEMMA GovernsAfter ==
    ASSUME rules \in Seq(Line), NEW line \in Line, rules' = Append(rules, line),
           NEW n \in Nat, n = Len(rules)
    PROVE  /\ Len(rules') = n + 1 /\ rules'[n + 1] = line
           /\ \A k \in 1..n : rules'[k] = rules[k]
           /\ Governs(n + 1)' <=> line.typ # "regexp"
           /\ \A k \in 1..n : Governs(k)' <=> (Governs(k) /\ (line.typ # "regexp" => line.name # rules[k].name))
<1>1. /\ Len(rules') = n + 1 /\ rules'[n + 1] = line
      /\ \A k \in 1..n : rules'[k] = rules[k]
  OBVIOUS
<1>2. Governs(n + 1)' <=> line.typ # "regexp"
  BY <1>1 DEF Governs
<1>3. ASSUME NEW k \in 1..n
      PROVE  Governs(k)' <=> (Governs(k) /\ (line.typ # "regexp" => line.name # rules[k].name))
  <2>1. (k + 1)..(n + 1) = ((k + 1)..n) \cup {n + 1} /\ n + 1 \in (k + 1)..(n + 1)
    BY <1>1
  <2>2. \A j \in (k + 1)..n : rules'[j] = rules[j]
    BY <1>1
  <2>3. rules'[k] = rules[k]
    BY <1>1
  <2> QED BY <1>1, <2>1, <2>2, <2>3 DEF Governs
<1> QED BY <1>1, <1>2, <1>3

(* A regular expression leaves the tree alone. *)
LEMMA RulesKeptRegexp ==
    ASSUME RulesKept, NEW line \in Line, line.typ = "regexp",
           rules' = Append(rules, line), tree' = tree, re' = re \cup {line.accepts}
    PROVE  RulesKept'
<1>n. PICK n \in Nat : n = Len(rules)
  BY rules \in Seq(Line) DEF RulesKept
<1>0. /\ rules \in Seq(Line)
      /\ \A k \in 1..Len(rules) : rules[k].typ # "regexp" =>
           rules[k].name \in DOMAIN tree /\ tree[rules[k].name].stat # "none"
      /\ \A k \in 1..Len(rules) : Governs(k) => tree[rules[k].name].stat = rules[k].typ
      /\ \A p \in DOMAIN tree : tree[p].stat # "none" =>
           \E k \in 1..Len(rules) : Governs(k) /\ rules[k].name = p
      /\ re = {rules[k].accepts : k \in {j \in 1..Len(rules) : rules[j].typ = "regexp"}}
  BY DEF RulesKept
<1>1. /\ n \in Nat /\ Len(rules') = n + 1 /\ rules'[n + 1] = line
      /\ \A k \in 1..n : rules'[k] = rules[k]
      /\ ~Governs(n + 1)'
      /\ \A k \in 1..n : Governs(k)' <=> Governs(k)
  BY <1>0, GovernsAfter, <1>n
<1>2. 1..(n + 1) = (1..n) \cup {n + 1}
  BY <1>1
<1>3. rules' \in Seq(Line)
  BY <1>0
<1>4. \A k \in 1..Len(rules') : rules'[k].typ # "regexp" =>
        rules'[k].name \in DOMAIN tree /\ tree[rules'[k].name].stat # "none"
  BY <1>0, <1>1, <1>2, <1>n
<1>5. \A k \in 1..Len(rules') : Governs(k)' => tree[rules'[k].name].stat = rules'[k].typ
  BY <1>0, <1>1, <1>2, <1>n
<1>6. \A p \in DOMAIN tree : tree[p].stat # "none" =>
           \E k \in 1..Len(rules') : Governs(k)' /\ rules'[k].name = p
  BY <1>0, <1>1, <1>2, <1>n
<1>7. re' = {rules'[k].accepts : k \in {j \in 1..Len(rules') : rules'[j].typ = "regexp"}}
  <2>1. {j \in 1..Len(rules') : rules'[j].typ = "regexp"} = {j \in 1..n : rules[j].typ = "regexp"} \cup {n + 1}
    BY <1>1, <1>2
  <2>2. \A k \in {j \in 1..n : rules[j].typ = "regexp"} : rules'[k].accepts = rules[k].accepts
    BY <1>1
  <2>3. rules'[n + 1].accepts = line.accepts
    BY <1>1
  <2> QED BY <1>0, <2>1, <2>2, <2>3, <1>n
<1> QED BY <1>3, <1>4, <1>5, <1>6, <1>7 DEF RulesKept

(* A name leaves its stat at its node, in place of an earlier one. *)
LEMMA RulesKeptName ==
    ASSUME TreeShape(tree), RulesKept, NEW line \in Line, line.typ # "regexp",
           rules' = Append(rules, line), tree' = TreeAdd(line.name, line.typ = "domain"), re' = re
    PROVE  RulesKept'
<1> DEFINE name == line.name
<1>n. PICK n \in Nat : n = Len(rules)
  BY rules \in Seq(Line) DEF RulesKept
<1>0. /\ rules \in Seq(Line)
      /\ \A k \in 1..Len(rules) : rules[k].typ # "regexp" =>
           rules[k].name \in DOMAIN tree /\ tree[rules[k].name].stat # "none"
      /\ \A k \in 1..Len(rules) : Governs(k) => tree[rules[k].name].stat = rules[k].typ
      /\ \A p \in DOMAIN tree : tree[p].stat # "none" =>
           \E k \in 1..Len(rules) : Governs(k) /\ rules[k].name = p
      /\ re = {rules[k].accepts : k \in {j \in 1..Len(rules) : rules[j].typ = "regexp"}}
  BY DEF RulesKept
<1>1. /\ n \in Nat /\ Len(rules') = n + 1 /\ rules'[n + 1] = line
      /\ \A k \in 1..n : rules'[k] = rules[k]
      /\ Governs(n + 1)'
      /\ \A k \in 1..n : Governs(k)' <=> Governs(k) /\ name # rules[k].name
  BY <1>0, GovernsAfter, <1>n
<1>a. name \in Seq(Nat) /\ line.typ \in {"domain", "full"} /\ (line.typ = "domain") \in BOOLEAN
  BY LineIs
<1>b. /\ DOMAIN tree' = DOMAIN tree \cup Path(name)
      /\ tree'[name].stat = line.typ
      /\ \A p \in DOMAIN tree' : p # name => tree'[p].stat = IF p \in DOMAIN tree THEN tree[p].stat ELSE "none"
      /\ name \in Path(name)
  <2>1. /\ DOMAIN tree' = DOMAIN tree \cup Path(name)
        /\ tree'[name].stat = IF line.typ = "domain" THEN "domain" ELSE "full"
        /\ \A p \in DOMAIN tree' : p # name => tree'[p].stat = IF p \in DOMAIN tree THEN tree[p].stat ELSE "none"
    BY <1>a, TreeAddShape
  <2> QED BY <1>a, <2>1, PathIs
<1>c. \A k \in 1..n : Governs(k) => rules[k].typ # "regexp"
  BY DEF Governs
<1> HIDE DEF name
<1>2. 1..(n + 1) = (1..n) \cup {n + 1}
  BY <1>1
<1>3. rules' \in Seq(Line)
  BY <1>0
<1>4. ASSUME NEW k \in 1..Len(rules'), rules'[k].typ # "regexp"
      PROVE  rules'[k].name \in DOMAIN tree' /\ tree'[rules'[k].name].stat # "none"
  <2>1. CASE k = n + 1
    BY <1>1, <1>a, <1>b, <2>1 DEF name
  <2>2. CASE k \in 1..n
    <3>1. rules'[k] = rules[k] /\ rules[k].name \in DOMAIN tree /\ tree[rules[k].name].stat # "none"
      BY <1>0, <1>1, <1>4, <2>2, <1>n
    <3>2. rules[k].name # name => tree'[rules[k].name].stat = tree[rules[k].name].stat
      BY <1>b, <3>1
    <3> QED BY <1>a, <1>b, <3>1, <3>2
  <2> QED BY <1>1, <1>2, <2>1, <2>2, <1>n
<1>5. ASSUME NEW k \in 1..Len(rules'), Governs(k)' PROVE tree'[rules'[k].name].stat = rules'[k].typ
  <2>1. CASE k = n + 1
    BY <1>1, <1>b, <2>1 DEF name
  <2>2. CASE k \in 1..n
    <3>1. Governs(k) /\ rules[k].name # name /\ rules[k].name \in DOMAIN tree /\ rules'[k] = rules[k]
      BY <1>0, <1>1, <1>5, <1>c, <2>2, <1>n
    <3>2. tree'[rules[k].name].stat = tree[rules[k].name].stat
      BY <1>b, <3>1
    <3> QED BY <1>0, <2>2, <3>1, <3>2, <1>n
  <2> QED BY <1>1, <1>2, <2>1, <2>2, <1>n
<1>6. ASSUME NEW p \in DOMAIN tree', tree'[p].stat # "none"
      PROVE  \E k \in 1..Len(rules') : Governs(k)' /\ rules'[k].name = p
  <2>1. CASE p = name
    BY <1>1, <2>1 DEF name
  <2>2. CASE p # name
    <3>1. p \in DOMAIN tree /\ tree[p].stat # "none"
      BY <1>6, <1>b, <2>2
    <3>2. PICK k \in 1..n : Governs(k) /\ rules[k].name = p
      BY <1>0, <3>1, <1>n
    <3>3. Governs(k)' /\ rules'[k].name = p /\ k \in 1..Len(rules')
      BY <1>1, <1>2, <2>2, <3>2
    <3> QED BY <3>3
  <2> QED BY <2>1, <2>2
<1>7. re' = {rules'[k].accepts : k \in {j \in 1..Len(rules') : rules'[j].typ = "regexp"}}
  <2>1. {j \in 1..Len(rules') : rules'[j].typ = "regexp"} = {j \in 1..n : rules[j].typ = "regexp"}
    BY <1>1, <1>2
  <2>2. \A k \in {j \in 1..n : rules[j].typ = "regexp"} : rules'[k].accepts = rules[k].accepts
    BY <1>1
  <2> QED BY <1>0, <2>1, <2>2, <1>n
<1> QED BY <1>3, <1>4, <1>5, <1>6, <1>7 DEF RulesKept

(* The invariant holds of an empty file. *)
LEMMA DomainIInvInit == DomainInit => DomainIInv
<1> SUFFICES ASSUME DomainInit PROVE DomainIInv
  OBVIOUS
<1>1. tree = [p \in {<<>>} |-> [idx |-> 0, stat |-> "none"]] /\ rules = <<>> /\ re = {} /\ stage = "adding" /\ frames = <<>> /\ ct = NoTree
  BY DEF DomainInit
<1>2. TreeShape(tree)
  <2>1. DOMAIN tree = {<<>>} /\ tree[<<>>].idx = 0 /\ tree[<<>>].stat = "none"
    BY <1>1
  <2>2. IsFiniteSet({<<>>}) /\ Cardinality({<<>>}) = 1
    BY FS_Singleton, Zenon
  <2>3. tree \in [DOMAIN tree -> [idx : Nat, stat : Stats]]
    BY <1>1 DEF Stats
  <2>4. \A k \in 0..Len(<<>>) : SubSeq(<<>>, 1, k) = <<>>
    OBVIOUS
  <2>5. <<>> \in Seq(Nat)
    OBVIOUS
  <2>6. \A p \in DOMAIN tree : p = <<>>
    BY <2>1
  <2>7. tree[<<>>].idx < Cardinality(DOMAIN tree)
    BY <2>1, <2>2
  <2> QED BY <2>1, <2>2, <2>3, <2>4, <2>5, <2>6, <2>7 DEF TreeShape
<1>3. RulesKept
  BY <1>1 DEF RulesKept
<1> QED BY <1>1, <1>2, <1>3 DEF DomainIInv

(* A line keeps it. *)
LEMMA DomainIInvAddLine ==
    ASSUME DomainIInv, NEW line \in Line, AddLine(line)
    PROVE  DomainIInv'
<1>1. TreeShape(tree) /\ RulesKept /\ frames \in Seq(SUBSET DOMAIN tree) /\ (stage = "adding" => ct = NoTree)
  BY DEF DomainIInv
<1>2. stage = "adding" /\ rules' = Append(rules, line) /\ UNCHANGED <<ct, frames, stage>>
  BY DEF AddLine
<1>3. CASE line.typ = "regexp"
  <2>1. tree' = tree /\ re' = re \cup {line.accepts}
    BY <1>3 DEF AddLine
  <2>2. RulesKept'
    BY <1>1, <1>2, <1>3, <2>1, RulesKeptRegexp
  <2> QED BY <1>1, <1>2, <2>1, <2>2 DEF DomainIInv
<1>4. CASE line.typ # "regexp"
  <2>1. tree' = TreeAdd(line.name, line.typ = "domain") /\ re' = re
    BY <1>4 DEF AddLine
  <2>2. RulesKept'
    BY <1>1, <1>2, <1>4, <2>1, RulesKeptName
  <2>3. TreeShape(tree') /\ DOMAIN tree \subseteq DOMAIN tree'
    <3>1. line.name \in Seq(Nat) /\ (line.typ = "domain") \in BOOLEAN
      BY <1>4, LineIs
    <3>2. TreeShape(TreeAdd(line.name, line.typ = "domain")) /\ DOMAIN TreeAdd(line.name, line.typ = "domain") = DOMAIN tree \cup Path(line.name)
      BY <1>1, <3>1, TreeAddShape
    <3> QED BY <2>1, <3>2
  <2>4. frames' \in Seq(SUBSET DOMAIN tree')
    BY <1>1, <1>2, <2>3
  <2> QED BY <1>1, <1>2, <2>2, <2>3, <2>4 DEF DomainIInv
<1> QED BY <1>3, <1>4

(* A file that is refused keeps it. *)
LEMMA DomainIInvAddFails ==
    ASSUME DomainIInv, AddFails
    PROVE  DomainIInv'
BY DEF DomainIInv, AddFails, RulesKept, Governs

(* An order of a finite set names each of its elements once. *)
LEMMA OrderIs ==
    ASSUME NEW S, IsFiniteSet(S), NEW order \in SetToSeqs(S)
    PROVE  /\ order \in Seq(S) /\ Len(order) \in Nat
           /\ \A i, j \in 1..Len(order) : order[i] = order[j] => i = j
           /\ \A x \in S : \E i \in 1..Len(order) : order[i] = x
<1> DEFINE n == Cardinality(S)
           D == 1..n
<1>1. n \in Nat
  BY FS_CardinalityType
<1>2. order \in [D -> S] /\ \A i, j \in D : i # j => order[i] # order[j]
  BY Zenon DEF SetToSeqs
<1>3. order \in Seq(S) /\ Len(order) = n
  BY <1>1, <1>2
<1>4. IsFiniteSet(D) /\ Cardinality(D) = Cardinality(S)
  BY <1>1, FS_Interval
<1>5. order \in Injection(D, S)
  BY <1>2 DEF Injection, IsInjective
<1>6. order \in Surjection(D, S)
  BY <1>4, <1>5, FS_Injection
<1>7. \A x \in S : \E i \in D : order[i] = x
  BY <1>6 DEF Surjection
<1> QED BY <1>1, <1>2, <1>3, <1>7

(* The children of a node. *)
LEMMA ChildrenAre ==
    ASSUME TreeShape(tree), NEW p \in DOMAIN tree
    PROVE  /\ IsFiniteSet(Children(p)) /\ Children(p) \subseteq DOMAIN tree
           /\ \A ch \in Children(p) : /\ ch \in Seq(Nat) /\ ch = Append(p, Last(ch)) /\ Last(ch) \in Nat
                                      /\ Len(ch) = Len(p) + 1 /\ SubSeq(ch, 1, Len(p)) = p
<1>1. Children(p) \in SUBSET DOMAIN tree
  BY DEF Children
<1>2. IsFiniteSet(DOMAIN tree) /\ DOMAIN tree \subseteq Seq(Nat)
  BY DEF TreeShape
<1>3. IsFiniteSet(Children(p))
  BY <1>1, <1>2, FS_Subset
<1>4. \A ch \in Children(p) : Len(ch) = Len(p) + 1 /\ SubSeq(ch, 1, Len(p)) = p
  BY DEF Children
<1>5. ASSUME NEW ch \in Children(p) PROVE ch = Append(p, Last(ch)) /\ Last(ch) \in Nat
  BY <1>1, <1>2, <1>4, ChildIs
<1> QED BY <1>1, <1>2, <1>3, <1>4, <1>5

(* The nodes and the numbers below their count are the same, one by one. *)
LEMMA Numbered ==
    ASSUME TreeShape(tree)
    PROVE  /\ Cardinality(DOMAIN tree) \in Nat
           /\ \A p \in DOMAIN tree : tree[p].idx \in 0..(Cardinality(DOMAIN tree) - 1)
           /\ \A i \in 0..(Cardinality(DOMAIN tree) - 1) : \E p \in DOMAIN tree : tree[p].idx = i
<1> DEFINE n == Cardinality(DOMAIN tree)
           f == [p \in DOMAIN tree |-> tree[p].idx]
<1>1. IsFiniteSet(DOMAIN tree) /\ n \in Nat
  BY FS_CardinalityType DEF TreeShape
<1>2. \A p \in DOMAIN tree : tree[p].idx \in Nat /\ tree[p].idx < n
  BY DEF TreeShape
<1>3. IsFiniteSet(0..(n - 1)) /\ Cardinality(0..(n - 1)) = n
  BY <1>1, FS_Interval
<1>4. f \in Injection(DOMAIN tree, 0..(n - 1))
  <2>1. \A p \in DOMAIN tree : tree[p].idx \in 0..(n - 1)
    <3> HIDE DEF n
    <3> QED BY <1>1, <1>2
  <2>2. \A p, q \in DOMAIN tree : f[p] = f[q] => p = q
    BY DEF TreeShape
  <2>3. f \in [DOMAIN tree -> 0..(n - 1)]
    BY <2>1
  <2> QED BY <2>2, <2>3 DEF Injection, IsInjective
<1>5. f \in Surjection(DOMAIN tree, 0..(n - 1))
  BY <1>3, <1>4, FS_Injection
<1>6. \A i \in 0..(n - 1) : \E p \in DOMAIN tree : f[p] = i
  BY <1>5 DEF Surjection
<1> HIDE DEF n
<1> QED BY <1>1, <1>2, <1>6 DEF n

(* The sections before the first node is indexed. *)
Unindexed ==
    LET AtIdx(i) == CHOOSE p \in DOMAIN tree : tree[p].idx = i
    IN  [NoTree EXCEPT !.nodes =
            [i \in 1..Cardinality(DOMAIN tree) |->
                [childIdxSeg |-> [off |-> 0, l |-> 0], stat |-> tree[AtIdx(i - 1)].stat]]]

(* They hold the stats of the nodes and point nowhere. *)
LEMMA UnindexedIs ==
    ASSUME TreeShape(tree)
    PROVE  CompiledOK(Unindexed)
<1> DEFINE n == Cardinality(DOMAIN tree)
           AtIdx(i) == CHOOSE p \in DOMAIN tree : tree[p].idx = i
           c == Unindexed
           ns == [i \in 1..n |->
                [childIdxSeg |-> [off |-> 0, l |-> 0], stat |-> tree[AtIdx(i - 1)].stat]]
<1>1. /\ n \in Nat
      /\ \A p \in DOMAIN tree : tree[p].idx \in 0..(n - 1)
      /\ \A i \in 0..(n - 1) : \E p \in DOMAIN tree : tree[p].idx = i
  BY Numbered
<1>2. \A i \in 0..(n - 1) : AtIdx(i) \in DOMAIN tree /\ tree[AtIdx(i)].idx = i
  BY <1>1
<1>3. \A p \in DOMAIN tree : tree[p].stat \in Stats
  BY DEF TreeShape
<1>4. c = [nodes |-> ns, idxNodes |-> <<>>, labels |-> <<>>]
  <2>1. c = [NoTree EXCEPT !.nodes = ns]
    BY Zenon DEF Unindexed
  <2> HIDE DEF ns, c
  <2> QED BY <2>1 DEF NoTree
<1>5. \A p \in DOMAIN tree : AtIdx(tree[p].idx) = p
  <2> HIDE DEF AtIdx
  <2> QED BY <1>1, <1>2 DEF TreeShape
<1> HIDE DEF AtIdx, n
<1>6. ns \in Seq(Node) /\ Len(ns) = n
  <2>1. ASSUME NEW i \in 1..n PROVE ns[i] \in Node
    <3>1. i - 1 \in 0..(n - 1)
      BY <1>1
    <3>2. tree[AtIdx(i - 1)].stat \in Stats
      BY <1>2, <1>3, <3>1
    <3> QED BY <3>2 DEF Node, SegAddr
  <2> QED BY <1>1, <2>1
<1>7. ASSUME NEW p \in DOMAIN tree PROVE ns[tree[p].idx + 1].stat = tree[p].stat
  <2>1. tree[p].idx + 1 \in 1..n /\ (tree[p].idx + 1) - 1 = tree[p].idx
    BY <1>1
  <2> QED BY <1>5, <2>1
<1>8. ASSUME NEW i \in 1..n PROVE ns[i].childIdxSeg = [off |-> 0, l |-> 0]
  OBVIOUS
<1> HIDE DEF ns, c
<1>9. c \in Sections
  BY <1>4, <1>6 DEF Sections
<1>10. c.nodes = ns /\ c.idxNodes = <<>>
  BY <1>4
<1>11. \A i \in 1..Len(c.nodes) : SegmentOK(c, c.nodes[i].childIdxSeg)
  BY <1>6, <1>8, <1>10 DEF SegmentOK
<1> QED BY <1>6, <1>7, <1>9, <1>10, <1>11 DEF CompiledOK, n, c

(* The parts of a sequence put together of two. *)
LEMMA ConcatParts ==
    ASSUME NEW S, NEW s1 \in Seq(S), NEW s2 \in Seq(S), NEW a, a = Len(s1), NEW b, b = Len(s2)
    PROVE  /\ s1 \o s2 \in Seq(S) /\ Len(s1 \o s2) = a + b
           /\ \A k \in 1..a : (s1 \o s2)[k] = s1[k]
           /\ \A k \in 1..b : (s1 \o s2)[a + k] = s2[k]
<1> DEFINE t == s1 \o s2
<1>1. a \in Nat /\ b \in Nat
  OBVIOUS
<1>2. /\ t \in Seq(S) /\ Len(t) = Len(s1) + Len(s2)
      /\ \A i \in 1..(Len(s1) + Len(s2)) : t[i] = IF i <= Len(s1) THEN s1[i] ELSE s2[i - Len(s1)]
  BY ConcatProperties, Zenon
<1> HIDE DEF t
<1>3. \A i \in 1..(a + b) : t[i] = IF i <= a THEN s1[i] ELSE s2[i - a]
  BY <1>2, Zenon
<1>4. \A k \in 1..a : t[k] = s1[k]
  BY <1>1, <1>3
<1>5. ASSUME NEW k \in 1..b PROVE t[a + k] = s2[k]
  <2>1. a + k \in 1..(a + b) /\ ~(a + k <= a) /\ (a + k) - a = k
    BY <1>1
  <2>2. t[a + k] = s2[(a + k) - a]
    BY <1>3, <2>1, Zenon
  <2> QED BY <2>1, <2>2, Zenon
<1> QED BY <1>2, <1>4, <1>5 DEF t

(* A sequence lists the elements of another, each once, in the order f.     *)
Rearranges(s, es, n, f) ==
    /\ f \in [1..n -> 1..n]
    /\ \A k \in 1..n : s[k] = es[f[k]]
    /\ \A i, j \in 1..n : f[i] = f[j] => i = j
    /\ \A i \in 1..n : \E j \in 1..n : f[j] = i

(* What sorting the new entries by label leaves: the same ones. *)
LEMMA AscendingIs ==
    ASSUME NEW labels, NEW es, NEW n \in Nat, Len(es) = n, NEW s \in Ascending(labels, es)
    PROVE  /\ s \in [1..n -> {es[k] : k \in 1..n}]
           /\ \E f : Rearranges(s, es, n, f)
           /\ \A i, j \in 1..n : i < j => LabelOf(s[i], labels) <= LabelOf(s[j], labels)
<1> DEFINE D == 1..n
<1>1. /\ s \in {[k \in D |-> es[f[k]]] : f \in Bijection(D, D)}
      /\ \A i, j \in D : i < j => LabelOf(s[i], labels) <= LabelOf(s[j], labels)
  BY Zenon DEF Ascending
<1>2. PICK f \in Bijection(D, D) : s = [k \in D |-> es[f[k]]]
  BY <1>1
<1>3. /\ f \in [D -> D]
      /\ \A i, j \in D : f[i] = f[j] => i = j
      /\ \A i \in D : \E j \in D : f[j] = i
  BY DEF Bijection, Injection, Surjection, IsInjective
<1>4. s \in [D -> {es[k] : k \in D}] /\ \A k \in D : s[k] = es[f[k]]
  BY <1>2, <1>3
<1>5. Rearranges(s, es, n, f)
  BY <1>3, <1>4 DEF Rearranges
<1> QED BY <1>1, <1>4, <1>5

(* The sections after a node is indexed in a given order: its new entries.  *)
Extends(c, d, p, order, f) ==
    /\ d = [nodes |-> d.nodes, idxNodes |-> d.idxNodes, labels |-> d.labels]
    /\ d.nodes = [c.nodes EXCEPT ![tree[p].idx + 1].childIdxSeg = [off |-> Len(c.idxNodes), l |-> Len(order)]]
    /\ d.idxNodes \in Seq(Entry) /\ d.labels \in Seq(Nat)
    /\ Len(d.idxNodes) = Len(c.idxNodes) + Len(order)
    /\ Len(d.labels) = Len(c.labels) + Len(order)
    /\ \A k \in 1..Len(c.idxNodes) : d.idxNodes[k] = c.idxNodes[k]
    /\ \A k \in 1..Len(c.labels) : d.labels[k] = c.labels[k]
    /\ f \in [1..Len(order) -> 1..Len(order)]
    /\ \A i, j \in 1..Len(order) : f[i] = f[j] => i = j
    /\ \A i \in 1..Len(order) : \E j \in 1..Len(order) : f[j] = i
    /\ \A k \in 1..Len(order) :
         LET e == d.idxNodes[Len(c.idxNodes) + k]
         IN  /\ e.labelSeg.l = 1 /\ e.labelSeg.off < Len(d.labels)
             /\ EntryLabel(d, Len(c.idxNodes) + k) = Last(order[f[k]])
             /\ e.childIdx = tree[order[f[k]]].idx
    /\ \A i, j \in 1..Len(order) : i < j =>
         EntryLabel(d, Len(c.idxNodes) + i) <= EntryLabel(d, Len(c.idxNodes) + j)

(* IndexNode does no more than that. *)
LEMMA IndexNodeIs ==
    ASSUME TreeShape(tree), NEW c \in Sections, NEW p \in DOMAIN tree,
           NEW order \in SetToSeqs(Children(p)), NEW d \in IndexNode(c, p, order)
    PROVE  \E f : Extends(c, d, p, order, f)
<1> DEFINE m == Len(order)
           lc == Len(c.labels)
           ic == Len(c.idxNodes)
           added == [k \in 1..m |-> Last(order[k])]
           labels == c.labels \o added
           entry == [k \in 1..m |->
                       [labelSeg |-> [off |-> lc + k - 1, l |-> 1], childIdx |-> tree[order[k]].idx]]
<1>0. /\ m \in Nat /\ order \in Seq(Children(p))
      /\ \A k \in 1..m : /\ order[k] \in Children(p) /\ order[k] \in DOMAIN tree
                         /\ Last(order[k]) \in Nat /\ tree[order[k]].idx \in Nat
  <2>1. m \in Nat /\ order \in Seq(Children(p))
    BY ChildrenAre, OrderIs
  <2>2. \A ch \in Children(p) : ch \in DOMAIN tree /\ Last(ch) \in Nat
    BY ChildrenAre
  <2>3. \A ch \in DOMAIN tree : tree[ch].idx \in Nat
    BY DEF TreeShape
  <2>4. \A k \in 1..m : order[k] \in Children(p)
    BY <2>1
  <2> QED BY <2>1, <2>2, <2>3, <2>4
<1>1. c.nodes \in Seq(Node) /\ c.idxNodes \in Seq(Entry) /\ c.labels \in Seq(Nat) /\ lc \in Nat /\ ic \in Nat
  BY DEF Sections
<1>2. PICK es \in Ascending(labels, entry) :
        d = [nodes |-> [c.nodes EXCEPT ![tree[p].idx + 1].childIdxSeg = [off |-> ic, l |-> m]],
             idxNodes |-> c.idxNodes \o es, labels |-> labels]
  BY Zenon DEF IndexNode
<1>3. d.nodes = [c.nodes EXCEPT ![tree[p].idx + 1].childIdxSeg = [off |-> ic, l |-> m]]
      /\ d.idxNodes = c.idxNodes \o es /\ d.labels = labels
  <2> HIDE DEF labels
  <2> QED BY <1>2
<1>4. labels \in Seq(Nat) /\ Len(labels) = lc + m
      /\ (\A k \in 1..lc : labels[k] = c.labels[k]) /\ (\A k \in 1..m : labels[lc + k] = Last(order[k]))
  <2> DEFINE L(k) == Last(order[k])
             lab == c.labels
  <2>1. m \in Nat /\ (\A k \in 1..m : L(k) \in Nat) /\ added = [k \in 1..m |-> L(k)]
    BY <1>0
  <2>2. labels = lab \o added /\ lab \in Seq(Nat) /\ Len(lab) = lc
    BY <1>1
  <2> HIDE DEF added, L, m, labels, lc, lab
  <2>3. added \in Seq(Nat) /\ Len(added) = m /\ \A k \in 1..m : added[k] = L(k)
    BY <2>1
  <2>4. /\ labels \in Seq(Nat) /\ Len(labels) = lc + m
        /\ (\A k \in 1..lc : labels[k] = lab[k]) /\ (\A k \in 1..m : labels[lc + k] = added[k])
    <3>1. lc \in Nat /\ m \in Nat
      BY <1>1, <2>1
    <3>2. /\ lab \o added \in Seq(Nat) /\ Len(lab \o added) = lc + m
          /\ \A k \in 1..lc : (lab \o added)[k] = lab[k]
          /\ \A k \in 1..m : (lab \o added)[lc + k] = added[k]
      <4>1. lc = Len(lab) /\ m = Len(added) /\ lab \in Seq(Nat) /\ added \in Seq(Nat)
        BY <2>2, <2>3
      <4> QED BY <4>1, ConcatParts
    <3> QED BY <2>2, <3>2, Zenon
  <2> QED BY <2>3, <2>4 DEF L, lab
<1>5. entry \in Seq(Entry) /\ Len(entry) = m
  <2>1. ASSUME NEW k \in 1..m PROVE entry[k] \in Entry
    <3>1. lc + k - 1 \in Nat
      BY <1>0, <1>1
    <3> QED BY <1>0, <3>1 DEF Entry, SegAddr
  <2> QED BY <1>0, <2>1
<1>6. \A k \in 1..m : /\ entry[k].labelSeg.l = 1 /\ entry[k].labelSeg.off = lc + k - 1
                      /\ entry[k].childIdx = tree[order[k]].idx
  OBVIOUS
<1> HIDE DEF entry, labels
<1>7a. PICK f : Rearranges(es, entry, m, f)
  BY <1>0, <1>5, AscendingIs
<1>7. /\ f \in [1..m -> 1..m]
      /\ \A k \in 1..m : es[k] = entry[f[k]]
      /\ \A i, j \in 1..m : f[i] = f[j] => i = j
      /\ \A i \in 1..m : \E j \in 1..m : f[j] = i
  BY <1>7a DEF Rearranges
<1>8. /\ es \in [1..m -> {entry[k] : k \in 1..m}]
      /\ \A i, j \in 1..m : i < j => LabelOf(es[i], labels) <= LabelOf(es[j], labels)
  BY <1>0, <1>5, AscendingIs
<1>9. es \in Seq(Entry) /\ Len(es) = m
  <2>1. ASSUME NEW k \in 1..m PROVE es[k] \in Entry
    <3>1. f[k] \in 1..m /\ es[k] = entry[f[k]]
      BY <1>7
    <3> HIDE DEF m
    <3> QED BY <1>5, <3>1
  <2> QED BY <1>0, <1>8, <2>1
<1> HIDE DEF ic, lc, m
<1>10. /\ d.idxNodes \in Seq(Entry) /\ Len(d.idxNodes) = ic + m
       /\ \A k \in 1..ic : d.idxNodes[k] = c.idxNodes[k]
       /\ \A k \in 1..m : d.idxNodes[ic + k] = es[k]
  <2>1. /\ c.idxNodes \o es \in Seq(Entry) /\ Len(c.idxNodes \o es) = ic + m
        /\ \A k \in 1..ic : (c.idxNodes \o es)[k] = c.idxNodes[k]
        /\ \A k \in 1..m : (c.idxNodes \o es)[ic + k] = es[k]
    <3> DEFINE idx == c.idxNodes
    <3>1. ic = Len(idx) /\ m = Len(es) /\ idx \in Seq(Entry) /\ es \in Seq(Entry)
      BY <1>1, <1>9 DEF ic
    <3> HIDE DEF idx
    <3>2. /\ idx \o es \in Seq(Entry) /\ Len(idx \o es) = ic + m
          /\ \A k \in 1..ic : (idx \o es)[k] = idx[k]
          /\ \A k \in 1..m : (idx \o es)[ic + k] = es[k]
      BY <3>1, ConcatParts
    <3> QED BY <3>2 DEF idx
  <2> QED BY <1>3, <2>1, Zenon
<1>11. ASSUME NEW k \in 1..m
       PROVE  LET e == d.idxNodes[ic + k]
              IN  /\ e = es[k] /\ e.labelSeg.l = 1 /\ e.labelSeg.off < Len(d.labels)
                  /\ EntryLabel(d, ic + k) = Last(order[f[k]])
                  /\ e.childIdx = tree[order[f[k]]].idx
                  /\ LabelOf(es[k], labels) = EntryLabel(d, ic + k)
  <2>1. d.idxNodes[ic + k] = entry[f[k]] /\ es[k] = entry[f[k]] /\ f[k] \in 1..m
    BY <1>7, <1>10
  <2>2. lc + f[k] - 1 \in Nat /\ (lc + f[k] - 1) + 1 = lc + f[k] /\ lc + f[k] - 1 < lc + m /\ lc + f[k] \in 1..(lc + m)
    <3> DEFINE x == f[k]
    <3>1. x \in 1..m
      BY <2>1
    <3> HIDE DEF x
    <3>2. lc + x - 1 \in Nat /\ (lc + x - 1) + 1 = lc + x /\ lc + x - 1 < lc + m /\ lc + x \in 1..(lc + m)
      BY <1>0, <1>1, <3>1
    <3> QED BY <3>2 DEF x
  <2>3. entry[f[k]].labelSeg.l = 1 /\ entry[f[k]].labelSeg.off = lc + f[k] - 1
        /\ entry[f[k]].childIdx = tree[order[f[k]]].idx
    BY <1>6, <2>1
  <2>4. EntryLabel(d, ic + k) = labels[lc + f[k]]
    BY <1>3, <2>1, <2>2, <2>3 DEF EntryLabel
  <2>5. labels[lc + f[k]] = Last(order[f[k]])
    BY <1>4, <2>1
  <2>6. LabelOf(es[k], labels) = labels[lc + f[k]]
    <3> DEFINE x == lc + f[k] - 1
    <3>1. LabelOf(es[k], labels) = SubSeq(labels, x + 1, x + 1)[1]
      BY <2>1, <2>3 DEF LabelOf, Seg
    <3>2. x \in Nat /\ x + 1 = lc + f[k] /\ x + 1 \in 1..Len(labels)
      BY <1>4, <2>2
    <3> HIDE DEF x
    <3>3. SubSeq(labels, x + 1, x + 1)[1] = labels[x + 1]
      BY <1>4, <3>2
    <3> QED BY <3>1, <3>2, <3>3
  <2> QED BY <1>3, <1>4, <2>1, <2>2, <2>3, <2>4, <2>5, <2>6
<1>12. ASSUME NEW i \in 1..m, NEW j \in 1..m, i < j
       PROVE  EntryLabel(d, ic + i) <= EntryLabel(d, ic + j)
  BY <1>8, <1>11, <1>12
<1>13. Extends(c, d, p, order, f)
  <2>1. /\ d.labels \in Seq(Nat) /\ Len(d.labels) = lc + m
        /\ \A k \in 1..lc : d.labels[k] = c.labels[k]
    BY <1>3, <1>4
  <2>2. d = [nodes |-> d.nodes, idxNodes |-> d.idxNodes, labels |-> d.labels]
    BY <1>2
  <2> QED BY <1>3, <1>7, <1>10, <1>11, <1>12, <2>1, <2>2 DEF Extends, ic, lc, m
<1> QED BY <1>13

(* Indexing a node keeps the sections well formed, gives the node its       *)
(* segment and leaves the segments of the others alone.                     *)
LEMMA IndexKeeps ==
    ASSUME TreeShape(tree), NEW c, CompiledOK(c), NEW p \in DOMAIN tree,
           NEW order \in SetToSeqs(Children(p)), NEW d, NEW f, Extends(c, d, p, order, f)
    PROVE  /\ CompiledOK(d) /\ Indexed(d, p)
           /\ \A r \in DOMAIN tree : r # p /\ Indexed(c, r) => Indexed(d, r)
<1> DEFINE m == Len(order)
           ic == Len(c.idxNodes)
           n == Len(c.nodes)
           at == tree[p].idx + 1
<1>1. /\ c \in Sections
      /\ n = Cardinality(DOMAIN tree)
      /\ \A r \in DOMAIN tree : c.nodes[tree[r].idx + 1].stat = tree[r].stat
      /\ \A k \in 1..ic : /\ c.idxNodes[k].labelSeg.l = 1
                          /\ c.idxNodes[k].labelSeg.off < Len(c.labels)
                          /\ c.idxNodes[k].childIdx < n
      /\ \A i \in 1..n : SegmentOK(c, c.nodes[i].childIdxSeg)
  BY DEF CompiledOK
<1>2. /\ c.nodes \in Seq(Node) /\ c.idxNodes \in Seq(Entry) /\ c.labels \in Seq(Nat)
      /\ n \in Nat /\ ic \in Nat /\ Len(c.labels) \in Nat
  BY <1>1 DEF Sections
<1>a. \A i \in 1..n : c.nodes[i] \in Node /\ c.nodes[i].childIdxSeg \in SegAddr
  <2>1. \A i \in 1..n : c.nodes[i] \in Node
    BY <1>2
  <2>2. \A x \in Node : x.childIdxSeg \in SegAddr
    BY DEF Node
  <2> QED BY <2>1, <2>2
<1>b. \A x \in Entry : x.labelSeg.off \in Nat
  BY DEF Entry, SegAddr
<1>3. /\ m \in Nat
      /\ \A k \in 1..m : /\ order[k] \in Children(p) /\ order[k] \in DOMAIN tree
                         /\ Last(order[k]) \in Nat /\ order[k] = Append(p, Last(order[k]))
      /\ \A i, j \in 1..m : order[i] = order[j] => i = j
      /\ \A x \in Children(p) : \E i \in 1..m : order[i] = x
  <2>1. /\ m \in Nat /\ order \in Seq(Children(p))
        /\ \A i, j \in 1..m : order[i] = order[j] => i = j
        /\ \A x \in Children(p) : \E i \in 1..m : order[i] = x
    BY ChildrenAre, OrderIs
  <2>2. \A ch \in Children(p) : ch \in DOMAIN tree /\ Last(ch) \in Nat /\ ch = Append(p, Last(ch))
    BY ChildrenAre
  <2>3. \A k \in 1..m : order[k] \in Children(p)
    BY <2>1
  <2> QED BY <2>1, <2>2, <2>3
<1>4. /\ d = [nodes |-> d.nodes, idxNodes |-> d.idxNodes, labels |-> d.labels]
      /\ d.nodes = [c.nodes EXCEPT ![at].childIdxSeg = [off |-> ic, l |-> m]]
      /\ d.idxNodes \in Seq(Entry) /\ d.labels \in Seq(Nat)
      /\ Len(d.idxNodes) = ic + m
      /\ Len(d.labels) = Len(c.labels) + m
      /\ \A k \in 1..ic : d.idxNodes[k] = c.idxNodes[k]
      /\ \A k \in 1..Len(c.labels) : d.labels[k] = c.labels[k]
      /\ f \in [1..m -> 1..m]
      /\ \A i, j \in 1..m : f[i] = f[j] => i = j
      /\ \A i \in 1..m : \E j \in 1..m : f[j] = i
      /\ \A k \in 1..m :
           /\ d.idxNodes[ic + k].labelSeg.l = 1 /\ d.idxNodes[ic + k].labelSeg.off < Len(d.labels)
           /\ EntryLabel(d, ic + k) = Last(order[f[k]])
           /\ d.idxNodes[ic + k].childIdx = tree[order[f[k]]].idx
      /\ \A i, j \in 1..m : i < j => EntryLabel(d, ic + i) <= EntryLabel(d, ic + j)
  BY Zenon DEF Extends
<1>5. /\ \A r \in DOMAIN tree : tree[r].idx \in 0..(n - 1)
      /\ \A r, q \in DOMAIN tree : tree[r].idx = tree[q].idx => r = q
  BY <1>1, Numbered DEF TreeShape
<1> HIDE DEF m, ic, n, at
<1>6. at \in 1..n /\ \A r \in DOMAIN tree : tree[r].idx + 1 \in 1..n /\ (r # p => tree[r].idx + 1 # at)
  BY <1>2, <1>5 DEF at
<1>7. /\ d.nodes \in Seq(Node) /\ Len(d.nodes) = n
      /\ \A i \in 1..n : d.nodes[i].stat = c.nodes[i].stat
      /\ \A i \in 1..n : i # at => d.nodes[i] = c.nodes[i]
      /\ d.nodes[at].childIdxSeg = [off |-> ic, l |-> m]
  <2> DEFINE x == c.nodes
             seg == [off |-> ic, l |-> m]
             y == [x[at] EXCEPT !.childIdxSeg = seg]
  <2>1. x \in Seq(Node) /\ Len(x) = n /\ d.nodes = [x EXCEPT ![at] = y] /\ seg \in SegAddr
    BY <1>2, <1>3, <1>4 DEF SegAddr, n
  <2>2. x[at] \in Node
    BY <1>6, <2>1
  <2>3. y \in Node /\ y.stat = x[at].stat /\ y.childIdxSeg = seg
    <3> HIDE DEF x, seg
    <3> QED BY <2>1, <2>2 DEF Node
  <2> HIDE DEF x, y, seg
  <2>4. /\ d.nodes \in Seq(Node) /\ Len(d.nodes) = n
        /\ \A i \in 1..n : i # at => d.nodes[i] = x[i]
        /\ d.nodes[at] = y
    BY <1>6, <2>1, <2>3
  <2> QED BY <2>3, <2>4 DEF x, seg
<1>8. d \in Sections
  BY <1>4, <1>7 DEF Sections
<1>9. \A k \in 1..ic : EntryLabel(d, k) = EntryLabel(c, k)
  <2>1. ASSUME NEW k \in 1..ic PROVE EntryLabel(d, k) = EntryLabel(c, k)
    <3>1. d.idxNodes[k] = c.idxNodes[k] /\ c.idxNodes[k] \in Entry
      BY <1>2, <1>4 DEF ic
    <3>2. c.idxNodes[k].labelSeg.off + 1 \in 1..Len(c.labels)
      <4>1. c.idxNodes[k].labelSeg.off \in Nat
        BY <3>1 DEF Entry, SegAddr
      <4>2. c.idxNodes[k].labelSeg.off < Len(c.labels)
        BY <1>1
      <4> QED BY <1>2, <4>1, <4>2
    <3> QED BY <1>4, <3>1, <3>2 DEF EntryLabel
  <2> QED BY <2>1
<1>10. ASSUME NEW k \in 1..Len(d.idxNodes)
       PROVE  /\ d.idxNodes[k].labelSeg.l = 1
              /\ d.idxNodes[k].labelSeg.off < Len(d.labels)
              /\ d.idxNodes[k].childIdx < n
  <2>1. CASE k \in 1..ic
    <3>1. /\ d.idxNodes[k].labelSeg.l = 1
          /\ d.idxNodes[k].labelSeg.off < Len(c.labels)
          /\ d.idxNodes[k].childIdx < n
      BY <1>1, <1>4, <2>1
    <3>2. d.idxNodes[k].labelSeg.off \in Nat
      <4>1. d.idxNodes[k] \in Entry
        BY <1>4
      <4> QED BY <1>b, <4>1
    <3>3. d.idxNodes[k].labelSeg.l = 1
      BY <1>1, <1>4, <2>1
    <3> DEFINE x == d.idxNodes[k].labelSeg.off
    <3>4. x < Len(d.labels)
      <4>1. x \in Nat /\ x < Len(c.labels) /\ Len(d.labels) = Len(c.labels) + m
        BY <1>4, <3>1, <3>2
      <4> HIDE DEF x
      <4> QED BY <1>2, <1>3, <4>1
    <3> QED BY <3>1, <3>3, <3>4
  <2>2. CASE k \notin 1..ic
    <3>1. PICK i \in 1..m : k = ic + i
      <4>1. k \in 1..(ic + m)
        BY <1>4
      <4>2. k - ic \in 1..m /\ k = ic + (k - ic)
        BY <1>2, <1>3, <2>2, <4>1
      <4> QED BY <4>2
    <3>2. d.idxNodes[k].childIdx = tree[order[f[i]]].idx /\ order[f[i]] \in DOMAIN tree
      BY <1>3, <1>4, <3>1
    <3>3. d.idxNodes[k].childIdx < n
      BY <1>2, <1>5, <3>2
    <3> QED BY <1>4, <3>1, <3>3
  <2> QED BY <2>1, <2>2
<1>11. ASSUME NEW sa \in SegAddr, SegmentOK(c, sa) PROVE SegmentOK(d, sa)
  <2>1. sa.off + sa.l <= ic /\ sa.off \in Nat /\ sa.l \in Nat
    BY <1>11 DEF SegmentOK, SegAddr, ic
  <2>2. sa.off + sa.l <= Len(d.idxNodes)
    BY <1>2, <1>3, <1>4, <2>1
  <2>3. \A i \in 1..sa.l : sa.off + i \in 1..ic
    BY <1>2, <2>1
  <2>4. \A i, j \in 1..sa.l : i < j => EntryLabel(d, sa.off + i) < EntryLabel(d, sa.off + j)
    BY <1>9, <1>11, <2>3 DEF SegmentOK
  <2> QED BY <2>2, <2>4 DEF SegmentOK
<1>12. SegmentOK(d, [off |-> ic, l |-> m])
  <2>1. ASSUME NEW i \in 1..m, NEW j \in 1..m, i < j PROVE EntryLabel(d, ic + i) < EntryLabel(d, ic + j)
    <3> DEFINE a == EntryLabel(d, ic + i)
               b == EntryLabel(d, ic + j)
    <3>1. f[i] \in 1..m /\ f[j] \in 1..m /\ f[i] # f[j]
      BY <1>4, <2>1
    <3>2. order[f[i]] # order[f[j]]
      BY <1>3, <3>1
    <3>3. Last(order[f[i]]) # Last(order[f[j]])
      <4> DEFINE x == f[i]
                 y == f[j]
      <4>1. /\ order[x] # order[y]
            /\ order[x] = Append(p, Last(order[x])) /\ order[y] = Append(p, Last(order[y]))
        BY <1>3, <3>1, <3>2
      <4> QED BY <4>1, Zenon
    <3>4. a = Last(order[f[i]]) /\ b = Last(order[f[j]]) /\ a <= b
      BY <1>4, <2>1
    <3>5. a \in Nat /\ b \in Nat /\ a # b /\ a <= b
      BY <1>3, <3>1, <3>3, <3>4
    <3> HIDE DEF a, b
    <3>6. a < b
      BY <3>5
    <3> QED BY <3>6 DEF a, b
  <2> QED BY <1>2, <1>3, <1>4, <2>1 DEF SegmentOK
<1>13. ASSUME NEW i \in 1..n PROVE SegmentOK(d, d.nodes[i].childIdxSeg)
  <2>1. CASE i = at
    BY <1>7, <1>12, <2>1
  <2>2. CASE i # at
    <3>1. d.nodes[i] = c.nodes[i] /\ c.nodes[i].childIdxSeg \in SegAddr
      BY <1>a, <1>7, <2>2
    <3> QED BY <1>1, <1>11, <3>1
  <2> QED BY <2>1, <2>2
<1>14. CompiledOK(d)
  <2>1. \A r \in DOMAIN tree : d.nodes[tree[r].idx + 1].stat = tree[r].stat
    BY <1>1, <1>6, <1>7
  <2> QED BY <1>1, <1>7, <1>8, <1>10, <1>13, <2>1 DEF CompiledOK
<1>15. Indexed(d, p)
  <2>1. \A k \in 1..m : Points(d, ic + k, order[f[k]]) /\ order[f[k]] \in Children(p)
    BY <1>3, <1>4 DEF Points
  <2>2. ASSUME NEW ch \in Children(p) PROVE \E k \in 1..m : Points(d, ic + k, ch)
    <3>1. PICK i \in 1..m : order[i] = ch
      BY <1>3
    <3>2. PICK k \in 1..m : f[k] = i
      BY <1>4
    <3> QED BY <2>1, <3>1, <3>2
  <2>3. d.nodes[tree[p].idx + 1].childIdxSeg = [off |-> ic, l |-> m]
    BY <1>7 DEF at
  <2> QED BY <2>1, <2>2, <2>3 DEF Indexed
<1>16. ASSUME NEW r \in DOMAIN tree, r # p, Indexed(c, r) PROVE Indexed(d, r)
  <2> DEFINE sa == c.nodes[tree[r].idx + 1].childIdxSeg
  <2>1. tree[r].idx + 1 \in 1..n /\ d.nodes[tree[r].idx + 1] = c.nodes[tree[r].idx + 1]
    BY <1>6, <1>7, <1>16
  <2>2. sa \in SegAddr /\ SegmentOK(c, sa)
    BY <1>1, <1>a, <2>1
  <2>3. d.nodes[tree[r].idx + 1].childIdxSeg = sa
    BY <2>1
  <2>4. /\ \A j \in 1..sa.l : \E ch \in Children(r) : Points(c, sa.off + j, ch)
        /\ \A ch \in Children(r) : \E j \in 1..sa.l : Points(c, sa.off + j, ch)
    BY <1>16 DEF Indexed
  <2> HIDE DEF sa
  <2>5. \A j \in 1..sa.l : sa.off + j \in 1..ic
    <3>1. sa.off + sa.l <= ic /\ sa.off \in Nat /\ sa.l \in Nat
      BY <2>2 DEF SegmentOK, SegAddr, ic
    <3> QED BY <1>2, <3>1
  <2>6. \A j \in 1..sa.l : \A ch : Points(d, sa.off + j, ch) <=> Points(c, sa.off + j, ch)
    BY <1>4, <1>9, <2>5 DEF Points
  <2> QED BY <2>3, <2>4, <2>6 DEF Indexed
<1> QED BY <1>14, <1>15, <1>16

(* A part of a sequence. *)
LEMMA PartIs ==
    ASSUME NEW S, NEW t \in Seq(S), NEW a \in Nat, NEW n \in Nat, a + n <= Len(t)
    PROVE  /\ Len(SubSeq(t, a + 1, a + n)) = n
           /\ \A j \in 1..n : a + j \in 1..Len(t) /\ SubSeq(t, a + 1, a + n)[j] = t[a + j]
<1> DEFINE u == SubSeq(t, a + 1, a + n)
<1>1. a + 1 \in Int /\ a + n \in Int /\ (a + n) - (a + 1) + 1 = n
  OBVIOUS
<1>2. \A i \in (a + 1)..(a + n) : t[i] \in S
  OBVIOUS
<1>3. /\ Len(u) = IF a + 1 <= a + n THEN (a + n) - (a + 1) + 1 ELSE 0
      /\ \A i \in 1..((a + n) - (a + 1) + 1) : u[i] = t[(a + 1) + i - 1]
  BY <1>1, <1>2, SubSeqProperties
<1> HIDE DEF u
<1>4. Len(u) = n
  BY <1>3
<1>5. ASSUME NEW j \in 1..n PROVE a + j \in 1..Len(t) /\ u[j] = t[a + j]
  <2>1. (a + 1) + j - 1 = a + j /\ j \in 1..((a + n) - (a + 1) + 1)
    BY <1>1
  <2>2. u[j] = t[a + j]
    BY <1>3, <2>1, Zenon
  <2> QED BY <2>2
<1> QED BY <1>4, <1>5 DEF u

(* The segment of a node, as binarySearchIdx is given it. *)
LEMMA SegmentIs ==
    ASSUME NEW c, CompiledOK(c), NEW n \in 1..Len(c.nodes)
    PROVE  LET sa == c.nodes[n].childIdxSeg
               s == Seg(c.idxNodes, sa)
           IN  /\ sa \in SegAddr /\ sa.off + sa.l <= Len(c.idxNodes)
               /\ Len(s) = sa.l /\ SortedSegment(s, c.labels)
               /\ \A j \in 1..sa.l : /\ sa.off + j \in 1..Len(c.idxNodes)
                                     /\ s[j] = c.idxNodes[sa.off + j] /\ s[j] \in Entry
                                     /\ LabelOf(s[j], c.labels) = EntryLabel(c, sa.off + j)
<1> DEFINE sa == c.nodes[n].childIdxSeg
           idx == c.idxNodes
           lab == c.labels
           s == Seg(idx, sa)
           off == sa.off
           l == sa.l
<1>1. /\ c.nodes \in Seq(Node) /\ idx \in Seq(Entry) /\ lab \in Seq(Nat)
      /\ \A k \in 1..Len(idx) : idx[k].labelSeg.l = 1 /\ idx[k].labelSeg.off < Len(lab)
      /\ SegmentOK(c, sa)
  BY DEF CompiledOK, Sections
<1>2. sa \in SegAddr
  <2>1. c.nodes[n] \in Node
    BY <1>1
  <2> QED BY <2>1 DEF Node
<1>3. off \in Nat /\ l \in Nat /\ off + l <= Len(idx) /\ Len(idx) \in Nat
  BY <1>1, <1>2 DEF SegmentOK, SegAddr
<1>4. \A i, j \in 1..l : i < j => EntryLabel(c, off + i) < EntryLabel(c, off + j)
  BY <1>1 DEF SegmentOK
<1>5. s = SubSeq(idx, off + 1, off + l)
  BY Zenon DEF Seg
<1> HIDE DEF sa, off, l, idx, s, lab
<1>6. Len(s) = l /\ \A j \in 1..l : off + j \in 1..Len(idx) /\ s[j] = idx[off + j]
  <2>1. idx \in Seq(Entry)
    BY <1>1
  <2> QED BY <1>3, <1>5, <2>1, PartIs, Zenon
<1>7. ASSUME NEW k \in 1..Len(idx)
      PROVE  idx[k] \in Entry /\ EntryLabel(c, k) \in Nat /\ LabelOf(idx[k], lab) = EntryLabel(c, k)
  <2> DEFINE x == idx[k].labelSeg.off
             seg == idx[k].labelSeg
  <2>1. idx[k] \in Entry /\ seg.l = 1 /\ x < Len(lab)
    BY <1>1
  <2>2. x \in Nat
    BY <2>1 DEF Entry, SegAddr
  <2>3. LabelOf(idx[k], lab) = SubSeq(lab, x + 1, x + 1)[1]
    BY <2>1 DEF LabelOf, Seg
  <2>4. EntryLabel(c, k) = lab[x + 1]
    BY DEF EntryLabel, idx, lab
  <2> HIDE DEF x
  <2>5. x + 1 \in 1..Len(lab) /\ lab[x + 1] \in Nat
    BY <1>1, <2>1, <2>2
  <2>6. SubSeq(lab, x + 1, x + 1)[1] = lab[x + 1]
    BY <1>1, <2>2, <2>5
  <2> QED BY <2>1, <2>3, <2>4, <2>5, <2>6
<1>8. SortedSegment(s, lab)
  <2>1. Len(s) \in Nat
    BY <1>3, <1>6
  <2>2. \A k \in 1..Len(s) : LabelOf(s[k], lab) = EntryLabel(c, off + k) /\ LabelOf(s[k], lab) \in Nat
    BY <1>6, <1>7
  <2>3. \A i, j \in 1..Len(s) : i < j => LabelOf(s[i], lab) < LabelOf(s[j], lab)
    BY <1>4, <1>6, <2>2
  <2> QED BY <2>1, <2>2, <2>3 DEF SortedSegment
<1> QED BY <1>2, <1>3, <1>6, <1>7, <1>8 DEF sa, off, l, idx, s, lab

(* Sections that were built pass every check of deserializeBody. *)
LEMMA CompiledIsValid ==
    ASSUME NEW c, CompiledOK(c)
    PROVE  ValidPointers(c)
<1> SUFFICES ASSUME NEW n \in 1..Len(c.nodes)
             PROVE  LET sa == c.nodes[n].childIdxSeg
                        s == Seg(c.idxNodes, sa)
                    IN  /\ ValidSegAddr(sa, Len(c.idxNodes))
                        /\ \A j \in 1..Len(s) :
                             /\ s[j].childIdx \in 0..(Len(c.nodes) - 1)
                             /\ ValidSegAddr(s[j].labelSeg, Len(c.labels))
                             /\ j > 1 => LabelOf(s[j - 1], c.labels) < LabelOf(s[j], c.labels)
  BY Zenon DEF ValidPointers
<1> DEFINE sa == c.nodes[n].childIdxSeg
           s == Seg(c.idxNodes, sa)
<1>1. /\ sa \in SegAddr /\ sa.off + sa.l <= Len(c.idxNodes)
      /\ Len(s) = sa.l /\ SortedSegment(s, c.labels)
      /\ \A j \in 1..sa.l : /\ sa.off + j \in 1..Len(c.idxNodes)
                            /\ s[j] = c.idxNodes[sa.off + j] /\ s[j] \in Entry
  BY SegmentIs, Zenon
<1>2. /\ Len(c.idxNodes) \in Nat /\ Len(c.labels) \in Nat /\ Len(c.nodes) \in Nat
      /\ \A k \in 1..Len(c.idxNodes) : /\ c.idxNodes[k].labelSeg.l = 1
                                       /\ c.idxNodes[k].labelSeg.off < Len(c.labels)
                                       /\ c.idxNodes[k].childIdx < Len(c.nodes)
  BY DEF CompiledOK, Sections
<1> HIDE DEF s, sa
<1>3. ValidSegAddr(sa, Len(c.idxNodes))
  BY <1>1, <1>2 DEF SegAddr, ValidSegAddr
<1>4. ASSUME NEW j \in 1..Len(s)
      PROVE  /\ s[j].childIdx \in 0..(Len(c.nodes) - 1)
             /\ ValidSegAddr(s[j].labelSeg, Len(c.labels))
             /\ j > 1 => LabelOf(s[j - 1], c.labels) < LabelOf(s[j], c.labels)
  <2>1. s[j] \in Entry /\ s[j].labelSeg.l = 1 /\ s[j].labelSeg.off < Len(c.labels) /\ s[j].childIdx < Len(c.nodes)
    <3>1. s[j] = c.idxNodes[sa.off + j] /\ s[j] \in Entry /\ sa.off + j \in 1..Len(c.idxNodes)
      BY <1>1
    <3> QED BY <1>2, <3>1
  <2>2. s[j].childIdx \in Nat /\ s[j].labelSeg \in SegAddr
    BY <2>1 DEF Entry
  <2>3. s[j].childIdx \in 0..(Len(c.nodes) - 1)
    BY <1>2, <2>1, <2>2
  <2>4. ValidSegAddr(s[j].labelSeg, Len(c.labels))
    <3> DEFINE seg == s[j].labelSeg
    <3>1. seg.off \in Nat /\ seg.l = 1 /\ seg.off < Len(c.labels)
      BY <2>1, <2>2 DEF SegAddr
    <3> HIDE DEF seg
    <3>2. ValidSegAddr(seg, Len(c.labels))
      BY <1>2, <3>1 DEF ValidSegAddr
    <3> QED BY <3>2 DEF seg
  <2>5. j > 1 => LabelOf(s[j - 1], c.labels) < LabelOf(s[j], c.labels)
    <3>1. Len(s) \in Nat /\ \A a, b \in 1..Len(s) : a < b => LabelOf(s[a], c.labels) < LabelOf(s[b], c.labels)
      BY <1>1 DEF SortedSegment
    <3>2. j > 1 => j - 1 \in 1..Len(s) /\ j - 1 < j
      BY <3>1
    <3> QED BY <3>1, <3>2
  <2> QED BY <2>3, <2>4, <2>5
<1> QED BY <1>3, <1>4 DEF s, sa

(* A visit leaves the children of the node to visit in its place. *)
LEMMA VisitKeeps ==
    ASSUME TreeShape(tree), NEW fs \in Seq(SUBSET DOMAIN tree), NEW p \in DOMAIN tree
    PROVE  /\ Visiting(fs, p) \in Seq(SUBSET DOMAIN tree)
           /\ \A q \in DOMAIN tree : Pending(fs, q) => Pending(Visiting(fs, p), q)
           /\ \A q \in DOMAIN tree : \A k \in 0..Len(q) :
                SubSeq(q, 1, k) = p /\ q # p => Pending(Visiting(fs, p), q)
<1> DEFINE C == Children(p)
           v == Visiting(fs, p)
<1>1. C \in SUBSET DOMAIN tree
  BY ChildrenAre
<1>2. v = IF C = {} THEN fs ELSE Append(fs, C)
  BY Zenon DEF Visiting
<1>a. Len(fs) \in Nat
  OBVIOUS
<1> HIDE DEF C, v
<1>3. v \in Seq(SUBSET DOMAIN tree) /\ Len(v) \in Nat /\ Len(v) >= Len(fs) /\ \A i \in 1..Len(fs) : v[i] = fs[i]
  <2>1. CASE C = {}
    BY <1>2, <2>1
  <2>2. CASE C # {}
    <3>1. v = Append(fs, C)
      BY <1>2, <2>2
    <3> QED BY <1>1, <3>1
  <2> QED BY <2>1, <2>2
<1>4. ASSUME NEW q \in DOMAIN tree, Pending(fs, q) PROVE Pending(v, q)
  <2>1. PICK i \in 1..Len(fs) : \E r \in fs[i] : \E k \in 0..Len(q) : SubSeq(q, 1, k) = r
    BY <1>4 DEF Pending
  <2>2. i \in 1..Len(v) /\ v[i] = fs[i]
    BY <1>a, <1>3
  <2> QED BY <2>1, <2>2 DEF Pending
<1>5. ASSUME NEW q \in DOMAIN tree, NEW k \in 0..Len(q), SubSeq(q, 1, k) = p, q # p PROVE Pending(v, q)
  <2> DEFINE ch == SubSeq(q, 1, k + 1)
  <2>1. q \in Seq(Nat) /\ Len(q) \in Nat
    BY DEF TreeShape
  <2>2. SubSeq(q, 1, Len(q)) = q
    BY <2>1, PrefixIs, Len(q) \in 0..Len(q)
  <2>3. k < Len(q) /\ k + 1 \in 0..Len(q)
    BY <1>5, <2>1, <2>2
  <2>4. ch \in DOMAIN tree
    BY <2>3 DEF TreeShape
  <2>5. Len(p) = k /\ Len(ch) = k + 1 /\ SubSeq(ch, 1, k) = p
    <3>1. Len(SubSeq(q, 1, k)) = k
      BY <2>1, PrefixIs
    <3>2. k \in 0..(k + 1)
      BY <2>1
    <3>3. Len(ch) = k + 1 /\ SubSeq(ch, 1, k) = SubSeq(q, 1, k)
      BY <2>1, <2>3, <3>2, PrefixIs, Zenon
    <3> QED BY <1>5, <3>1, <3>3
  <2> HIDE DEF ch
  <2>6. ch \in C
    BY <2>4, <2>5 DEF C, Children
  <2>7. v = Append(fs, C)
    BY <1>2, <2>6
  <2>8. Len(fs) + 1 \in 1..Len(v) /\ v[Len(fs) + 1] = C
    BY <1>1, <1>a, <2>7
  <2> QED BY <2>3, <2>6, <2>8 DEF Pending, ch
<1> QED BY <1>3, <1>4, <1>5 DEF v

(* What the recursion has to visit once a child is taken. *)
Outer(fs, p) ==
    LET left == Last(fs) \ {p}
    IN  IF left = {} THEN Front(fs) ELSE Append(Front(fs), left)

(* Taking a child forgets no other. *)
LEMMA OuterKeeps ==
    ASSUME NEW fs \in Seq(SUBSET DOMAIN tree), fs # <<>>, NEW p \in Last(fs)
    PROVE  /\ p \in DOMAIN tree
           /\ Outer(fs, p) \in Seq(SUBSET DOMAIN tree)
           /\ \A q \in DOMAIN tree : Pending(fs, q) =>
                \/ Pending(Outer(fs, p), q)
                \/ \E k \in 0..Len(q) : SubSeq(q, 1, k) = p
<1> DEFINE n == Len(fs)
           left == Last(fs) \ {p}
           o == Outer(fs, p)
<1>1. n \in Nat /\ n >= 1 /\ Last(fs) = fs[n] /\ Front(fs) = SubSeq(fs, 1, n - 1)
  BY DEF Last, Front
<1>2. p \in DOMAIN tree /\ left \in SUBSET DOMAIN tree
  BY <1>1
<1>3. Front(fs) \in Seq(SUBSET DOMAIN tree) /\ Len(Front(fs)) = n - 1 /\ \A i \in 1..(n - 1) : Front(fs)[i] = fs[i]
  <2> DEFINE T == SUBSET DOMAIN tree
  <2>1. fs \in Seq(T) /\ n = Len(fs)
    OBVIOUS
  <2> HIDE DEF T, n
  <2>2. /\ SubSeq(fs, 1, n - 1) \in Seq(T) /\ Len(SubSeq(fs, 1, n - 1)) = n - 1
        /\ \A i \in 1..(n - 1) : SubSeq(fs, 1, n - 1)[i] = fs[i]
    BY <1>1, <2>1
  <2> QED BY <1>1, <2>2 DEF T
<1>4. o = IF left = {} THEN Front(fs) ELSE Append(Front(fs), left)
  BY Zenon DEF Outer
<1> DEFINE fr == Front(fs)
<1> HIDE DEF o, left, n, fr
<1>5. o \in Seq(SUBSET DOMAIN tree) /\ Len(o) >= n - 1 /\ (\A i \in 1..(n - 1) : o[i] = fs[i])
      /\ (left # {} => Len(o) = n /\ o[n] = left)
  <2>1. fr \in Seq(SUBSET DOMAIN tree) /\ Len(fr) = n - 1 /\ (\A i \in 1..(n - 1) : fr[i] = fs[i])
        /\ o = IF left = {} THEN fr ELSE Append(fr, left)
    BY <1>3, <1>4 DEF fr
  <2>2. CASE left = {}
    BY <1>1, <2>1, <2>2
  <2>3. CASE left # {}
    <3>1. o = Append(fr, left)
      BY <2>1, <2>3
    <3>2. o \in Seq(SUBSET DOMAIN tree) /\ Len(o) = n /\ o[n] = left
      BY <1>1, <1>2, <2>1, <3>1
    <3>3. \A i \in 1..(n - 1) : o[i] = fr[i]
      BY <1>1, <1>2, <2>1, <3>1
    <3> QED BY <1>1, <2>1, <3>2, <3>3
  <2> QED BY <2>2, <2>3
<1>6. ASSUME NEW q \in DOMAIN tree, Pending(fs, q), ~\E k \in 0..Len(q) : SubSeq(q, 1, k) = p
      PROVE  Pending(o, q)
  <2>1. PICK i \in 1..Len(fs) : \E r \in fs[i] : \E k \in 0..Len(q) : SubSeq(q, 1, k) = r
    BY <1>6 DEF Pending
  <2>2. PICK r \in fs[i], k \in 0..Len(q) : SubSeq(q, 1, k) = r
    BY <2>1
  <2>3. r # p
    BY <1>6, <2>2
  <2>4. \E j \in 1..Len(o) : r \in o[j]
    <3>1. CASE i = n
      <4>1. r \in left
        BY <1>1, <2>2, <2>3, <3>1 DEF left
      <4> QED BY <1>1, <1>5, <4>1
    <3>2. CASE i # n
      <4>1. i \in 1..(n - 1) /\ i \in 1..Len(o)
        BY <1>1, <1>5, <3>2 DEF n
      <4> QED BY <1>5, <2>2, <4>1
    <3> QED BY <3>1, <3>2
  <2> QED BY <2>2, <2>4 DEF Pending
<1> QED BY <1>2, <1>5, <1>6 DEF o

(* A step that leaves the rules and their tree alone keeps what they are. *)
LEMMA SameRules ==
    ASSUME TreeShape(tree), RulesKept, UNCHANGED <<rules, tree, re>>
    PROVE  TreeShape(tree') /\ RulesKept'
<1>1. rules' = rules /\ tree' = tree /\ re' = re
  OBVIOUS
<1>2. \A k : Governs(k)' = Governs(k)
  BY <1>1 DEF Governs
<1>3. RulesKept'
  BY <1>1, <1>2 DEF RulesKept
<1> QED BY <1>1, <1>3

(* The root is indexed first. *)
LEMMA DomainIInvCompile ==
    ASSUME DomainIInv, NEW order \in SetToSeqs(Children(<<>>)), Compile(order)
    PROVE  DomainIInv'
<1>1. TreeShape(tree) /\ RulesKept /\ <<>> \in DOMAIN tree /\ DOMAIN tree \subseteq Seq(Nat)
  BY DEF DomainIInv, TreeShape
<1>2. /\ stage = "adding"
      /\ ct' \in IndexNode(Unindexed, <<>>, order)
      /\ frames' = Visiting(<<>>, <<>>)
      /\ stage' = IF frames' = <<>> THEN "compiled" ELSE "compiling"
      /\ UNCHANGED <<rules, tree, re>>
  BY Zenon DEF Compile, Unindexed
<1>3. CompiledOK(Unindexed)
  BY <1>1, UnindexedIs
<1>4. CompiledOK(ct') /\ Indexed(ct', <<>>)
  <2>1. Unindexed \in Sections
    BY <1>3 DEF CompiledOK
  <2>2. \E f : Extends(Unindexed, ct', <<>>, order, f)
    BY <1>1, <1>2, <2>1, IndexNodeIs
  <2> QED BY <1>1, <1>3, <2>2, IndexKeeps
<1>5. frames' \in Seq(SUBSET DOMAIN tree)
      /\ \A q \in DOMAIN tree : q # <<>> => Pending(frames', q)
  <2>1. <<>> \in Seq(SUBSET DOMAIN tree)
    OBVIOUS
  <2>2. /\ Visiting(<<>>, <<>>) \in Seq(SUBSET DOMAIN tree)
        /\ \A q \in DOMAIN tree : \A k \in 0..Len(q) :
             SubSeq(q, 1, k) = <<>> /\ q # <<>> => Pending(Visiting(<<>>, <<>>), q)
    BY <1>1, <2>1, VisitKeeps, Zenon
  <2>3. \A q \in DOMAIN tree : 0 \in 0..Len(q) /\ SubSeq(q, 1, 0) = <<>>
    BY <1>1
  <2> QED BY <1>2, <2>2, <2>3
<1>6. stage' \in {"compiling", "compiled"} /\ (stage' = "compiled" => frames' = <<>>)
      /\ (stage' = "compiling" => frames' # <<>>)
  BY <1>2
<1>7. TreeShape(tree') /\ RulesKept'
  BY <1>1, <1>2, SameRules
<1>8. (CompiledOK(ct) /\ \A p \in DOMAIN tree : Indexed(ct, p) \/ Pending(frames, p))'
  <2>1. CompiledOK(ct)'
    BY <1>2, <1>4 DEF CompiledOK
  <2>2. \A q \in DOMAIN tree : Indexed(ct', q) \/ Pending(frames', q)
    BY <1>4, <1>5
  <2>3. \A q \in DOMAIN tree' : Indexed(ct, q)' \/ Pending(frames', q)
    BY <1>2, <2>2 DEF Indexed, Points, Children
  <2> QED BY <2>1, <2>3 DEF Pending
<1> QED BY <1>2, <1>5, <1>6, <1>7, <1>8 DEF DomainIInv

(* Every visit of the recursion indexes one more node. *)
LEMMA DomainIInvBuildIdx ==
    ASSUME DomainIInv, NEW p \in Last(frames), NEW order \in SetToSeqs(Children(p)), BuildIdx(p, order)
    PROVE  DomainIInv'
<1>1. /\ stage = "compiling"
      /\ ct' \in IndexNode(ct, p, order)
      /\ frames' = Visiting(Outer(frames, p), p)
      /\ stage' = IF frames' = <<>> THEN "compiled" ELSE "compiling"
      /\ UNCHANGED <<rules, tree, re>>
  BY Zenon DEF BuildIdx, Outer
<1>2. /\ TreeShape(tree) /\ RulesKept /\ frames \in Seq(SUBSET DOMAIN tree)
      /\ CompiledOK(ct)
      /\ \A q \in DOMAIN tree : Indexed(ct, q) \/ Pending(frames, q)
  BY <1>1 DEF DomainIInv
<1>3. frames # <<>>
  BY <1>1 DEF DomainIInv
<1>4. /\ p \in DOMAIN tree
      /\ Outer(frames, p) \in Seq(SUBSET DOMAIN tree)
      /\ \A q \in DOMAIN tree : Pending(frames, q) =>
           Pending(Outer(frames, p), q) \/ \E k \in 0..Len(q) : SubSeq(q, 1, k) = p
  BY <1>2, <1>3, OuterKeeps, Zenon
<1>5. /\ frames' \in Seq(SUBSET DOMAIN tree)
      /\ \A q \in DOMAIN tree : Pending(frames, q) => Pending(frames', q) \/ q = p
  <2> DEFINE o == Outer(frames, p)
             v == Visiting(o, p)
  <2>1. /\ v \in Seq(SUBSET DOMAIN tree)
        /\ \A q \in DOMAIN tree : Pending(o, q) => Pending(v, q)
        /\ \A q \in DOMAIN tree : \A k \in 0..Len(q) : SubSeq(q, 1, k) = p /\ q # p => Pending(v, q)
    BY <1>2, <1>4, VisitKeeps, Zenon
  <2>2. frames' = v
    BY <1>1
  <2> HIDE DEF v
  <2> QED BY <1>4, <2>1, <2>2, Zenon
<1>6. /\ CompiledOK(ct') /\ Indexed(ct', p)
      /\ \A q \in DOMAIN tree : q # p /\ Indexed(ct, q) => Indexed(ct', q)
  <2>1. ct \in Sections
    BY <1>2 DEF CompiledOK
  <2>2. \E f : Extends(ct, ct', p, order, f)
    BY <1>1, <1>2, <1>4, <2>1, IndexNodeIs
  <2> QED BY <1>2, <1>4, <2>2, IndexKeeps
<1>7. stage' \in {"compiling", "compiled"} /\ (stage' = "compiled" => frames' = <<>>)
      /\ (stage' = "compiling" => frames' # <<>>)
  BY <1>1
<1>8. TreeShape(tree') /\ RulesKept'
  BY <1>1, <1>2, SameRules
<1>9. (CompiledOK(ct) /\ \A q \in DOMAIN tree : Indexed(ct, q) \/ Pending(frames, q))'
  <2>1. CompiledOK(ct)'
    BY <1>1, <1>6 DEF CompiledOK
  <2>2. \A q \in DOMAIN tree : Indexed(ct', q) \/ Pending(frames', q)
    BY <1>2, <1>5, <1>6, Zenon
  <2>3. \A q \in DOMAIN tree' : Indexed(ct, q)' \/ Pending(frames', q)
    BY <1>1, <2>2 DEF Indexed, Points, Children
  <2> QED BY <2>1, <2>3 DEF Pending
<1> QED BY <1>1, <1>5, <1>7, <1>8, <1>9 DEF DomainIInv

(* Reading a file back keeps it: no section that was built is refused. *)
LEMMA DomainIInvReload ==
    ASSUME DomainIInv, Reload
    PROVE  DomainIInv'
<1>1. stage = "compiled" /\ CompiledOK(ct) /\ stage' = (IF ValidPointers(ct) THEN "reloaded" ELSE "refused")
      /\ UNCHANGED <<rules, tree, re, ct, frames>>
  BY DEF DomainIInv, Reload
<1>2. stage' = "reloaded"
  BY <1>1, CompiledIsValid
<1>3. TreeShape(tree') /\ RulesKept' /\ CompiledOK(ct)' /\ frames' \in Seq(SUBSET DOMAIN tree')
  <2>1. TreeShape(tree') /\ RulesKept'
    <3>1. TreeShape(tree) /\ RulesKept
      BY DEF DomainIInv
    <3> QED BY <1>1, <3>1, SameRules
  <2>2. CompiledOK(ct)'
    BY <1>1 DEF CompiledOK
  <2>3. frames' \in Seq(SUBSET DOMAIN tree')
    BY <1>1 DEF DomainIInv
  <2> QED BY <2>1, <2>2, <2>3
<1>4. \A q \in DOMAIN tree' : Indexed(ct, q)' \/ Pending(frames, q)'
  <2>1. \A q \in DOMAIN tree : Indexed(ct, q) \/ Pending(frames, q)
    BY <1>1 DEF DomainIInv
  <2>2. \A q : Indexed(ct, q)' = Indexed(ct, q) /\ Pending(frames, q)' = Pending(frames, q)
    BY <1>1 DEF Indexed, Points, Children, Pending
  <2> QED BY <1>1, <2>1, <2>2
<1> QED BY <1>1, <1>2, <1>3, <1>4 DEF DomainIInv

(* Every step of the domain matcher keeps the invariant. *)
LEMMA DomainIInvKept == DomainIInv /\ (DomainStep \/ UNCHANGED domainVars) => DomainIInv'
<1> SUFFICES ASSUME DomainIInv, DomainStep \/ UNCHANGED domainVars PROVE DomainIInv'
  OBVIOUS
<1>1. CASE UNCHANGED domainVars
  <2>1. UNCHANGED <<rules, tree, re, ct, frames, stage>>
    BY <1>1 DEF domainVars
  <2>2. TreeShape(tree') /\ RulesKept'
    <3>1. TreeShape(tree) /\ RulesKept
      BY DEF DomainIInv
    <3> QED BY <2>1, <3>1, SameRules
  <2>3. \A q : Indexed(ct, q)' = Indexed(ct, q) /\ Pending(frames, q)' = Pending(frames, q)
    BY <2>1 DEF Indexed, Points, Children, Pending
  <2>4. CompiledOK(ct)' = CompiledOK(ct)
    BY <2>1 DEF CompiledOK
  <2> QED BY <2>1, <2>2, <2>3, <2>4 DEF DomainIInv
<1>2. ASSUME NEW line \in Line, AddLine(line) PROVE DomainIInv'
  BY <1>2, DomainIInvAddLine
<1>3. CASE AddFails
  BY <1>3, DomainIInvAddFails
<1>4. ASSUME NEW order \in SetToSeqs(Children(<<>>)), Compile(order) PROVE DomainIInv'
  BY <1>4, DomainIInvCompile
<1>5. ASSUME NEW p \in Last(frames), NEW order \in SetToSeqs(Children(p)), BuildIdx(p, order) PROVE DomainIInv'
  BY <1>5, DomainIInvBuildIdx
<1>6. CASE Reload
  BY <1>6, DomainIInvReload
<1> QED BY <1>1, <1>2, <1>3, <1>4, <1>5, <1>6 DEF DomainStep

(* A name and the next label of a longer one. *)
LEMMA NextPrefix ==
    ASSUME NEW q \in Seq(Nat), NEW i \in 1..Len(q)
    PROVE  SubSeq(q, 1, i) = Append(SubSeq(q, 1, i - 1), q[i]) /\ q[i] \in Nat
<1> DEFINE a == SubSeq(q, 1, i)
           p == SubSeq(q, 1, i - 1)
           b == Append(p, q[i])
<1>0. i - 1 \in 0..Len(q) /\ i \in 0..Len(q) /\ q[i] \in Nat
  OBVIOUS
<1>1. a \in Seq(Nat) /\ Len(a) = i /\ \A j \in 1..i : a[j] = q[j]
  BY <1>0, PrefixIs, Zenon
<1>2. p \in Seq(Nat) /\ Len(p) = i - 1 /\ \A j \in 1..(i - 1) : p[j] = q[j]
  BY <1>0, PrefixIs, Zenon
<1> HIDE DEF a, p
<1>3. b \in Seq(Nat) /\ Len(b) = i /\ \A j \in 1..i : b[j] = q[j]
  BY <1>0, <1>2
<1> HIDE DEF b
<1>4. a = b
  BY <1>1, <1>3, SameName
<1> QED BY <1>0, <1>4 DEF a, b, p

(* The search of a node's segment finds the child with the label, if there  *)
(* is one.                                                                  *)
LEMMA ChildFound ==
    ASSUME TreeShape(tree), NEW c, CompiledOK(c), NEW p \in DOMAIN tree, Indexed(c, p), NEW x \in Nat
    PROVE  LET s == Seg(c.idxNodes, c.nodes[tree[p].idx + 1].childIdxSeg)
               k == BinarySearchIdx(s, c.labels, x)
           IN  /\ k = 0 <=> Append(p, x) \notin DOMAIN tree
               /\ k # 0 => s[k].childIdx = tree[Append(p, x)].idx
<1> DEFINE n == tree[p].idx + 1
           sa == c.nodes[n].childIdxSeg
           s == Seg(c.idxNodes, sa)
           k == BinarySearchIdx(s, c.labels, x)
           ch == Append(p, x)
<1>1. n \in 1..Len(c.nodes)
  <2>1. Cardinality(DOMAIN tree) \in Nat /\ tree[p].idx \in 0..(Cardinality(DOMAIN tree) - 1)
    BY Numbered
  <2> QED BY <2>1 DEF CompiledOK
<1>2. /\ sa \in SegAddr
      /\ Len(s) = sa.l /\ SortedSegment(s, c.labels)
      /\ \A j \in 1..sa.l : /\ s[j] = c.idxNodes[sa.off + j]
                            /\ LabelOf(s[j], c.labels) = EntryLabel(c, sa.off + j)
  <2> HIDE DEF n
  <2> QED BY <1>1, SegmentIs, Zenon
<1>3. /\ \A j \in 1..sa.l : \E y \in Children(p) : Points(c, sa.off + j, y)
      /\ \A y \in Children(p) : \E j \in 1..sa.l : Points(c, sa.off + j, y)
  BY Zenon DEF Indexed
<1> HIDE DEF s, sa
<1>4. /\ k \in 0..Len(s)
      /\ k # 0 => LabelOf(s[k], c.labels) = x
      /\ k = 0 => \A j \in 1..Len(s) : LabelOf(s[j], c.labels) # x
  BY <1>2, BinarySearchIs, Zenon
<1> HIDE DEF k
<1>5. ASSUME k # 0 PROVE ch \in DOMAIN tree /\ s[k].childIdx = tree[ch].idx
  <2>1. k \in 1..sa.l
    BY <1>2, <1>4, <1>5
  <2>2. PICK y \in Children(p) : Points(c, sa.off + k, y)
    BY <1>3, <2>1
  <2>3. s[k].childIdx = tree[y].idx /\ Last(y) = x
    BY <1>2, <1>4, <1>5, <2>1, <2>2 DEF Points
  <2>4. y \in DOMAIN tree /\ y = Append(p, Last(y))
    BY ChildrenAre
  <2> QED BY <2>3, <2>4
<1>6. ASSUME k = 0, ch \in DOMAIN tree PROVE FALSE
  <2>1. p \in Seq(Nat) /\ ch \in Seq(Nat) /\ Len(ch) = Len(p) + 1 /\ ch[Len(p) + 1] = x
    BY DEF TreeShape
  <2>2. SubSeq(ch, 1, Len(p)) = p
    <3> DEFINE a == SubSeq(ch, 1, Len(p))
    <3>1. Len(p) \in 0..Len(ch)
      BY <2>1
    <3>2. a \in Seq(Nat) /\ Len(a) = Len(p) /\ \A j \in 1..Len(p) : a[j] = ch[j]
      BY <2>1, <3>1, PrefixIs, Zenon
    <3>3. \A j \in 1..Len(p) : ch[j] = p[j]
      BY <2>1
    <3> HIDE DEF a
    <3>4. a = p
      BY <2>1, <3>2, <3>3, SameName
    <3> QED BY <3>4 DEF a
  <2>3. ch \in Children(p)
    BY <1>6, <2>1, <2>2 DEF Children
  <2>4. Last(ch) = x
    BY <2>1, <2>2, ChildIs
  <2>5. PICK j \in 1..sa.l : Points(c, sa.off + j, ch)
    BY <1>3, <2>3
  <2>6. LabelOf(s[j], c.labels) = x /\ j \in 1..Len(s)
    BY <1>2, <2>4, <2>5 DEF Points
  <2> QED BY <1>4, <1>6, <2>6
<1> QED BY <1>5, <1>6 DEF k, s, sa, n

(* The states of the search. *)
NodesOf(c) == {c.nodes[n] : n \in 1..Len(c.nodes)}
Walks(c) == [node : NodesOf(c), lost : BOOLEAN, lvl : Int, full : Int]

(* One level down is one again. *)
LEMMA DescendIs ==
    ASSUME NEW c, CompiledOK(c), NEW w \in Walks(c), NEW x \in Nat, NEW i \in Nat
    PROVE  Descend(c, w, x, i) \in Walks(c)
<1>2. PICK n \in 1..Len(c.nodes) : w.node = c.nodes[n]
  BY DEF Walks, NodesOf
<1> DEFINE sa == c.nodes[n].childIdxSeg
           s == Seg(c.idxNodes, sa)
           k == BinarySearchIdx(s, c.labels, x)
<1>1. Descend(c, w, x, i) = IF w.lost \/ k = 0 THEN Lose(w) ELSE Reach(c.nodes[s[k].childIdx + 1], i, w.lvl)
  BY <1>2, Zenon DEF Descend
<1>3. /\ Len(s) = sa.l /\ SortedSegment(s, c.labels)
      /\ \A j \in 1..sa.l : /\ sa.off + j \in 1..Len(c.idxNodes)
                            /\ s[j] = c.idxNodes[sa.off + j] /\ s[j] \in Entry
  BY SegmentIs, Zenon
<1> HIDE DEF s, sa
<1>4. k \in 0..Len(s)
  BY <1>3, BinarySearchIs
<1>5. Lose(w) \in Walks(c)
  <2> DEFINE N == NodesOf(c)
             no == -2
  <2>1. /\ w.node \in N /\ w.lvl \in Int
        /\ w = [node |-> w.node, lost |-> w.lost, lvl |-> w.lvl, full |-> w.full]
    BY DEF Walks
  <2>2. no \in Int
    OBVIOUS
  <2>3. Lose(w) = [w EXCEPT !.lost = TRUE, !.full = no]
    BY Zenon DEF Lose
  <2> HIDE DEF N, no
  <2>4. Lose(w) = [node |-> w.node, lost |-> TRUE, lvl |-> w.lvl, full |-> no]
    BY <2>1, <2>3
  <2>5. Lose(w) \in [node : N, lost : BOOLEAN, lvl : Int, full : Int]
    BY <2>1, <2>2, <2>4
  <2> QED BY <2>5 DEF Walks, N
<1> HIDE DEF k
<1>6. ASSUME k # 0 PROVE Reach(c.nodes[s[k].childIdx + 1], i, w.lvl) \in Walks(c)
  <2> DEFINE m == s[k].childIdx
             node == c.nodes[m + 1]
  <2>1. k \in 1..sa.l
    BY <1>3, <1>4, <1>6
  <2>2. m \in Nat /\ m < Len(c.nodes) /\ Len(c.nodes) \in Nat
    <3>1. sa.off + k \in 1..Len(c.idxNodes) /\ s[k] = c.idxNodes[sa.off + k] /\ s[k] \in Entry
      BY <1>3, <2>1
    <3>2. \A j \in 1..Len(c.idxNodes) : c.idxNodes[j].childIdx < Len(c.nodes)
      BY DEF CompiledOK
    <3>3. Len(c.nodes) \in Nat
      BY DEF CompiledOK, Sections
    <3> QED BY <3>1, <3>2, <3>3 DEF Entry
  <2> HIDE DEF m
  <2>3. node \in NodesOf(c)
    BY <2>2 DEF NodesOf
  <2> HIDE DEF node
  <2>4. w.lvl \in Int
    BY DEF Walks
  <2>5. Reach(node, i, w.lvl) \in Walks(c)
    BY <2>3, <2>4 DEF Reach, Walks
  <2> QED BY <2>5 DEF node, m
<1> QED BY <1>1, <1>5, <1>6

(* Where the search stands after the first i labels of a name. *)
Stands(c, q, i, w) ==
    LET p == SubSeq(q, 1, i)
    IN  /\ w \in Walks(c)
        /\ w.lost <=> p \notin DOMAIN tree
        /\ p \in DOMAIN tree => w.node = c.nodes[tree[p].idx + 1]
        /\ w.full = IF p \in DOMAIN tree /\ tree[p].stat = "full" THEN i - 1 ELSE -2
        /\ w.lvl >= -2
        /\ w.lvl # -2 <=> \E k \in 0..i : /\ SubSeq(q, 1, k) \in DOMAIN tree
                                         /\ tree[SubSeq(q, 1, k)].stat = "domain"

(* It starts at the root. *)
LEMMA StandsFirst ==
    ASSUME TreeShape(tree), NEW c, CompiledOK(c), NEW q \in Seq(Nat)
    PROVE  Stands(c, q, 0, Reach(c.nodes[1], 0, -2))
<1> DEFINE w == Reach(c.nodes[1], 0, -2)
           root == c.nodes[1]
<1>1. SubSeq(q, 1, 0) = <<>> /\ <<>> \in DOMAIN tree /\ tree[<<>>].idx = 0
  BY DEF TreeShape
<1>2. Cardinality(DOMAIN tree) \in Nat /\ 0 < Cardinality(DOMAIN tree)
  BY <1>1, Numbered
<1>3. /\ Len(c.nodes) = Cardinality(DOMAIN tree)
      /\ root.stat = tree[<<>>].stat
  BY <1>1 DEF CompiledOK
<1>4. root \in NodesOf(c)
  BY <1>2, <1>3 DEF NodesOf
<1> HIDE DEF root
<1>5. w = [node |-> root, lost |-> FALSE,
           lvl |-> IF root.stat = "domain" THEN -1 ELSE -2,
           full |-> IF root.stat = "full" THEN -1 ELSE -2]
  BY DEF Reach, root
<1>6. w \in Walks(c) /\ w.lost = FALSE /\ w.node = root
      /\ w.full = (IF root.stat = "full" THEN 0 - 1 ELSE -2)
      /\ w.lvl \in Int /\ w.lvl >= -2 /\ (w.lvl # -2 <=> root.stat = "domain")
  <2> DEFINE N == NodesOf(c)
             a == IF root.stat = "domain" THEN -1 ELSE -2
             b == IF root.stat = "full" THEN -1 ELSE -2
  <2>1. a \in Int /\ b \in Int /\ a >= -2 /\ (a # -2 <=> root.stat = "domain")
        /\ b = (IF root.stat = "full" THEN 0 - 1 ELSE -2)
    OBVIOUS
  <2>2. w = [node |-> root, lost |-> FALSE, lvl |-> a, full |-> b]
    BY <1>5, Zenon
  <2>3. root \in N
    BY <1>4
  <2> HIDE DEF a, b, N, w
  <2>4. w \in [node : N, lost : BOOLEAN, lvl : Int, full : Int]
    BY <2>1, <2>2, <2>3
  <2>5. w \in Walks(c)
    BY <2>4 DEF Walks, N
  <2>6. w.lost = FALSE /\ w.node = root /\ w.lvl = a /\ w.full = b
    BY <2>2
  <2> QED BY <2>1, <2>5, <2>6
<1>7. \A k \in 0..0 : k = 0
  OBVIOUS
<1>8. tree[<<>>].idx + 1 = 1
  BY <1>1
<1> HIDE DEF w
<1>9. (\E k \in 0..0 : SubSeq(q, 1, k) \in DOMAIN tree /\ tree[SubSeq(q, 1, k)].stat = "domain")
      <=> tree[<<>>].stat = "domain"
  <2> DEFINE Open(k) == SubSeq(q, 1, k) \in DOMAIN tree /\ tree[SubSeq(q, 1, k)].stat = "domain"
  <2>1. Open(0) <=> tree[<<>>].stat = "domain"
    BY <1>1
  <2> HIDE DEF Open
  <2>2. (\E k \in 0..0 : Open(k)) <=> Open(0)
    BY <1>7, 0 \in 0..0
  <2> QED BY <2>1, <2>2, Zenon DEF Open
<1>10. Stands(c, q, 0, w)
  BY <1>1, <1>3, <1>6, <1>8, <1>9 DEF Stands, root
<1> QED BY <1>10 DEF w

(* And follows the name down the tree. *)
LEMMA StandsNext ==
    ASSUME TreeShape(tree), NEW c, CompiledOK(c), \A r \in DOMAIN tree : Indexed(c, r),
           NEW q \in Seq(Nat), NEW i \in 1..Len(q), NEW w, Stands(c, q, i - 1, w)
    PROVE  Stands(c, q, i, Descend(c, w, q[i], i))
<1> DEFINE p == SubSeq(q, 1, i - 1)
           ch == SubSeq(q, 1, i)
           v == Descend(c, w, q[i], i)
           Open(k) == SubSeq(q, 1, k) \in DOMAIN tree /\ tree[SubSeq(q, 1, k)].stat = "domain"
<1>0. /\ w \in Walks(c)
      /\ w.lost <=> p \notin DOMAIN tree
      /\ p \in DOMAIN tree => w.node = c.nodes[tree[p].idx + 1]
      /\ w.lvl >= -2
      /\ w.lvl # -2 <=> \E k \in 0..(i - 1) : Open(k)
  BY Zenon DEF Stands
<1>1. ch = Append(p, q[i]) /\ q[i] \in Nat
  BY NextPrefix
<1>2. v \in Walks(c)
  <2>1. i \in Nat
    OBVIOUS
  <2> QED BY <1>0, <1>1, <2>1, DescendIs, Zenon
<1>3. ch \in DOMAIN tree => p \in DOMAIN tree
  <2> SUFFICES ASSUME ch \in DOMAIN tree PROVE p \in DOMAIN tree
    OBVIOUS
  <2>1. i \in 0..Len(q) /\ i - 1 \in 0..i
    OBVIOUS
  <2>2. Len(ch) = i /\ SubSeq(ch, 1, i - 1) = p
    BY <2>1, PrefixIs, Zenon
  <2> HIDE DEF ch, p
  <2>3. SubSeq(ch, 1, i - 1) \in DOMAIN tree
    BY <2>1, <2>2 DEF TreeShape
  <2> QED BY <2>2, <2>3
<1>4. (\E k \in 0..i : Open(k)) <=> (\E k \in 0..(i - 1) : Open(k)) \/ Open(i)
  <2>1. 0..i = (0..(i - 1)) \cup {i}
    OBVIOUS
  <2> HIDE DEF Open
  <2> QED BY <2>1
<1>5. Open(i) <=> ch \in DOMAIN tree /\ tree[ch].stat = "domain"
  OBVIOUS
<1> HIDE DEF Open
<1>6. CASE ch \notin DOMAIN tree
  <2>1. v = Lose(w)
    <3>1. CASE p \notin DOMAIN tree
      BY <1>0, <3>1 DEF Descend
    <3>2. CASE p \in DOMAIN tree
      <4> DEFINE s == Seg(c.idxNodes, c.nodes[tree[p].idx + 1].childIdxSeg)
                 k == BinarySearchIdx(s, c.labels, q[i])
      <4> HIDE DEF ch, p
      <4>1. k = 0
        BY <1>1, <1>6, <3>2, ChildFound, Zenon
      <4>2. w.node = c.nodes[tree[p].idx + 1]
        BY <1>0, <3>2
      <4> QED BY <4>1, <4>2, Zenon DEF Descend
    <3> QED BY <3>1, <3>2
  <2>2. v.lost = TRUE /\ v.full = -2 /\ v.lvl = w.lvl
    BY <1>0, <2>1 DEF Lose, Walks
  <2> HIDE DEF v, ch
  <2>3. v.lvl >= -2 /\ (v.lvl # -2 <=> \E k \in 0..i : Open(k))
    BY <1>0, <1>4, <1>5, <1>6, <2>2
  <2>4. Stands(c, q, i, v)
    <3>1. v.lost <=> ch \notin DOMAIN tree
      BY <1>6, <2>2
    <3>2. v.full = IF ch \in DOMAIN tree /\ tree[ch].stat = "full" THEN i - 1 ELSE -2
      BY <1>6, <2>2
    <3> QED BY <1>2, <1>6, <2>3, <3>1, <3>2 DEF Stands, Open, ch
  <2> QED BY <2>4 DEF v
<1>7. CASE ch \in DOMAIN tree
  <2> DEFINE s == Seg(c.idxNodes, c.nodes[tree[p].idx + 1].childIdxSeg)
             k == BinarySearchIdx(s, c.labels, q[i])
             node == c.nodes[tree[ch].idx + 1]
  <2>1. p \in DOMAIN tree /\ ~w.lost /\ w.node = c.nodes[tree[p].idx + 1]
    BY <1>0, <1>3, <1>7
  <2>2. k # 0 /\ s[k].childIdx = tree[ch].idx
    <3> HIDE DEF ch, p
    <3> QED BY <1>1, <1>7, <2>1, ChildFound, Zenon
  <2>3. v = Reach(node, i, w.lvl)
    <3>1. v = Reach(c.nodes[s[k].childIdx + 1], i, w.lvl)
      <4> HIDE DEF ch, p
      <4> QED BY <2>1, <2>2, Zenon DEF Descend
    <3> HIDE DEF s, k, v
    <3> QED BY <2>2, <3>1
  <2>4. node.stat = tree[ch].stat
    <3> HIDE DEF ch
    <3> QED BY <1>7 DEF CompiledOK
  <2> HIDE DEF v, node, ch
  <2>5. /\ v.node = node /\ v.lost = FALSE
        /\ v.lvl = IF tree[ch].stat = "domain" THEN i - 1 ELSE w.lvl
        /\ v.full = IF tree[ch].stat = "full" THEN i - 1 ELSE -2
    BY <2>3, <2>4 DEF Reach
  <2>6. w.lvl \in Int
    BY <1>0 DEF Walks
  <2>7. v.lvl >= -2 /\ (v.lvl # -2 <=> \E a \in 0..i : Open(a))
    BY <1>0, <1>4, <1>5, <1>7, <2>5, <2>6
  <2>8. Stands(c, q, i, v)
    BY <1>2, <1>7, <2>5, <2>7 DEF Stands, Open, ch, node
  <2> QED BY <2>8 DEF v
<1> QED BY <1>6, <1>7

(* The search of the tree matches a name when its node has a rule of its    *)
(* own, or one of its ancestors or it has a rule for all names below.       *)
LEMMA MatchIs ==
    ASSUME TreeShape(tree), NEW c, CompiledOK(c), \A r \in DOMAIN tree : Indexed(c, r), NEW q \in Seq(Nat)
    PROVE  Match(c, q) > -2 <=>
             \/ q \in DOMAIN tree /\ tree[q].stat = "full"
             \/ \E k \in 0..Len(q) : /\ SubSeq(q, 1, k) \in DOMAIN tree
                                     /\ tree[SubSeq(q, 1, k)].stat = "domain"
<1> DEFINE n == Len(q)
           first == Reach(c.nodes[1], 0, -2)
           F(f) == [i \in 0..n |-> IF i = 0 THEN Reach(c.nodes[1], 0, -2) ELSE Descend(c, f[i - 1], q[i], i)]
           Walk == CHOOSE f : f = F(f)
           step == [x \in (1..n) \X Walks(c) |-> Descend(c, x[2], q[x[1]], x[1])]
           m == Match(c, q)
<1>a. n \in Nat
  OBVIOUS
<1>1. m = LET end == Walk[n] IN IF end.full # -2 THEN end.full ELSE end.lvl
  BY Zenon DEF Match
<1>2. ASSUME NEW w \in Walks(c), NEW i \in 1..n PROVE Descend(c, w, q[i], i) \in Walks(c)
  <2>1. q[i] \in Nat /\ i \in Nat
    OBVIOUS
  <2> QED BY <2>1, DescendIs
<1>3. first \in Walks(c)
  BY StandsFirst DEF Stands
<1> HIDE DEF n, m
<1>4. \E g \in [0..n -> Walks(c)] : g = F(g)
  <2>1. step \in [(1..n) \X Walks(c) -> Walks(c)]
    BY <1>2
  <2> HIDE DEF step, first
  <2>2. PICK g \in [0..n -> Walks(c)] : Runs(g, first, n, step)
    BY <1>a, <1>3, <2>1, Recursion
  <2>3. ASSUME NEW i \in 0..n PROVE g[i] = IF i = 0 THEN first ELSE Descend(c, g[i - 1], q[i], i)
    <3>1. CASE i # 0
      <4>1. i \in 1..n /\ i - 1 \in 0..n
        BY <1>a, <3>1
      <4>2. <<i, g[i - 1]>> \in (1..n) \X Walks(c)
        BY <4>1
      <4>3. g[i] = step[<<i, g[i - 1]>>]
        BY <2>2, <4>1 DEF Runs
      <4> QED BY <3>1, <4>2, <4>3 DEF step
    <3>2. CASE i = 0
      BY <2>2, <3>2 DEF Runs
    <3> QED BY <3>1, <3>2
  <2>4. \A i \in 0..n : g[i] = F(g)[i]
    BY <2>3 DEF first
  <2>5. g = F(g)
    BY <2>4
  <2> QED BY <2>5
<1>5. Walk = F(Walk)
  <2> HIDE DEF F
  <2> QED BY <1>4
<1> HIDE DEF Walk
<1>6. Walk[0] = first
  <2>0. 0 \in 0..n
    BY <1>a
  <2>1. Walk[0] = F(Walk)[0]
    BY <1>5, Zenon
  <2> QED BY <2>0, <2>1
<1>7. ASSUME NEW i \in 1..n PROVE Walk[i] = Descend(c, Walk[i - 1], q[i], i)
  <2>1. Walk[i] = F(Walk)[i] /\ i \in 0..n /\ i # 0
    <3>1. i \in 0..n /\ i # 0
      BY <1>a
    <3> QED BY <1>5, <3>1, Zenon
  <2> QED BY <2>1
<1> HIDE DEF F, first
<1> DEFINE T == {i \in 0..n : Stands(c, q, i, Walk[i])}
<1>8. 0 \in T
  <2>1. Stands(c, q, 0, first)
    BY StandsFirst DEF first
  <2> QED BY <1>a, <1>6, <2>1
<1>9. ASSUME NEW i \in 1..n, i - 1 \in T PROVE i \in T
  <2>1. Stands(c, q, i - 1, Walk[i - 1])
    BY <1>9
  <2>2. Stands(c, q, i, Descend(c, Walk[i - 1], q[i], i))
    <3>1. i \in 1..Len(q)
      BY DEF n
    <3> QED BY <2>1, <3>1, StandsNext, Zenon
  <2>3. Stands(c, q, i, Walk[i])
    BY <1>7, <2>2
  <2> QED BY <1>a, <2>3
<1>10. n \in T
  <2> HIDE DEF T
  <2>1. \A i \in 1..n : i - 1 \in T => i \in T
    BY <1>9
  <2>2. \A i \in 0..n : i \in T
    BY <1>a, <1>8, <2>1, UpTo
  <2> QED BY <1>a, <2>2
<1> DEFINE end == Walk[n]
           Hits == \E k \in 0..n : SubSeq(q, 1, k) \in DOMAIN tree /\ tree[SubSeq(q, 1, k)].stat = "domain"
           Full == q \in DOMAIN tree /\ tree[q].stat = "full"
<1>11. Stands(c, q, n, end)
  BY <1>10
<1>12. SubSeq(q, 1, n) = q
  BY PrefixIs, Len(q) \in 0..Len(q) DEF n
<1>13. /\ end.full = IF Full THEN n - 1 ELSE -2
       /\ end.lvl >= -2 /\ end.lvl \in Int
       /\ end.lvl # -2 <=> Hits
  <2> HIDE DEF end
  <2> QED BY <1>11, <1>12 DEF Stands, Walks
<1>14. m > -2 <=> Full \/ Hits
  <2>1. m = IF end.full # -2 THEN end.full ELSE end.lvl
    BY <1>1
  <2> HIDE DEF end, Full, Hits
  <2> QED BY <1>a, <1>13, <2>1
<1> QED BY <1>14 DEF m, n

(* A name that begins with another one. *)
LEMMA PrefixOf ==
    ASSUME NEW p \in Seq(Nat), NEW q \in Seq(Nat)
    PROVE  IsPrefix(p, q) <=> \E k \in 0..Len(q) : SubSeq(q, 1, k) = p
<1>1. IsPrefix(p, q) <=> Len(p) <= Len(q) /\ SubSeq(p, 1, Len(p)) = SubSeq(q, 1, Len(p))
  BY Zenon DEF IsPrefix
<1>2. SubSeq(p, 1, Len(p)) = p /\ Len(p) \in Nat /\ Len(q) \in Nat
  BY PrefixIs, Len(p) \in 0..Len(p)
<1>3. ASSUME NEW k \in 0..Len(q), SubSeq(q, 1, k) = p PROVE Len(p) = k
  BY <1>3, PrefixIs
<1>4. IsPrefix(p, q) => Len(p) \in 0..Len(q) /\ SubSeq(q, 1, Len(p)) = p
  BY <1>1, <1>2
<1>5. ASSUME NEW k \in 0..Len(q), SubSeq(q, 1, k) = p PROVE IsPrefix(p, q)
  <2>1. Len(p) = k
    BY <1>3, <1>5, Zenon
  <2>2. SubSeq(q, 1, Len(p)) = p /\ Len(p) <= Len(q)
    BY <1>2, <1>5, <2>1
  <2> QED BY <1>1, <1>2, <2>2, Zenon
<1> QED BY <1>4, <1>5

(* So the matcher answers what the governing rules say. *)
LEMMA MatcherGoverned ==
    ASSUME TreeShape(tree), RulesKept, CompiledOK(ct), \A r \in DOMAIN tree : Indexed(ct, r),
           NEW q \in Seq(Nat)
    PROVE  MatcherMatch(q) <=> Governed(q)
<1> DEFINE Rule(k) == Governs(k) /\ (IF rules[k].typ = "full" THEN rules[k].name = q ELSE IsPrefix(rules[k].name, q))
           K == 1..Len(rules)
           Full == q \in DOMAIN tree /\ tree[q].stat = "full"
           Open(k) == SubSeq(q, 1, k) \in DOMAIN tree /\ tree[SubSeq(q, 1, k)].stat = "domain"
           ByRe == \E k \in K : rules[k].typ = "regexp" /\ q \in rules[k].accepts
<1>1. /\ rules \in Seq(Line)
      /\ \A k \in K : rules[k].typ # "regexp" =>
           rules[k].name \in DOMAIN tree /\ tree[rules[k].name].stat # "none"
      /\ \A k \in K : Governs(k) => tree[rules[k].name].stat = rules[k].typ
      /\ \A p \in DOMAIN tree : tree[p].stat # "none" => \E k \in K : Governs(k) /\ rules[k].name = p
      /\ re = {rules[k].accepts : k \in {j \in K : rules[j].typ = "regexp"}}
  BY DEF RulesKept
<1>2. /\ Governed(q) <=> ByRe \/ \E k \in K : Rule(k)
      /\ MatcherMatch(q) <=> Match(ct, q) > -2 \/ \E r \in re : q \in r
  BY Zenon DEF Governed, MatcherMatch
<1>3. (\E r \in re : q \in r) <=> ByRe
  BY <1>1
<1>4. Match(ct, q) > -2 <=> Full \/ \E k \in 0..Len(q) : Open(k)
  BY MatchIs, Zenon
<1>5. \A k \in K : rules[k] \in Line /\ (Governs(k) => rules[k].typ # "regexp")
  BY <1>1 DEF Governs
<1>6. \A k \in K : Governs(k) => rules[k].typ \in {"domain", "full"} /\ rules[k].name \in DOMAIN tree /\ rules[k].name \in Seq(Nat)
  BY <1>1, <1>5, LineIs
<1>7. ASSUME NEW k \in K, Rule(k) PROVE Full \/ \E j \in 0..Len(q) : Open(j)
  <2>1. CASE rules[k].typ = "full"
    BY <1>1, <1>6, <1>7, <2>1
  <2>2. CASE rules[k].typ = "domain"
    <3>1. Governs(k) /\ IsPrefix(rules[k].name, q) /\ rules[k].name \in Seq(Nat)
      BY <1>6, <1>7, <2>2
    <3>2. PICK j \in 0..Len(q) : SubSeq(q, 1, j) = rules[k].name
      BY <3>1, PrefixOf
    <3>3. Open(j)
      BY <1>1, <1>6, <2>2, <3>1, <3>2
    <3> QED BY <3>3
  <2> QED BY <1>6, <1>7, <2>1, <2>2
<1>8. ASSUME Full PROVE \E k \in K : Rule(k)
  <2>1. PICK k \in K : Governs(k) /\ rules[k].name = q
    BY <1>1, <1>8
  <2>2. rules[k].typ = "full"
    BY <1>1, <1>8, <2>1
  <2> QED BY <2>1, <2>2
<1>9. ASSUME NEW j \in 0..Len(q), Open(j) PROVE \E k \in K : Rule(k)
  <2>1. PICK k \in K : Governs(k) /\ rules[k].name = SubSeq(q, 1, j)
    BY <1>1, <1>9
  <2>2. rules[k].typ = "domain" /\ rules[k].name \in Seq(Nat)
    BY <1>1, <1>6, <1>9, <2>1
  <2>3. IsPrefix(rules[k].name, q)
    BY <2>1, <2>2, PrefixOf
  <2> QED BY <2>1, <2>2, <2>3
<1> HIDE DEF Full, Open, Rule, ByRe
<1> QED BY <1>2, <1>3, <1>4, <1>7, <1>8, <1>9, Zenon

(* A governing rule is a line of the file; and a line that is not narrowed  *)
(* says no more than the rule that governs its name.                        *)
LEMMA GovernedListed ==
    ASSUME RulesKept, NEW q \in Seq(Nat)
    PROVE  (Governed(q) => Listed(q)) /\ (ListedForGood(q) => Governed(q))
<1> DEFINE K == 1..Len(rules)
<1>1. /\ rules \in Seq(Line)
      /\ \A k \in K : rules[k].typ # "regexp" =>
           rules[k].name \in DOMAIN tree /\ tree[rules[k].name].stat # "none"
      /\ \A p \in DOMAIN tree : tree[p].stat # "none" => \E k \in K : Governs(k) /\ rules[k].name = p
  BY DEF RulesKept
<1>2. \A k \in K : /\ rules[k] \in Line
                   /\ rules[k].typ # "regexp" => rules[k].typ \in {"domain", "full"} /\ rules[k].name \in Seq(Nat)
  BY <1>1, LineIs
<1>3. Governed(q) => Listed(q)
  BY <1>2 DEF Governed, Listed, Says, Governs
<1>4. ASSUME NEW k \in K, Says(rules[k], q), ~Narrowed(k) PROVE Governed(q)
  <2>1. CASE rules[k].typ = "regexp"
    BY <1>4, <2>1 DEF Says, Governed
  <2>2. CASE rules[k].typ # "regexp"
    <3>1. PICK j \in K : Governs(j) /\ rules[j].name = rules[k].name
      BY <1>1, <2>2
    <3>2. j \in (k + 1)..Len(rules) \/ j = k
      <4>1. ~(k \in (j + 1)..Len(rules))
        BY <2>2, <3>1 DEF Governs
      <4> QED BY <1>1, <3>1, <4>1
    <3>3. rules[j].typ \in {"domain", "full"}
      BY <1>2, <3>1 DEF Governs
    <3>4. CASE rules[k].typ = "full"
      <4>1. q = rules[j].name /\ q \in Seq(Nat)
        BY <1>4, <3>1, <3>4 DEF Says
      <4>2. IsPrefix(q, q)
        <5>1. SubSeq(q, 1, Len(q)) = q
          OBVIOUS
        <5> QED BY <5>1, PrefixOf
      <4> QED BY <3>1, <3>3, <4>1, <4>2 DEF Governed
    <3>5. CASE rules[k].typ = "domain"
      <4>1. IsPrefix(rules[j].name, q)
        BY <1>4, <3>1, <3>5 DEF Says
      <4>2. rules[j].typ = "domain"
        BY <1>4, <3>1, <3>2, <3>3, <3>5 DEF Narrowed
      <4> QED BY <3>1, <4>1, <4>2 DEF Governed
    <3> QED BY <1>2, <2>2, <3>4, <3>5
  <2> QED BY <2>1, <2>2
<1> QED BY <1>3, <1>4 DEF ListedForGood

(* The invariant says that a file answers what it lists. *)
LEMMA DomainIInvExact == DomainIInv => MatcherExact
<1> SUFFICES ASSUME DomainIInv PROVE MatcherExact
  OBVIOUS
<1>1. ASSUME stage \in {"compiled", "reloaded"}, NEW q \in QueryNames
      PROVE  (MatcherMatch(q) => Listed(q)) /\ (ListedForGood(q) => MatcherMatch(q))
  <2>1. TreeShape(tree) /\ RulesKept /\ CompiledOK(ct) /\ frames = <<>>
        /\ \A p \in DOMAIN tree : Indexed(ct, p) \/ Pending(frames, p)
    BY <1>1 DEF DomainIInv
  <2>2. \A p \in DOMAIN tree : Indexed(ct, p)
    BY <2>1 DEF Pending
  <2>3. q \in Seq(Nat)
    BY DomainAssumption
  <2>4. MatcherMatch(q) <=> Governed(q)
    BY <2>1, <2>2, <2>3, MatcherGoverned
  <2> QED BY <2>1, <2>3, <2>4, GovernedListed
<1>2. stage = "refused" => ct = NoTree
  BY DEF DomainIInv
<1> QED BY <1>1, <1>2 DEF MatcherExact

-----------------------------------------------------------------------------
(* Hosts: the maps of the files and what their merge answers.              *)

HostIPs == UNION {ToSet(l.ips) : l \in HostLines}
HostRecords == [v4 : Seq(HostIPs), v6 : Seq(HostIPs)]

Distinct(s) == \A i, j \in 1..Len(s) : s[i] = s[j] => i = j

(* The elements of a list. *)
LEMMA ToSetOf ==
    ASSUME NEW S, NEW s \in Seq(S)
    PROVE  ToSet(s) \subseteq S /\ \A x : x \in ToSet(s) <=> \E i \in 1..Len(s) : s[i] = x
BY DEF ToSet

(* A list without repetitions is as long as it has elements. *)
LEMMA DistinctCount ==
    ASSUME NEW S, NEW s \in Seq(S), Distinct(s)
    PROVE  Len(s) = Cardinality(ToSet(s))
<1>1. s \in Bijection(1..Len(s), ToSet(s))
  <2>1. s \in [1..Len(s) -> ToSet(s)]
    <3>1. DOMAIN s = 1..Len(s) /\ s = [i \in 1..Len(s) |-> s[i]]
      OBVIOUS
    <3>2. \A i \in 1..Len(s) : s[i] \in ToSet(s)
      BY ToSetOf
    <3> QED BY <3>1, <3>2
  <2>2. \A x \in ToSet(s) : \E i \in 1..Len(s) : s[i] = x
    BY ToSetOf
  <2>3. s \in Injection(1..Len(s), ToSet(s))
    BY <2>1, DOMAIN s = 1..Len(s), Zenon DEF Injection, IsInjective, Distinct
  <2>4. s \in Surjection(1..Len(s), ToSet(s))
    BY <2>1, <2>2, Zenon DEF Surjection
  <2> QED BY <2>3, <2>4, Zenon DEF Bijection
<1>2. ExistsBijection(1..Len(s), ToSet(s))
  BY <1>1, Zenon DEF ExistsBijection
<1>3. Len(s) \in Nat
  OBVIOUS
<1> QED BY <1>2, <1>3, FS_CountingElements, Zenon

(* appendUniqueAddr adds an address and never repeats one. *)
LEMMA AppendUniqueAdds ==
    ASSUME NEW S, NEW dst \in Seq(S), NEW ip \in S
    PROVE  /\ AppendUnique(dst, ip) \in Seq(S)
           /\ ToSet(AppendUnique(dst, ip)) = ToSet(dst) \cup {ip}
           /\ Distinct(dst) => Distinct(AppendUnique(dst, ip))
<1>1. CASE ip \in ToSet(dst)
  BY <1>1 DEF AppendUnique
<1>2. CASE ip \notin ToSet(dst)
  <2> DEFINE s == Append(dst, ip)
             n == Len(dst)
  <2>1. AppendUnique(dst, ip) = s
    BY <1>2 DEF AppendUnique
  <2>2. s \in Seq(S) /\ Len(s) = n + 1 /\ n \in Nat /\ s[n + 1] = ip /\ \A i \in 1..n : s[i] = dst[i]
    BY AppendProperties
  <2> HIDE DEF s, n
  <2>3. \A x : x \in ToSet(s) <=> \E i \in 1..Len(s) : s[i] = x
    BY <2>2, ToSetOf
  <2>4. \A x : x \in ToSet(dst) <=> \E i \in 1..n : dst[i] = x
    BY ToSetOf DEF n
  <2>5. ToSet(s) = ToSet(dst) \cup {ip}
    <3>1. \A i \in 1..Len(s) : i \in 1..n \/ i = n + 1
      BY <2>2
    <3>2. \A i \in 1..n : i \in 1..Len(s)
      BY <2>2
    <3>3. n + 1 \in 1..Len(s)
      BY <2>2
    <3> QED BY <2>2, <2>3, <2>4, <3>1, <3>2, <3>3
  <2>6. ASSUME Distinct(dst) PROVE Distinct(s)
    <3>1. ASSUME NEW i \in 1..Len(s), NEW j \in 1..Len(s), s[i] = s[j] PROVE i = j
      <4>1. CASE i \in 1..n /\ j \in 1..n
        BY <2>2, <2>6, <3>1, <4>1 DEF Distinct, n
      <4>2. CASE i = n + 1 /\ j = n + 1
        BY <4>2
      <4>3. ASSUME NEW k \in 1..n PROVE s[k] # ip
        BY <1>2, <2>2, <2>4
      <4> QED BY <2>2, <3>1, <4>1, <4>2, <4>3
    <3> QED BY <3>1 DEF Distinct
  <2> QED BY <2>1, <2>2, <2>5, <2>6
<1> QED BY <1>1, <1>2

(* The addresses of a line end in the lists of their families. *)
LEMMA AddAddressesAdds ==
    ASSUME NEW rec \in HostRecords, NEW ips \in Seq(HostIPs)
    PROVE  LET out == AddAddresses(rec, ips)
           IN  /\ out \in HostRecords
               /\ ToSet(out.v4) = ToSet(rec.v4) \cup {ip \in ToSet(ips) : ip.fam = 4}
               /\ ToSet(out.v6) = ToSet(rec.v6) \cup {ip \in ToSet(ips) : ip.fam # 4}
<1> DEFINE n == Len(ips)
           Turn(r, ip) == IF ip.fam = 4 THEN [r EXCEPT !.v4 = AppendUnique(r.v4, ip)]
                                        ELSE [r EXCEPT !.v6 = AppendUnique(r.v6, ip)]
           F(f) == [k \in 0..n |-> IF k = 0 THEN rec ELSE Turn(f[k - 1], ips[k])]
           Upto == CHOOSE f : f = F(f)
           step == [x \in (1..n) \X HostRecords |-> Turn(x[2], ips[x[1]])]
           Seen(k) == {ips[i] : i \in 1..k}
<1>0. n \in Nat /\ \A k \in 1..n : ips[k] \in HostIPs
  OBVIOUS
<1>1. AddAddresses(rec, ips) = Upto[n]
  BY Zenon DEF AddAddresses
<1>2. ASSUME NEW r \in HostRecords, NEW ip \in HostIPs
      PROVE  /\ Turn(r, ip) \in HostRecords
             /\ ToSet(Turn(r, ip).v4) = ToSet(r.v4) \cup {x \in {ip} : x.fam = 4}
             /\ ToSet(Turn(r, ip).v6) = ToSet(r.v6) \cup {x \in {ip} : x.fam # 4}
  <2>1. r.v4 \in Seq(HostIPs) /\ r.v6 \in Seq(HostIPs)
    BY DEF HostRecords
  <2>2. /\ AppendUnique(r.v4, ip) \in Seq(HostIPs) /\ ToSet(AppendUnique(r.v4, ip)) = ToSet(r.v4) \cup {ip}
        /\ AppendUnique(r.v6, ip) \in Seq(HostIPs) /\ ToSet(AppendUnique(r.v6, ip)) = ToSet(r.v6) \cup {ip}
    BY <2>1, AppendUniqueAdds
  <2> QED BY <2>1, <2>2 DEF HostRecords
<1> HIDE DEF Turn, n
<1>3. \E g : g = F(g)
  <2>1. step \in [(1..n) \X HostRecords -> HostRecords]
    BY <1>0, <1>2
  <2> HIDE DEF step
  <2>2. PICK g \in [0..n -> HostRecords] : Runs(g, rec, n, step)
    BY <1>0, <2>1, Recursion
  <2>3. ASSUME NEW k \in 0..n
        PROVE g[k] = IF k = 0 THEN rec ELSE Turn(g[k - 1], ips[k])
    <3>1. CASE k # 0
      <4>1. k \in 1..n /\ k - 1 \in 0..n
        BY <1>0, <3>1
      <4>2. <<k, g[k - 1]>> \in (1..n) \X HostRecords
        BY <4>1
      <4>3. g[k] = step[<<k, g[k - 1]>>]
        BY <2>2, <4>1 DEF Runs
      <4> QED BY <3>1, <4>2, <4>3 DEF step
    <3>2. CASE k = 0
      BY <2>2, <3>2 DEF Runs
    <3> QED BY <3>1, <3>2
  <2> QED BY <2>3
<1>4. Upto = F(Upto)
  <2> HIDE DEF F
  <2> QED BY <1>3
<1> HIDE DEF Upto
<1>5. Upto[0] = rec /\ \A k \in 1..n : Upto[k] = Turn(Upto[k - 1], ips[k])
  <2>1. \A k \in 0..n : Upto[k] = IF k = 0 THEN rec ELSE Turn(Upto[k - 1], ips[k])
    BY <1>4
  <2> QED BY <1>0, <2>1
<1> DEFINE T == {k \in 0..n : /\ Upto[k] \in HostRecords
                             /\ ToSet(Upto[k].v4) = ToSet(rec.v4) \cup {x \in Seen(k) : x.fam = 4}
                             /\ ToSet(Upto[k].v6) = ToSet(rec.v6) \cup {x \in Seen(k) : x.fam # 4}}
<1>6. 0 \in T
  <2>1. Seen(0) = {}
    OBVIOUS
  <2> QED BY <1>0, <1>5, <2>1
<1>7. ASSUME NEW k \in 1..n, k - 1 \in T PROVE k \in T
  <2>1. Seen(k) = Seen(k - 1) \cup {ips[k]}
    <3>1. 1..k = (1..(k - 1)) \cup {k}
      BY <1>0
    <3> QED BY <3>1
  <2> DEFINE u == Upto[k - 1]
             ip == ips[k]
  <2>2. u \in HostRecords /\ ip \in HostIPs /\ Upto[k] = Turn(u, ip)
    BY <1>0, <1>5, <1>7
  <2>3. /\ ToSet(u.v4) = ToSet(rec.v4) \cup {x \in Seen(k - 1) : x.fam = 4}
        /\ ToSet(u.v6) = ToSet(rec.v6) \cup {x \in Seen(k - 1) : x.fam # 4}
    BY <1>7
  <2> HIDE DEF u, Seen
  <2>4. /\ Turn(u, ip) \in HostRecords
        /\ ToSet(Turn(u, ip).v4) = ToSet(u.v4) \cup {x \in {ip} : x.fam = 4}
        /\ ToSet(Turn(u, ip).v6) = ToSet(u.v6) \cup {x \in {ip} : x.fam # 4}
    BY <1>2, <2>2
  <2>5. /\ Upto[k] \in HostRecords
        /\ ToSet(Upto[k].v4) = ToSet(rec.v4) \cup {x \in Seen(k) : x.fam = 4}
        /\ ToSet(Upto[k].v6) = ToSet(rec.v6) \cup {x \in Seen(k) : x.fam # 4}
    BY <2>1, <2>2, <2>3, <2>4
  <2> QED BY <1>0, <2>5
<1>8. n \in T
  <2> HIDE DEF T
  <2>1. \A k \in 1..n : k - 1 \in T => k \in T
    BY <1>7
  <2>2. \A k \in 0..n : k \in T
    BY <1>0, <1>6, <2>1, UpTo
  <2> QED BY <1>0, <2>2
<1>9. Seen(n) = ToSet(ips)
  BY <1>0, ToSetOf DEF n
<1> QED BY <1>1, <1>8, <1>9

(* Merging adds every address of one list to another, each once. *)
LEMMA AppendAllAdds ==
    ASSUME NEW dst \in Seq(HostIPs), NEW ips \in Seq(HostIPs)
    PROVE  LET out == AppendAll(dst, ips)
           IN  /\ out \in Seq(HostIPs)
               /\ ToSet(out) = ToSet(dst) \cup ToSet(ips)
               /\ Distinct(dst) => Distinct(out)
<1> DEFINE n == Len(ips)
           F(f) == [k \in 0..n |-> IF k = 0 THEN dst ELSE AppendUnique(f[k - 1], ips[k])]
           Upto == CHOOSE f : f = F(f)
           S == Seq(HostIPs)
           step == [x \in (1..n) \X S |-> AppendUnique(x[2], ips[x[1]])]
           Seen(k) == {ips[i] : i \in 1..k}
<1>0. n \in Nat /\ \A k \in 1..n : ips[k] \in HostIPs
  OBVIOUS
<1>1. AppendAll(dst, ips) = Upto[n]
  BY Zenon DEF AppendAll
<1>2. ASSUME NEW s \in S, NEW ip \in HostIPs
      PROVE  /\ AppendUnique(s, ip) \in S
             /\ ToSet(AppendUnique(s, ip)) = ToSet(s) \cup {ip}
             /\ Distinct(s) => Distinct(AppendUnique(s, ip))
  BY AppendUniqueAdds
<1>a. dst \in S
  OBVIOUS
<1> HIDE DEF n, S
<1>3. \E g : g = F(g)
  <2>1. step \in [(1..n) \X S -> S]
    BY <1>0, <1>2
  <2> HIDE DEF step
  <2>2. PICK g \in [0..n -> S] : Runs(g, dst, n, step)
    BY <1>0, <1>a, <2>1, Recursion
  <2>3. ASSUME NEW k \in 0..n
        PROVE g[k] = IF k = 0 THEN dst ELSE AppendUnique(g[k - 1], ips[k])
    <3>1. CASE k # 0
      <4>1. k \in 1..n /\ k - 1 \in 0..n
        BY <1>0, <3>1
      <4>2. <<k, g[k - 1]>> \in (1..n) \X S
        BY <4>1
      <4>3. g[k] = step[<<k, g[k - 1]>>]
        BY <2>2, <4>1 DEF Runs
      <4> QED BY <3>1, <4>2, <4>3 DEF step
    <3>2. CASE k = 0
      BY <2>2, <3>2 DEF Runs
    <3> QED BY <3>1, <3>2
  <2> QED BY <2>3
<1>4. Upto = F(Upto)
  <2> HIDE DEF F
  <2> QED BY <1>3
<1> HIDE DEF Upto
<1>5. Upto[0] = dst /\ \A k \in 1..n : Upto[k] = AppendUnique(Upto[k - 1], ips[k])
  <2>1. \A k \in 0..n : Upto[k] = IF k = 0 THEN dst ELSE AppendUnique(Upto[k - 1], ips[k])
    BY <1>4
  <2> QED BY <1>0, <2>1
<1> DEFINE Inv(k) == /\ Upto[k] \in S
                     /\ ToSet(Upto[k]) = ToSet(dst) \cup Seen(k)
                     /\ Distinct(dst) => Distinct(Upto[k])
           T == {k \in 0..n : Inv(k)}
<1>6. 0 \in T
  <2>1. Seen(0) = {}
    OBVIOUS
  <2> QED BY <1>0, <1>a, <1>5, <2>1
<1>7. ASSUME NEW k \in 1..n, k - 1 \in T PROVE k \in T
  <2>1. Seen(k) = Seen(k - 1) \cup {ips[k]}
    <3>1. 1..k = (1..(k - 1)) \cup {k}
      BY <1>0
    <3> QED BY <3>1
  <2> DEFINE u == Upto[k - 1]
             ip == ips[k]
  <2>a. Inv(k - 1)
    <3> HIDE DEF Inv
    <3> QED BY <1>7
  <2>2. u \in S /\ ip \in HostIPs /\ Upto[k] = AppendUnique(u, ip)
    BY <1>0, <1>5, <2>a
  <2>3. ToSet(u) = ToSet(dst) \cup Seen(k - 1) /\ (Distinct(dst) => Distinct(u))
    BY <2>a
  <2> HIDE DEF u, Seen
  <2>4. Upto[k] \in S /\ ToSet(Upto[k]) = ToSet(dst) \cup Seen(k) /\ (Distinct(dst) => Distinct(Upto[k]))
    BY <1>2, <2>1, <2>2, <2>3
  <2> QED BY <1>0, <2>4
<1>8. n \in T
  <2> HIDE DEF T
  <2>1. \A k \in 1..n : k - 1 \in T => k \in T
    BY <1>7
  <2>2. \A k \in 0..n : k \in T
    BY <1>0, <1>6, <2>1, UpTo
  <2> QED BY <1>0, <2>2
<1>9. Seen(n) = ToSet(ips)
  BY <1>0, ToSetOf DEF n
<1>10. Inv(n)
  BY <1>8
<1> QED BY <1>1, <1>9, <1>10 DEF S

HostKeys == {l.name : l \in HostLines}
HostMaps == UNION {[D -> HostRecords] : D \in SUBSET HostKeys}

NamesOfLines(ls) == {ls[k].name : k \in 1..Len(ls)}
Gives(ls, name, ip) == \E k \in 1..Len(ls) : ls[k].name = name /\ ip \in ToSet(ls[k].ips)

(* The map of a file says what its lines say.                               *)
Recorded(recs, ls) ==
    /\ DOMAIN recs = NamesOfLines(ls)
    /\ \A name \in NamesOfLines(ls) : \A ip :
         /\ ip \in ToSet(recs[name].v4) <=> Gives(ls, name, ip) /\ ip.fam = 4
         /\ ip \in ToSet(recs[name].v6) <=> Gives(ls, name, ip) /\ ip.fam # 4

HostsTypeOK ==
    /\ hostLines \in Seq(Seq(HostLines)) /\ records \in Seq(HostMaps)
    /\ hostsStage \in {"reading", "ready", "refused"}

HostsIInv ==
    /\ HostsTypeOK
    /\ Len(records) = Len(hostLines) /\ Len(records) > 0
    /\ \A f \in 1..Len(records) : Recorded(records[f], hostLines[f])

(* The addresses of a line. *)
LEMMA LineAddresses ==
    ASSUME NEW l \in HostLines
    PROVE  l.ips \in Seq(HostIPs)
<1>1. ToSet(l.ips) \subseteq HostIPs
  BY Zenon DEF HostIPs
<1>2. l.ips \in Seq(ToSet(l.ips))
  BY HostsAssumption
<1> QED BY <1>1, <1>2, SeqMonotonic

(* The map of a file nothing was read of. *)
LEMMA NoLines == <<>> \in HostMaps /\ <<>> \in Seq(HostLines) /\ Recorded(<<>>, <<>>)
<1>1. <<>> = [x \in {} |-> x]
  OBVIOUS
<1>2. <<>> \in [{} -> HostRecords] /\ DOMAIN <<>> = {}
  BY <1>1
<1>3. {} \in SUBSET HostKeys
  OBVIOUS
<1>4. <<>> \in HostMaps
  BY <1>2, <1>3 DEF HostMaps
<1>5. NamesOfLines(<<>>) = {}
  BY DEF NamesOfLines
<1> QED BY <1>2, <1>4, <1>5 DEF Recorded

(* The first file is about to be read. *)
LEMMA HostsInitIInv == HostsInit => HostsIInv
<1> SUFFICES ASSUME HostsInit PROVE HostsIInv
  OBVIOUS
<1> DEFINE no == <<>>
<1>1. no \in HostMaps /\ no \in Seq(HostLines) /\ Recorded(no, no)
  BY NoLines
<1>2. hostLines = <<no>> /\ records = <<no>> /\ hostsStage = "reading"
  BY DEF HostsInit
<1> HIDE DEF no
<1>3. /\ hostLines \in Seq(Seq(HostLines)) /\ Len(hostLines) = 1 /\ hostLines[1] = no
      /\ records \in Seq(HostMaps) /\ Len(records) = 1 /\ records[1] = no
  BY <1>1, <1>2
<1>4. \A f \in 1..Len(records) : f = 1
  BY <1>3
<1> QED BY <1>1, <1>2, <1>3, <1>4 DEF HostsIInv, HostsTypeOK

(* One more line is recorded. *)
LEMMA RecordedRead ==
    ASSUME NEW recs \in HostMaps, NEW ls \in Seq(HostLines), Recorded(recs, ls), NEW l \in HostLines,
           NEW recs2, recs2 = [n \in DOMAIN recs \cup {l.name} |->
                                 IF n = l.name THEN AddAddresses(Record(recs, l.name), l.ips) ELSE recs[n]]
    PROVE  recs2 \in HostMaps /\ Recorded(recs2, Append(ls, l))
<1> DEFINE old == Record(recs, l.name)
           new == AddAddresses(old, l.ips)
           ls2 == Append(ls, l)
           n == Len(ls)
<1>1. DOMAIN recs = NamesOfLines(ls) /\ DOMAIN recs \subseteq HostKeys /\ \A name \in DOMAIN recs : recs[name] \in HostRecords
  BY DEF HostMaps, Recorded
<1>2. n \in Nat /\ Len(ls2) = n + 1 /\ ls2[n + 1] = l /\ \A k \in 1..n : ls2[k] = ls[k]
  BY AppendProperties
<1>3. /\ old \in HostRecords
      /\ \A ip : /\ ip \in ToSet(old.v4) <=> Gives(ls, l.name, ip) /\ ip.fam = 4
                 /\ ip \in ToSet(old.v6) <=> Gives(ls, l.name, ip) /\ ip.fam # 4
  <2>1. CASE l.name \in DOMAIN recs
    <3>1. old = recs[l.name]
      BY <2>1 DEF Record
    <3> QED BY <1>1, <2>1, <3>1 DEF Recorded
  <2>2. CASE l.name \notin DOMAIN recs
    <3>1. old = [v4 |-> <<>>, v6 |-> <<>>]
      BY <2>2 DEF Record
    <3>2. <<>> \in Seq(HostIPs) /\ ToSet(<<>>) = {}
      BY DEF ToSet
    <3>3. \A ip : ~Gives(ls, l.name, ip)
      BY <1>1, <2>2 DEF Gives, NamesOfLines
    <3> QED BY <3>1, <3>2, <3>3 DEF HostRecords
  <2> QED BY <2>1, <2>2
<1> HIDE DEF old
<1>4. /\ new \in HostRecords
      /\ ToSet(new.v4) = ToSet(old.v4) \cup {ip \in ToSet(l.ips) : ip.fam = 4}
      /\ ToSet(new.v6) = ToSet(old.v6) \cup {ip \in ToSet(l.ips) : ip.fam # 4}
  BY <1>3, LineAddresses, AddAddressesAdds
<1>5. recs2 = [x \in DOMAIN recs \cup {l.name} |-> IF x = l.name THEN new ELSE recs[x]]
  BY DEF old
<1> HIDE DEF new, ls2, n
<1>6. \A name, ip : Gives(ls2, name, ip) <=> Gives(ls, name, ip) \/ (name = l.name /\ ip \in ToSet(l.ips))
  <2>1. \A k \in 1..Len(ls2) : k \in 1..n \/ k = n + 1
    BY <1>2
  <2>2. n + 1 \in 1..Len(ls2) /\ \A k \in 1..n : k \in 1..Len(ls2)
    BY <1>2
  <2> QED BY <1>2, <2>1, <2>2 DEF Gives, n
<1>7. NamesOfLines(ls2) = NamesOfLines(ls) \cup {l.name}
  <2>1. \A k \in 1..Len(ls2) : k \in 1..n \/ k = n + 1
    BY <1>2
  <2>2. n + 1 \in 1..Len(ls2) /\ \A k \in 1..n : k \in 1..Len(ls2)
    BY <1>2
  <2> QED BY <1>2, <2>1, <2>2 DEF NamesOfLines, n
<1>8. recs2 \in HostMaps
  <2>1. l.name \in HostKeys
    BY DEF HostKeys
  <2>2. recs2 \in [DOMAIN recs \cup {l.name} -> HostRecords]
    BY <1>1, <1>4, <1>5
  <2>3. DOMAIN recs \cup {l.name} \in SUBSET HostKeys
    BY <1>1, <2>1
  <2> QED BY <2>2, <2>3 DEF HostMaps
<1>9. ASSUME NEW name \in NamesOfLines(ls2), NEW ip
      PROVE  /\ ip \in ToSet(recs2[name].v4) <=> Gives(ls2, name, ip) /\ ip.fam = 4
             /\ ip \in ToSet(recs2[name].v6) <=> Gives(ls2, name, ip) /\ ip.fam # 4
  <2>1. CASE name = l.name
    <3>1. recs2[name] = new
      BY <1>5, <2>1
    <3> QED BY <1>3, <1>4, <1>6, <2>1, <3>1
  <2>2. CASE name # l.name
    <3>1. name \in NamesOfLines(ls) /\ recs2[name] = recs[name]
      BY <1>1, <1>5, <1>7, <2>2
    <3> QED BY <1>6, <2>2, <3>1 DEF Recorded
  <2> QED BY <2>1, <2>2
<1>10. DOMAIN recs2 = NamesOfLines(ls2)
  BY <1>1, <1>5, <1>7
<1>11. Recorded(recs2, ls2)
  BY <1>9, <1>10 DEF Recorded
<1> QED BY <1>8, <1>11 DEF ls2

(* parseHostsLine keeps the invariant: the map of the file being read       *)
(* records its lines.                                                       *)
LEMMA ReadHostsLineIInv == \A l \in HostLines : HostsIInv /\ ReadHostsLine(l) => HostsIInv'
<1> SUFFICES ASSUME HostsIInv, NEW l \in HostLines, ReadHostsLine(l) PROVE HostsIInv'
  OBVIOUS
<1> DEFINE n == Len(records)
           recs == records[n]
           ls == hostLines[n]
           recs2 == [x \in DOMAIN recs \cup {l.name} |->
                       IF x = l.name THEN AddAddresses(Record(recs, l.name), l.ips) ELSE recs[x]]
           ls2 == Append(ls, l)
<1>1. /\ HostsTypeOK /\ n \in Nat /\ n > 0 /\ Len(hostLines) = n
      /\ \A f \in 1..n : Recorded(records[f], hostLines[f])
  BY DEF HostsIInv, HostsTypeOK
<1>2. records' = [records EXCEPT ![n] = recs2] /\ hostLines' = [hostLines EXCEPT ![n] = ls2]
      /\ hostsStage' = hostsStage
  BY <1>1 DEF ReadHostsLine, Last
<1>3. recs \in HostMaps /\ ls \in Seq(HostLines) /\ Recorded(recs, ls)
  BY <1>1 DEF HostsTypeOK
<1> HIDE DEF recs, ls
<1>4. recs2 \in HostMaps /\ Recorded(recs2, ls2)
  BY <1>3, RecordedRead
<1>5. ls2 \in Seq(HostLines)
  BY <1>3
<1> HIDE DEF recs2, ls2
<1>6. /\ records' \in Seq(HostMaps) /\ Len(records') = n /\ records'[n] = recs2
      /\ \A f \in 1..n : f # n => records'[f] = records[f]
  BY <1>1, <1>2, <1>4 DEF HostsTypeOK
<1>7. /\ hostLines' \in Seq(Seq(HostLines)) /\ Len(hostLines') = n /\ hostLines'[n] = ls2
      /\ \A f \in 1..n : f # n => hostLines'[f] = hostLines[f]
  BY <1>1, <1>2, <1>5 DEF HostsTypeOK
<1>8. ASSUME NEW f \in 1..n PROVE Recorded(records'[f], hostLines'[f])
  <2>1. CASE f = n
    BY <1>4, <1>6, <1>7, <2>1
  <2>2. CASE f # n
    <3>1. records'[f] = records[f] /\ hostLines'[f] = hostLines[f]
      BY <1>6, <1>7, <2>2
    <3> QED BY <1>1, <3>1
  <2> QED BY <2>1, <2>2
<1> HIDE DEF n
<1> QED BY <1>1, <1>2, <1>6, <1>7, <1>8 DEF HostsIInv, HostsTypeOK

(* So does every step of loadHosts, and a step of another part of the       *)
(* router.                                                                  *)
LEMMA HostsStepIInv == HostsIInv /\ (HostsStep \/ UNCHANGED hostsVars) => HostsIInv'
<1> SUFFICES ASSUME HostsIInv, HostsStep \/ UNCHANGED hostsVars PROVE HostsIInv'
  OBVIOUS
<1>1. ASSUME NEW l \in HostLines, ReadHostsLine(l) PROVE HostsIInv'
  BY <1>1, ReadHostsLineIInv
<1>2. CASE HostsLineFails \/ UNCHANGED hostsVars
  BY <1>2 DEF HostsLineFails, hostsVars, HostsIInv, HostsTypeOK
<1>3. CASE HostsFileEnds
  <2>1. CASE UNCHANGED <<hostLines, records>> /\ hostsStage' = "ready"
    BY <2>1 DEF HostsIInv, HostsTypeOK
  <2>2. CASE /\ hostLines' = Append(hostLines, <<>>) /\ records' = Append(records, <<>>)
             /\ hostsStage' = hostsStage
    <3> DEFINE no == <<>>
               n == Len(records)
    <3>1. no \in HostMaps /\ no \in Seq(HostLines) /\ Recorded(no, no)
      BY NoLines
    <3>2. hostLines' = Append(hostLines, no) /\ records' = Append(records, no)
      BY <2>2
    <3> HIDE DEF no
    <3>3. HostsTypeOK /\ n \in Nat /\ n > 0 /\ Len(hostLines) = n /\ \A f \in 1..n : Recorded(records[f], hostLines[f])
      BY DEF HostsIInv, HostsTypeOK
    <3>4. /\ records' \in Seq(HostMaps) /\ Len(records') = n + 1 /\ records'[n + 1] = no
          /\ \A f \in 1..n : records'[f] = records[f]
      BY <3>1, <3>2, <3>3, AppendProperties DEF HostsTypeOK
    <3>5. /\ hostLines' \in Seq(Seq(HostLines)) /\ Len(hostLines') = n + 1 /\ hostLines'[n + 1] = no
          /\ \A f \in 1..n : hostLines'[f] = hostLines[f]
      BY <3>1, <3>2, <3>3, AppendProperties DEF HostsTypeOK
    <3>6. ASSUME NEW f \in 1..Len(records') PROVE Recorded(records'[f], hostLines'[f])
      <4>1. f \in 1..n \/ f = n + 1
        BY <3>3, <3>4
      <4> HIDE DEF n
      <4>2. CASE f = n + 1
        BY <3>1, <3>4, <3>5, <4>2
      <4>3. CASE f \in 1..n
        <5>1. records'[f] = records[f] /\ hostLines'[f] = hostLines[f]
          BY <3>4, <3>5, <4>3
        <5> QED BY <3>3, <4>3, <5>1
      <4> QED BY <4>1, <4>2, <4>3
    <3> HIDE DEF n
    <3> QED BY <2>2, <3>3, <3>4, <3>5, <3>6 DEF HostsIInv, HostsTypeOK
  <2> QED BY <1>3, <2>1, <2>2 DEF HostsFileEnds
<1> QED BY <1>1, <1>2, <1>3 DEF HostsStep

GivenBy(f, name, ip) == \E g \in 1..f : Gives(hostLines[g], name, ip)

(* A lookup merges, from every map that has the name, each address once.    *)
LEMMA LookupMerges ==
    ASSUME HostsIInv, NEW name
    PROVE  LET rec == HostsLookup(name).rec
           IN  /\ rec \in HostRecords /\ Distinct(rec.v4) /\ Distinct(rec.v6)
               /\ \A ip : /\ ip \in ToSet(rec.v4) <=> GivenBy(Len(records), name, ip) /\ ip.fam = 4
                          /\ ip \in ToSet(rec.v6) <=> GivenBy(Len(records), name, ip) /\ ip.fam # 4
<1> DEFINE n == Len(records)
           none == [v4 |-> <<>>, v6 |-> <<>>]
           Turn(r, f) == IF name \in DOMAIN records[f] THEN Merge(r, records[f][name]) ELSE r
           F(h) == [f \in 0..n |->
                      IF f = 0 THEN none
                      ELSE IF name \in DOMAIN records[f] THEN Merge(h[f - 1], records[f][name])
                      ELSE h[f - 1]]
           Upto == CHOOSE h : h = F(h)
           step == [x \in (1..n) \X HostRecords |-> Turn(x[2], x[1])]
           Inv(f) == /\ Upto[f] \in HostRecords /\ Distinct(Upto[f].v4) /\ Distinct(Upto[f].v6)
                     /\ \A ip : /\ ip \in ToSet(Upto[f].v4) <=> GivenBy(f, name, ip) /\ ip.fam = 4
                                /\ ip \in ToSet(Upto[f].v6) <=> GivenBy(f, name, ip) /\ ip.fam # 4
           T == {f \in 0..n : Inv(f)}
<1>0. n \in Nat /\ \A f \in 1..n : records[f] \in HostMaps /\ Recorded(records[f], hostLines[f])
  <2>1. n \in Nat
    BY DEF HostsIInv, HostsTypeOK
  <2>2. ASSUME NEW f \in 1..n PROVE records[f] \in HostMaps
    BY ElementOfSeq DEF HostsIInv, HostsTypeOK
  <2> QED BY <2>1, <2>2 DEF HostsIInv
<1>1. HostsLookup(name).rec = Upto[n]
  BY Zenon DEF HostsLookup
<1>2. none \in HostRecords /\ Distinct(none.v4) /\ Distinct(none.v6) /\ ToSet(none.v4) = {} /\ ToSet(none.v6) = {}
  BY DEF HostRecords, Distinct, ToSet
<1> HIDE DEF n, none
<1>3. ASSUME NEW r \in HostRecords, NEW f \in 1..n
      PROVE  /\ Turn(r, f) \in HostRecords
             /\ Distinct(r.v4) => Distinct(Turn(r, f).v4)
             /\ Distinct(r.v6) => Distinct(Turn(r, f).v6)
             /\ \A ip : /\ ip \in ToSet(Turn(r, f).v4) <=>
                             ip \in ToSet(r.v4) \/ (Gives(hostLines[f], name, ip) /\ ip.fam = 4)
                        /\ ip \in ToSet(Turn(r, f).v6) <=>
                             ip \in ToSet(r.v6) \/ (Gives(hostLines[f], name, ip) /\ ip.fam # 4)
  <2>1. CASE name \in DOMAIN records[f]
    <3> DEFINE src == records[f][name]
    <3>1. src \in HostRecords
      BY <1>0, <2>1 DEF HostMaps
    <3>2. \A ip : /\ ip \in ToSet(src.v4) <=> Gives(hostLines[f], name, ip) /\ ip.fam = 4
                  /\ ip \in ToSet(src.v6) <=> Gives(hostLines[f], name, ip) /\ ip.fam # 4
      BY <1>0, <2>1 DEF Recorded
    <3>3. Turn(r, f) = Merge(r, src)
      BY <2>1
    <3> HIDE DEF src, Turn
    <3>4. r.v4 \in Seq(HostIPs) /\ r.v6 \in Seq(HostIPs) /\ src.v4 \in Seq(HostIPs) /\ src.v6 \in Seq(HostIPs)
      BY <3>1 DEF HostRecords
    <3>5. /\ AppendAll(r.v4, src.v4) \in Seq(HostIPs)
          /\ ToSet(AppendAll(r.v4, src.v4)) = ToSet(r.v4) \cup ToSet(src.v4)
          /\ Distinct(r.v4) => Distinct(AppendAll(r.v4, src.v4))
      BY <3>4, AppendAllAdds
    <3>6. /\ AppendAll(r.v6, src.v6) \in Seq(HostIPs)
          /\ ToSet(AppendAll(r.v6, src.v6)) = ToSet(r.v6) \cup ToSet(src.v6)
          /\ Distinct(r.v6) => Distinct(AppendAll(r.v6, src.v6))
      BY <3>4, AppendAllAdds
    <3>7. /\ Turn(r, f) \in HostRecords
          /\ Turn(r, f).v4 = AppendAll(r.v4, src.v4) /\ Turn(r, f).v6 = AppendAll(r.v6, src.v6)
      BY <3>3, <3>5, <3>6 DEF Merge, HostRecords
    <3> QED BY <3>2, <3>5, <3>6, <3>7
  <2>2. CASE name \notin DOMAIN records[f]
    <3>1. \A ip : ~Gives(hostLines[f], name, ip)
      BY <1>0, <2>2 DEF Recorded, Gives, NamesOfLines
    <3>2. Turn(r, f) = r
      BY <2>2
    <3> QED BY <3>1, <3>2
  <2> QED BY <2>1, <2>2
<1>4. \A h : F(h) = [f \in 0..n |-> IF f = 0 THEN none ELSE Turn(h[f - 1], f)]
  OBVIOUS
<1> HIDE DEF Turn
<1>5. \E h : h = F(h)
  <2>1. step \in [(1..n) \X HostRecords -> HostRecords]
    BY <1>3
  <2> HIDE DEF step
  <2>2. PICK g \in [0..n -> HostRecords] : Runs(g, none, n, step)
    BY <1>0, <1>2, <2>1, Recursion
  <2>3. ASSUME NEW k \in 0..n
        PROVE g[k] = IF k = 0 THEN none ELSE Turn(g[k - 1], k)
    <3>1. CASE k # 0
      <4>1. k \in 1..n /\ k - 1 \in 0..n
        BY <1>0, <3>1
      <4>2. <<k, g[k - 1]>> \in (1..n) \X HostRecords
        BY <4>1
      <4>3. g[k] = step[<<k, g[k - 1]>>]
        BY <2>2, <4>1 DEF Runs
      <4> QED BY <3>1, <4>2, <4>3 DEF step
    <3>2. CASE k = 0
      BY <2>2, <3>2 DEF Runs
    <3> QED BY <3>1, <3>2
  <2>4. g = [f \in 0..n |-> IF f = 0 THEN none ELSE Turn(g[f - 1], f)]
    BY <2>3
  <2> HIDE DEF F
  <2> QED BY <1>4, <2>4
<1>6. Upto = F(Upto)
  <2> HIDE DEF F
  <2> QED BY <1>5
<1> HIDE DEF Upto
<1>7. Upto[0] = none /\ \A f \in 1..n : Upto[f] = Turn(Upto[f - 1], f)
  <2>1. Upto = [f \in 0..n |-> IF f = 0 THEN none ELSE Turn(Upto[f - 1], f)]
    <3> HIDE DEF F
    <3> QED BY <1>4, <1>6
  <2>2. \A f \in 0..n : Upto[f] = IF f = 0 THEN none ELSE Turn(Upto[f - 1], f)
    BY <2>1
  <2> QED BY <1>0, <2>2
<1>8. 0 \in T
  <2>1. \A ip : ~GivenBy(0, name, ip)
    BY DEF GivenBy
  <2> QED BY <1>0, <1>2, <1>7, <2>1
<1>9. ASSUME NEW f \in 1..n, f - 1 \in T PROVE f \in T
  <2>1. \A ip : GivenBy(f, name, ip) <=> GivenBy(f - 1, name, ip) \/ Gives(hostLines[f], name, ip)
    <3>1. \A g : g \in 1..f <=> g \in 1..(f - 1) \/ g = f
      BY <1>0
    <3> QED BY <3>1 DEF GivenBy
  <2>2. Inv(f - 1) /\ Upto[f] = Turn(Upto[f - 1], f)
    <3> HIDE DEF Inv
    <3> QED BY <1>7, <1>9
  <2> DEFINE u == Upto[f - 1]
  <2>3. /\ u \in HostRecords /\ Distinct(u.v4) /\ Distinct(u.v6)
        /\ \A ip : /\ ip \in ToSet(u.v4) <=> GivenBy(f - 1, name, ip) /\ ip.fam = 4
                   /\ ip \in ToSet(u.v6) <=> GivenBy(f - 1, name, ip) /\ ip.fam # 4
    BY <2>2
  <2>4. Upto[f] = Turn(u, f)
    BY <2>2
  <2> HIDE DEF u
  <2>5. /\ Turn(u, f) \in HostRecords
        /\ Distinct(Turn(u, f).v4) /\ Distinct(Turn(u, f).v6)
        /\ \A ip : /\ ip \in ToSet(Turn(u, f).v4) <=>
                        ip \in ToSet(u.v4) \/ (Gives(hostLines[f], name, ip) /\ ip.fam = 4)
                   /\ ip \in ToSet(Turn(u, f).v6) <=>
                        ip \in ToSet(u.v6) \/ (Gives(hostLines[f], name, ip) /\ ip.fam # 4)
    BY <1>3, <2>3
  <2>6. Inv(f)
    BY <2>1, <2>3, <2>4, <2>5
  <2> HIDE DEF Inv
  <2> QED BY <1>0, <2>6
<1>10. Inv(n)
  <2> HIDE DEF T
  <2>1. \A f \in 1..n : f - 1 \in T => f \in T
    BY <1>9
  <2>2. \A f \in 0..n : f \in T
    BY <1>0, <1>8, <2>1, UpTo
  <2>3. n \in T
    BY <1>0, <2>2
  <2> HIDE DEF Inv
  <2> QED BY <2>3 DEF T
<1> QED BY <1>1, <1>10 DEF n

(* The invariant gives the property: what a query gets is what the lines    *)
(* of all files say of its name.                                            *)
LEMMA HostsIInvExact == HostsIInv => HostsExact
<1> SUFFICES ASSUME HostsIInv, NEW name \in HostNames, NEW class \in {"IN", "CH"}, NEW type \in {"A", "AAAA", "MX"}
             PROVE  LET r == HostsResponse(name, class, type)
                        due == {ip \in Written(name) : ip.fam = IF type = "A" THEN 4 ELSE 6}
                    IN  /\ r.handled <=> (class = "IN" /\ type # "MX" /\ Named(name))
                        /\ r.handled => /\ ToSet(r.answers) = due
                                        /\ Len(r.answers) = Cardinality(due)
                                        /\ r.soa <=> due = {}
  BY DEF HostsExact
<1> DEFINE n == Len(records)
           found == HostsLookup(name)
           rec == found.rec
           answers == IF type = "A" THEN rec.v4 ELSE rec.v6
           due == {ip \in Written(name) : ip.fam = IF type = "A" THEN 4 ELSE 6}
           handled == class = "IN" /\ type # "MX" /\ Named(name)
<1>0. n \in Nat /\ Len(hostLines) = n /\ \A f \in 1..n : hostLines[f] \in Seq(HostLines) /\ Recorded(records[f], hostLines[f])
  <2>1. n \in Nat /\ Len(hostLines) = n
    BY DEF HostsIInv, HostsTypeOK
  <2>2. ASSUME NEW f \in 1..n PROVE hostLines[f] \in Seq(HostLines)
    BY <2>1, ElementOfSeq DEF HostsIInv, HostsTypeOK
  <2> QED BY <2>1, <2>2 DEF HostsIInv
<1>1. found.matched <=> Named(name)
  <2>1. found.matched = \E f \in 1..n : name \in DOMAIN records[f]
    BY Zenon DEF HostsLookup
  <2>2. \A f \in 1..n : name \in DOMAIN records[f] <=> \E k \in 1..Len(hostLines[f]) : hostLines[f][k].name = name
    BY <1>0 DEF Recorded, NamesOfLines
  <2> QED BY <1>0, <2>1, <2>2 DEF Named
<1>2. /\ rec \in HostRecords /\ Distinct(rec.v4) /\ Distinct(rec.v6)
      /\ \A ip : /\ ip \in ToSet(rec.v4) <=> GivenBy(n, name, ip) /\ ip.fam = 4
                 /\ ip \in ToSet(rec.v6) <=> GivenBy(n, name, ip) /\ ip.fam # 4
  BY LookupMerges
<1>3. ASSUME NEW ip PROVE ip \in Written(name) <=> GivenBy(n, name, ip)
  BY <1>0 DEF Written, GivenBy, Gives
<1>4. ASSUME NEW ip, GivenBy(n, name, ip) PROVE ip.fam \in {4, 6}
  <2>1. PICK f \in 1..n : Gives(hostLines[f], name, ip)
    BY <1>4 DEF GivenBy
  <2>2. PICK k \in 1..Len(hostLines[f]) : ip \in ToSet(hostLines[f][k].ips)
    BY <2>1 DEF Gives
  <2>3. hostLines[f][k] \in HostLines
    BY <1>0
  <2> QED BY <2>2, <2>3, HostsAssumption
<1>5. HostsResponse(name, class, type) =
         IF handled THEN [handled |-> TRUE, answers |-> answers, soa |-> answers = <<>>] ELSE [handled |-> FALSE]
  <2>1. (class # "IN" \/ type \notin {"A", "AAAA"} \/ ~found.matched) <=> ~handled
    BY <1>1
  <2> HIDE DEF handled
  <2>2. HostsResponse(name, class, type) =
          IF class # "IN" \/ type \notin {"A", "AAAA"} \/ ~found.matched THEN [handled |-> FALSE]
          ELSE [handled |-> TRUE, answers |-> answers, soa |-> answers = <<>>]
    BY Zenon DEF HostsResponse
  <2> HIDE DEF answers, found
  <2> QED BY <2>1, <2>2
<1> HIDE DEF n, rec, found
<1>6. answers \in Seq(HostIPs) /\ Distinct(answers)
  BY <1>2 DEF HostRecords
<1>7. ToSet(answers) = due
  BY <1>2, <1>3, <1>4
<1>8. Len(answers) = Cardinality(due)
  BY <1>6, <1>7, DistinctCount
<1>9. answers = <<>> <=> due = {}
  <2> HIDE DEF answers, due
  <2>1. answers = <<>> <=> Len(answers) = 0
    BY <1>6
  <2>2. ToSet(answers) = {} <=> Len(answers) = 0
    <3>1. \A x : x \in ToSet(answers) <=> \E i \in 1..Len(answers) : answers[i] = x
      BY <1>6, ToSetOf
    <3>2. Len(answers) \in Nat /\ (Len(answers) # 0 => 1 \in 1..Len(answers))
      BY <1>6
    <3> QED BY <3>1, <3>2
  <2> QED BY <1>7, <2>1, <2>2
<1> HIDE DEF answers, due, handled
<1>10. LET r == HostsResponse(name, class, type)
       IN  /\ r.handled <=> handled
           /\ r.handled => ToSet(r.answers) = due /\ Len(r.answers) = Cardinality(due) /\ (r.soa <=> due = {})
  <2> DEFINE r == HostsResponse(name, class, type)
  <2>1. CASE handled
    <3>1. r = [handled |-> TRUE, answers |-> answers, soa |-> answers = <<>>]
      BY <1>5, <2>1
    <3>2. r.handled = TRUE /\ r.answers = answers /\ r.soa = (answers = <<>>)
      BY <3>1
    <3> HIDE DEF r
    <3> QED BY <1>7, <1>8, <1>9, <2>1, <3>2 DEF r
  <2>2. CASE ~handled
    <3>1. r = [handled |-> FALSE]
      BY <1>5, <2>2
    <3>2. r.handled = FALSE
      BY <3>1
    <3> HIDE DEF r
    <3> QED BY <2>2, <3>2 DEF r
  <2> QED BY <2>1, <2>2
<1> QED BY <1>10 DEF due, handled

-----------------------------------------------------------------------------
(* The theorems about the data parts.                                      *)

(* A step of one part leaves the variables of the others as they are. *)
LEMMA PartSteps ==
    ASSUME [DataNext]_dataVars
    PROVE  /\ DomainStep \/ UNCHANGED domainVars
           /\ BufferStep \/ UNCHANGED bufferVars
           /\ AddressStep \/ UNCHANGED addressVars
           /\ HostsStep \/ UNCHANGED hostsVars
           /\ RepliesStep \/ UNCHANGED replyVars
BY DEF DataNext, dataVars

(* Type and memory of buffers: what rests in a pool is as large as its      *)
(* class, and what is out is its own memory.                                *)
THEOREM BufferInvariant == DataSpec => []BufferIInv
<1>1. DataInit => BufferIInv
  BY BufferInitIInv DEF DataInit
<1>2. BufferIInv /\ [DataNext]_dataVars => BufferIInv'
  <2> SUFFICES ASSUME BufferIInv, [DataNext]_dataVars PROVE BufferIInv'
    OBVIOUS
  <2>1. CASE UNCHANGED bufferVars
    BY <2>1 DEF BufferIInv, bufferVars
  <2> QED BY <2>1, PartSteps, BufferStepIInv
<1> QED BY <1>1, <1>2, PTL DEF DataSpec

(* For any sizes and any order of get, release and collection, a buffer     *)
(* holds what was asked for, inside memory it owns, and can be returned.    *)
THEOREM DataBuffersFit == DataSpec => []BuffersFit
<1>1. BufferIInv => BuffersFit
  BY DEF BufferIInv, BuffersFit
<1> QED BY <1>1, BufferInvariant, PTL

(* The loaders of ip sets and zones: types, one list for each file read,    *)
(* each list in ascending order, apart, and with the lines of its file.     *)
THEOREM AddressInvariant == DataSpec => []AddressIInv
<1>1. DataInit => AddressIInv
  BY AddressInitIInv DEF DataInit
<1>2. AddressIInv /\ [DataNext]_dataVars => AddressIInv'
  BY PartSteps, AddressStepIInv
<1> QED BY <1>1, <1>2, PTL DEF DataSpec

(* For any files, bounds and widths of addresses, a set has an address, and *)
(* a zone a mark for it, exactly when a line of its files covers it, and a  *)
(* file is refused only for a line that cannot be read or for an overlap.   *)
THEOREM DataAddressesExact == DataSpec => []AddressesExact
BY AddressInvariant, AddressIInvExact, PTL

(* loadHosts: types, and the map of each file records its lines.            *)
THEOREM HostsInvariant == DataSpec => []HostsIInv
<1>1. DataInit => HostsIInv
  BY HostsInitIInv DEF DataInit
<1>2. HostsIInv /\ [DataNext]_dataVars => HostsIInv'
  BY PartSteps, HostsStepIInv
<1> QED BY <1>1, <1>2, PTL DEF DataSpec

(* For any files and names, a query for an address of a name written in a   *)
(* file is answered with every address of its family, each once, or with a  *)
(* SOA; every other query is left alone.                                    *)
THEOREM DataHostsExact == DataSpec => []HostsExact
BY HostsInvariant, HostsIInvExact, PTL

(* The servers' replies: types; the answer of the router has at most one OPT *)
(* record, and a reply that was packed and sent matches its request.         *)
THEOREM RepliesInvariant == DataSpec => []RepliesIInv
<1>1. DataInit => RepliesIInv
  BY RepliesInitIInv DEF DataInit
<1>2. RepliesIInv /\ [DataNext]_dataVars => RepliesIInv'
  BY PartSteps, RepliesStepIInv
<1> QED BY <1>1, <1>2, PTL DEF DataSpec

(* For any requests, answers, limits and label sizes, the id and the opcode *)
(* of a reply are those of its request, whatever the upstream or the cache  *)
(* answered with, an OPT record is there only when the client sent one, a   *)
(* UDP reply is within the size the client offered, the OPT record apart,   *)
(* and no query a resolver is asked, with EDNS0 or without, is dropped.     *)
THEOREM DataRepliesMatchRequests == DataSpec => []RepliesMatchRequests
BY RepliesInvariant, RepliesIInvMatch, PTL

(* A reply packed without compression takes exactly MaxPackLen bytes, and   *)
(* what is sent never more: the buffers asked for before packing suffice.   *)
THEOREM DataLengthsHold == DataSpec => []LengthsHold
BY RepliesInvariant, RepliesIInvLengths, PTL

(* The rules of a file, their tree and its sections: types, the tree keeps  *)
(* the last rule of each name, and every node that was visited has a        *)
(* segment with its children in ascending order.                            *)
THEOREM DomainInvariant == DataSpec => []DomainIInv
<1>1. DataInit => DomainIInv
  BY DomainIInvInit DEF DataInit
<1>2. DomainIInv /\ [DataNext]_dataVars => DomainIInv'
  BY PartSteps, DomainIInvKept
<1> QED BY <1>1, <1>2, PTL DEF DataSpec

(* For any rules and names, whatever the order the children of a node were  *)
(* laid out in, a compiled file matches only names it lists, and every name *)
(* a line lists that no later "full:" line of its name narrows; and only a  *)
(* line that does not parse refuses a file: sections that are written out   *)
(* are read back.                                                           *)
THEOREM DataMatcherExact == DataSpec => []MatcherExact
BY DomainInvariant, DomainIInvExact, PTL

(* What is packed of each answer: it can be packed whole, its OPT record is *)
(* its last one, and it is packed as it is when nothing is left out.        *)
THEOREM SurviveInvariant == DataSpec => []SurviveIInv
<1>1. DataInit => SurviveIInv
  BY SurviveInit DEF DataInit
<1>2. SurviveIInv /\ [DataNext]_dataVars => SurviveIInv'
  BY PartSteps, SurviveStepIInv
<1> QED BY <1>1, <1>2, PTL DEF DataSpec

(* msg.go Pack, then Unpack by the client: for any requests, answers, names *)
(* and limits, what is sent is read back as what was to be sent, unless     *)
(* records were left out, when following its pointers takes few enough      *)
(* steps; otherwise it is refused, and never read as something else.        *)
THEOREM DataMessagesSurvive == DataSpec => []MessagesSurvive
BY SurviveInvariant, SurviveIInvSays, PTL
-----------------------------------------------------------------------------
(* Hot reload: one request at a time, and a failure applies nothing.       *)

Running(c) == pc[c] \in {"loading", "committing"}

(* Where a reload stands in the group it is loading.                       *)
Position ==
    \A c \in Caller :
        IF group[c] = None THEN loaded[c] = 0 ELSE loaded[c] + 1 \in DOMAIN group[c]

(* reloading is set exactly while a request is between Begin and the end   *)
(* of its reload, and there is one such request.                           *)
OneReload ==
    /\ \A c, d \in Caller : Running(c) /\ Running(d) => c = d
    /\ reloading <=> \E c \in Caller : Running(c)

(* Loading is all there is before the first commit.                        *)
LoadingKeepsData == \A c \in Caller : pc[c] = "loading" => data = before[c]

ReloadIInv == TypeOK /\ Position /\ OneReload /\ LoadingKeepsData

-----------------------------------------------------------------------------
(* Groups are not empty and made of loaders.                               *)
LEMMA GroupMembers ==
    ASSUME NEW g \in Group
    PROVE  /\ g \in Seq(Loader) /\ Len(g) \in Nat \ {0} /\ DOMAIN g = 1..Len(g)
           /\ \A i \in DOMAIN g : g[i] \in Loader
<1>1. g \in Seq(Loader) /\ g # <<>>
  BY ReloadAssumption
<1> QED
  BY <1>1

LEMMA MembersAreLoaders ==
    ASSUME NEW gs \in SUBSET Group
    PROVE  Members(gs) \in SUBSET Loader
<1>1. \A g \in gs : \A i \in DOMAIN g : g[i] \in Loader
  BY GroupMembers
<1> QED
  BY <1>1 DEF Members

(* The loader that a reload is about to load is one of the current group.  *)
LEMMA CurrentLoader ==
    ASSUME TypeOK, Position, NEW c \in Caller, NEW g \in Current(c)
    PROVE  /\ g \in Group
           /\ loaded[c] \in Nat /\ loaded[c] + 1 \in 1..Len(g)
           /\ g[loaded[c] + 1] \in Loader
<1>1. g \in Group
  BY ReloadAssumption DEF Current, TypeOK
<1>2. loaded[c] \in Nat
  BY DEF TypeOK
<1>3. CASE group[c] = None
  BY <1>1, <1>2, <1>3, GroupMembers DEF Position
<1>4. CASE group[c] # None
  BY <1>1, <1>2, <1>4, GroupMembers DEF Position, Current
<1> QED
  BY <1>1, <1>2, <1>3, <1>4

(* What is staged is a version, and nothing that failed to parse.          *)
LEMMA StagingType ==
    ASSUME TypeOK, NEW l \in Loader
    PROVE  Staging(l) \in Version \cup {None}
BY DEF Staging, TypeOK

-----------------------------------------------------------------------------
LEMMA ReloadInitIInv == Init => ReloadIInv
<1> SUFFICES ASSUME Init PROVE ReloadIInv
  OBVIOUS
<1>1. TypeOK
  BY DEF Init, TypeOK
<1>2. Position /\ OneReload /\ LoadingKeepsData
  BY DEF Init, Position, OneReload, Running, LoadingKeepsData
<1> QED
  BY <1>1, <1>2 DEF ReloadIInv

LEMMA BeginIInv ==
    ASSUME ReloadIInv, NEW c \in Caller, Begin(c)
    PROVE  ReloadIInv'
<1> USE DEF ReloadIInv
<1>1. TypeOK'
  BY DEF Begin, Goto, TypeOK, loaderVars
<1>2. Position'
  BY DEF Begin, Position
<1>3. OneReload'
  BY DEF Begin, MayReload, Goto, OneReload, Running, TypeOK
<1>4. LoadingKeepsData'
  BY <1>3 DEF Begin, Goto, LoadingKeepsData, OneReload, MayReload, Running, TypeOK, loaderVars
<1> QED
  BY <1>1, <1>2, <1>3, <1>4

LEMMA RefuseReloadIInv ==
    ASSUME ReloadIInv, NEW c \in Caller, RefuseReload(c)
    PROVE  ReloadIInv'
<1> USE DEF ReloadIInv
<1>1. TypeOK'
  BY DEF RefuseReload, Goto, TypeOK, loaderVars, localVars, historyVars
<1>2. Position' /\ OneReload' /\ LoadingKeepsData'
  BY DEF RefuseReload, Goto, Position, OneReload, Running, LoadingKeepsData, TypeOK, loaderVars, localVars, historyVars
<1> QED
  BY <1>1, <1>2

LEMMA LoadIInv ==
    ASSUME ReloadIInv, NEW c \in Caller, Load(c)
    PROVE  ReloadIInv'
<1> USE DEF ReloadIInv
<1>1. PICK g \in Current(c) :
        LET l == g[loaded[c] + 1]
            isLast == loaded[c] + 1 = Len(g)
        IN
        /\ file[l] # Broken
        /\ staged' = [staged EXCEPT ![l] = Staging(l)]
        /\ newHash' = [newHash EXCEPT ![c][l] = file[l]]
        /\ IF isLast
           THEN /\ pending' = [pending EXCEPT ![c] = @ \ {g}]
                /\ group' = [group EXCEPT ![c] = None]
                /\ loaded' = [loaded EXCEPT ![c] = 0]
                /\ ready' = [ready EXCEPT ![c] = @ \cup {g}]
                /\ data' = Applied(g)
           ELSE /\ group' = [group EXCEPT ![c] = g]
                /\ loaded' = [loaded EXCEPT ![c] = @ + 1]
                /\ UNCHANGED <<pending, ready, data>>
  BY DEF Load
<1> DEFINE l == g[loaded[c] + 1]
<1>2. /\ g \in Group /\ l \in Loader
      /\ loaded[c] \in Nat /\ loaded[c] + 1 \in 1..Len(g)
      /\ DOMAIN g = 1..Len(g) /\ Len(g) \in Nat
  BY CurrentLoader, GroupMembers
<1>3. data' = data
  BY <1>1 DEF Applied
<1>4. UNCHANGED <<file, reloading, pc, todo, before>>
  BY DEF Load
<1>5. TypeOK'
  <2>1. file[l] \in Version
    BY <1>1, <1>2 DEF TypeOK
  <2>2. staged' \in [Loader -> Version \cup {None}]
    BY <1>1, <1>2, StagingType DEF TypeOK
  <2>3. newHash' \in [Caller -> [Loader -> Version \cup {None}]]
    <3> HIDE DEF l
    <3>1. newHash' = [newHash EXCEPT ![c][l] = file[l]]
      BY <1>1 DEF l
    <3> QED
      BY <3>1, <1>2, <2>1 DEF TypeOK
  <2>4. /\ pending' \in [Caller -> SUBSET Group] /\ ready' \in [Caller -> SUBSET Group]
        /\ group' \in [Caller -> Group \cup {None}] /\ loaded' \in [Caller -> Nat]
    <3>1. CASE loaded[c] + 1 = Len(g)
      <4>1. /\ pending' = [pending EXCEPT ![c] = @ \ {g}]
            /\ group' = [group EXCEPT ![c] = None]
            /\ loaded' = [loaded EXCEPT ![c] = 0]
            /\ ready' = [ready EXCEPT ![c] = @ \cup {g}]
        BY <1>1, <3>1
      <4>2. pending[c] \ {g} \in SUBSET Group /\ ready[c] \cup {g} \in SUBSET Group
        BY <1>2 DEF TypeOK
      <4> QED
        BY <4>1, <4>2 DEF TypeOK
    <3>2. CASE loaded[c] + 1 # Len(g)
      <4>1. /\ group' = [group EXCEPT ![c] = g]
            /\ loaded' = [loaded EXCEPT ![c] = @ + 1]
            /\ UNCHANGED <<pending, ready>>
        BY <1>1, <3>2
      <4> QED
        BY <1>2, <4>1 DEF TypeOK
    <3> QED
      BY <3>1, <3>2
  <2> QED
    BY <1>3, <1>4, <2>2, <2>3, <2>4 DEF TypeOK
<1>6. Position'
  <2>1. CASE loaded[c] + 1 = Len(g)
    <3>1. /\ group' = [group EXCEPT ![c] = None]
          /\ loaded' = [loaded EXCEPT ![c] = 0]
      BY <1>1, <2>1
    <3> QED
      BY <3>1 DEF Position, TypeOK
  <2>2. CASE loaded[c] + 1 # Len(g)
    <3>1. /\ group' = [group EXCEPT ![c] = g]
          /\ loaded' = [loaded EXCEPT ![c] = @ + 1]
      BY <1>1, <2>2
    <3>2. (loaded[c] + 1) + 1 \in DOMAIN g /\ g # None
      <4>1. g # None
        BY <1>2, ReloadAssumption
      <4>2. (loaded[c] + 1) + 1 \in 1..Len(g)
        BY <1>2, <2>2
      <4> QED
        BY <1>2, <4>1, <4>2
    <3>3. group'[c] = g /\ loaded'[c] = loaded[c] + 1
      BY <3>1 DEF TypeOK
    <3>4. \A d \in Caller \ {c} : group'[d] = group[d] /\ loaded'[d] = loaded[d]
      BY <3>1 DEF TypeOK
    <3> QED
      BY <3>2, <3>3, <3>4 DEF Position
  <2> QED
    BY <2>1, <2>2
<1>7. OneReload' /\ LoadingKeepsData'
  BY <1>3, <1>4 DEF OneReload, Running, LoadingKeepsData
<1> QED
  BY <1>5, <1>6, <1>7

(* A reload that runs ends, whichever way: there is none any more.         *)
LEMMA LeaveIInv ==
    ASSUME ReloadIInv, NEW c \in Caller, Running(c), NEW state \in {"ok", "failed"},
           Leave(c, state), reloading' = FALSE, UNCHANGED <<file, data, todo>>,
           staged' \in [Loader -> Version \cup {None}]
    PROVE  ReloadIInv'
<1> USE DEF ReloadIInv
<1>1. TypeOK'
  BY DEF Leave, Goto, TypeOK
<1>2. Position'
  BY DEF Leave, Position, TypeOK
<1>3. \A d \in Caller : ~Running(d)'
  BY DEF Leave, Goto, OneReload, Running, TypeOK
<1>4. OneReload' /\ LoadingKeepsData'
  BY <1>3 DEF OneReload, LoadingKeepsData, Running
<1> QED
  BY <1>1, <1>2, <1>4

LEMMA LoadFailsIInv ==
    ASSUME ReloadIInv, NEW c \in Caller, LoadFails(c)
    PROVE  ReloadIInv'
<1> USE DEF ReloadIInv
<1>1. PICK g \in Current(c) :
        staged' = [k \in Loader |->
                    IF k \in Members(ready[c]) THEN None
                    ELSE IF k = g[loaded[c] + 1] THEN Staging(k)
                    ELSE staged[k]]
  BY DEF LoadFails
<1>2. staged' \in [Loader -> Version \cup {None}]
  BY <1>1, StagingType DEF TypeOK
<1>3. Running(c)
  BY DEF LoadFails, Running
<1> QED
  BY <1>2, <1>3, LeaveIInv DEF LoadFails, Released

LEMMA StartCommitIInv ==
    ASSUME ReloadIInv, NEW c \in Caller, StartCommit(c)
    PROVE  ReloadIInv'
<1> USE DEF ReloadIInv
<1>1. todo' \in [Caller -> SUBSET Loader]
  <2>1. ready[c] \in SUBSET Group
    BY DEF TypeOK
  <2>2. Members(ready[c]) \in SUBSET Loader
    BY <2>1, MembersAreLoaders
  <2> QED
    BY <2>2 DEF StartCommit, TypeOK
<1>2. TypeOK'
  BY <1>1 DEF StartCommit, Goto, TypeOK, loaderVars, historyVars
<1>3. Position'
  BY DEF StartCommit, Position
<1>4. \A d \in Caller : Running(d)' <=> Running(d)
  BY DEF StartCommit, Goto, Running, TypeOK
<1>5. OneReload'
  BY <1>4 DEF StartCommit, OneReload
<1>6. LoadingKeepsData'
  BY DEF StartCommit, Goto, LoadingKeepsData, TypeOK, loaderVars, historyVars
<1> QED
  BY <1>2, <1>3, <1>5, <1>6

LEMMA CommitOneIInv ==
    ASSUME ReloadIInv, NEW c \in Caller, CommitOne(c)
    PROVE  ReloadIInv'
<1> USE DEF ReloadIInv
<1>1. PICK l \in todo[c] :
        /\ data' = [data EXCEPT ![l] = IF staged[l] # None THEN staged[l] ELSE @]
        /\ staged' = [staged EXCEPT ![l] = None]
        /\ todo' = [todo EXCEPT ![c] = @ \ {l}]
  BY DEF CommitOne
<1>2. TypeOK'
  BY <1>1 DEF CommitOne, TypeOK, historyVars
<1>3. Position' /\ OneReload'
  BY DEF CommitOne, Position, OneReload, Running
<1>4. \A d \in Caller : pc'[d] # "loading"
  BY DEF CommitOne, OneReload, Running
<1>5. LoadingKeepsData'
  BY <1>4 DEF LoadingKeepsData
<1> QED
  BY <1>2, <1>3, <1>5

LEMMA SucceedIInv ==
    ASSUME ReloadIInv, NEW c \in Caller, Succeed(c)
    PROVE  ReloadIInv'
<1>1. Running(c)
  BY DEF Succeed, Running
<1>2. staged' \in [Loader -> Version \cup {None}]
  BY DEF ReloadIInv, TypeOK, Succeed, loaderVars
<1> QED
  BY <1>1, <1>2, LeaveIInv DEF Succeed, loaderVars

LEMMA ReturnIInv ==
    ASSUME ReloadIInv, NEW c \in Caller, Return(c)
    PROVE  ReloadIInv'
<1> USE DEF ReloadIInv
<1>1. TypeOK'
  BY DEF Return, Goto, TypeOK, loaderVars, localVars, historyVars
<1>2. Position' /\ OneReload' /\ LoadingKeepsData'
  BY DEF Return, Goto, Position, OneReload, Running, LoadingKeepsData, TypeOK, loaderVars, localVars, historyVars
<1> QED
  BY <1>1, <1>2

LEMMA EditIInv ==
    ASSUME ReloadIInv, NEW l \in Loader, Edit(l)
    PROVE  ReloadIInv'
BY DEF ReloadIInv, Edit, TypeOK, Position, OneReload, Running, LoadingKeepsData, loaderVars, localVars, historyVars

LEMMA ReloadStepIInv == ReloadIInv /\ [Next]_vars => ReloadIInv'
<1> SUFFICES ASSUME ReloadIInv, [Next]_vars PROVE ReloadIInv'
  OBVIOUS
<1>1. CASE UNCHANGED vars
  BY <1>1 DEF ReloadIInv, TypeOK, Position, OneReload, Running, LoadingKeepsData, vars, loaderVars, localVars, historyVars
<1>2. ASSUME NEW c \in Caller, Step(c)
      PROVE  ReloadIInv'
  BY <1>2, BeginIInv, RefuseReloadIInv, LoadIInv, LoadFailsIInv, StartCommitIInv, CommitOneIInv,
     SucceedIInv, ReturnIInv DEF Step
<1>3. ASSUME NEW l \in Loader, Edit(l)
      PROVE  ReloadIInv'
  BY <1>3, EditIInv
<1> QED
  BY <1>1, <1>2, <1>3 DEF Next

-----------------------------------------------------------------------------
(* data_loader.go LoadAndStage: what queries look at (data) and what may   *)
(* become it (staged) always parsed, whatever is in the files.             *)
THEOREM ReloadTypeCorrect == Spec => []TypeOK
<1>1. ReloadIInv => TypeOK
  BY DEF ReloadIInv
<1> QED
  BY ReloadInitIInv, ReloadStepIInv, <1>1, PTL DEF Spec

(* api_reload.go Reload: the compare-and-swap on reloading keeps reloads   *)
(* apart, and whichever way a reload ends it is taken back: a failure does *)
(* not lock out the reloads to come.                                       *)
THEOREM ReloadsApart == Spec => []OneReload
<1>1. ReloadIInv => OneReload
  BY DEF ReloadIInv
<1> QED
  BY ReloadInitIInv, ReloadStepIInv, <1>1, PTL DEF Spec

(* api_reload.go Reload: a reload that fails leaves every loader with what *)
(* it served when the reload began, however many files it had loaded.      *)
THEOREM ReloadFailureKeepsData == Spec => FailureKeepsData
<1>1. ReloadIInv /\ [Next]_vars =>
        [\A c \in Caller : pc[c] = "loading" /\ pc'[c] = "failed" => data = before[c]]_vars
  BY DEF ReloadIInv, LoadingKeepsData
<1> QED
  BY ReloadInitIInv, ReloadStepIInv, <1>1, PTL DEF Spec, FailureKeepsData
=============================================================================
