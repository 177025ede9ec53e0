---------------------------- MODULE MessagesProofs ----------------------------
(***************************************************************************)
(* Proofs about Messages and Replies, for every value of the constants:    *)
(* what packing makes of a message, what unpacking makes of that, and what *)
(* a reply is.                                                             *)
(*                                                                         *)
(* The library's induction theorems take an operator as a parameter and    *)
(* cannot be instantiated here, so induction goes through sets: a set of   *)
(* naturals that is not empty has a least element, hence one that has 0    *)
(* and the successor of each of its elements has every natural, and a      *)
(* recursive definition has a solution.                                    *)
(***************************************************************************)
EXTENDS Replies, WellFoundedInduction, FiniteSetTheorems, SequenceTheorems, TLAPS

(* Numbers and recursive definitions. What follows is what the proofs of   *)
(* every part use in place of an induction theorem.                        *)

(* Every non-empty set of naturals has a least element. *)
LEMMA Least ==
    ASSUME NEW T \in SUBSET Nat, T # {}
    PROVE  \E x \in T : \A y \in T : x <= y
<1> DEFINE R == OpToRel(<, Nat)
<1>1. IsWellFoundedOn(R, Nat)
  BY NatLessThanWellFounded
<1>2. \E x \in T : \A y \in T : <<y, x>> \notin R
  <2> HIDE DEF R
  <2> QED BY <1>1, WFMin
<1>3. \A x \in T : \A y \in T : <<y, x>> \notin R => ~(y < x)
  BY Zenon DEF OpToRel
<1> HIDE DEF R
<1>4. PICK x \in T : \A y \in T : ~(y < x)
  BY <1>2, <1>3, Zenon
<1>5. \A y \in T : x <= y
  BY <1>4
<1> QED BY <1>5

(* Induction over the naturals. *)
LEMMA Induction ==
    ASSUME NEW T, 0 \in T, \A n \in T \cap Nat : n + 1 \in T
    PROVE  Nat \subseteq T
<1> DEFINE U == Nat \ T
<1>1. SUFFICES ASSUME U # {} PROVE FALSE
  OBVIOUS
<1>2. PICK x \in U : \A y \in U : x <= y
  BY <1>1, Least, U \subseteq Nat, Zenon
<1>3. x \in Nat /\ x # 0 /\ x \notin T
  OBVIOUS
<1>4. x - 1 \in Nat /\ x - 1 \notin U
  BY <1>2, <1>3
<1>5. (x - 1) + 1 = x /\ x - 1 \in T
  BY <1>3, <1>4
<1> QED BY <1>3, <1>4, <1>5

(* Induction that may use every smaller number. *)
LEMMA StrongInduction ==
    ASSUME NEW T, \A n \in Nat : (\A m \in 0..(n - 1) : m \in T) => n \in T
    PROVE  Nat \subseteq T
<1> DEFINE U == Nat \ T
<1>1. SUFFICES ASSUME U # {} PROVE FALSE
  OBVIOUS
<1>2. PICK x \in U : \A y \in U : x <= y
  BY <1>1, Least, U \subseteq Nat, Zenon
<1>3. \A m \in 0..(x - 1) : m \in T
  BY <1>2
<1> QED BY <1>3

(* What a loop over 1..n computes, turn by turn. *)
Runs(g, base, n, step) == g[0] = base /\ \A i \in 1..n : g[i] = step[<<i, g[i - 1]>>]

(* A function of the naturals up to n can be defined by recursion. *)
LEMMA Recursion ==
    ASSUME NEW S, NEW base \in S, NEW n \in Nat, NEW step \in [(1..n) \X S -> S]
    PROVE  \E g \in [0..n -> S] : Runs(g, base, n, step)
<1> DEFINE Good(m) == \E g \in [0..m -> S] :
                         g[0] = base /\ \A i \in 1..m : g[i] = step[<<i, g[i - 1]>>]
           T == {m \in Nat : m <= n => Good(m)}
<1>1. 0 \in T
  <2> DEFINE g == [i \in 0..0 |-> base]
  <2>1. g \in [0..0 -> S] /\ g[0] = base
    OBVIOUS
  <2>2. \A i \in 1..0 : g[i] = step[<<i, g[i - 1]>>]
    OBVIOUS
  <2> QED BY <2>1, <2>2
<1>2. ASSUME NEW m \in T, m + 1 <= n PROVE Good(m + 1)
  <2>0. m \in Nat
    OBVIOUS
  <2>1. PICK g \in [0..m -> S] : g[0] = base /\ \A i \in 1..m : g[i] = step[<<i, g[i - 1]>>]
    BY <1>2
  <2> DEFINE h == [i \in 0..(m + 1) |-> IF i = m + 1 THEN step[<<m + 1, g[m]>>] ELSE g[i]]
  <2>2. <<m + 1, g[m]>> \in (1..n) \X S
    BY <2>0, <2>1, <1>2
  <2>3. h \in [0..(m + 1) -> S] /\ h[0] = base
    BY <2>0, <2>1, <2>2
  <2>4. ASSUME NEW i \in 1..(m + 1) PROVE h[i] = step[<<i, h[i - 1]>>]
    <3>1. i \in 0..(m + 1) /\ i - 1 \in 0..(m + 1) /\ i - 1 # m + 1
      BY <2>0
    <3>2. h[i - 1] = g[i - 1]
      BY <3>1
    <3>3. CASE i = m + 1
      BY <3>1, <3>2, <3>3, <2>0
    <3>4. CASE i \in 1..m
      BY <3>1, <3>2, <3>4, <2>0, <2>1
    <3> QED BY <3>3, <3>4, <2>0
  <2> QED BY <2>3, <2>4
<1>3. Nat \subseteq T
  <2>1. \A m \in T \cap Nat : m + 1 \in T
    BY <1>2
  <2> QED BY <1>1, <2>1, Induction, Zenon
<1>4. Good(n)
  BY <1>3
<1> QED BY <1>4 DEF Runs
(* What holds before a loop and is kept by each of its turns holds after it. *)
LEMMA UpTo ==
    ASSUME NEW n \in Nat, NEW T, 0 \in T, \A k \in 1..n : k - 1 \in T => k \in T
    PROVE  \A k \in 0..n : k \in T
<1> DEFINE U == {k \in Nat : k \in 0..n => k \in T}
<1>1. 0 \in U
  OBVIOUS
<1>2. \A k \in U \cap Nat : k + 1 \in U
  <2>1. ASSUME NEW k \in U, k + 1 \in 0..n PROVE k + 1 \in T
    <3>1. k \in Nat /\ k \in 0..n /\ k + 1 \in 1..n /\ (k + 1) - 1 = k
      BY <2>1
    <3> QED BY <3>1
  <2> QED BY <2>1
<1>3. Nat \subseteq U
  <2> HIDE DEF U
  <2> QED BY <1>1, <1>2, Induction
<1> QED BY <1>3

(* A finite set with two elements has more than one.                        *)
LEMMA TwoElements ==
    ASSUME NEW S, IsFiniteSet(S), NEW j \in S, NEW k \in S, j # k
    PROVE  Cardinality(S) > 1
<1>1. IsFiniteSet({j}) /\ Cardinality({j}) = 1
  BY FS_Singleton
<1>2. k \notin {j}
  OBVIOUS
<1>3. Cardinality({j} \cup {k}) = Cardinality({j}) + 1
  BY <1>1, <1>2, FS_AddElement
<1>4. {j} \cup {k} \subseteq S
  OBVIOUS
<1>5. Cardinality({j} \cup {k}) <= Cardinality(S) /\ Cardinality(S) \in Nat
  BY <1>4, FS_Subset, FS_CardinalityType
<1> QED BY <1>1, <1>3, <1>5

-----------------------------------------------------------------------------
(* Packing: each stage takes what it was to take, within the limit.        *)

(* The partial sums of n numbers. *)
Sums(u, n, s) == u[0] = 0 /\ \A k \in 1..n : u[k] = u[k - 1] + s[k]

(* SumOf is the last of the partial sums. *)
LEMMA SumOfSums ==
    ASSUME NEW n \in Nat, NEW s \in [1..n -> Nat]
    PROVE  \E u \in [0..n -> Nat] : Sums(u, n, s) /\ SumOf(s) = u[n]
<1> DEFINE F(f) == [k \in 0..n |-> IF k = 0 THEN 0 ELSE f[k - 1] + s[k]]
           Upto == CHOOSE f : f = F(f)
           step == [x \in (1..n) \X Nat |-> x[2] + s[x[1]]]
<1>0. s \in Seq(Nat) /\ Len(s) = n
  OBVIOUS
<1>1. SumOf(s) = Upto[n]
  BY <1>0, Zenon DEF SumOf
<1>2. \E g : g = F(g)
  <2>1. step \in [(1..n) \X Nat -> Nat]
    OBVIOUS
  <2> HIDE DEF step
  <2>2. PICK g \in [0..n -> Nat] : Runs(g, 0, n, step)
    BY <2>1, Recursion
  <2>3. ASSUME NEW k \in 0..n PROVE g[k] = IF k = 0 THEN 0 ELSE g[k - 1] + s[k]
    <3>1. CASE k # 0
      <4>1. k \in 1..n /\ k - 1 \in 0..n
        BY <3>1
      <4>2. <<k, g[k - 1]>> \in (1..n) \X Nat
        BY <4>1
      <4>3. g[k] = step[<<k, g[k - 1]>>]
        BY <2>2, <4>1 DEF Runs
      <4> QED BY <3>1, <4>2, <4>3 DEF step
    <3>2. CASE k = 0
      BY <2>2, <3>2 DEF Runs
    <3> QED BY <3>1, <3>2
  <2> QED BY <2>3
<1>3. Upto = F(Upto)
  <2> HIDE DEF F
  <2> QED BY <1>2
<1> HIDE DEF Upto
<1>4. \A k \in 0..n : Upto[k] = IF k = 0 THEN 0 ELSE Upto[k - 1] + s[k]
  BY <1>3
<1>5. Sums(Upto, n, s)
  BY <1>4 DEF Sums
<1> DEFINE T == {k \in 0..n : Upto[k] \in Nat}
<1>6. \A k \in 0..n : k \in T
  <2>1. 0 \in T
    BY <1>4
  <2>2. ASSUME NEW k \in 1..n, k - 1 \in T PROVE k \in T
    <3>1. k \in 0..n /\ Upto[k] = Upto[k - 1] + s[k] /\ Upto[k - 1] \in Nat /\ s[k] \in Nat
      BY <1>4, <2>2
    <3> QED BY <3>1
  <2> HIDE DEF T
  <2> QED BY <2>1, <2>2, UpTo
<1>7. Upto \in [0..n -> Nat]
  <2>1. Upto = [k \in 0..n |-> Upto[k]]
    BY <1>3
  <2> QED BY <1>6, <2>1
<1> QED BY <1>1, <1>5, <1>7

(* Sums of terms that are no larger are no larger, whatever the first bounds. *)
LEMMA SumLeq ==
    ASSUME NEW n \in Nat, NEW s \in [1..n -> Nat], NEW t \in [1..n -> Nat], \A k \in 1..n : s[k] <= t[k]
    PROVE  SumOf(s) \in Nat /\ SumOf(t) \in Nat /\ SumOf(s) <= SumOf(t)
<1>1. PICK u \in [0..n -> Nat] : Sums(u, n, s) /\ SumOf(s) = u[n]
  BY SumOfSums
<1>2. PICK v \in [0..n -> Nat] : Sums(v, n, t) /\ SumOf(t) = v[n]
  BY SumOfSums
<1> DEFINE T == {k \in 0..n : u[k] <= v[k]}
<1>3. 0 \in T
  BY <1>1, <1>2 DEF Sums
<1>4. \A k \in 1..n : k - 1 \in T => k \in T
  <2>1. ASSUME NEW k \in 1..n, u[k - 1] <= v[k - 1] PROVE u[k] <= v[k]
    <3>1. u[k] = u[k - 1] + s[k] /\ v[k] = v[k - 1] + t[k]
      BY <1>1, <1>2 DEF Sums
    <3>2. k - 1 \in 0..n /\ s[k] \in Nat /\ t[k] \in Nat /\ s[k] <= t[k]
      OBVIOUS
    <3>3. u[k - 1] \in Nat /\ v[k - 1] \in Nat
      BY <3>2
    <3> QED BY <2>1, <3>1, <3>2, <3>3
  <2> QED BY <2>1
<1>5. n \in T
  <2> HIDE DEF T
  <2>1. \A k \in 0..n : k \in T
    BY <1>3, <1>4, UpTo
  <2> QED BY <2>1
<1> QED BY <1>1, <1>2, <1>5

(* One more term. *)
LEMMA SumStep ==
    ASSUME NEW n \in Nat, NEW s \in [1..n -> Nat], NEW t \in [1..(n + 1) -> Nat],
           \A k \in 1..n : t[k] = s[k]
    PROVE  SumOf(s) \in Nat /\ SumOf(t) = SumOf(s) + t[n + 1]
<1>1. PICK u \in [0..n -> Nat] : Sums(u, n, s) /\ SumOf(s) = u[n]
  BY SumOfSums
<1>2. PICK v \in [0..(n + 1) -> Nat] : Sums(v, n + 1, t) /\ SumOf(t) = v[n + 1]
  <2> DEFINE m == n + 1
  <2>1. m \in Nat /\ t \in [1..m -> Nat]
    OBVIOUS
  <2> HIDE DEF m
  <2>2. \E v \in [0..m -> Nat] : Sums(v, m, t) /\ SumOf(t) = v[m]
    BY <2>1, SumOfSums
  <2> QED BY <2>2 DEF m
<1> DEFINE T == {k \in 0..n : u[k] = v[k]}
<1>3. 0 \in T
  BY <1>1, <1>2 DEF Sums
<1>4. \A k \in 1..n : k - 1 \in T => k \in T
  <2>1. ASSUME NEW k \in 1..n, u[k - 1] = v[k - 1] PROVE u[k] = v[k]
    BY <1>1, <1>2, <2>1 DEF Sums
  <2> QED BY <2>1
<1>5. n \in T
  <2> HIDE DEF T
  <2>1. \A k \in 0..n : k \in T
    BY <1>3, <1>4, UpTo
  <2> QED BY <2>1
<1>6. v[n + 1] = v[n] + t[n + 1]
  <2>1. n + 1 \in 1..(n + 1) /\ (n + 1) - 1 = n
    OBVIOUS
  <2> QED BY <1>2, <2>1 DEF Sums
<1> QED BY <1>1, <1>2, <1>5, <1>6

(* Nothing sums to 0. *)
LEMMA SumNone == SumOf(<<>>) = 0
<1> DEFINE n == 0
           s == <<>>
<1>1. n \in Nat /\ s \in [1..n -> Nat]
  OBVIOUS
<1> HIDE DEF s, n
<1>2. PICK u \in [0..n -> Nat] : Sums(u, n, s) /\ SumOf(s) = u[n]
  BY <1>1, SumOfSums
<1> QED BY <1>2 DEF Sums, n, s

(* A label takes a byte at least. *)
LEMMA LabelBytes ==
    ASSUME NEW l \in Labels
    PROVE  LabelSize[l] \in Nat /\ LabelSize[l] >= 1
BY MessagesAssumption

(* The offset of a label in its name grows by the bytes of the label        *)
(* before it.                                                               *)
LEMMA BytesBeforeSteps ==
    ASSUME NEW name \in NameSet
    PROVE  /\ Len(name) \in Nat /\ BytesBefore(name, 1) = 0
           /\ \A i \in 1..(Len(name) + 1) : BytesBefore(name, i) \in Nat
           /\ \A i \in 1..Len(name) :
                /\ LabelSize[name[i]] \in Nat /\ LabelSize[name[i]] >= 1
                /\ BytesBefore(name, i + 1) = BytesBefore(name, i) + LabelSize[name[i]]
<1> DEFINE n == Len(name)
           B(m) == [k \in 1..m |-> LabelSize[name[k]]]
<1>1. n \in Nat /\ \A i \in 1..n : name[i] \in Labels
  BY DEF NameSet
<1> HIDE DEF n
<1>2. ASSUME NEW m \in 0..n PROVE m \in Nat /\ B(m) \in [1..m -> Nat]
  <2>1. \A k \in 1..m : LabelSize[name[k]] \in Nat
    BY <1>1, LabelBytes
  <2> QED BY <1>1, <2>1
<1>3. ASSUME NEW i \in 1..(n + 1) PROVE BytesBefore(name, i) = SumOf(B(i - 1)) /\ BytesBefore(name, i) \in Nat
  <2>1. BytesBefore(name, i) = SumOf(B(i - 1))
    BY DEF BytesBefore
  <2>2. i - 1 \in 0..n
    BY <1>1
  <2> DEFINE m == i - 1
             b == B(m)
  <2>3. m \in Nat /\ b \in [1..m -> Nat]
    BY <1>2, <2>2
  <2>4. BytesBefore(name, i) = SumOf(b)
    BY <2>1
  <2> HIDE DEF m, b
  <2>5. SumOf(b) \in Nat
    BY <2>3, SumLeq
  <2> QED BY <2>1, <2>4, <2>5
<1>4. BytesBefore(name, 1) = 0
  <2>1. 1 \in 1..(n + 1)
    BY <1>1
  <2>2. B(1 - 1) = <<>>
    OBVIOUS
  <2> QED BY <1>3, <2>1, <2>2, SumNone
<1>5. ASSUME NEW i \in 1..n
      PROVE  /\ LabelSize[name[i]] \in Nat /\ LabelSize[name[i]] >= 1
             /\ BytesBefore(name, i + 1) = BytesBefore(name, i) + LabelSize[name[i]]
  <2> DEFINE m == i - 1
             s == B(m)
             t == B(i)
  <2>1. m \in 0..n /\ i \in 0..n /\ m + 1 = i /\ i \in 1..(n + 1) /\ i + 1 \in 1..(n + 1) /\ (i + 1) - 1 = i
    BY <1>1
  <2>2. m \in Nat /\ s \in [1..m -> Nat] /\ t \in [1..(m + 1) -> Nat]
    BY <1>2, <2>1
  <2>3. \A k \in 1..m : t[k] = s[k]
    BY <2>1
  <2>4. t[i] = LabelSize[name[i]]
    OBVIOUS
  <2>5. BytesBefore(name, i) = SumOf(s) /\ BytesBefore(name, i + 1) = SumOf(t)
    <3>1. BytesBefore(name, i) = SumOf(B(i - 1)) /\ BytesBefore(name, i + 1) = SumOf(B((i + 1) - 1))
      BY <1>3, <2>1
    <3> QED BY <2>1, <3>1
  <2> HIDE DEF m, s, t
  <2>6. SumOf(t) = SumOf(s) + t[m + 1]
    BY <2>2, <2>3, SumStep
  <2>7. LabelSize[name[i]] \in Nat /\ LabelSize[name[i]] >= 1
    BY <1>1, LabelBytes
  <2> QED BY <2>1, <2>4, <2>5, <2>6, <2>7
<1> QED BY <1>1, <1>3, <1>4, <1>5 DEF n

(* A whole name takes its labels and the byte that ends it. *)
LEMMA NameBytesIs ==
    ASSUME NEW name \in NameSet
    PROVE  NameBytes(name) = BytesBefore(name, Len(name) + 1) + 1 /\ NameBytes(name) \in Nat
<1>1. Len(name) \in Nat /\ (Len(name) + 1) - 1 = Len(name)
  BY DEF NameSet
<1>2. NameBytes(name) = BytesBefore(name, Len(name) + 1) + 1
  BY <1>1 DEF NameBytes, BytesBefore
<1> QED BY <1>1, <1>2, BytesBeforeSteps

(* A later label starts at a larger offset. *)
LEMMA BytesBeforeGrows ==
    ASSUME NEW name \in NameSet, NEW i \in 1..(Len(name) + 1), NEW j \in 1..(Len(name) + 1), i < j
    PROVE  BytesBefore(name, i) + 1 <= BytesBefore(name, j)
<1> DEFINE n == Len(name)
           T == {k \in 0..n : i < k + 1 => BytesBefore(name, i) + 1 <= BytesBefore(name, k + 1)}
<1>0. /\ n \in Nat /\ \A k \in 1..(n + 1) : BytesBefore(name, k) \in Nat
      /\ \A k \in 1..n : /\ LabelSize[name[k]] \in Nat /\ LabelSize[name[k]] >= 1
                         /\ BytesBefore(name, k + 1) = BytesBefore(name, k) + LabelSize[name[k]]
  BY BytesBeforeSteps
<1> HIDE DEF n
<1>1. 0 \in T
  BY <1>0 DEF n
<1>2. ASSUME NEW k \in 1..n, k - 1 \in T, i < k + 1 PROVE BytesBefore(name, i) + 1 <= BytesBefore(name, k + 1)
  <2>a. /\ LabelSize[name[k]] \in Nat /\ LabelSize[name[k]] >= 1 /\ BytesBefore(name, k) \in Nat
        /\ BytesBefore(name, k + 1) = BytesBefore(name, k) + LabelSize[name[k]]
    <3>1. k \in 1..(n + 1)
      BY <1>0
    <3> QED BY <1>0, <3>1
  <2>b. BytesBefore(name, k) + 1 <= BytesBefore(name, k + 1)
    BY <2>a
  <2>1. CASE i = k
    BY <2>b, <2>1
  <2>2. CASE i < k
    <3>1. (k - 1) + 1 = k /\ k \in 1..(n + 1) /\ i \in 1..(n + 1)
      BY <1>0 DEF n
    <3>2. BytesBefore(name, i) + 1 <= BytesBefore(name, k)
      BY <1>2, <2>2, <3>1
    <3>3. BytesBefore(name, i) \in Nat /\ BytesBefore(name, k + 1) \in Nat
      <4>1. k + 1 \in 1..(n + 1)
        BY <1>0
      <4> QED BY <1>0, <3>1, <4>1
    <3> QED BY <2>a, <2>b, <3>2, <3>3
  <2> QED BY <1>0, <1>2, <2>1, <2>2
<1>3. \A k \in 0..n : k \in T
  <2>1. \A k \in 1..n : k - 1 \in T => k \in T
    BY <1>2
  <2> HIDE DEF T
  <2> QED BY <1>0, <1>1, <2>1, UpTo
<1>4. j - 1 \in 0..n /\ (j - 1) + 1 = j
  BY <1>0 DEF n
<1> QED BY <1>3, <1>4

PtrMaps == UNION {[D -> Nat] : D \in SUBSET NameSet}

(* A pointer is taken at the first label whose suffix is known.             *)
LEMMA FirstHitIs ==
    ASSUME NEW ptrs, NEW name \in NameSet
    PROVE  LET i == FirstHit(ptrs, name)
           IN  /\ i \in 1..(Len(name) + 1)
               /\ i <= Len(name) => Suffix(name, i) \in DOMAIN ptrs
               /\ \A j \in 1..Len(name) : Suffix(name, j) \in DOMAIN ptrs => i <= j
<1> DEFINE hits == Hit(ptrs, name)
           i == FirstHit(ptrs, name)
<1>0. Len(name) \in Nat
  BY DEF NameSet
<1>1. hits \subseteq 1..Len(name) /\ \A j \in 1..Len(name) : j \in hits <=> Suffix(name, j) \in DOMAIN ptrs
  BY DEF Hit
<1>2. i = IF hits = {} THEN Len(name) + 1 ELSE CHOOSE x \in hits : \A j \in hits : x <= j
  BY Zenon DEF FirstHit
<1> HIDE DEF hits, i
<1>3. ASSUME hits = {}
      PROVE  /\ i \in 1..(Len(name) + 1)
             /\ i <= Len(name) => Suffix(name, i) \in DOMAIN ptrs
             /\ \A j \in 1..Len(name) : Suffix(name, j) \in DOMAIN ptrs => i <= j
  <2>1. i = Len(name) + 1
    BY <1>2, <1>3
  <2>2. \A j \in 1..Len(name) : Suffix(name, j) \notin DOMAIN ptrs
    BY <1>1, <1>3
  <2> QED BY <1>0, <2>1, <2>2
<1>4. ASSUME hits # {}
      PROVE  /\ i \in 1..(Len(name) + 1)
             /\ i <= Len(name) => Suffix(name, i) \in DOMAIN ptrs
             /\ \A j \in 1..Len(name) : Suffix(name, j) \in DOMAIN ptrs => i <= j
  <2>1. hits \in SUBSET Nat
    BY <1>0, <1>1
  <2>2. \E x \in hits : \A j \in hits : x <= j
    BY <1>4, <2>1, Least
  <2>3. i \in hits /\ \A j \in hits : i <= j
    BY <1>2, <1>4, <2>2
  <2> QED BY <1>0, <1>1, <2>3
<1>5. /\ i \in 1..(Len(name) + 1)
      /\ i <= Len(name) => Suffix(name, i) \in DOMAIN ptrs
      /\ \A j \in 1..Len(name) : Suffix(name, j) \in DOMAIN ptrs => i <= j
  BY <1>3, <1>4
<1> QED BY <1>5, Zenon DEF i

(* Remembering more suffixes never makes a name longer.                     *)
LEMMA NameLenShrinks ==
    ASSUME NEW p, NEW q, DOMAIN p \subseteq DOMAIN q, NEW name \in NameSet
    PROVE  /\ NameLen(p, name) \in Nat /\ NameLen(q, name) \in Nat
           /\ 1 <= NameLen(q, name) /\ NameLen(q, name) <= NameLen(p, name)
<1> DEFINE n == Len(name)
           i == FirstHit(p, name)
           j == FirstHit(q, name)
<1>1. /\ i \in 1..(n + 1) /\ j \in 1..(n + 1)
      /\ i <= n => Suffix(name, i) \in DOMAIN p
      /\ \A k \in 1..n : Suffix(name, k) \in DOMAIN q => j <= k
  BY FirstHitIs
<1>2. n \in Nat /\ BytesBefore(name, i) \in Nat /\ BytesBefore(name, j) \in Nat
  BY <1>1, BytesBeforeSteps
<1>3. /\ NameLen(p, name) = BytesBefore(name, i) + IF i <= n THEN 2 ELSE 1
      /\ NameLen(q, name) = BytesBefore(name, j) + IF j <= n THEN 2 ELSE 1
  BY DEF NameLen
<1>4. j < i => BytesBefore(name, j) + 1 <= BytesBefore(name, i)
  BY <1>1, BytesBeforeGrows
<1> HIDE DEF i, j, n
<1>5. j <= i
  BY <1>1, <1>2
<1>6. i = j \/ j < i
  BY <1>1, <1>2, <1>5
<1> QED BY <1>1, <1>2, <1>3, <1>4, <1>6

(* Without compression packLen is the length of the whole name. *)
LEMMA NameLenWhole ==
    ASSUME NEW p, DOMAIN p = {}, NEW name \in NameSet
    PROVE  FirstHit(p, name) = Len(name) + 1 /\ NameLen(p, name) = NameBytes(name)
<1>1. FirstHit(p, name) = Len(name) + 1
  BY DEF FirstHit, Hit
<1>2. Len(name) \in Nat
  BY DEF NameSet
<1> QED BY <1>1, <1>2, NameBytesIs DEF NameLen

(* What has been packed so far, and what is packed on top of it.            *)
Values == Labels \cup Nat \cup [hdr : Headers, counts : Seq(Nat)] \cup (RRTypes \X Nat)
Kinds == {"header", "label", "end", "ptr", "fix", "qtype", "rr"}
Tokens == [t : Kinds, v : Values, size : Nat, at : Nat]
Packed == [w : Seq(Tokens), len : Nat, ptrs : PtrMaps, cut : BOOLEAN]

Grows(p, q) ==
    /\ Len(p.w) <= Len(q.w) /\ \A i \in 1..Len(p.w) : q.w[i] = p.w[i]
    /\ p.len <= q.len /\ DOMAIN p.ptrs \subseteq DOMAIN q.ptrs

(* The fields of what is packed so far. *)
LEMMA PackedFields ==
    ASSUME NEW p \in Packed
    PROVE  /\ p.w \in Seq(Tokens) /\ Len(p.w) \in Nat /\ p.len \in Nat
           /\ p.ptrs \in PtrMaps /\ p.cut \in BOOLEAN
           /\ DOMAIN p.ptrs \subseteq NameSet /\ \A s \in DOMAIN p.ptrs : p.ptrs[s] \in Nat
<1>1. p.w \in Seq(Tokens) /\ p.len \in Nat /\ p.ptrs \in PtrMaps /\ p.cut \in BOOLEAN
  BY DEF Packed
<1>2. PICK D \in SUBSET NameSet : p.ptrs \in [D -> Nat]
  BY <1>1 DEF PtrMaps
<1> QED BY <1>1, <1>2

(* Packing never changes or shortens what has been packed. *)
LEMMA GrowsOn ==
    ASSUME NEW p \in Packed, NEW q \in Packed, NEW r \in Packed, Grows(p, q), Grows(q, r)
    PROVE  Grows(p, r)
<1>1. /\ Len(p.w) \in Nat /\ Len(q.w) \in Nat /\ Len(r.w) \in Nat
      /\ p.len \in Nat /\ q.len \in Nat /\ r.len \in Nat
  BY PackedFields
<1>2. \A i \in 1..Len(p.w) : i \in 1..Len(q.w)
  BY <1>1 DEF Grows
<1> QED BY <1>1, <1>2 DEF Grows

(* q is p and one token more, of value v and b bytes. *)
Emitted(p, q, v, b) ==
    /\ q \in Packed /\ Grows(p, q)
    /\ q.len = p.len + b /\ q.ptrs = p.ptrs /\ q.cut = p.cut
    /\ Len(q.w) = Len(p.w) + 1 /\ q.w[Len(q.w)].v = v

(* One token more. *)
LEMMA EmitIs ==
    ASSUME NEW p \in Packed, NEW kd \in Kinds, NEW v \in Values, NEW b \in Nat
    PROVE  Emitted(p, Emit(p, kd, v, b), v, b)
<1> DEFINE tok == [t |-> kd, v |-> v, size |-> b, at |-> p.len]
           q == Emit(p, kd, v, b)
           w == Append(p.w, tok)
<1>1. /\ p.w \in Seq(Tokens) /\ Len(p.w) \in Nat /\ p.len \in Nat
      /\ p.ptrs \in PtrMaps /\ p.cut \in BOOLEAN
  BY PackedFields
<1>2. tok \in Tokens
  BY <1>1 DEF Tokens
<1>3. q = [p EXCEPT !.w = w, !.len = p.len + b]
  BY DEF Emit
<1> HIDE DEF tok, q
<1>4. /\ w \in Seq(Tokens) /\ Len(w) = Len(p.w) + 1 /\ w[Len(p.w) + 1] = tok
      /\ \A i \in 1..Len(p.w) : w[i] = p.w[i]
  BY <1>1, <1>2
<1> HIDE DEF w
<1>5. q.w = w /\ q.len = p.len + b /\ q.ptrs = p.ptrs /\ q.cut = p.cut /\ q \in Packed
  <2>1. q = [w |-> w, len |-> p.len + b, ptrs |-> p.ptrs, cut |-> p.cut]
    BY <1>3 DEF Packed
  <2>2. p.len + b \in Nat
    BY <1>1
  <2>3. [w |-> w, len |-> p.len + b, ptrs |-> p.ptrs, cut |-> p.cut] \in Packed
    BY <1>1, <1>4, <2>2, Zenon DEF Packed
  <2> QED BY <2>1, <2>3
<1>6. Grows(p, q)
  BY <1>1, <1>4, <1>5 DEF Grows
<1>7. tok.v = v
  BY DEF tok
<1>8. Emitted(p, q, v, b)
  BY <1>1, <1>4, <1>5, <1>6, <1>7 DEF Emitted
<1> QED BY <1>8 DEF q

(* What values tokens carry. *)
LEMMA ValuesAre == Labels \subseteq Values /\ Nat \subseteq Values /\ RRTypes \X Nat \subseteq Values
BY DEF Values

(* The loop of Name.pack over labels, turn by turn. *)
LEMMA EmitLabelsRuns ==
    ASSUME NEW p \in Packed, NEW ls \in NameSet
    PROVE  \E u \in [0..Len(ls) -> Packed] :
             /\ u[0] = p /\ u[Len(ls)] = EmitLabels(p, ls)
             /\ \A k \in 1..Len(ls) : u[k] = Emit(u[k - 1], "label", ls[k], LabelSize[ls[k]])
<1> DEFINE n == Len(ls)
           F(f) == [k \in 0..n |-> IF k = 0 THEN p ELSE Emit(f[k - 1], "label", ls[k], LabelSize[ls[k]])]
           Upto == CHOOSE f : f = F(f)
           step == [x \in (1..n) \X Packed |-> Emit(x[2], "label", ls[x[1]], LabelSize[ls[x[1]]])]
<1>1. EmitLabels(p, ls) = Upto[n]
  BY Zenon DEF EmitLabels
<1>2. ASSUME NEW s \in Packed, NEW k \in 1..n PROVE Emit(s, "label", ls[k], LabelSize[ls[k]]) \in Packed
  <2>1. ls[k] \in Labels
    BY DEF NameSet
  <2>2. ls[k] \in Values /\ LabelSize[ls[k]] \in Nat
    BY <2>1, ValuesAre, LabelBytes
  <2>3. "label" \in Kinds
    BY DEF Kinds
  <2>4. ASSUME NEW kd \in Kinds PROVE Emit(s, kd, ls[k], LabelSize[ls[k]]) \in Packed
    BY <2>2, EmitIs DEF Emitted
  <2> QED BY <2>3, <2>4, Zenon
<1>a. n \in Nat
  BY DEF NameSet
<1> HIDE DEF n
<1>3. \E g \in [0..n -> Packed] : g = F(g)
  <2>1. step \in [(1..n) \X Packed -> Packed]
    BY <1>2
  <2> HIDE DEF step
  <2>2. PICK g \in [0..n -> Packed] : Runs(g, p, n, step)
    BY <1>a, <2>1, Recursion
  <2>3. ASSUME NEW k \in 0..n PROVE g[k] = IF k = 0 THEN p ELSE Emit(g[k - 1], "label", ls[k], LabelSize[ls[k]])
    <3>1. CASE k # 0
      <4>1. k \in 1..n /\ k - 1 \in 0..n
        BY <1>a, <3>1
      <4>2. <<k, g[k - 1]>> \in (1..n) \X Packed
        BY <4>1
      <4>3. g[k] = step[<<k, g[k - 1]>>]
        BY <2>2, <4>1 DEF Runs
      <4> QED BY <3>1, <4>2, <4>3 DEF step
    <3>2. CASE k = 0
      BY <2>2, <3>2 DEF Runs
    <3> QED BY <3>1, <3>2
  <2> QED BY <2>3
<1>4. Upto = F(Upto)
  <2> HIDE DEF F
  <2> QED BY <1>3
<1> HIDE DEF Upto
<1>5. Upto[0] = p /\ \A k \in 1..n : Upto[k] = Emit(Upto[k - 1], "label", ls[k], LabelSize[ls[k]])
  <2>1. \A k \in 0..n : Upto[k] = IF k = 0 THEN p ELSE Emit(Upto[k - 1], "label", ls[k], LabelSize[ls[k]])
    BY <1>4
  <2>2. 0 \in 0..n /\ \A k \in 1..n : k \in 0..n /\ k # 0
    BY <1>a
  <2> QED BY <2>1, <2>2
<1> DEFINE T == {k \in 0..n : Upto[k] \in Packed}
<1>6. \A k \in 0..n : k \in T
  <2>1. 0 \in T
    BY <1>5, <1>a
  <2>2. \A k \in 1..n : k - 1 \in T => k \in T
    BY <1>2, <1>5
  <2> HIDE DEF T
  <2> QED BY <1>a, <2>1, <2>2, UpTo
<1>7. Upto \in [0..n -> Packed]
  <2>1. Upto = [k \in 0..n |-> Upto[k]]
    BY <1>4
  <2> QED BY <1>6, <2>1
<1> QED BY <1>1, <1>5, <1>7 DEF n

(* The labels of a name take its bytes, and change nothing else. *)
LEMMA EmitLabelsIs ==
    ASSUME NEW p \in Packed, NEW ls \in NameSet
    PROVE  LET q == EmitLabels(p, ls)
           IN  /\ q \in Packed /\ Grows(p, q) /\ q.ptrs = p.ptrs /\ q.cut = p.cut
               /\ q.len = p.len + BytesBefore(ls, Len(ls) + 1)
<1> DEFINE n == Len(ls)
           q == EmitLabels(p, ls)
<1>1. PICK u \in [0..n -> Packed] :
         /\ u[0] = p /\ u[n] = q
         /\ \A k \in 1..n : u[k] = Emit(u[k - 1], "label", ls[k], LabelSize[ls[k]])
  BY EmitLabelsRuns
<1>2. /\ n \in Nat /\ BytesBefore(ls, 1) = 0
      /\ \A i \in 1..(n + 1) : BytesBefore(ls, i) \in Nat
      /\ \A i \in 1..n : /\ LabelSize[ls[i]] \in Nat /\ LabelSize[ls[i]] >= 1
                         /\ BytesBefore(ls, i + 1) = BytesBefore(ls, i) + LabelSize[ls[i]]
  BY BytesBeforeSteps
<1>3. \A k \in 1..n : ls[k] \in Values
  BY ValuesAre DEF NameSet
<1> HIDE DEF n, q
<1> DEFINE Inv(k) == /\ Grows(p, u[k]) /\ u[k].ptrs = p.ptrs /\ u[k].cut = p.cut
                     /\ u[k].len = p.len + BytesBefore(ls, k + 1)
           T == {k \in 0..n : Inv(k)}
<1>4. 0 \in T
  <2>1. Grows(p, p)
    BY PackedFields DEF Grows
  <2>2. p.len \in Nat
    BY PackedFields
  <2> QED BY <1>1, <1>2, <2>1, <2>2
<1>5. ASSUME NEW k \in 1..n, k - 1 \in T PROVE k \in T
  <2> DEFINE o == u[k - 1]
             l == ls[k]
             b == LabelSize[l]
  <2>a. Inv(k - 1)
    <3> HIDE DEF Inv
    <3> QED BY <1>5
  <2>b. k - 1 \in 0..n /\ k \in 0..n /\ (k - 1) + 1 = k /\ k \in 1..(n + 1)
    BY <1>2
  <2>1. o \in Packed /\ l \in Values /\ b \in Nat /\ u[k] = Emit(o, "label", l, b)
    BY <1>1, <1>2, <1>3, <2>b
  <2>2. /\ Grows(p, o) /\ o.ptrs = p.ptrs /\ o.cut = p.cut
        /\ o.len = p.len + BytesBefore(ls, k)
    BY <2>a, <2>b
  <2>3. BytesBefore(ls, k + 1) = BytesBefore(ls, k) + b /\ BytesBefore(ls, k) \in Nat
    BY <1>2, <2>b
  <2> HIDE DEF o, l, b
  <2>4. "label" \in Kinds
    BY DEF Kinds
  <2>5. /\ u[k] \in Packed /\ Grows(o, u[k]) /\ u[k].len = o.len + b
        /\ u[k].ptrs = o.ptrs /\ u[k].cut = o.cut
    <3>1. ASSUME NEW kd \in Kinds, NEW e, e = Emit(o, kd, l, b)
          PROVE  /\ e \in Packed /\ Grows(o, e) /\ e.len = o.len + b
                 /\ e.ptrs = o.ptrs /\ e.cut = o.cut
      BY <2>1, <3>1, EmitIs DEF Emitted
    <3> QED BY <2>1, <2>4, <3>1
  <2>6. Grows(p, u[k])
    BY <2>1, <2>2, <2>5, GrowsOn
  <2>7. p.len \in Nat
    BY PackedFields
  <2>8. u[k].len = p.len + BytesBefore(ls, k + 1)
    BY <2>2, <2>3, <2>5, <2>7, <2>1
  <2>9. b \in Nat
    BY <2>1
  <2> QED BY <2>b, <2>2, <2>5, <2>6, <2>8
<1>6. n \in T
  <2> HIDE DEF T
  <2>1. \A k \in 1..n : k - 1 \in T => k \in T
    BY <1>5
  <2>2. \A k \in 0..n : k \in T
    BY <1>2, <1>4, <2>1, UpTo
  <2> QED BY <1>2, <2>2
<1>7. Inv(n)
  BY <1>6
<1>8. q \in Packed
  BY <1>1, <1>2
<1> QED BY <1>1, <1>7, <1>8 DEF q, n

(* The first labels of a name are the name a pointer completes.             *)
LEMMA FirstLabels ==
    ASSUME NEW name \in NameSet, NEW i \in 1..(Len(name) + 1)
    PROVE  LET s == SubSeq(name, 1, i - 1)
           IN  s \in NameSet /\ BytesBefore(s, Len(s) + 1) = BytesBefore(name, i)
<1> DEFINE s == SubSeq(name, 1, i - 1)
<1>1. Len(name) \in Nat /\ name \in Seq(Labels)
  BY DEF NameSet
<1>2. s \in Seq(Labels) /\ Len(s) = i - 1 /\ \A k \in 1..(i - 1) : s[k] = name[k]
  BY <1>1
<1>3. (Len(s) + 1) - 1 = i - 1
  BY <1>1, <1>2
<1> HIDE DEF s
<1>4. [k \in 1..(i - 1) |-> LabelSize[s[k]]] = [k \in 1..(i - 1) |-> LabelSize[name[k]]]
  BY <1>2
<1>5. BytesBefore(s, Len(s) + 1) = SumOf([k \in 1..(i - 1) |-> LabelSize[s[k]]])
  BY <1>3 DEF BytesBefore
<1>6. BytesBefore(name, i) = SumOf([k \in 1..(i - 1) |-> LabelSize[name[k]]])
  BY DEF BytesBefore
<1> QED BY <1>2, <1>4, <1>5, <1>6 DEF s, NameSet

(* A suffix of a name is a name. *)
LEMMA SuffixIs ==
    ASSUME NEW name \in NameSet, NEW i \in 1..Len(name)
    PROVE  Suffix(name, i) \in NameSet /\ Len(Suffix(name, i)) = Len(name) - i + 1
<1>1. Len(name) \in Nat /\ name \in Seq(Labels)
  BY DEF NameSet
<1> QED BY <1>1 DEF Suffix, NameSet

(* Name.pack up to a label: the labels before it, then a pointer or the end. *)
LEMMA PackUpToIs ==
    ASSUME NEW p \in Packed, NEW name \in NameSet, NEW i \in 1..(Len(name) + 1),
           i <= Len(name) => Suffix(name, i) \in DOMAIN p.ptrs,
           NEW ptrs \in PtrMaps, DOMAIN p.ptrs \subseteq DOMAIN ptrs
    PROVE  LET q == PackUpTo(p, name, i, ptrs)
           IN  /\ q \in Packed /\ Grows(p, q) /\ Len(p.w) < Len(q.w)
               /\ q.ptrs = ptrs /\ q.cut = p.cut
               /\ q.len = p.len + (BytesBefore(name, i) + IF i <= Len(name) THEN 2 ELSE 1)
<1> DEFINE s == SubSeq(name, 1, i - 1)
           e == EmitLabels(p, s)
           l == [e EXCEPT !.ptrs = ptrs]
           q == PackUpTo(p, name, i, ptrs)
<1>1. s \in NameSet /\ BytesBefore(s, Len(s) + 1) = BytesBefore(name, i)
  BY FirstLabels
<1>2. BytesBefore(name, i) \in Nat /\ Len(name) \in Nat
  BY BytesBeforeSteps
<1>3. q = IF i > Len(name) THEN Emit(l, "end", 0, 1)
          ELSE Emit(l, "ptr", p.ptrs[Suffix(name, i)], 2)
  BY Zenon DEF PackUpTo
<1> HIDE DEF s, q
<1>4. /\ e \in Packed /\ Grows(p, e) /\ e.ptrs = p.ptrs /\ e.cut = p.cut
      /\ e.len = p.len + BytesBefore(name, i)
  BY <1>1, EmitLabelsIs
<1> HIDE DEF e
<1>5. l \in Packed /\ l.w = e.w /\ l.len = e.len /\ l.ptrs = ptrs /\ l.cut = e.cut
  BY <1>4 DEF Packed
<1> HIDE DEF l
<1>6. Grows(p, l)
  BY <1>4, <1>5 DEF Grows
<1>7. /\ Len(p.w) \in Nat /\ Len(l.w) \in Nat /\ p.len \in Nat /\ l.len \in Nat
      /\ \A x \in DOMAIN p.ptrs : p.ptrs[x] \in Nat
  BY <1>5, PackedFields
<1>8. "end" \in Kinds /\ "ptr" \in Kinds /\ 0 \in Values
  BY ValuesAre DEF Kinds
<1>9. ASSUME NEW kd \in Kinds, NEW v \in Values, NEW b \in Nat, q = Emit(l, kd, v, b)
      PROVE  /\ q \in Packed /\ Grows(p, q) /\ Len(p.w) < Len(q.w)
             /\ q.ptrs = ptrs /\ q.cut = p.cut /\ q.len = p.len + (BytesBefore(name, i) + b)
  <2>1. /\ q \in Packed /\ Grows(l, q) /\ q.len = l.len + b /\ q.ptrs = l.ptrs /\ q.cut = l.cut
        /\ Len(q.w) = Len(l.w) + 1
    <3>1. Emitted(l, q, v, b)
      BY <1>5, <1>9, EmitIs
    <3> QED BY <3>1 DEF Emitted
  <2>2. Grows(p, q)
    BY <1>5, <1>6, <2>1, GrowsOn
  <2>3. Len(p.w) < Len(q.w)
    BY <1>6, <1>7, <2>1 DEF Grows
  <2>4. q.len = p.len + (BytesBefore(name, i) + b)
    BY <1>2, <1>4, <1>5, <1>7, <2>1
  <2> QED BY <1>4, <1>5, <2>1, <2>2, <2>3, <2>4
<1>10. CASE i > Len(name)
  <2>1. q = Emit(l, "end", 0, 1) /\ ~(i <= Len(name))
    BY <1>2, <1>3, <1>10
  <2> HIDE DEF q
  <2>2. /\ q \in Packed /\ Grows(p, q) /\ Len(p.w) < Len(q.w)
        /\ q.ptrs = ptrs /\ q.cut = p.cut /\ q.len = p.len + (BytesBefore(name, i) + 1)
    BY <1>8, <1>9, <2>1
  <2> QED BY <2>1, <2>2 DEF q
<1>11. CASE ~(i > Len(name))
  <2>1. q = Emit(l, "ptr", p.ptrs[Suffix(name, i)], 2) /\ i <= Len(name)
    BY <1>2, <1>3, <1>11
  <2>2. p.ptrs[Suffix(name, i)] \in Values
    BY <1>7, <2>1, ValuesAre
  <2>3. /\ q \in Packed /\ Grows(p, q) /\ Len(p.w) < Len(q.w)
        /\ q.ptrs = ptrs /\ q.cut = p.cut /\ q.len = p.len + (BytesBefore(name, i) + 2)
    BY <1>8, <1>9, <2>1, <2>2
  <2> QED BY <2>1, <2>3 DEF q
<1> QED BY <1>10, <1>11

(* The map of suffixes only grows: what Name.pack adds to it are suffixes   *)
(* of the name, at offsets in the message.                                  *)
LEMMA RememberIs ==
    ASSUME NEW p \in Packed, NEW name \in NameSet, NEW i \in 1..(Len(name) + 1)
    PROVE  Remember(p, name, i) \in PtrMaps /\ DOMAIN p.ptrs \subseteq DOMAIN Remember(p, name, i)
<1> DEFINE n == Len(name)
           new == {k \in 1..(i - 1) : Start(p, name, k) <= MaxOffset}
           D == {Suffix(name, k) : k \in new}
           At == [s \in D |-> Start(p, name, Len(name) - Len(s) + 1)]
           r == [s \in DOMAIN At \cup DOMAIN p.ptrs |-> IF s \in DOMAIN At THEN At[s] ELSE p.ptrs[s]]
<1>1. /\ n \in Nat /\ \A k \in 1..(n + 1) : BytesBefore(name, k) \in Nat
  BY BytesBeforeSteps
<1>2. p.len \in Nat /\ DOMAIN p.ptrs \subseteq NameSet /\ \A s \in DOMAIN p.ptrs : p.ptrs[s] \in Nat
  BY PackedFields
<1>3. ASSUME NEW s \in D PROVE s \in NameSet /\ At[s] \in Nat
  <2>1. PICK k \in new : s = Suffix(name, k)
    OBVIOUS
  <2>2. k \in 1..n /\ k \in 1..(n + 1)
    BY <1>1
  <2>3. s \in NameSet /\ Len(s) = n - k + 1
    BY <2>1, <2>2, SuffixIs
  <2>4. n - Len(s) + 1 = k
    BY <1>1, <2>2, <2>3
  <2>5. At[s] = Start(p, name, n - Len(s) + 1)
    OBVIOUS
  <2>6. At[s] = p.len + BytesBefore(name, k)
    BY <2>4, <2>5 DEF Start
  <2> HIDE DEF D, At, n
  <2> QED BY <1>1, <1>2, <2>2, <2>3, <2>6
<1>4. DOMAIN At = D
  OBVIOUS
<1>5. Remember(p, name, i) = r
  BY Zenon DEF Remember
<1> HIDE DEF At, D
<1>6. r \in [DOMAIN At \cup DOMAIN p.ptrs -> Nat]
  BY <1>2, <1>3, <1>4
<1>7. DOMAIN At \cup DOMAIN p.ptrs \in SUBSET NameSet
  BY <1>2, <1>3, <1>4
<1>8. DOMAIN r = DOMAIN At \cup DOMAIN p.ptrs
  OBVIOUS
<1> HIDE DEF r
<1> QED BY <1>5, <1>6, <1>7, <1>8 DEF PtrMaps

(* What packing one thing more does: nothing packed before it changes, a    *)
(* token at least is added, and no suffix is remembered without compression. *)
Adds(p, q, compress, bytes) ==
    /\ q \in Packed /\ Grows(p, q) /\ Len(p.w) < Len(q.w)
    /\ q.cut = p.cut /\ q.len = p.len + bytes
    /\ ~compress => q.ptrs = p.ptrs

(* A name takes the bytes Name.packLen counts. *)
LEMMA PackNameIs ==
    ASSUME NEW p \in Packed, NEW name \in NameSet, NEW compress \in BOOLEAN,
           ~compress => DOMAIN p.ptrs = {}
    PROVE  Adds(p, PackName(p, name, compress), compress, NameLen(p.ptrs, name))
<1> DEFINE i == FirstHit(p.ptrs, name)
           n == Len(name)
           q == PackName(p, name, compress)
<1>1. /\ i \in 1..(n + 1)
      /\ i <= n => Suffix(name, i) \in DOMAIN p.ptrs
  BY FirstHitIs
<1>2. NameLen(p.ptrs, name) = BytesBefore(name, i) + IF i <= n THEN 2 ELSE 1
  BY DEF NameLen
<1>3. p.ptrs \in PtrMaps
  BY PackedFields
<1>4. q = IF ~compress THEN PackUpTo(p, name, n + 1, p.ptrs)
          ELSE PackUpTo(p, name, i, Remember(p, name, i))
  BY Zenon DEF PackName
<1>5. ~compress => i = n + 1
  BY NameLenWhole
<1> HIDE DEF i, q
<1>6. ASSUME NEW ptrs \in PtrMaps, DOMAIN p.ptrs \subseteq DOMAIN ptrs, q = PackUpTo(p, name, i, ptrs),
             ~compress => ptrs = p.ptrs
      PROVE  Adds(p, q, compress, NameLen(p.ptrs, name))
  <2>1. /\ q \in Packed /\ Grows(p, q) /\ Len(p.w) < Len(q.w)
        /\ q.ptrs = ptrs /\ q.cut = p.cut
        /\ q.len = p.len + (BytesBefore(name, i) + IF i <= n THEN 2 ELSE 1)
    BY <1>1, <1>6, PackUpToIs, Zenon
  <2> QED BY <1>2, <1>6, <2>1 DEF Adds
<1>7. CASE compress
  <2>1. Remember(p, name, i) \in PtrMaps /\ DOMAIN p.ptrs \subseteq DOMAIN Remember(p, name, i)
    BY <1>1, RememberIs
  <2>2. q = PackUpTo(p, name, i, Remember(p, name, i))
    BY <1>4, <1>7
  <2> QED BY <1>6, <1>7, <2>1, <2>2 DEF q
<1>8. CASE ~compress
  <2>1. q = PackUpTo(p, name, i, p.ptrs)
    BY <1>4, <1>5, <1>8
  <2> QED BY <1>3, <1>6, <1>8, <2>1 DEF q
<1> QED BY <1>7, <1>8

(* One token more. *)
LEMMA EmitAdds ==
    ASSUME NEW p \in Packed, NEW kd \in Kinds, NEW v \in Values, NEW b \in Nat, NEW compress \in BOOLEAN
    PROVE  /\ Adds(p, Emit(p, kd, v, b), compress, b)
           /\ Emit(p, kd, v, b).ptrs = p.ptrs
           /\ Len(Emit(p, kd, v, b).w) = Len(p.w) + 1
<1> DEFINE q == Emit(p, kd, v, b)
<1>1. /\ q \in Packed /\ Grows(p, q) /\ q.len = p.len + b /\ q.ptrs = p.ptrs /\ q.cut = p.cut
      /\ Len(q.w) = Len(p.w) + 1
  <2>1. Emitted(p, q, v, b)
    BY EmitIs
  <2> QED BY <2>1 DEF Emitted
<1> HIDE DEF q
<1>2. Len(p.w) \in Nat
  BY PackedFields
<1>3. Len(p.w) < Len(q.w)
  BY <1>1, <1>2
<1>4. Adds(p, q, compress, b)
  BY <1>1, <1>3 DEF Adds
<1> QED BY <1>1, <1>4 DEF q

(* One thing after the other. *)
LEMMA AddsOn ==
    ASSUME NEW p \in Packed, NEW q, NEW r, NEW compress \in BOOLEAN, NEW a \in Nat, NEW b \in Nat,
           Adds(p, q, compress, a), Adds(q, r, compress, b)
    PROVE  Adds(p, r, compress, a + b)
<1>1. q \in Packed /\ r \in Packed /\ Grows(p, q) /\ Grows(q, r)
  BY DEF Adds
<1>2. Grows(p, r)
  BY <1>1, GrowsOn
<1>3. /\ Len(p.w) \in Nat /\ Len(q.w) \in Nat /\ Len(r.w) \in Nat
      /\ p.len \in Nat
  BY <1>1, PackedFields
<1>4. Len(p.w) < Len(r.w) /\ r.len = p.len + (a + b)
  BY <1>3 DEF Adds
<1> QED BY <1>1, <1>2, <1>4 DEF Adds

BodyParts == [name : NameSet, size : Nat]
PartLen(ptrs, bp) == IF bp.size > 0 THEN bp.size ELSE NameLen(ptrs, bp.name)
BodyBytes(ptrs, parts) == SumOf([i \in 1..Len(parts) |-> PartLen(ptrs, parts[i])])

(* What is packed without compression remembers no suffix.                  *)
Packing(compress) == {p \in Packed : ~compress => DOMAIN p.ptrs = {}}

(* A part of a body takes its bytes. *)
LEMMA PackPartIs ==
    ASSUME NEW compress \in BOOLEAN, NEW p \in Packing(compress), NEW bp \in BodyParts
    PROVE  /\ Adds(p, PackPart(p, bp, compress), compress, PartLen(p.ptrs, bp))
           /\ PackPart(p, bp, compress) \in Packing(compress)
           /\ PartLen(p.ptrs, bp) \in Nat
<1> DEFINE q == PackPart(p, bp, compress)
           b == PartLen(p.ptrs, bp)
<1>0. p \in Packed /\ (~compress => DOMAIN p.ptrs = {}) /\ bp.name \in NameSet /\ bp.size \in Nat
  BY DEF Packing, BodyParts
<1>1. CASE bp.size > 0
  <2>1. q = Emit(p, "fix", bp.size, bp.size) /\ b = bp.size
    BY <1>1 DEF PackPart, PartLen
  <2>2. bp.size \in Values /\ "fix" \in Kinds
    BY <1>0, ValuesAre DEF Kinds
  <2> HIDE DEF q, b
  <2> QED BY <1>0, <2>1, <2>2, EmitAdds DEF Adds, Packing, q, b
<1>2. CASE ~(bp.size > 0)
  <2>1. q = PackName(p, bp.name, compress) /\ b = NameLen(p.ptrs, bp.name)
    BY <1>2 DEF PackPart, PartLen
  <2> HIDE DEF q, b
  <2>2. Adds(p, q, compress, b)
    BY <1>0, <2>1, PackNameIs
  <2>3. b \in Nat
    BY <1>0, <2>1, NameLenShrinks
  <2>4. q \in Packing(compress)
    BY <1>0, <2>2 DEF Adds, Packing
  <2> QED BY <2>2, <2>3, <2>4 DEF q, b
<1> QED BY <1>1, <1>2

(* A part takes no more than it was measured to when less was remembered.   *)
LEMMA PartLenShrinks ==
    ASSUME NEW p, NEW q, DOMAIN p \subseteq DOMAIN q, NEW bp \in BodyParts
    PROVE  /\ PartLen(p, bp) \in Nat /\ PartLen(q, bp) \in Nat
           /\ PartLen(q, bp) <= PartLen(p, bp)
           /\ DOMAIN q = {} => PartLen(q, bp) = PartLen(p, bp)
<1>0. bp.name \in NameSet /\ bp.size \in Nat
  BY DEF BodyParts
<1>1. /\ NameLen(p, bp.name) \in Nat /\ NameLen(q, bp.name) \in Nat
      /\ NameLen(q, bp.name) <= NameLen(p, bp.name)
  BY <1>0, NameLenShrinks
<1>2. ASSUME DOMAIN q = {} PROVE NameLen(q, bp.name) = NameLen(p, bp.name)
  <2>1. DOMAIN p = {}
    BY <1>2
  <2> QED BY <1>0, <1>2, <2>1, NameLenWhole
<1> QED BY <1>0, <1>1, <1>2 DEF PartLen

(* The loop over the parts of a body, turn by turn. *)
LEMMA PackPartsRuns ==
    ASSUME NEW compress \in BOOLEAN, NEW p \in Packing(compress), NEW parts \in Seq(BodyParts)
    PROVE  \E u \in [0..Len(parts) -> Packing(compress)] :
             /\ u[0] = p /\ u[Len(parts)] = PackParts(p, parts, compress)
             /\ \A k \in 1..Len(parts) : u[k] = PackPart(u[k - 1], parts[k], compress)
<1> DEFINE n == Len(parts)
           F(f) == [k \in 0..n |-> IF k = 0 THEN p ELSE PackPart(f[k - 1], parts[k], compress)]
           Upto == CHOOSE f : f = F(f)
           step == [x \in (1..n) \X Packing(compress) |-> PackPart(x[2], parts[x[1]], compress)]
<1>1. PackParts(p, parts, compress) = Upto[n]
  BY Zenon DEF PackParts
<1>2. ASSUME NEW s \in Packing(compress), NEW k \in 1..n PROVE PackPart(s, parts[k], compress) \in Packing(compress)
  <2>1. parts[k] \in BodyParts
    OBVIOUS
  <2> QED BY <2>1, PackPartIs
<1>a. n \in Nat
  BY DEF NameSet
<1> HIDE DEF n
<1>3. \E g \in [0..n -> Packing(compress)] : g = F(g)
  <2>1. step \in [(1..n) \X Packing(compress) -> Packing(compress)]
    BY <1>2
  <2> HIDE DEF step
  <2>2. PICK g \in [0..n -> Packing(compress)] : Runs(g, p, n, step)
    BY <1>a, <2>1, Recursion
  <2>3. ASSUME NEW k \in 0..n PROVE g[k] = IF k = 0 THEN p ELSE PackPart(g[k - 1], parts[k], compress)
    <3>1. CASE k # 0
      <4>1. k \in 1..n /\ k - 1 \in 0..n
        BY <1>a, <3>1
      <4>2. <<k, g[k - 1]>> \in (1..n) \X Packing(compress)
        BY <4>1
      <4>3. g[k] = step[<<k, g[k - 1]>>]
        BY <2>2, <4>1 DEF Runs
      <4> QED BY <3>1, <4>2, <4>3 DEF step
    <3>2. CASE k = 0
      BY <2>2, <3>2 DEF Runs
    <3> QED BY <3>1, <3>2
  <2> QED BY <2>3
<1>4. Upto = F(Upto)
  <2> HIDE DEF F
  <2> QED BY <1>3
<1> HIDE DEF Upto
<1>5. Upto[0] = p /\ \A k \in 1..n : Upto[k] = PackPart(Upto[k - 1], parts[k], compress)
  <2>1. \A k \in 0..n : Upto[k] = IF k = 0 THEN p ELSE PackPart(Upto[k - 1], parts[k], compress)
    BY <1>4
  <2>2. 0 \in 0..n /\ \A k \in 1..n : k \in 0..n /\ k # 0
    BY <1>a
  <2> QED BY <2>1, <2>2
<1> DEFINE T == {k \in 0..n : Upto[k] \in Packing(compress)}
<1>6. \A k \in 0..n : k \in T
  <2>1. 0 \in T
    BY <1>5, <1>a
  <2>2. \A k \in 1..n : k - 1 \in T => k \in T
    BY <1>2, <1>5
  <2> HIDE DEF T
  <2> QED BY <1>a, <2>1, <2>2, UpTo
<1>7. Upto \in [0..n -> Packing(compress)]
  <2>1. Upto = [k \in 0..n |-> Upto[k]]
    BY <1>4
  <2> QED BY <1>6, <2>1
<1> QED BY <1>1, <1>5, <1>7 DEF n

(* A body takes no more bytes than its parts were measured to, and as many  *)
(* without compression.                                                     *)
LEMMA PackPartsLen ==
    ASSUME NEW compress \in BOOLEAN, NEW p \in Packing(compress), NEW parts \in Seq(BodyParts),
           NEW base, DOMAIN base \subseteq DOMAIN p.ptrs
    PROVE  LET q == PackParts(p, parts, compress)
               bytes == BodyBytes(base, parts)
           IN  /\ q \in Packing(compress) /\ Grows(p, q) /\ q.cut = p.cut
               /\ bytes \in Nat /\ q.len <= p.len + bytes
               /\ ~compress => q.len = p.len + bytes
<1> DEFINE n == Len(parts)
           s == [i \in 1..n |-> PartLen(base, parts[i])]
           q == PackParts(p, parts, compress)
<1>1. n \in Nat /\ \A k \in 1..n : parts[k] \in BodyParts
  OBVIOUS
<1>2. PICK u \in [0..n -> Packing(compress)] :
         /\ u[0] = p /\ u[n] = q
         /\ \A k \in 1..n : u[k] = PackPart(u[k - 1], parts[k], compress)
  BY PackPartsRuns
<1> HIDE DEF n, q
<1>3. s \in [1..n -> Nat] /\ \A k \in 1..n : s[k] = PartLen(base, parts[k])
  <2>1. \A k \in 1..n : PartLen(base, parts[k]) \in Nat
    BY <1>1, PartLenShrinks
  <2> QED BY <2>1
<1>4. p \in Packed /\ p.len \in Nat /\ Grows(p, p)
  BY PackedFields DEF Packing, Grows
<1> HIDE DEF s
<1>5. PICK v \in [0..n -> Nat] : Sums(v, n, s) /\ SumOf(s) = v[n]
  BY <1>1, <1>3, SumOfSums
<1> DEFINE Inv(k) == /\ Grows(p, u[k]) /\ u[k].cut = p.cut
                     /\ u[k].len <= p.len + v[k]
                     /\ ~compress => u[k].len = p.len + v[k]
           T == {k \in 0..n : Inv(k)}
<1>6. 0 \in T
  <2>1. v[0] = 0
    BY <1>5 DEF Sums
  <2> QED BY <1>1, <1>2, <1>4, <2>1
<1>7. ASSUME NEW k \in 1..n, k - 1 \in T PROVE k \in T
  <2> DEFINE o == u[k - 1]
             e == u[k]
             bp == parts[k]
             b == PartLen(o.ptrs, bp)
  <2>a. Inv(k - 1)
    <3> HIDE DEF Inv
    <3> QED BY <1>7
  <2>b. k - 1 \in 0..n /\ k \in 0..n
    BY <1>1
  <2>1. o \in Packing(compress) /\ bp \in BodyParts /\ e = PackPart(o, bp, compress)
    BY <1>1, <1>2, <2>b
  <2>2. /\ Grows(p, o) /\ o.cut = p.cut /\ o.len <= p.len + v[k - 1]
        /\ ~compress => o.len = p.len + v[k - 1]
    BY <2>a
  <2>3. v[k] = v[k - 1] + PartLen(base, bp) /\ v[k - 1] \in Nat /\ v[k] \in Nat
    BY <1>3, <1>5, <2>b DEF Sums
  <2> HIDE DEF o, e, bp
  <2>4. Adds(o, e, compress, b)
    BY <2>1, PackPartIs
  <2>5. o \in Packed /\ o.len \in Nat /\ (~compress => DOMAIN o.ptrs = {})
    BY <2>1, PackedFields DEF Packing
  <2>6. /\ PartLen(base, bp) \in Nat /\ b \in Nat /\ b <= PartLen(base, bp)
        /\ ~compress => b = PartLen(base, bp)
    <3>1. DOMAIN base \subseteq DOMAIN o.ptrs
      BY <2>2 DEF Grows
    <3> QED BY <2>1, <2>5, <3>1, PartLenShrinks
  <2> HIDE DEF b
  <2>7. e \in Packed /\ Grows(o, e) /\ e.cut = o.cut /\ e.len = o.len + b
    BY <2>4 DEF Adds
  <2>8. Grows(p, e)
    BY <1>4, <2>2, <2>5, <2>7, GrowsOn
  <2>9. e.len <= p.len + v[k] /\ (~compress => e.len = p.len + v[k])
    BY <1>4, <2>2, <2>3, <2>5, <2>6, <2>7
  <2>10. Inv(k)
    BY <2>2, <2>7, <2>8, <2>9 DEF e
  <2> HIDE DEF Inv
  <2> QED BY <2>b, <2>10
<1>8. n \in T
  <2> HIDE DEF T
  <2>1. \A k \in 1..n : k - 1 \in T => k \in T
    BY <1>7
  <2>2. \A k \in 0..n : k \in T
    BY <1>1, <1>6, <2>1, UpTo
  <2> QED BY <1>1, <2>2
<1>9. Inv(n)
  BY <1>8
<1>10. q \in Packing(compress) /\ v[n] \in Nat
  BY <1>1, <1>2
<1>11. BodyBytes(base, parts) = SumOf(s)
  BY DEF BodyBytes, n, s
<1> QED BY <1>2, <1>5, <1>9, <1>10, <1>11 DEF q, n

(* The measure of a body, part by part. *)
LEMMA BodyLenIs ==
    ASSUME NEW r \in Resources, NEW base
    PROVE  BodyLen(base, r) = BodyBytes(IF r.type = "SRV" THEN <<>> ELSE base, r.body)
BY Zenon DEF BodyLen, BodyBytes, PartLen

(* Writing the length of a body changes one token of its header.            *)
LEMMA PatchLengthIs ==
    ASSUME NEW compress \in BOOLEAN, NEW p \in Packing(compress), NEW h \in Packing(compress),
           NEW q \in Packing(compress), NEW type \in RRTypes,
           Grows(p, h), Len(p.w) < Len(h.w), Grows(h, q)
    PROVE  LET o == PatchLength(q, h, type)
           IN  /\ o \in Packing(compress) /\ Grows(p, o) /\ Len(p.w) < Len(o.w)
               /\ o.len = q.len /\ o.cut = q.cut
<1> DEFINE i == Len(h.w)
           val == <<type, q.len - h.len>>
           w == [q.w EXCEPT ![i].v = val]
           o == PatchLength(q, h, type)
<1>1. p \in Packed /\ h \in Packed /\ q \in Packed /\ (~compress => DOMAIN q.ptrs = {})
  BY DEF Packing
<1>2. /\ q.w \in Seq(Tokens) /\ q.len \in Nat /\ q.ptrs \in PtrMaps /\ q.cut \in BOOLEAN
      /\ Len(q.w) \in Nat /\ h.len \in Nat /\ Len(h.w) \in Nat /\ Len(p.w) \in Nat /\ p.len \in Nat
  BY <1>1, PackedFields
<1>3. i \in 1..Len(q.w) /\ val \in Values
  <2>1. h.len <= q.len /\ i <= Len(q.w)
    BY DEF Grows
  <2>2. val \in RRTypes \X Nat
    BY <1>2, <2>1
  <2> QED BY <1>2, <2>1, <2>2, ValuesAre
<1> HIDE DEF val
<1>4. o = [q EXCEPT !.w = w]
  BY DEF PatchLength, val
<1>5. [q.w[i] EXCEPT !.v = val] \in Tokens
  <2>1. q.w[i] \in Tokens
    BY <1>2, <1>3
  <2> QED BY <1>3, <2>1 DEF Tokens
<1>6. /\ w \in Seq(Tokens) /\ Len(w) = Len(q.w)
      /\ \A k \in 1..Len(q.w) : k # i => w[k] = q.w[k]
  BY <1>2, <1>3, <1>5
<1> HIDE DEF w, i, o
<1>7. /\ o \in Packed /\ o.w = w /\ o.len = q.len /\ o.ptrs = q.ptrs /\ o.cut = q.cut
  <2>1. o = [w |-> w, len |-> q.len, ptrs |-> q.ptrs, cut |-> q.cut]
    BY <1>1, <1>4 DEF Packed
  <2>2. [w |-> w, len |-> q.len, ptrs |-> q.ptrs, cut |-> q.cut] \in Packed
    BY <1>2, <1>6, Zenon DEF Packed
  <2> QED BY <2>1, <2>2
<1>8. Grows(p, q)
  BY <1>1, GrowsOn
<1>9. \A k \in 1..Len(p.w) : k \in 1..Len(q.w) /\ k # i
  BY <1>2, <1>8 DEF Grows, i
<1>10. Grows(p, o)
  <2>1. Len(p.w) <= Len(o.w)
    BY <1>6, <1>7, <1>8 DEF Grows
  <2>2. ASSUME NEW k \in 1..Len(p.w) PROVE o.w[k] = p.w[k]
    BY <1>6, <1>7, <1>8, <1>9 DEF Grows
  <2>3. p.len <= o.len /\ DOMAIN p.ptrs \subseteq DOMAIN o.ptrs
    BY <1>7, <1>8 DEF Grows
  <2> QED BY <2>1, <2>2, <2>3 DEF Grows
<1>11. Len(p.w) < Len(o.w)
  BY <1>2, <1>3, <1>6, <1>7 DEF i
<1> QED BY <1>1, <1>7, <1>10, <1>11 DEF Packing, o

(* packRR: a record takes no more than packRRLen counts, and as much        *)
(* without compression.                                                     *)
LEMMA PackRRIs ==
    ASSUME NEW compress \in BOOLEAN, NEW p \in Packing(compress), NEW r \in Resources,
           NEW base, DOMAIN base \subseteq DOMAIN p.ptrs
    PROVE  LET q == PackRR(p, r, compress)
           IN  /\ q \in Packing(compress) /\ Grows(p, q) /\ q.cut = p.cut
               /\ RRLen(base, r) \in Nat /\ q.len <= p.len + RRLen(base, r)
               /\ ~compress => q.len = p.len + RRLen(base, r)
<1> DEFINE n == PackName(p, r.name, compress)
           h == PackHeader(p, r, compress)
           parts == r.body
           b == PackParts(h, parts, compress)
           o == PackRR(p, r, compress)
           srv == IF r.type = "SRV" THEN <<>> ELSE base
           bytes == BodyBytes(srv, parts)
           l == NameLen(p.ptrs, r.name)
<1>1. /\ p \in Packed /\ (~compress => DOMAIN p.ptrs = {})
      /\ r.name \in NameSet /\ r.type \in RRTypes /\ r.body \in Seq(BodyParts)
  BY DEF Packing, Resources, BodyParts
<1>2. Adds(p, n, compress, l) /\ l \in Nat
  BY <1>1, PackNameIs, NameLenShrinks
<1>3. /\ NameLen(base, r.name) \in Nat /\ l <= NameLen(base, r.name)
      /\ ~compress => l = NameLen(base, r.name)
  <2>1. NameLen(base, r.name) \in Nat /\ l <= NameLen(base, r.name)
    BY <1>1, NameLenShrinks
  <2>2. ASSUME ~compress PROVE l = NameLen(base, r.name)
    <3>1. DOMAIN base = {} /\ DOMAIN p.ptrs = {}
      BY <1>1, <2>2
    <3> QED BY <1>1, <3>1, NameLenWhole
  <2> QED BY <2>1, <2>2
<1>4. h = Emit(n, "rr", <<r.type, 0>>, 10)
  BY DEF PackHeader
<1>5. o = PatchLength(b, h, r.type)
  BY DEF PackRR, PackBody
<1> HIDE DEF n, h, l
<1>6. Adds(n, h, compress, 10)
  <2>1. n \in Packed /\ "rr" \in Kinds /\ <<r.type, 0>> \in Values
    BY <1>1, <1>2, ValuesAre DEF Adds, Kinds
  <2> QED BY <1>4, <2>1, EmitAdds
<1>7. Adds(p, h, compress, l + 10)
  BY <1>1, <1>2, <1>6, AddsOn
<1>8. /\ h \in Packing(compress) /\ Grows(p, h) /\ Len(p.w) < Len(h.w)
      /\ h.cut = p.cut /\ h.len = p.len + (l + 10)
  BY <1>1, <1>7 DEF Adds, Packing
<1> HIDE DEF b, o
<1>9. DOMAIN srv \subseteq DOMAIN h.ptrs
  <2>1. DOMAIN base \subseteq DOMAIN h.ptrs
    BY <1>8 DEF Grows
  <2>2. DOMAIN <<>> = {}
    OBVIOUS
  <2> QED BY <2>1, <2>2
<1> HIDE DEF srv
<1>10. /\ b \in Packing(compress) /\ Grows(h, b) /\ b.cut = h.cut
       /\ bytes \in Nat /\ b.len <= h.len + bytes
       /\ ~compress => b.len = h.len + bytes
  <2>1. parts \in Seq(BodyParts)
    BY <1>1
  <2> HIDE DEF parts
  <2> QED BY <1>8, <1>9, <2>1, PackPartsLen DEF b
<1>11. BodyLen(base, r) = bytes
  BY BodyLenIs DEF srv
<1> HIDE DEF bytes
<1>12. /\ o \in Packing(compress) /\ Grows(p, o) /\ o.len = b.len /\ o.cut = b.cut
  BY <1>1, <1>5, <1>8, <1>10, PatchLengthIs
<1>13. RRLen(base, r) = NameLen(base, r.name) + 10 + bytes
  BY <1>11 DEF RRLen
<1>14. p.len \in Nat /\ b.len \in Nat
  BY <1>1, <1>10, PackedFields DEF Packing
<1>15. RRLen(base, r) \in Nat /\ o.len <= p.len + RRLen(base, r)
  BY <1>2, <1>3, <1>8, <1>10, <1>12, <1>13, <1>14
<1>16. ~compress => o.len = p.len + RRLen(base, r)
  BY <1>2, <1>3, <1>8, <1>10, <1>12, <1>13, <1>14
<1> QED BY <1>8, <1>10, <1>12, <1>15, <1>16 DEF o

(* What Msg.Pack makes of a part of a message measured to bytes: no more    *)
(* than that, nor over the limit when there is one; all of it without       *)
(* compression and limit.                                                   *)
Took(p, q, compress, limit, bytes) ==
    /\ q \in Packing(compress) /\ Grows(p, q)
    /\ q.len <= p.len + bytes
    /\ limit > 0 /\ p.len <= limit => q.len <= limit
    /\ ~compress /\ ~(limit > 0) => q.len = p.len + bytes

(* One part after the other. *)
LEMMA TookOn ==
    ASSUME NEW compress \in BOOLEAN, NEW p \in Packing(compress), NEW q, NEW r, NEW limit \in Int,
           NEW a \in Nat, NEW b \in Nat, Took(p, q, compress, limit, a), Took(q, r, compress, limit, b)
    PROVE  Took(p, r, compress, limit, a + b)
<1>1. p \in Packed /\ q \in Packed /\ r \in Packed /\ r \in Packing(compress)
  BY DEF Took, Packing
<1>2. p.len \in Nat /\ q.len \in Nat /\ r.len \in Nat
  BY <1>1, PackedFields
<1>3. Grows(p, r)
  BY <1>1, GrowsOn DEF Took
<1> QED BY <1>1, <1>2, <1>3 DEF Took

(* Nothing to take. *)
LEMMA TookNothing ==
    ASSUME NEW compress \in BOOLEAN, NEW p \in Packing(compress), NEW limit \in Int
    PROVE  Took(p, p, compress, limit, 0)
<1>1. p \in Packed /\ p.len \in Nat
  BY PackedFields DEF Packing
<1> QED BY <1>1, PackedFields DEF Took, Grows

(* A part that would exceed the limit is passed over and noted. *)
LEMMA TookNone ==
    ASSUME NEW compress \in BOOLEAN, NEW p \in Packing(compress), NEW limit \in Int, limit > 0,
           NEW bytes \in Nat
    PROVE  Took(p, [p EXCEPT !.cut = TRUE], compress, limit, bytes)
<1> DEFINE q == [p EXCEPT !.cut = TRUE]
<1>1. p \in Packed /\ (~compress => DOMAIN p.ptrs = {})
  BY DEF Packing
<1>2. q \in Packed /\ q.w = p.w /\ q.len = p.len /\ q.ptrs = p.ptrs
  BY <1>1 DEF Packed
<1>3. Len(p.w) \in Nat /\ p.len \in Nat
  BY <1>1, PackedFields
<1> HIDE DEF q
<1>4. Grows(p, q)
  BY <1>2, <1>3 DEF Grows
<1>5. Took(p, q, compress, limit, bytes)
  BY <1>1, <1>2, <1>3, <1>4 DEF Took, Packing
<1> QED BY <1>5 DEF q

(* One record of a section. *)
LEMMA TakeRRIs ==
    ASSUME NEW compress \in BOOLEAN, NEW p \in Packing(compress), NEW r \in Resources, NEW limit \in Int
    PROVE  /\ RRLen(<<>>, r) \in Nat
           /\ Took(p, TakeRR(p, r, compress, limit), compress, limit, RRLen(<<>>, r))
<1> DEFINE q == PackRR(p, r, compress)
           none == <<>>
<1>0. p \in Packed /\ p.len \in Nat
  BY PackedFields DEF Packing
<1>1. DOMAIN none \subseteq DOMAIN p.ptrs
  OBVIOUS
<1>2. p.ptrs = p.ptrs /\ DOMAIN p.ptrs \subseteq DOMAIN p.ptrs
  OBVIOUS
<1> HIDE DEF none
<1>3. /\ q \in Packing(compress) /\ Grows(p, q)
      /\ RRLen(none, r) \in Nat /\ q.len <= p.len + RRLen(none, r)
      /\ ~compress => q.len = p.len + RRLen(none, r)
  BY <1>1, PackRRIs
<1>4. RRLen(p.ptrs, r) \in Nat /\ q.len <= p.len + RRLen(p.ptrs, r)
  BY <1>2, PackRRIs
<1> HIDE DEF q
<1>5. CASE Over(p, RRLen(p.ptrs, r), limit)
  <2>1. limit > 0
    BY <1>5 DEF Over
  <2>2. TakeRR(p, r, compress, limit) = [p EXCEPT !.cut = TRUE]
    BY <1>5 DEF TakeRR
  <2> QED BY <1>3, <2>1, <2>2, TookNone DEF none
<1>6. CASE ~Over(p, RRLen(p.ptrs, r), limit)
  <2>1. TakeRR(p, r, compress, limit) = q
    BY <1>6 DEF TakeRR, q
  <2>2. q.len \in Nat
    BY <1>3, PackedFields DEF Packing
  <2>3. limit > 0 => q.len <= limit
    BY <1>0, <1>4, <1>6, <2>2 DEF Over
  <2>4. Took(p, q, compress, limit, RRLen(none, r))
    BY <1>3, <2>3 DEF Took
  <2> QED BY <1>3, <2>1, <2>4 DEF none
<1> QED BY <1>5, <1>6

(* One question. *)
LEMMA TakeQuestionIs ==
    ASSUME NEW compress \in BOOLEAN, NEW p \in Packing(compress), NEW name \in NameSet, NEW limit \in Int
    PROVE  /\ QuestionLen(<<>>, name) \in Nat
           /\ Took(p, TakeQuestion(p, name, compress, limit), compress, limit, QuestionLen(<<>>, name))
<1> DEFINE n == PackName(p, name, compress)
           q == PackQuestion(p, name, compress)
           none == <<>>
           l == NameLen(p.ptrs, name)
<1>0. p \in Packed /\ p.len \in Nat /\ (~compress => DOMAIN p.ptrs = {})
  BY PackedFields DEF Packing
<1>1. DOMAIN none = {} /\ DOMAIN none \subseteq DOMAIN p.ptrs
  OBVIOUS
<1> HIDE DEF none
<1>2. /\ l \in Nat /\ NameLen(none, name) \in Nat /\ l <= NameLen(none, name)
      /\ ~compress => l = NameLen(none, name)
  <2>1. l \in Nat /\ NameLen(none, name) \in Nat /\ l <= NameLen(none, name)
    BY <1>1, NameLenShrinks
  <2>2. ~compress => l = NameLen(none, name)
    BY <1>0, <1>1, NameLenWhole
  <2> QED BY <2>1, <2>2
<1>3. Adds(p, n, compress, l)
  BY <1>0, PackNameIs
<1>4. q = Emit(n, "qtype", 0, 4)
  BY DEF PackQuestion
<1> HIDE DEF n, q, l
<1>5. Adds(n, q, compress, 4)
  <2>1. n \in Packed /\ "qtype" \in Kinds /\ 0 \in Values
    BY <1>3, ValuesAre DEF Adds, Kinds
  <2> QED BY <1>4, <2>1, EmitAdds
<1>6. Adds(p, q, compress, l + 4)
  BY <1>0, <1>2, <1>3, <1>5, AddsOn
<1>7. q \in Packing(compress) /\ Grows(p, q) /\ q.len = p.len + (l + 4)
  BY <1>0, <1>6 DEF Adds, Packing
<1>8. QuestionLen(none, name) = NameLen(none, name) + 4 /\ QuestionLen(p.ptrs, name) = l + 4
  BY DEF QuestionLen, l
<1>9. CASE Over(p, QuestionLen(p.ptrs, name), limit)
  <2>1. limit > 0
    BY <1>9 DEF Over
  <2>2. TakeQuestion(p, name, compress, limit) = [p EXCEPT !.cut = TRUE]
    BY <1>9 DEF TakeQuestion
  <2>3. QuestionLen(none, name) \in Nat
    BY <1>2, <1>8
  <2> QED BY <2>1, <2>2, <2>3, TookNone DEF none
<1>10. CASE ~Over(p, QuestionLen(p.ptrs, name), limit)
  <2>1. TakeQuestion(p, name, compress, limit) = q
    BY <1>10 DEF TakeQuestion, q
  <2>2. limit > 0 => q.len <= limit
    BY <1>0, <1>2, <1>7, <1>8, <1>10 DEF Over
  <2>3. q.len <= p.len + QuestionLen(none, name)
    BY <1>0, <1>2, <1>7, <1>8
  <2>4. ~compress => q.len = p.len + QuestionLen(none, name)
    BY <1>0, <1>2, <1>7, <1>8
  <2>5. Took(p, q, compress, limit, QuestionLen(none, name))
    BY <1>7, <2>2, <2>3, <2>4 DEF Took
  <2>6. QuestionLen(none, name) \in Nat
    BY <1>2, <1>8
  <2> QED BY <2>1, <2>5, <2>6 DEF none
<1> QED BY <1>9, <1>10

(* All that a loop takes, from what each of its turns takes.                *)
LEMMA TookAll ==
    ASSUME NEW compress \in BOOLEAN, NEW limit \in Int, NEW n \in Nat,
           NEW u \in [0..n -> Packing(compress)], NEW s \in [1..n -> Nat],
           \A k \in 1..n : Took(u[k - 1], u[k], compress, limit, s[k])
    PROVE  SumOf(s) \in Nat /\ Took(u[0], u[n], compress, limit, SumOf(s))
<1>1. PICK v \in [0..n -> Nat] : Sums(v, n, s) /\ SumOf(s) = v[n]
  BY SumOfSums
<1> DEFINE Inv(k) == Took(u[0], u[k], compress, limit, v[k])
           T == {k \in 0..n : Inv(k)}
<1>2. 0 \in T
  <2>1. v[0] = 0 /\ u[0] \in Packing(compress)
    BY <1>1 DEF Sums
  <2> QED BY <2>1, TookNothing
<1>3. ASSUME NEW k \in 1..n, k - 1 \in T PROVE k \in T
  <2>a. Inv(k - 1)
    <3> HIDE DEF Inv
    <3> QED BY <1>3
  <2> DEFINE p == u[0]
             o == u[k - 1]
             e == u[k]
             a == v[k - 1]
             b == s[k]
  <2>1. k - 1 \in 0..n /\ k \in 0..n /\ 0 \in 0..n
    OBVIOUS
  <2>2. p \in Packing(compress) /\ a \in Nat /\ b \in Nat /\ v[k] = a + b
    BY <1>1, <2>1 DEF Sums
  <2>3. Took(p, o, compress, limit, a) /\ Took(o, e, compress, limit, b)
    BY <2>a
  <2> HIDE DEF p, o, e, a, b
  <2>4. Took(p, e, compress, limit, a + b)
    BY <2>2, <2>3, TookOn
  <2>5. Inv(k)
    BY <2>2, <2>4 DEF p, e
  <2> HIDE DEF Inv
  <2> QED BY <2>1, <2>5
<1>4. n \in T
  <2> HIDE DEF T
  <2>1. \A k \in 1..n : k - 1 \in T => k \in T
    BY <1>3
  <2>2. \A k \in 0..n : k \in T
    BY <1>2, <2>1, UpTo
  <2> QED BY <2>2
<1>5. Inv(n) /\ v[n] \in Nat
  BY <1>4
<1> QED BY <1>1, <1>5

(* What the sections of a message are measured to without compression.      *)
Measured(r, skip) == IF skip /\ r.type = "OPT" THEN 0 ELSE RRLen(<<>>, r)
SectionLen(rrs, skip) == SumOf([i \in 1..Len(rrs) |-> Measured(rrs[i], skip)])
AskedLen(qs) == SumOf([i \in 1..Len(qs) |-> QuestionLen(<<>>, qs[i])])

(* The loop over the questions, turn by turn. *)
LEMMA TakeQuestionsRuns ==
    ASSUME NEW compress \in BOOLEAN, NEW p \in Packing(compress), NEW qs \in Seq(NameSet), NEW limit \in Int
    PROVE  \E u \in [0..Len(qs) -> Packing(compress)] :
             /\ u[0] = p /\ u[Len(qs)] = TakeQuestions(p, qs, compress, limit)
             /\ \A k \in 1..Len(qs) : u[k] = TakeQuestion(u[k - 1], qs[k], compress, limit)
<1> DEFINE n == Len(qs)
           F(f) == [k \in 0..n |-> IF k = 0 THEN p ELSE TakeQuestion(f[k - 1], qs[k], compress, limit)]
           Upto == CHOOSE f : f = F(f)
           step == [x \in (1..n) \X Packing(compress) |-> TakeQuestion(x[2], qs[x[1]], compress, limit)]
<1>1. TakeQuestions(p, qs, compress, limit) = Upto[n]
  BY Zenon DEF TakeQuestions
<1>2. ASSUME NEW s \in Packing(compress), NEW k \in 1..n PROVE TakeQuestion(s, qs[k], compress, limit) \in Packing(compress)
  <2>1. qs[k] \in NameSet
    OBVIOUS
  <2> QED BY <2>1, TakeQuestionIs DEF Took
<1>a. n \in Nat
  BY DEF NameSet
<1> HIDE DEF n
<1>3. \E g \in [0..n -> Packing(compress)] : g = F(g)
  <2>1. step \in [(1..n) \X Packing(compress) -> Packing(compress)]
    BY <1>2
  <2> HIDE DEF step
  <2>2. PICK g \in [0..n -> Packing(compress)] : Runs(g, p, n, step)
    BY <1>a, <2>1, Recursion
  <2>3. ASSUME NEW k \in 0..n PROVE g[k] = IF k = 0 THEN p ELSE TakeQuestion(g[k - 1], qs[k], compress, limit)
    <3>1. CASE k # 0
      <4>1. k \in 1..n /\ k - 1 \in 0..n
        BY <1>a, <3>1
      <4>2. <<k, g[k - 1]>> \in (1..n) \X Packing(compress)
        BY <4>1
      <4>3. g[k] = step[<<k, g[k - 1]>>]
        BY <2>2, <4>1 DEF Runs
      <4> QED BY <3>1, <4>2, <4>3 DEF step
    <3>2. CASE k = 0
      BY <2>2, <3>2 DEF Runs
    <3> QED BY <3>1, <3>2
  <2> QED BY <2>3
<1>4. Upto = F(Upto)
  <2> HIDE DEF F
  <2> QED BY <1>3
<1> HIDE DEF Upto
<1>5. Upto[0] = p /\ \A k \in 1..n : Upto[k] = TakeQuestion(Upto[k - 1], qs[k], compress, limit)
  <2>1. \A k \in 0..n : Upto[k] = IF k = 0 THEN p ELSE TakeQuestion(Upto[k - 1], qs[k], compress, limit)
    BY <1>4
  <2>2. 0 \in 0..n /\ \A k \in 1..n : k \in 0..n /\ k # 0
    BY <1>a
  <2> QED BY <2>1, <2>2
<1> DEFINE T == {k \in 0..n : Upto[k] \in Packing(compress)}
<1>6. \A k \in 0..n : k \in T
  <2>1. 0 \in T
    BY <1>5, <1>a
  <2>2. \A k \in 1..n : k - 1 \in T => k \in T
    BY <1>2, <1>5
  <2> HIDE DEF T
  <2> QED BY <1>a, <2>1, <2>2, UpTo
<1>7. Upto \in [0..n -> Packing(compress)]
  <2>1. Upto = [k \in 0..n |-> Upto[k]]
    BY <1>4
  <2> QED BY <1>6, <2>1
<1> QED BY <1>1, <1>5, <1>7 DEF n

(* The questions of a message. *)
LEMMA TakeQuestionsIs ==
    ASSUME NEW compress \in BOOLEAN, NEW p \in Packing(compress), NEW qs \in Seq(NameSet), NEW limit \in Int
    PROVE  /\ AskedLen(qs) \in Nat
           /\ Took(p, TakeQuestions(p, qs, compress, limit), compress, limit, AskedLen(qs))
<1> DEFINE n == Len(qs)
           q == TakeQuestions(p, qs, compress, limit)
           s == [k \in 1..n |-> QuestionLen(<<>>, qs[k])]
<1>1. PICK u \in [0..n -> Packing(compress)] :
        /\ u[0] = p /\ u[n] = q
        /\ \A k \in 1..n : u[k] = TakeQuestion(u[k - 1], qs[k], compress, limit)
  BY TakeQuestionsRuns
<1>2. n \in Nat /\ \A k \in 1..n : qs[k] \in NameSet
  OBVIOUS
<1>3. s \in [1..n -> Nat] /\ \A k \in 1..n : s[k] = QuestionLen(<<>>, qs[k])
  <2>1. \A k \in 1..n : QuestionLen(<<>>, qs[k]) \in Nat
    BY <1>2, TakeQuestionIs
  <2> QED BY <2>1
<1>4. AskedLen(qs) = SumOf(s)
  BY DEF AskedLen
<1> HIDE DEF n, q, s
<1>5. ASSUME NEW k \in 1..n PROVE Took(u[k - 1], u[k], compress, limit, s[k])
  <2>1. k - 1 \in 0..n /\ u[k - 1] \in Packing(compress) /\ qs[k] \in NameSet
    BY <1>2
  <2> QED BY <1>1, <1>3, <2>1, TakeQuestionIs
<1>6. SumOf(s) \in Nat /\ Took(u[0], u[n], compress, limit, SumOf(s))
  BY <1>2, <1>3, <1>5, TookAll
<1> QED BY <1>1, <1>4, <1>6 DEF q

(* One record of a section, unless it is an OPT to be skipped. *)
NextRR(p, r, skip, compress, limit) ==
    IF skip /\ r.type = "OPT" THEN p ELSE TakeRR(p, r, compress, limit)

(* A record of a section is taken, or skipped, or passed over. *)
LEMMA NextRRIs ==
    ASSUME NEW compress \in BOOLEAN, NEW skip \in BOOLEAN, NEW p \in Packing(compress),
           NEW r \in Resources, NEW limit \in Int
    PROVE  /\ Measured(r, skip) \in Nat
           /\ Took(p, NextRR(p, r, skip, compress, limit), compress, limit, Measured(r, skip))
<1>1. CASE skip /\ r.type = "OPT"
  BY <1>1, TookNothing DEF Measured, NextRR
<1>2. CASE ~(skip /\ r.type = "OPT")
  <2>1. Measured(r, skip) = RRLen(<<>>, r) /\ NextRR(p, r, skip, compress, limit) = TakeRR(p, r, compress, limit)
    BY <1>2 DEF Measured, NextRR
  <2> QED BY <2>1, TakeRRIs
<1> QED BY <1>1, <1>2

(* u holds what is packed after each turn of the loop of packRRs. *)
TakesRRs(u, p, rrs, skip, compress, limit) ==
    /\ u[0] = p /\ u[Len(rrs)] = TakeRRs(p, rrs, skip, compress, limit)
    /\ \A k \in 1..Len(rrs) : u[k] = NextRR(u[k - 1], rrs[k], skip, compress, limit)

(* The loop of packRRs, turn by turn. *)
LEMMA TakeRRsRuns ==
    ASSUME NEW compress \in BOOLEAN, NEW skip \in BOOLEAN, NEW p \in Packing(compress),
           NEW rrs \in Seq(Resources), NEW limit \in Int
    PROVE  \E u \in [0..Len(rrs) -> Packing(compress)] : TakesRRs(u, p, rrs, skip, compress, limit)
<1> DEFINE n == Len(rrs)
           F(f) == [k \in 0..n |-> IF k = 0 THEN p ELSE NextRR(f[k - 1], rrs[k], skip, compress, limit)]
           Upto == CHOOSE f : f = F(f)
           step == [x \in (1..n) \X Packing(compress) |-> NextRR(x[2], rrs[x[1]], skip, compress, limit)]
<1>1. TakeRRs(p, rrs, skip, compress, limit) = Upto[n]
  BY Zenon DEF TakeRRs, NextRR
<1>2. ASSUME NEW s \in Packing(compress), NEW k \in 1..n PROVE NextRR(s, rrs[k], skip, compress, limit) \in Packing(compress)
  <2>1. rrs[k] \in Resources
    OBVIOUS
  <2> QED BY <2>1, NextRRIs DEF Took
<1>a. n \in Nat
  BY DEF NameSet
<1> HIDE DEF n
<1>3. \E g \in [0..n -> Packing(compress)] : g = F(g)
  <2>1. step \in [(1..n) \X Packing(compress) -> Packing(compress)]
    BY <1>2
  <2> HIDE DEF step
  <2>2. PICK g \in [0..n -> Packing(compress)] : Runs(g, p, n, step)
    BY <1>a, <2>1, Recursion
  <2>3. ASSUME NEW k \in 0..n PROVE g[k] = IF k = 0 THEN p ELSE NextRR(g[k - 1], rrs[k], skip, compress, limit)
    <3>1. CASE k # 0
      <4>1. k \in 1..n /\ k - 1 \in 0..n
        BY <1>a, <3>1
      <4>2. <<k, g[k - 1]>> \in (1..n) \X Packing(compress)
        BY <4>1
      <4>3. g[k] = step[<<k, g[k - 1]>>]
        BY <2>2, <4>1 DEF Runs
      <4> QED BY <3>1, <4>2, <4>3 DEF step
    <3>2. CASE k = 0
      BY <2>2, <3>2 DEF Runs
    <3> QED BY <3>1, <3>2
  <2> QED BY <2>3
<1>4. Upto = F(Upto)
  <2> HIDE DEF F
  <2> QED BY <1>3
<1> HIDE DEF Upto
<1>5. Upto[0] = p /\ \A k \in 1..n : Upto[k] = NextRR(Upto[k - 1], rrs[k], skip, compress, limit)
  <2>1. \A k \in 0..n : Upto[k] = IF k = 0 THEN p ELSE NextRR(Upto[k - 1], rrs[k], skip, compress, limit)
    BY <1>4
  <2>2. 0 \in 0..n /\ \A k \in 1..n : k \in 0..n /\ k # 0
    BY <1>a
  <2> QED BY <2>1, <2>2
<1> DEFINE T == {k \in 0..n : Upto[k] \in Packing(compress)}
<1>6. \A k \in 0..n : k \in T
  <2>1. 0 \in T
    BY <1>5, <1>a
  <2>2. \A k \in 1..n : k - 1 \in T => k \in T
    BY <1>2, <1>5
  <2> HIDE DEF T
  <2> QED BY <1>a, <2>1, <2>2, UpTo
<1>7. Upto \in [0..n -> Packing(compress)]
  <2>1. Upto = [k \in 0..n |-> Upto[k]]
    BY <1>4
  <2> QED BY <1>6, <2>1
<1>8. TakesRRs(Upto, p, rrs, skip, compress, limit)
  BY <1>1, <1>5 DEF n, TakesRRs
<1> QED BY <1>7, <1>8 DEF n

(* packRRs: the records of a section. *)
LEMMA TakeRRsIs ==
    ASSUME NEW compress \in BOOLEAN, NEW skip \in BOOLEAN, NEW p \in Packing(compress),
           NEW rrs \in Seq(Resources), NEW limit \in Int
    PROVE  /\ SectionLen(rrs, skip) \in Nat
           /\ Took(p, TakeRRs(p, rrs, skip, compress, limit), compress, limit, SectionLen(rrs, skip))
<1> DEFINE n == Len(rrs)
           q == TakeRRs(p, rrs, skip, compress, limit)
           s == [k \in 1..n |-> Measured(rrs[k], skip)]
<1>0. PICK u \in [0..n -> Packing(compress)] : TakesRRs(u, p, rrs, skip, compress, limit)
  BY TakeRRsRuns
<1>1. /\ u[0] = p /\ u[n] = q
      /\ \A k \in 1..n : u[k] = NextRR(u[k - 1], rrs[k], skip, compress, limit)
  BY <1>0 DEF TakesRRs
<1>2. n \in Nat /\ \A k \in 1..n : rrs[k] \in Resources
  OBVIOUS
<1>3. s \in [1..n -> Nat] /\ \A k \in 1..n : s[k] = Measured(rrs[k], skip)
  <2>1. \A k \in 1..n : Measured(rrs[k], skip) \in Nat
    BY <1>2, NextRRIs
  <2> QED BY <2>1
<1>4. SectionLen(rrs, skip) = SumOf(s)
  BY DEF SectionLen
<1> HIDE DEF n, q, s
<1>5. ASSUME NEW k \in 1..n PROVE Took(u[k - 1], u[k], compress, limit, s[k])
  <2>1. k - 1 \in 0..n /\ u[k - 1] \in Packing(compress) /\ rrs[k] \in Resources
    BY <1>2
  <2> QED BY <1>1, <1>3, <2>1, NextRRIs
<1>6. SumOf(s) \in Nat /\ Took(u[0], u[n], compress, limit, SumOf(s))
  BY <1>2, <1>3, <1>5, TookAll
<1> QED BY <1>1, <1>4, <1>6 DEF q

(* The four sections. *)
AllLen(m, skip) ==
    AskedLen(m.questions) + SectionLen(m.answers, FALSE) + SectionLen(m.authorities, FALSE)
    + SectionLen(m.additionals, skip)

(* The four sections one after the other. *)
LEMMA TakeAllIs ==
    ASSUME NEW compress \in BOOLEAN, NEW skip \in BOOLEAN, NEW p \in Packing(compress),
           NEW m \in MessageSet, NEW limit \in Int
    PROVE  /\ AllLen(m, skip) \in Nat
           /\ Took(p, TakeAll(p, m, skip, compress, limit), compress, limit, AllLen(m, skip))
<1> DEFINE asked == TakeQuestions(p, m.questions, compress, limit)
           answered == TakeRRs(asked, m.answers, FALSE, compress, limit)
           authorised == TakeRRs(answered, m.authorities, FALSE, compress, limit)
           q == TakeRRs(authorised, m.additionals, skip, compress, limit)
           a == AskedLen(m.questions)
           b == SectionLen(m.answers, FALSE)
           c == SectionLen(m.authorities, FALSE)
           d == SectionLen(m.additionals, skip)
<1>1. /\ m.questions \in Seq(NameSet) /\ m.answers \in Seq(Resources)
      /\ m.authorities \in Seq(Resources) /\ m.additionals \in Seq(Resources)
  BY DEF MessageSet
<1>2. TakeAll(p, m, skip, compress, limit) = q
  BY Zenon DEF TakeAll
<1>3. a \in Nat /\ Took(p, asked, compress, limit, a)
  BY <1>1, TakeQuestionsIs
<1>4. asked \in Packing(compress)
  BY <1>3 DEF Took
<1> HIDE DEF asked
<1>5. b \in Nat /\ Took(asked, answered, compress, limit, b)
  BY <1>1, <1>4, TakeRRsIs
<1>6. answered \in Packing(compress)
  BY <1>5 DEF Took
<1> HIDE DEF answered
<1>7. c \in Nat /\ Took(answered, authorised, compress, limit, c)
  BY <1>1, <1>6, TakeRRsIs
<1>8. authorised \in Packing(compress)
  BY <1>7 DEF Took
<1> HIDE DEF authorised
<1>9. d \in Nat /\ Took(authorised, q, compress, limit, d)
  BY <1>1, <1>8, TakeRRsIs
<1>10. AllLen(m, skip) = a + b + c + d
  BY DEF AllLen
<1> HIDE DEF q, a, b, c, d
<1>11. Took(p, answered, compress, limit, a + b)
  BY <1>3, <1>5, TookOn
<1>12. a + b \in Nat /\ a + b + c \in Nat /\ a + b + c + d \in Nat
  BY <1>3, <1>5, <1>7, <1>9
<1>13. Took(p, authorised, compress, limit, (a + b) + c)
  BY <1>7, <1>11, <1>12, TookOn
<1>14. Took(p, q, compress, limit, ((a + b) + c) + d)
  BY <1>9, <1>12, <1>13, TookOn
<1> QED BY <1>2, <1>10, <1>12, <1>14

(* The numbers of two lists one after the other.                            *)
LEMMA SumOfBoth ==
    ASSUME NEW n \in Nat, NEW m \in Nat, NEW s \in [1..n -> Nat], NEW t \in [1..m -> Nat],
           NEW r \in [1..(n + m) -> Nat],
           \A k \in 1..n : r[k] = s[k], \A k \in 1..m : r[n + k] = t[k]
    PROVE  SumOf(s) \in Nat /\ SumOf(t) \in Nat /\ SumOf(r) = SumOf(s) + SumOf(t)
<1> DEFINE l == n + m
<1>0. l \in Nat /\ r \in [1..l -> Nat] /\ (\A k \in 0..n : k \in 0..l) /\ (\A k \in 0..m : n + k \in 0..l)
      /\ (\A k \in 1..n : k \in 1..l) /\ (\A k \in 1..m : n + k \in 1..l)
  OBVIOUS
<1>1. PICK u \in [0..n -> Nat] : Sums(u, n, s) /\ SumOf(s) = u[n]
  BY SumOfSums
<1>2. PICK v \in [0..m -> Nat] : Sums(v, m, t) /\ SumOf(t) = v[m]
  BY SumOfSums
<1> HIDE DEF l
<1>3. PICK w \in [0..l -> Nat] : Sums(w, l, r) /\ SumOf(r) = w[l]
  BY <1>0, SumOfSums
<1> DEFINE T == {k \in 0..n : w[k] = u[k]}
<1>4. \A k \in 0..n : k \in T
  <2>1. 0 \in T
    BY <1>1, <1>3 DEF Sums
  <2>2. ASSUME NEW k \in 1..n, w[k - 1] = u[k - 1] PROVE w[k] = u[k]
    BY <1>0, <1>1, <1>3, <2>2 DEF Sums
  <2>3. \A k \in 1..n : k - 1 \in T => k \in T
    BY <2>2
  <2> HIDE DEF T
  <2> QED BY <2>1, <2>3, UpTo
<1>5. w[n] = u[n]
  BY <1>4
<1> DEFINE U == {k \in 0..m : w[n + k] = u[n] + v[k]}
<1>6. \A k \in 0..m : k \in U
  <2>1. 0 \in U
    BY <1>1, <1>2, <1>5 DEF Sums
  <2>2. ASSUME NEW k \in 1..m, w[n + (k - 1)] = u[n] + v[k - 1] PROVE w[n + k] = u[n] + v[k]
    <3>1. n + k \in 1..l /\ (n + k) - 1 = n + (k - 1)
      BY <1>0
    <3>2. w[n + k] = w[n + (k - 1)] + r[n + k]
      BY <1>3, <3>1 DEF Sums
    <3>3. v[k] = v[k - 1] + t[k] /\ r[n + k] = t[k]
      BY <1>2 DEF Sums
    <3>4. u[n] \in Nat /\ v[k - 1] \in Nat /\ t[k] \in Nat
      OBVIOUS
    <3> QED BY <2>2, <3>2, <3>3, <3>4
  <2>3. \A k \in 1..m : k - 1 \in U => k \in U
    BY <2>2
  <2> HIDE DEF U
  <2> QED BY <2>1, <2>3, UpTo
<1>7. w[l] = u[n] + v[m]
  BY <1>6 DEF l
<1> QED BY <1>1, <1>2, <1>3, <1>7

(* Sums of terms that are no larger, and one of them smaller by x.          *)
LEMMA SumWithout ==
    ASSUME NEW n \in Nat, NEW s \in [1..n -> Nat], NEW t \in [1..n -> Nat],
           \A k \in 1..n : s[k] <= t[k], NEW i \in 1..n, NEW x \in Nat, s[i] + x <= t[i]
    PROVE  SumOf(s) + x <= SumOf(t)
<1>1. PICK u \in [0..n -> Nat] : Sums(u, n, s) /\ SumOf(s) = u[n]
  BY SumOfSums
<1>2. PICK v \in [0..n -> Nat] : Sums(v, n, t) /\ SumOf(t) = v[n]
  BY SumOfSums
<1> DEFINE T == {k \in 0..n : u[k] <= v[k] /\ (i <= k => u[k] + x <= v[k])}
<1>3. 0 \in T
  BY <1>1, <1>2 DEF Sums
<1>4. ASSUME NEW k \in 1..n, u[k - 1] <= v[k - 1], i <= k - 1 => u[k - 1] + x <= v[k - 1]
      PROVE  u[k] <= v[k] /\ (i <= k => u[k] + x <= v[k])
  <2>1. k - 1 \in 0..n /\ k \in 0..n
    OBVIOUS
  <2> DEFINE a == u[k - 1]
             b == v[k - 1]
             c == s[k]
             d == t[k]
  <2>2. u[k] = a + c /\ v[k] = b + d
    BY <1>1, <1>2 DEF Sums
  <2>3. a \in Nat /\ b \in Nat /\ c \in Nat /\ d \in Nat /\ c <= d
    BY <2>1
  <2>4. i = k => c + x <= d
    OBVIOUS
  <2>5. a <= b /\ (i <= k - 1 => a + x <= b)
    BY <1>4
  <2> HIDE DEF a, b, c, d
  <2>6. i \in Int /\ k \in Int /\ x \in Nat
    OBVIOUS
  <2>7. a + c <= b + d
    BY <2>3, <2>5
  <2>8. i <= k => (a + c) + x <= b + d
    BY <2>3, <2>4, <2>5, <2>6
  <2> QED BY <2>2, <2>7, <2>8
<1>a. \A k \in 1..n : k - 1 \in T => k \in T
  <2>1. ASSUME NEW k \in 1..n, k - 1 \in T PROVE k \in T
    <3>1. k \in 0..n
      OBVIOUS
    <3>2. u[k - 1] <= v[k - 1] /\ (i <= k - 1 => u[k - 1] + x <= v[k - 1])
      BY <2>1
    <3>3. u[k] <= v[k] /\ (i <= k => u[k] + x <= v[k])
      BY <1>4, <3>2, Zenon
    <3> QED BY <3>1, <3>3, Zenon
  <2> QED BY <2>1
<1>5. n \in T
  <2> HIDE DEF T
  <2>2. \A k \in 0..n : k \in T
    BY <1>3, <1>a, UpTo
  <2> QED BY <2>2
<1> QED BY <1>1, <1>2, <1>5

(* Nothing has been packed yet. *)
LEMMA BlankIs ==
    ASSUME NEW compress \in BOOLEAN
    PROVE  [w |-> <<>>, len |-> 0, ptrs |-> <<>>, cut |-> FALSE] \in Packing(compress)
<1>1. <<>> \in Seq(Tokens)
  OBVIOUS
<1>2. <<>> \in PtrMaps /\ DOMAIN <<>> = {}
  <2>1. <<>> \in [{} -> Nat]
    OBVIOUS
  <2> QED BY <2>1 DEF PtrMaps
<1> QED BY <1>1, <1>2 DEF Packing, Packed

(* Measures are numbers. *)
LEMMA RRLenIsNat ==
    ASSUME NEW r \in Resources
    PROVE  RRLen(<<>>, r) \in Nat
<1> DEFINE p == [w |-> <<>>, len |-> 0, ptrs |-> <<>>, cut |-> FALSE]
<1>1. p \in Packing(FALSE)
  BY BlankIs
<1> HIDE DEF p
<1>2. FALSE \in BOOLEAN /\ 0 \in Int
  OBVIOUS
<1> QED BY <1>1, <1>2, TakeRRIs

(* So is that of the questions. *)
LEMMA AskedLenIsNat ==
    ASSUME NEW qs \in Seq(NameSet)
    PROVE  AskedLen(qs) \in Nat
<1> DEFINE p == [w |-> <<>>, len |-> 0, ptrs |-> <<>>, cut |-> FALSE]
<1>1. p \in Packing(FALSE)
  BY BlankIs
<1> HIDE DEF p
<1>2. FALSE \in BOOLEAN /\ 0 \in Int
  OBVIOUS
<1> QED BY <1>1, <1>2, TakeQuestionsIs

(* Two sections one after the other. *)
LEMMA SectionsLen ==
    ASSUME NEW a \in Seq(Resources), NEW b \in Seq(Resources)
    PROVE  /\ a \o b \in Seq(Resources)
           /\ SectionLen(a, FALSE) \in Nat /\ SectionLen(b, FALSE) \in Nat
           /\ SectionLen(a \o b, FALSE) = SectionLen(a, FALSE) + SectionLen(b, FALSE)
<1> DEFINE n == Len(a)
           m == Len(b)
           c == a \o b
           M(r) == Measured(r, FALSE)
           s == [i \in 1..n |-> M(a[i])]
           t == [i \in 1..m |-> M(b[i])]
           r == [i \in 1..(n + m) |-> M(c[i])]
<1>1. /\ n \in Nat /\ m \in Nat /\ c \in Seq(Resources) /\ Len(c) = n + m
      /\ \A i \in 1..n : c[i] = a[i] /\ i \in 1..(n + m)
      /\ \A i \in 1..m : c[n + i] = b[i] /\ n + i \in 1..(n + m)
  OBVIOUS
<1>2. \A x \in Resources : M(x) \in Nat
  BY RRLenIsNat DEF Measured
<1>3. SectionLen(a, FALSE) = SumOf(s) /\ SectionLen(b, FALSE) = SumOf(t)
  BY DEF SectionLen
<1>4. SectionLen(c, FALSE) = SumOf(r)
  BY <1>1 DEF SectionLen
<1> HIDE DEF M
<1>5. s \in [1..n -> Nat] /\ t \in [1..m -> Nat]
  BY <1>2
<1>6. r \in [1..(n + m) -> Nat]
  <2>1. \A i \in 1..(n + m) : c[i] \in Resources
    BY <1>1
  <2> HIDE DEF c
  <2> QED BY <1>2, <2>1
<1>7. \A k \in 1..n : r[k] = s[k]
  BY <1>1
<1>8. \A k \in 1..m : r[n + k] = t[k]
  BY <1>1
<1> HIDE DEF r, s, t, n, m
<1>9. SumOf(s) \in Nat /\ SumOf(t) \in Nat /\ SumOf(r) = SumOf(s) + SumOf(t)
  BY <1>1, <1>5, <1>6, <1>7, <1>8, SumOfBoth
<1> QED BY <1>1, <1>3, <1>4, <1>9

(* MaxPackLen counts every question and record as if nothing were compressed. *)
LEMMA MaxPackLenIs ==
    ASSUME NEW m \in MessageSet
    PROVE  MaxPackLen(m) = 12 + AllLen(m, FALSE)
<1> DEFINE a == m.answers
           b == m.authorities
           c == m.additionals
           ab == a \o b
           abc == ab \o c
<1>1. /\ m.questions \in Seq(NameSet) /\ a \in Seq(Resources) /\ b \in Seq(Resources)
      /\ c \in Seq(Resources)
  BY DEF MessageSet
<1>2. SumOf([i \in 1..Len(Records(m)) |-> RRLen(<<>>, Records(m)[i])]) = SectionLen(Records(m), FALSE)
  BY DEF SectionLen, Measured
<1>3. Records(m) = (a \o b) \o c
  BY DEF Records
<1>4. MaxPackLen(m) = 12 + AskedLen(m.questions) + SectionLen(abc, FALSE)
  BY <1>2, <1>3 DEF MaxPackLen, AskedLen
<1>5. AllLen(m, FALSE) = AskedLen(m.questions) + SectionLen(a, FALSE) + SectionLen(b, FALSE)
                         + SectionLen(c, FALSE)
  BY DEF AllLen
<1>6. AskedLen(m.questions) \in Nat
  BY <1>1, AskedLenIsNat
<1> HIDE DEF a, b, c
<1>7. /\ ab \in Seq(Resources)
      /\ SectionLen(a, FALSE) \in Nat /\ SectionLen(b, FALSE) \in Nat
      /\ SectionLen(ab, FALSE) = SectionLen(a, FALSE) + SectionLen(b, FALSE)
  BY <1>1, SectionsLen
<1> HIDE DEF ab
<1>8. /\ SectionLen(c, FALSE) \in Nat
      /\ SectionLen(abc, FALSE) = SectionLen(ab, FALSE) + SectionLen(c, FALSE)
  BY <1>1, <1>7, SectionsLen
<1> DEFINE q == AskedLen(m.questions)
           la == SectionLen(a, FALSE)
           lb == SectionLen(b, FALSE)
           lc == SectionLen(c, FALSE)
           lab == SectionLen(ab, FALSE)
           labc == SectionLen(abc, FALSE)
<1>9. labc = lab + lc /\ lab = la + lb /\ la \in Nat /\ lb \in Nat /\ lc \in Nat /\ q \in Nat
  BY <1>6, <1>7, <1>8
<1>10. MaxPackLen(m) = 12 + q + labc /\ AllLen(m, FALSE) = q + la + lb + lc
  BY <1>4, <1>5 DEF abc, a, b, c
<1> HIDE DEF q, la, lb, lc, lab, labc
<1>11. 12 + q + labc = 12 + (q + la + lb + lc)
  BY <1>9
<1>12. MaxPackLen(m) = 12 + (q + la + lb + lc)
  BY <1>10, <1>11, Zenon
<1>13. AllLen(m, FALSE) = q + la + lb + lc
  BY <1>10
<1> QED BY <1>12, <1>13, Zenon

(* The search for the last OPT finds one when there is one. *)
LEMMA LastOptIs ==
    ASSUME NEW rrs \in Seq(Resources), OptsAt(rrs) # {}
    PROVE  /\ LastOpt(rrs) \in OptsAt(rrs) /\ LastOpt(rrs) \in 1..Len(rrs)
           /\ rrs[LastOpt(rrs)].type = "OPT" /\ rrs[LastOpt(rrs)] \in Resources
<1> DEFINE n == Len(rrs)
           O == OptsAt(rrs)
           back == {n - k : k \in O}
<1>1. n \in Nat /\ O \subseteq 1..n
  BY DEF OptsAt
<1> HIDE DEF O
<1>2. back \in SUBSET Nat /\ back # {}
  <2>1. \A k \in O : n - k \in Nat
    BY <1>1
  <2>2. O # {}
    BY DEF O
  <2> QED BY <2>1, <2>2
<1> HIDE DEF n
<1>3. \E x \in back : \A y \in back : x <= y
  <2> HIDE DEF back
  <2> QED BY <1>2, Least
<1>4. PICK k \in O : \A j \in O : n - k <= n - j
  BY <1>3
<1>5. \A j \in O : j <= k
  <2>1. ASSUME NEW j \in O PROVE j <= k
    <3>1. j \in 1..n /\ k \in 1..n /\ n - k <= n - j
      BY <1>1, <1>4
    <3> QED BY <1>1, <3>1
  <2> QED BY <2>1
<1>6. LastOpt(rrs) \in OptsAt(rrs)
  <2>1. \E x \in OptsAt(rrs) : \A j \in OptsAt(rrs) : j <= x
    BY <1>5 DEF O
  <2>2. LastOpt(rrs) = CHOOSE x \in OptsAt(rrs) : \A j \in OptsAt(rrs) : j <= x
    BY DEF LastOpt
  <2> QED BY <2>1, <2>2
<1> QED BY <1>6 DEF OptsAt

Blank == [w |-> <<>>, len |-> 0, ptrs |-> <<>>, cut |-> FALSE]
Headed(m) == Emit(Blank, "header", [hdr |-> m.hdr, counts |-> Counts(m)], 12)

(* The header comes first. *)
LEMMA HeaderIs ==
    ASSUME NEW m \in MessageSet, NEW compress \in BOOLEAN
    PROVE  /\ Headed(m) \in Packing(compress) /\ Headed(m).len = 12
           /\ Len(Headed(m).w) = 1 /\ Headed(m).w[1].v.hdr = m.hdr
<1> DEFINE val == [hdr |-> m.hdr, counts |-> Counts(m)]
           h == Emit(Blank, "header", val, 12)
<1>1. m.hdr \in Headers
  BY DEF MessageSet
<1>2. Counts(m) \in Seq(Nat)
  <2>1. /\ Len(m.questions) \in Nat /\ Len(m.answers) \in Nat /\ Len(m.authorities) \in Nat
        /\ Len(m.additionals) \in Nat
    BY DEF MessageSet
  <2> QED BY <2>1 DEF Counts
<1>3. val \in Values /\ val.hdr = m.hdr
  BY <1>1, <1>2 DEF Values
<1>4. Blank \in Packing(compress)
  BY BlankIs DEF Blank
<1>5. Blank \in Packed /\ (~compress => DOMAIN Blank.ptrs = {}) /\ Len(Blank.w) = 0 /\ Blank.len = 0
  BY <1>4 DEF Packing, Blank
<1>6. "header" \in Kinds /\ 12 \in Nat
  BY DEF Kinds
<1> HIDE DEF val
<1>7. ASSUME NEW kd \in Kinds, NEW b \in Nat PROVE Emitted(Blank, Emit(Blank, kd, val, b), val, b)
  BY <1>3, <1>5, EmitIs
<1>8. /\ h \in Packed /\ h.len = Blank.len + 12 /\ h.ptrs = Blank.ptrs
      /\ Len(h.w) = Len(Blank.w) + 1 /\ h.w[Len(h.w)].v = val
  <2>1. Emitted(Blank, h, val, 12)
    BY <1>6, <1>7, Zenon
  <2> HIDE DEF h
  <2> QED BY <2>1 DEF Emitted
<1> HIDE DEF h
<1>9. h \in Packing(compress) /\ h.len = 12 /\ Len(h.w) = 1
  BY <1>5, <1>8 DEF Packing
<1>10. h.w[1].v.hdr = m.hdr
  BY <1>3, <1>8, <1>9
<1> QED BY <1>9, <1>10, Zenon DEF Headed, h, val

(* Leaving the OPT records out leaves room for one. *)
LEMMA RoomForOpt ==
    ASSUME NEW m \in MessageSet, OptsAt(m.additionals) # {}
    PROVE  LET opt == m.additionals[LastOpt(m.additionals)]
           IN  /\ RRLen(<<>>, opt) \in Nat /\ AllLen(m, TRUE) \in Nat /\ AllLen(m, FALSE) \in Nat
               /\ AllLen(m, TRUE) + RRLen(<<>>, opt) <= AllLen(m, FALSE)
<1> DEFINE rrs == m.additionals
           n == Len(rrs)
           i == LastOpt(rrs)
           x == RRLen(<<>>, rrs[i])
           s == [k \in 1..n |-> Measured(rrs[k], TRUE)]
           t == [k \in 1..n |-> Measured(rrs[k], FALSE)]
<1>1. rrs \in Seq(Resources) /\ n \in Nat /\ \A k \in 1..n : rrs[k] \in Resources
  BY DEF MessageSet
<1>2. i \in 1..n /\ rrs[i].type = "OPT" /\ rrs[i] \in Resources
  BY <1>1, LastOptIs
<1>3. \A r \in Resources : RRLen(<<>>, r) \in Nat
  BY RRLenIsNat
<1>4. \A r \in Resources : /\ Measured(r, TRUE) \in Nat /\ Measured(r, FALSE) = RRLen(<<>>, r)
                           /\ Measured(r, TRUE) <= Measured(r, FALSE)
                           /\ r.type = "OPT" => Measured(r, TRUE) = 0
  BY <1>3 DEF Measured
<1>5. s \in [1..n -> Nat] /\ t \in [1..n -> Nat] /\ \A k \in 1..n : s[k] <= t[k]
  BY <1>1, <1>3, <1>4
<1>a. x \in Nat
  BY <1>2, <1>3
<1>b. s[i] = 0 /\ t[i] = x
  <2>1. \A k \in 1..n : s[k] = Measured(rrs[k], TRUE) /\ t[k] = RRLen(<<>>, rrs[k])
    BY <1>1, <1>4
  <2> HIDE DEF s, t
  <2> QED BY <1>2, <1>4, <2>1, Zenon
<1>6. x \in Nat /\ s[i] + x <= t[i]
  <2> HIDE DEF s, t, x
  <2> QED BY <1>a, <1>b
<1>7. SectionLen(rrs, TRUE) = SumOf(s) /\ SectionLen(rrs, FALSE) = SumOf(t)
  BY DEF SectionLen
<1> HIDE DEF s, t, x, n, i, rrs
<1>8. SumOf(s) + x <= SumOf(t)
  BY <1>1, <1>2, <1>5, <1>6, SumWithout
<1> DEFINE q == AskedLen(m.questions)
           a == SectionLen(m.answers, FALSE)
           b == SectionLen(m.authorities, FALSE)
           ss == SumOf(s)
           st == SumOf(t)
<1>9. q \in Nat /\ a \in Nat /\ b \in Nat
  <2>1. m.questions \in Seq(NameSet) /\ m.answers \in Seq(Resources) /\ m.authorities \in Seq(Resources)
    BY DEF MessageSet
  <2> QED BY <2>1, AskedLenIsNat, SectionsLen
<1>10. AllLen(m, TRUE) = q + a + b + ss /\ AllLen(m, FALSE) = q + a + b + st
  BY <1>7 DEF AllLen, rrs
<1>11. ss \in Nat /\ st \in Nat
  <2>1. \E u \in [0..n -> Nat] : ss = u[n]
    BY <1>1, <1>5, SumOfSums
  <2>2. \E u \in [0..n -> Nat] : st = u[n]
    BY <1>1, <1>5, SumOfSums
  <2> QED BY <1>1, <2>1, <2>2
<1>12. ss + x <= st
  BY <1>8
<1> HIDE DEF q, a, b, ss, st
<1>13. q + a + b + ss + x <= q + a + b + st /\ q + a + b + ss \in Nat /\ q + a + b + st \in Nat
  BY <1>6, <1>9, <1>11, <1>12
<1>14. AllLen(m, TRUE) + x <= AllLen(m, FALSE) /\ AllLen(m, TRUE) \in Nat /\ AllLen(m, FALSE) \in Nat
  BY <1>10, <1>13, Zenon
<1> QED BY <1>6, <1>14, Zenon DEF x, rrs, i

(* The length of a body is a number. *)
LEMMA BodyLenIsNat ==
    ASSUME NEW r \in Resources
    PROVE  BodyLen(<<>>, r) \in Nat
<1> DEFINE none == <<>>
           bytes == BodyBytes(none, r.body)
<1>1. Blank \in Packing(FALSE)
  BY BlankIs DEF Blank
<1>2. Blank.ptrs = none
  BY DEF Blank
<1>3. r.body \in Seq(BodyParts)
  BY DEF Resources, BodyParts
<1>4. FALSE \in BOOLEAN /\ DOMAIN none \subseteq DOMAIN Blank.ptrs
  BY <1>2
<1> HIDE DEF none
<1>5. bytes \in Nat
  BY <1>1, <1>3, <1>4, PackPartsLen
<1>6. BodyLen(<<>>, r) = bytes
  BY BodyLenIs DEF none
<1> QED BY <1>5, <1>6

(* An OPT record is its header, and a name of no labels. *)
LEMMA BareLen ==
    ASSUME NEW r \in Resources, r.name = <<>>, r.body = <<>>
    PROVE  /\ BodyLen(<<>>, r) = 0 /\ RRLen(<<>>, r) = NameBytes(<<>>) + 10
           /\ NameBytes(<<>>) \in Nat
<1> DEFINE none == <<>>
           name == r.name
<1>1. BodyLen(<<>>, r) = 0
  <2>1. BodyLen(<<>>, r) = BodyBytes(<<>>, <<>>)
    BY BodyLenIs
  <2>2. BodyBytes(<<>>, <<>>) = SumOf(<<>>)
    BY DEF BodyBytes
  <2> QED BY <2>1, <2>2, SumNone
<1>2. name \in NameSet /\ DOMAIN none = {}
  BY DEF Resources
<1> HIDE DEF none, name
<1>3. NameLen(none, name) = NameBytes(name) /\ NameLen(none, name) \in Nat
  BY <1>2, NameLenWhole, NameLenShrinks
<1>4. NameLen(<<>>, r.name) = NameBytes(<<>>) /\ NameBytes(<<>>) \in Nat
  BY <1>3 DEF none, name
<1> QED BY <1>1, <1>4 DEF RRLen

(* What follows the header leaves it as it is. *)
LEMMA HeaderStays ==
    ASSUME NEW m \in MessageSet, NEW q, Grows(Headed(m), q)
    PROVE  q.w[1].v.hdr = m.hdr
<1>1. Len(Headed(m).w) = 1 /\ Headed(m).w[1].v.hdr = m.hdr
  BY HeaderIs
<1> QED BY <1>1 DEF Grows

Most(prefix, size) == (IF size < MinSize THEN MinSize ELSE size) - prefix

(* What Msg.Pack makes of a message: the header is its own, the length no   *)
(* more than MaxPackLen, and just that without compression and limit; with  *)
(* a limit, no more than that, an OPT record without options apart.         *)
IsPacked(m, q, compression, prefix, size) ==
    LET opt == m.additionals[LastOpt(m.additionals)]
    IN  /\ q \in Packed /\ q.w[1].v.hdr = m.hdr
        /\ q.len <= MaxPackLen(m)
        /\ ~compression /\ size = 0 => q.len = MaxPackLen(m)
        /\ size > 0 /\ Most(prefix, size) >= 12 =>
             /\ OptsAt(m.additionals) = {} => q.len <= Most(prefix, size)
             /\ OptsAt(m.additionals) # {} /\ opt.name = <<>> /\ opt.body = <<>> =>
                  q.len <= Most(prefix, size) + NameBytes(<<>>) + 10

(* Msg.Pack does so with any message, prefix and size. *)
LEMMA PackIs ==
    ASSUME NEW m \in MessageSet, NEW compression \in BOOLEAN, NEW prefix \in Nat, NEW size \in Nat
    PROVE  IsPacked(m, Pack(m, compression, prefix, size), compression, prefix, size)
<1> DEFINE q == Pack(m, compression, prefix, size)
           opt == m.additionals[LastOpt(m.additionals)]
           compress == compression /\ Len(m.questions) + Len(Records(m)) > 1
           h == Headed(m)
           most == Most(prefix, size)
           room == most - BodyLen(<<>>, opt)
           allow == TakeAll(h, m, TRUE, compress, room)
<1>1. q = IF size = 0 THEN TakeAll(h, m, FALSE, compress, 0)
          ELSE IF OptsAt(m.additionals) = {} THEN TakeAll(h, m, FALSE, compress, most)
          ELSE PackRR(allow, opt, compress)
  BY Zenon DEF Pack, Headed, Blank, Most
<1>2. compress \in BOOLEAN /\ (~compression => ~compress)
  OBVIOUS
<1>3. most \in Int
  BY MessagesAssumption DEF Most
<1>4. MaxPackLen(m) = 12 + AllLen(m, FALSE)
  BY MaxPackLenIs
<1> HIDE DEF compress, q, most
<1>5. h \in Packing(compress) /\ h \in Packed /\ h.len = 12
  BY <1>2, HeaderIs DEF Packing
<1> HIDE DEF h
<1>6. ASSUME NEW limit \in Int, q = TakeAll(h, m, FALSE, compress, limit)
      PROVE  /\ q \in Packed /\ Grows(h, q) /\ q.len \in Nat
             /\ q.len <= MaxPackLen(m)
             /\ limit > 0 /\ 12 <= limit => q.len <= limit
             /\ ~compress /\ ~(limit > 0) => q.len = MaxPackLen(m)
  <2> DEFINE a == AllLen(m, FALSE)
             no == FALSE
  <2>1. no \in BOOLEAN /\ AllLen(m, no) = a
    OBVIOUS
  <2>2. q = TakeAll(h, m, no, compress, limit)
    BY <1>6
  <2> HIDE DEF no, a
  <2>3. a \in Nat /\ Took(h, q, compress, limit, a)
    BY <1>2, <1>5, <2>1, <2>2, TakeAllIs
  <2>4. /\ q \in Packing(compress) /\ Grows(h, q) /\ q.len <= 12 + a
        /\ limit > 0 /\ 12 <= limit => q.len <= limit
        /\ ~compress /\ ~(limit > 0) => q.len = 12 + a
    BY <1>5, <2>3 DEF Took
  <2>5. q \in Packed /\ q.len \in Nat
    BY <2>4, PackedFields DEF Packing
  <2> QED BY <1>4, <2>4, <2>5 DEF a
<1>7. CASE size = 0
  <2>1. q = TakeAll(h, m, FALSE, compress, 0)
    BY <1>1, <1>7
  <2>2. /\ q \in Packed /\ Grows(h, q) /\ q.len <= MaxPackLen(m)
        /\ ~compress => q.len = MaxPackLen(m)
    <3> DEFINE none == 0
    <3>1. none \in Int /\ ~(none > 0) /\ q = TakeAll(h, m, FALSE, compress, none)
      BY <2>1
    <3> HIDE DEF none
    <3> QED BY <3>1, <1>6
  <2>3. q.w[1].v.hdr = m.hdr
    BY <2>2, HeaderStays DEF h
  <2> QED BY <1>2, <1>7, <2>2, <2>3 DEF q, IsPacked
<1>8. CASE size # 0 /\ OptsAt(m.additionals) = {}
  <2>1. q = TakeAll(h, m, FALSE, compress, most)
    BY <1>1, <1>8
  <2>2. /\ q \in Packed /\ Grows(h, q) /\ q.len <= MaxPackLen(m)
        /\ most > 0 /\ 12 <= most => q.len <= most
    BY <1>3, <1>6, <2>1
  <2>3. q.w[1].v.hdr = m.hdr
    BY <2>2, HeaderStays DEF h
  <2>4. most >= 12 => q.len <= most
    BY <1>3, <2>2
  <2> QED BY <1>8, <2>2, <2>3, <2>4 DEF q, most, IsPacked
<1>9. CASE size # 0 /\ OptsAt(m.additionals) # {}
  <2> DEFINE a == AllLen(m, TRUE)
             f == AllLen(m, FALSE)
             x == RRLen(<<>>, opt)
             yes == TRUE
             none == <<>>
  <2>1. opt \in Resources
    <3>1. m.additionals \in Seq(Resources)
      BY DEF MessageSet
    <3> QED BY <1>9, <3>1, LastOptIs
  <2>2. x \in Nat /\ a \in Nat /\ f \in Nat /\ a + x <= f
    BY <1>9, RoomForOpt, Zenon
  <2>3. q = PackRR(allow, opt, compress)
    BY <1>1, <1>9
  <2>4. room \in Int /\ yes \in BOOLEAN /\ AllLen(m, yes) = a
    BY <1>3, <2>1, BodyLenIsNat
  <2>5. allow = TakeAll(h, m, yes, compress, room)
    OBVIOUS
  <2> HIDE DEF yes, a, f, x, allow
  <2> HIDE DEF room
  <2>6. Took(h, allow, compress, room, a)
    BY <1>2, <1>5, <2>4, <2>5, TakeAllIs
  <2>7. /\ allow \in Packing(compress) /\ Grows(h, allow) /\ allow.len <= 12 + a
        /\ room > 0 /\ 12 <= room => allow.len <= room
    BY <1>5, <2>6 DEF Took
  <2>8. allow \in Packed /\ allow.len \in Nat
    BY <2>7, PackedFields DEF Packing
  <2>9. DOMAIN none \subseteq DOMAIN allow.ptrs
    BY DEF none
  <2> HIDE DEF opt, none
  <2>10. /\ q \in Packing(compress) /\ Grows(allow, q) /\ q.len <= allow.len + RRLen(none, opt)
    BY <1>2, <2>1, <2>3, <2>7, <2>9, PackRRIs
  <2>11. q \in Packed /\ q.len \in Nat
    BY <2>10, PackedFields DEF Packing
  <2>12. q.len <= allow.len + x
    BY <2>10 DEF x, none
  <2>13. Grows(h, q)
    BY <1>5, <2>7, <2>8, <2>10, <2>11, GrowsOn
  <2>14. q.w[1].v.hdr = m.hdr
    BY <2>13, HeaderStays DEF h
  <2>15. q.len <= MaxPackLen(m)
    <3>1. MaxPackLen(m) = 12 + f
      BY <1>4 DEF f
    <3>2. q.len <= 12 + f
      BY <2>2, <2>7, <2>8, <2>11, <2>12
    <3> QED BY <3>1, <3>2
  <2>16. ASSUME most >= 12, opt.name = <<>>, opt.body = <<>>
         PROVE  q.len <= most + NameBytes(<<>>) + 10
    <3> DEFINE b == NameBytes(<<>>)
               l == BodyLen(<<>>, opt)
    <3>1. l = 0 /\ x = b + 10 /\ b \in Nat
      BY <2>1, <2>16, BareLen DEF x
    <3>2. room = most - l
      BY DEF room
    <3> HIDE DEF b, l
    <3>3. room = most
      BY <1>3, <3>1, <3>2
    <3>4. allow.len <= most
      BY <1>3, <2>7, <2>16, <3>3
    <3>5. q.len <= most + b + 10
      BY <1>3, <2>8, <2>11, <2>12, <3>1, <3>4
    <3> QED BY <3>5 DEF b
  <2> QED BY <1>9, <2>11, <2>14, <2>15, <2>16 DEF q, most, opt, IsPacked
<1> QED BY <1>7, <1>8, <1>9

-----------------------------------------------------------------------------
(* Reading back: the tokens of a name lead to its labels.                  *)

(* What reading a token of a name gives: the rest of the name, the pointers *)
(* on the way, and where the field after the name starts.                   *)
Readings == [name : NameSet, hops : Nat, end : Nat]
Unread == [name |-> <<>>, hops |-> 0, end |-> 0]

(* Tokens lie one after the other, up to len. *)
Laid(w, len) ==
    /\ w \in Seq(Tokens) /\ Len(w) >= 1 /\ w[1].at = 0
    /\ \A i \in 1..Len(w) : w[i].size >= 1
    /\ \A i \in 1..(Len(w) - 1) : w[i + 1].at = w[i].at + w[i].size
    /\ len = w[Len(w)].at + w[Len(w)].size

LabelAt(w, k, off) == w[k].t = "label" /\ w[k].at = off

(* g[i] is what reading token i gives: a label precedes what the next token *)
(* gives, a pointer leads to a label written before.                        *)
Explained(w, g, i) ==
    /\ w[i].t = "end" => g[i] = [name |-> <<>>, hops |-> 0, end |-> w[i].at + 1]
    /\ w[i].t = "ptr" =>
         \E k \in 1..(i - 1) :
            /\ LabelAt(w, k, w[i].v)
            /\ g[i] = [name |-> g[k].name, hops |-> g[k].hops + 1, end |-> w[i].at + 2]
    /\ w[i].t = "label" =>
         /\ w[i].v \in Labels /\ w[i].size = LabelSize[w[i].v]
         /\ i < Len(w) /\ w[i + 1].t \in NameParts
         /\ g[i] = [name |-> <<w[i].v>> \o g[i + 1].name, hops |-> g[i + 1].hops, end |-> g[i + 1].end]
    /\ w[i].t \notin NameParts => g[i] = Unread

Explains(w, g) == g \in [1..Len(w) -> Readings] /\ \A i \in 1..Len(w) : Explained(w, g, i)

(* x starts with the tokens of w, the lengths of bodies apart. *)
Begins(w, x) ==
    /\ Len(w) <= Len(x)
    /\ \A i \in 1..Len(w) :
         /\ x[i].t = w[i].t /\ x[i].at = w[i].at /\ x[i].size = w[i].size
         /\ w[i].t # "rr" => x[i].v = w[i].v

(* The fields of a token. *)
LEMMA TokenFields ==
    ASSUME NEW w \in Seq(Tokens), NEW i \in 1..Len(w)
    PROVE  w[i].t \in Kinds /\ w[i].size \in Nat /\ w[i].at \in Nat
<1>1. w[i] \in Tokens
  OBVIOUS
<1> QED BY <1>1 DEF Tokens

(* A token starts where those before it have ended. *)
LEMMA AtGrows ==
    ASSUME NEW w, NEW len, Laid(w, len), NEW i \in 1..Len(w), NEW j \in 1..Len(w), i < j
    PROVE  w[i].at + w[i].size <= w[j].at
<1> DEFINE n == j - i - 1
           T == {d \in 0..n : w[i].at + w[i].size <= w[i + 1 + d].at}
<1>1. w \in Seq(Tokens) /\ Len(w) \in Nat /\ n \in Nat
  BY DEF Laid
<1>2. \A k \in 1..Len(w) : w[k].size \in Nat /\ w[k].at \in Nat
  BY <1>1, TokenFields
<1>3. \A k \in 1..(Len(w) - 1) : w[k + 1].at = w[k].at + w[k].size
  BY DEF Laid
<1>4. 0 \in T
  BY <1>1, <1>2, <1>3
<1>5. ASSUME NEW d \in 1..n, d - 1 \in T PROVE d \in T
  <2>1. i + d \in 1..(Len(w) - 1) /\ i + 1 + (d - 1) = i + d /\ i + 1 + d = (i + d) + 1
    BY <1>1
  <2>5. i + d \in 1..Len(w) /\ (i + d) + 1 \in 1..Len(w)
    BY <2>1, <1>1
  <2>6. w[i + d].size \in Nat /\ w[(i + d) + 1].at = w[i + d].at + w[i + d].size
    BY <2>1, <2>5, <1>2, <1>3
  <2>3. w[i].at + w[i].size <= w[i + d].at
    BY <1>5, <2>1
  <2>4. w[i].at \in Nat /\ w[i].size \in Nat /\ w[i + d].at \in Nat /\ w[(i + d) + 1].at \in Nat
    BY <2>5, <1>2
  <2>2. w[i + d].at <= w[(i + d) + 1].at
    <3> DEFINE a == w[i + d].at
               b == w[i + d].size
               c == w[(i + d) + 1].at
    <3>1. a \in Nat /\ b \in Nat /\ c = a + b
      BY <2>6, <2>4
    <3> HIDE DEF a, b, c
    <3>2. a <= c
      BY <3>1
    <3> QED BY <3>2 DEF a, c
  <2> QED BY <2>1, <2>2, <2>3, <2>4, <1>5
<1> HIDE DEF T
<1>6. \A d \in 0..n : d \in T
  BY <1>1, <1>4, <1>5, UpTo
<1>7. n \in T
  BY <1>1, <1>6
<1> QED BY <1>1, <1>7 DEF T

(* Only one token starts at an offset, and it starts before the end. *)
LEMMA OneAt ==
    ASSUME NEW w, NEW len, Laid(w, len), NEW i \in 1..Len(w)
    PROVE  /\ \A j \in 1..Len(w) : w[j].at = w[i].at => j = i
           /\ w[i].at < len /\ len \in Nat
<1>1. w \in Seq(Tokens) /\ Len(w) \in Nat
  BY DEF Laid
<1>2. \A k \in 1..Len(w) : w[k].size \in Nat /\ w[k].size >= 1 /\ w[k].at \in Nat
  BY <1>1, TokenFields DEF Laid
<1>3. \A k, j \in 1..Len(w) : k < j => w[k].at < w[j].at
  BY <1>2, AtGrows
<1>4. \A j \in 1..Len(w) : w[j].at = w[i].at => j = i
  BY <1>1, <1>2, <1>3
<1>5. len = w[Len(w)].at + w[Len(w)].size /\ Len(w) \in 1..Len(w)
  BY <1>1 DEF Laid
<1>6. w[i].at <= w[Len(w)].at
  BY <1>1, <1>2, <1>3, <1>5
<1> QED BY <1>2, <1>4, <1>5, <1>6

(* TokenAt finds that one. *)
LEMMA TokenAtIs ==
    ASSUME NEW w, NEW len, Laid(w, len), NEW i \in 1..Len(w), NEW kinds
    PROVE  TokenAt(w, w[i].at, kinds) = IF w[i].t \in kinds THEN {i} ELSE {}
<1>1. \A j \in 1..Len(w) : w[j].at = w[i].at => j = i
  BY OneAt
<1> QED BY <1>1 DEF TokenAt

(* Beginnings of beginnings. *)
LEMMA BeginsOn ==
    ASSUME NEW w \in Seq(Tokens), NEW x \in Seq(Tokens), NEW y \in Seq(Tokens), Begins(w, x), Begins(x, y)
    PROVE  Begins(w, y)
<1>1. Len(w) \in Nat /\ Len(x) \in Nat /\ Len(y) \in Nat /\ Len(w) <= Len(x) /\ Len(x) <= Len(y)
  BY DEF Begins
<1>2. ASSUME NEW i \in 1..Len(w)
      PROVE  /\ y[i].t = w[i].t /\ y[i].at = w[i].at /\ y[i].size = w[i].size
             /\ w[i].t # "rr" => y[i].v = w[i].v
  <2>1. i \in 1..Len(x)
    BY <1>1
  <2>2. /\ x[i].t = w[i].t /\ x[i].at = w[i].at /\ x[i].size = w[i].size
        /\ w[i].t # "rr" => x[i].v = w[i].v
    BY DEF Begins
  <2>3. /\ y[i].t = x[i].t /\ y[i].at = x[i].at /\ y[i].size = x[i].size
        /\ x[i].t # "rr" => y[i].v = x[i].v
    BY <2>1 DEF Begins
  <2> QED BY <2>2, <2>3
<1> QED BY <1>1, <1>2 DEF Begins

(* What is packed begins what is packed on top of it. *)
LEMMA GrowsBegins ==
    ASSUME NEW p, NEW q, Grows(p, q)
    PROVE  Begins(p.w, q.w)
BY DEF Grows, Begins

(* Two readings of the same tokens are the same: a reading that differs     *)
(* from another one does so at a token from which less is read.             *)
LEMMA SameReading ==
    ASSUME NEW w \in Seq(Tokens), NEW x, NEW len, Laid(x, len), Begins(w, x),
           NEW f, Explains(w, f), NEW g, Explains(x, g)
    PROVE  \A i \in 1..Len(w) : f[i] = g[i]
<1> DEFINE D == {i \in 1..Len(w) : f[i] # g[i]}
           M == {Len(f[i].name) + f[i].hops : i \in D}
<1>0. SUFFICES ASSUME D # {} PROVE FALSE
  OBVIOUS
<1>1. /\ x \in Seq(Tokens) /\ Len(w) \in Nat /\ Len(x) \in Nat /\ Len(w) <= Len(x)
      /\ \A i \in 1..Len(w) : x[i].t = w[i].t /\ x[i].at = w[i].at /\ (w[i].t # "rr" => x[i].v = w[i].v)
  BY DEF Laid, Begins
<1>2. \A i \in 1..Len(w) : f[i] \in Readings /\ i \in 1..Len(x) /\ g[i] \in Readings
  BY <1>1 DEF Explains
<1>3. \A i \in 1..Len(w) : f[i].name \in NameSet /\ Len(f[i].name) \in Nat /\ f[i].hops \in Nat
  BY <1>2 DEF Readings, NameSet
<1>4. M \subseteq Nat /\ M # {}
  BY <1>0, <1>3
<1>5. PICK m \in M : \A y \in M : m <= y
  <2> HIDE DEF M
  <2> QED BY <1>4, Least
<1>6. PICK i \in D : m = Len(f[i].name) + f[i].hops
  OBVIOUS
<1>7. i \in 1..Len(w) /\ f[i] # g[i] /\ i \in 1..Len(x)
  BY <1>2
<1>8. \A k \in 1..Len(w) : f[k] # g[k] => m <= Len(f[k].name) + f[k].hops
  BY <1>5
<1> HIDE DEF D, M
<1>9. Explained(w, f, i) /\ Explained(x, g, i)
  BY <1>7 DEF Explains
<1>10. x[i].t = w[i].t /\ x[i].at = w[i].at /\ (w[i].t # "rr" => x[i].v = w[i].v)
  BY <1>1, <1>7
<1>11. CASE w[i].t = "end"
  BY <1>7, <1>9, <1>10, <1>11 DEF Explained, NameParts
<1>12. CASE w[i].t \notin NameParts
  BY <1>7, <1>9, <1>10, <1>12 DEF Explained
<1>13. CASE w[i].t = "label"
  <2>1. /\ i < Len(w) /\ w[i].v \in Labels
        /\ f[i] = [name |-> <<w[i].v>> \o f[i + 1].name, hops |-> f[i + 1].hops, end |-> f[i + 1].end]
        /\ g[i] = [name |-> <<w[i].v>> \o g[i + 1].name, hops |-> g[i + 1].hops, end |-> g[i + 1].end]
    BY <1>9, <1>10, <1>13 DEF Explained
  <2>2. i + 1 \in 1..Len(w)
    BY <2>1, <1>1, <1>7
  <2>3. f[i + 1] # g[i + 1]
    BY <2>1, <1>7
  <2>4. f[i].name = <<w[i].v>> \o f[i + 1].name /\ f[i].hops = f[i + 1].hops
    BY <2>1
  <2>5. Len(f[i].name) = Len(f[i + 1].name) + 1
    BY <2>1, <2>2, <2>4, <1>3 DEF NameSet
  <2>6. m <= Len(f[i + 1].name) + f[i + 1].hops
    BY <2>2, <2>3, <1>8
  <2>7. Len(f[i + 1].name) \in Nat /\ f[i + 1].hops \in Nat
    BY <2>2, <1>3
  <2> QED BY <2>4, <2>5, <2>6, <2>7, <1>6
<1>14. CASE w[i].t = "ptr"
  <2>1. PICK k \in 1..(i - 1) :
            /\ LabelAt(w, k, w[i].v)
            /\ f[i] = [name |-> f[k].name, hops |-> f[k].hops + 1, end |-> w[i].at + 2]
    BY <1>9, <1>14 DEF Explained
  <2>2. PICK j \in 1..(i - 1) :
            /\ LabelAt(x, j, x[i].v)
            /\ g[i] = [name |-> g[j].name, hops |-> g[j].hops + 1, end |-> x[i].at + 2]
    BY <1>9, <1>10, <1>14 DEF Explained
  <2>3. k \in 1..Len(w) /\ k \in 1..Len(x) /\ j \in 1..Len(x)
    BY <1>1, <1>7
  <2>4. x[k].at = x[j].at
    BY <2>1, <2>2, <2>3, <1>1, <1>10, <1>14 DEF LabelAt
  <2>5. j = k
    BY <2>3, <2>4, OneAt
  <2>6. f[k] # g[k]
    BY <2>1, <2>2, <2>5, <1>7, <1>10
  <2>7. f[i].name = f[k].name /\ f[i].hops = f[k].hops + 1
    BY <2>1
  <2>8. m <= Len(f[k].name) + f[k].hops
    BY <2>3, <2>6, <1>8
  <2>9. Len(f[k].name) \in Nat /\ f[k].hops \in Nat
    BY <2>3, <1>3
  <2> QED BY <2>7, <2>8, <2>9, <1>6
<1> QED BY <1>11, <1>12, <1>13, <1>14 DEF NameParts

(* Readings in the tokens a message begins with are its own. *)
LEMMA ReadingWithin ==
    ASSUME NEW x, NEW len, Laid(x, len), NEW g, Explains(x, g),
           NEW w \in Seq(Tokens), Begins(w, x), NEW f, Explains(w, f), NEW i \in 1..Len(w)
    PROVE  g[i] = f[i]
BY SameReading

Token(kd, v, b, at) == [t |-> kd, v |-> v, size |-> b, at |-> at]

(* The token Emit writes, and where. *)
LEMMA EmitWrites ==
    ASSUME NEW p \in Packed, NEW kd \in Kinds, NEW v \in Values, NEW b \in Nat
    PROVE  LET q == Emit(p, kd, v, b)
           IN  /\ q \in Packed /\ q.len = p.len + b /\ q.ptrs = p.ptrs /\ q.cut = p.cut
               /\ Len(q.w) = Len(p.w) + 1 /\ q.w[Len(p.w) + 1] = Token(kd, v, b, p.len)
               /\ \A i \in 1..Len(p.w) : q.w[i] = p.w[i]
<1> DEFINE q == Emit(p, kd, v, b)
           tok == Token(kd, v, b, p.len)
           w == Append(p.w, tok)
<1>1. p.w \in Seq(Tokens) /\ Len(p.w) \in Nat /\ p.len \in Nat
  BY PackedFields
<1>2. tok \in Tokens
  BY <1>1 DEF Tokens, Token
<1>3. q.w = w
  BY DEF Emit, Token, Packed
<1>4. Emitted(p, q, v, b)
  BY EmitIs
<1> HIDE DEF q, tok
<1>5. /\ Len(w) = Len(p.w) + 1 /\ w[Len(p.w) + 1] = tok
      /\ \A i \in 1..Len(p.w) : w[i] = p.w[i]
  BY <1>1, <1>2
<1> HIDE DEF w
<1>6. /\ Len(q.w) = Len(p.w) + 1 /\ q.w[Len(p.w) + 1] = tok
      /\ \A i \in 1..Len(p.w) : q.w[i] = p.w[i]
  BY <1>3, <1>5
<1>7. q \in Packed /\ q.len = p.len + b /\ q.ptrs = p.ptrs /\ q.cut = p.cut
  BY <1>4 DEF Emitted
<1> QED BY <1>6, <1>7 DEF q, tok

(* It lies behind the others. *)
LEMMA EmitLaid ==
    ASSUME NEW p \in Packed, Laid(p.w, p.len), NEW kd \in Kinds, NEW v \in Values, NEW b \in Nat, b >= 1
    PROVE  Laid(Emit(p, kd, v, b).w, Emit(p, kd, v, b).len)
<1> DEFINE q == Emit(p, kd, v, b)
<1>1. /\ q \in Packed /\ q.len = p.len + b
      /\ Len(q.w) = Len(p.w) + 1 /\ q.w[Len(p.w) + 1] = Token(kd, v, b, p.len)
      /\ \A i \in 1..Len(p.w) : q.w[i] = p.w[i]
  BY EmitWrites
<1> HIDE DEF q
<1>2. /\ p.w \in Seq(Tokens) /\ Len(p.w) \in Nat /\ Len(p.w) >= 1 /\ p.w[1].at = 0
      /\ \A i \in 1..Len(p.w) : p.w[i].size >= 1
      /\ \A i \in 1..(Len(p.w) - 1) : p.w[i + 1].at = p.w[i].at + p.w[i].size
      /\ p.len = p.w[Len(p.w)].at + p.w[Len(p.w)].size
  BY DEF Laid
<1>3. q.w \in Seq(Tokens) /\ Len(q.w) >= 1 /\ q.w[1].at = 0
  BY <1>1, <1>2, PackedFields
<1>4. q.w[Len(q.w)].at = p.len /\ q.w[Len(q.w)].size = b
  BY <1>1 DEF Token
<1>5. \A i \in 1..Len(q.w) : q.w[i].size >= 1
  <2> TAKE i \in 1..Len(q.w)
  <2>1. CASE i \in 1..Len(p.w)
    BY <2>1, <1>1, <1>2
  <2>2. CASE i = Len(q.w)
    BY <2>2, <1>4
  <2> QED BY <2>1, <2>2, <1>1, <1>2
<1>6. \A i \in 1..(Len(q.w) - 1) : q.w[i + 1].at = q.w[i].at + q.w[i].size
  <2> TAKE i \in 1..(Len(q.w) - 1)
  <2>1. i \in 1..Len(p.w)
    BY <1>1, <1>2
  <2>2. CASE i = Len(p.w)
    BY <2>1, <2>2, <1>1, <1>2, <1>4
  <2>3. CASE i # Len(p.w)
    <3>1. i \in 1..(Len(p.w) - 1) /\ i + 1 \in 1..Len(p.w)
      BY <2>1, <2>3, <1>2
    <3> QED BY <3>1, <2>1, <1>1, <1>2
  <2> QED BY <2>2, <2>3
<1>7. q.len = q.w[Len(q.w)].at + q.w[Len(q.w)].size
  BY <1>1, <1>4
<1> QED BY <1>3, <1>5, <1>6, <1>7 DEF Laid, q

(* The first labels of a name lie where its labels do. *)
LEMMA FirstLabelsAt ==
    ASSUME NEW name \in NameSet, NEW i \in 1..(Len(name) + 1), NEW k \in 1..i
    PROVE  LET s == SubSeq(name, 1, i - 1)
           IN  /\ s \in NameSet /\ Len(s) = i - 1 /\ BytesBefore(s, k) = BytesBefore(name, k)
               /\ \A j \in 1..(i - 1) : s[j] = name[j]
<1> DEFINE s == SubSeq(name, 1, i - 1)
<1>1. Len(name) \in Nat /\ name \in Seq(Labels)
  BY DEF NameSet
<1>2. s \in Seq(Labels) /\ Len(s) = i - 1 /\ \A j \in 1..(i - 1) : s[j] = name[j]
  BY <1>1
<1> HIDE DEF s
<1>3. \A j \in 1..(k - 1) : s[j] = name[j]
  BY <1>1, <1>2
<1>4. [j \in 1..(k - 1) |-> LabelSize[s[j]]] = [j \in 1..(k - 1) |-> LabelSize[name[j]]]
  BY <1>3
<1>5. BytesBefore(s, k) = BytesBefore(name, k)
  BY <1>4, Zenon DEF BytesBefore
<1> QED BY <1>2, <1>5 DEF s, NameSet

(* n tokens for the labels of ls follow those of p. *)
Labelled(p, q, ls, n) ==
    /\ q \in Packed /\ Laid(q.w, q.len) /\ q.len = p.len + BytesBefore(ls, n + 1)
    /\ Len(q.w) = Len(p.w) + n
    /\ \A i \in 1..Len(p.w) : q.w[i] = p.w[i]
    /\ \A k \in 1..n :
         q.w[Len(p.w) + k] = Token("label", ls[k], LabelSize[ls[k]], p.len + BytesBefore(ls, k))

(* The tokens the labels of a name become. *)
LEMMA EmitLabelsWrites ==
    ASSUME NEW p \in Packed, Laid(p.w, p.len), NEW ls \in NameSet
    PROVE  Labelled(p, EmitLabels(p, ls), ls, Len(ls))
<1>1. PICK u \in [0..Len(ls) -> Packed] :
             /\ u[0] = p /\ u[Len(ls)] = EmitLabels(p, ls)
             /\ \A k \in 1..Len(ls) : u[k] = Emit(u[k - 1], "label", ls[k], LabelSize[ls[k]])
  BY EmitLabelsRuns
<1> DEFINE T == {n \in 0..Len(ls) : Labelled(p, u[n], ls, n)}
<1>2. /\ Len(ls) \in Nat /\ BytesBefore(ls, 1) = 0
      /\ \A i \in 1..(Len(ls) + 1) : BytesBefore(ls, i) \in Nat
      /\ \A i \in 1..Len(ls) :
           /\ LabelSize[ls[i]] \in Nat /\ LabelSize[ls[i]] >= 1
           /\ BytesBefore(ls, i + 1) = BytesBefore(ls, i) + LabelSize[ls[i]]
  BY BytesBeforeSteps
<1>3. p.w \in Seq(Tokens) /\ Len(p.w) \in Nat /\ p.len \in Nat
  BY PackedFields
<1>4. 0 \in T
  <2>1. Labelled(p, p, ls, 0)
    BY <1>2, <1>3 DEF Labelled
  <2> QED BY <2>1, <1>1, <1>2
<1>5. ASSUME NEW n \in 1..Len(ls), n - 1 \in T PROVE n \in T
  <2> DEFINE o == u[n - 1]
             v == ls[n]
             b == LabelSize[ls[n]]
             q == Emit(o, "label", v, b)
  <2>1. Labelled(p, o, ls, n - 1) /\ n - 1 \in 0..Len(ls) /\ (n - 1) + 1 = n
    BY <1>5, <1>2
  <2>2. v \in Values /\ b \in Nat /\ b >= 1 /\ "label" \in Kinds
    <3>1. v \in Labels
      BY DEF NameSet
    <3> QED BY <3>1, <1>2, ValuesAre DEF Kinds
  <2>3. /\ o \in Packed /\ Laid(o.w, o.len) /\ o.len = p.len + BytesBefore(ls, n)
        /\ Len(o.w) = Len(p.w) + (n - 1)
        /\ \A i \in 1..Len(p.w) : o.w[i] = p.w[i]
        /\ \A k \in 1..(n - 1) :
             o.w[Len(p.w) + k] = Token("label", ls[k], LabelSize[ls[k]], p.len + BytesBefore(ls, k))
    BY <2>1 DEF Labelled
  <2> HIDE DEF o, v, b
  <2>4. /\ q \in Packed /\ q.len = o.len + b
        /\ Len(q.w) = Len(o.w) + 1 /\ q.w[Len(o.w) + 1] = Token("label", v, b, o.len)
        /\ \A i \in 1..Len(o.w) : q.w[i] = o.w[i]
    BY <2>2, <2>3, EmitWrites
  <2>5. Laid(q.w, q.len)
    BY <2>2, <2>3, EmitLaid
  <2> HIDE DEF q
  <2>6. Len(q.w) = Len(p.w) + n
    BY <2>3, <2>4, <1>3
  <2>7. q.len = p.len + BytesBefore(ls, n + 1)
    <3>1. BytesBefore(ls, n + 1) = BytesBefore(ls, n) + b /\ BytesBefore(ls, n) \in Nat
      BY <1>2 DEF b
    <3> QED BY <3>1, <2>2, <2>3, <2>4, <1>3
  <2>8. \A i \in 1..Len(p.w) : q.w[i] = p.w[i]
    <3> TAKE i \in 1..Len(p.w)
    <3>1. i \in 1..Len(o.w)
      BY <2>3, <1>3
    <3> QED BY <3>1, <2>3, <2>4
  <2>9. ASSUME NEW k \in 1..n
        PROVE  q.w[Len(p.w) + k] = Token("label", ls[k], LabelSize[ls[k]], p.len + BytesBefore(ls, k))
    <3>1. CASE k = n
      BY <3>1, <2>3, <2>4, <1>3 DEF v, b
    <3>2. CASE k # n
      <4>1. k \in 1..(n - 1) /\ Len(p.w) + k \in 1..Len(o.w)
        BY <3>2, <2>3, <1>3
      <4> QED BY <4>1, <2>3, <2>4
    <3> QED BY <3>1, <3>2
  <2>10. Labelled(p, q, ls, n)
    BY <2>4, <2>5, <2>6, <2>7, <2>8, <2>9 DEF Labelled
  <2> QED BY <2>10, <1>1 DEF q, o, v, b
<1> HIDE DEF T
<1>6. \A k \in 0..Len(ls) : k \in T
  BY <1>2, <1>4, <1>5, UpTo
<1>7. Len(ls) \in T
  BY <1>2, <1>6
<1> QED BY <1>1, <1>7 DEF T

(* The tokens a name becomes: its labels, then the end or a pointer.        *)
NameAt(p, q, name, i) ==
    LET n == Len(p.w)
    IN  /\ q \in Packed /\ Laid(q.w, q.len) /\ Len(q.w) = n + i
        /\ \A j \in 1..n : q.w[j] = p.w[j]
        /\ \A k \in 1..(i - 1) :
             q.w[n + k] = Token("label", name[k], LabelSize[name[k]], p.len + BytesBefore(name, k))
        /\ i > Len(name) => q.w[n + i].t = "end" /\ q.len = q.w[n + i].at + 1
        /\ i <= Len(name) => /\ q.w[n + i].t = "ptr" /\ q.len = q.w[n + i].at + 2
                             /\ q.w[n + i].v = p.ptrs[Suffix(name, i)]

(* Name.pack writes them. *)
LEMMA PackUpToWrites ==
    ASSUME NEW p \in Packed, Laid(p.w, p.len), NEW name \in NameSet, NEW i \in 1..(Len(name) + 1),
           i <= Len(name) => Suffix(name, i) \in DOMAIN p.ptrs,
           NEW ptrs \in PtrMaps, DOMAIN p.ptrs \subseteq DOMAIN ptrs
    PROVE  NameAt(p, PackUpTo(p, name, i, ptrs), name, i) /\ PackUpTo(p, name, i, ptrs).ptrs = ptrs
<1> DEFINE s == SubSeq(name, 1, i - 1)
           e == EmitLabels(p, s)
           l == [e EXCEPT !.ptrs = ptrs]
           q == PackUpTo(p, name, i, ptrs)
           n == Len(p.w)
<1>1. i \in 1..i /\ Len(name) \in Nat
  BY DEF NameSet
<1>2. /\ s \in NameSet /\ Len(s) = i - 1 /\ \A j \in 1..(i - 1) : s[j] = name[j]
      /\ \A k \in 1..i : BytesBefore(s, k) = BytesBefore(name, k)
  BY <1>1, FirstLabelsAt
<1>3. q = IF i > Len(name) THEN Emit(l, "end", 0, 1)
          ELSE Emit(l, "ptr", p.ptrs[Suffix(name, i)], 2)
  BY Zenon DEF PackUpTo
<1> HIDE DEF s, q
<1>4. Labelled(p, e, s, i - 1)
  BY <1>2, EmitLabelsWrites
<1> HIDE DEF e
<1>5. /\ e \in Packed /\ Laid(e.w, e.len) /\ Len(e.w) = n + (i - 1)
      /\ \A j \in 1..n : e.w[j] = p.w[j]
      /\ \A k \in 1..(i - 1) :
           e.w[n + k] = Token("label", name[k], LabelSize[name[k]], p.len + BytesBefore(name, k))
  <2>1. \A k \in 1..(i - 1) : k \in 1..i /\ s[k] = name[k] /\ BytesBefore(s, k) = BytesBefore(name, k)
    BY <1>1, <1>2
  <2> QED BY <1>4, <2>1 DEF Labelled
<1>6. l \in Packed /\ l.w = e.w /\ l.len = e.len /\ l.ptrs = ptrs
  BY <1>5 DEF Packed
<1> HIDE DEF l
<1>7. /\ n \in Nat /\ Len(l.w) \in Nat /\ p.len \in Nat /\ l.len \in Nat
      /\ \A x \in DOMAIN p.ptrs : p.ptrs[x] \in Nat
  BY <1>6, PackedFields
<1> HIDE DEF n
<1>8. "end" \in Kinds /\ "ptr" \in Kinds /\ 0 \in Values /\ Laid(l.w, l.len)
  BY ValuesAre, <1>5, <1>6 DEF Kinds
<1>9. ASSUME NEW kd \in Kinds, NEW v \in Values, NEW b \in Nat, b >= 1, q = Emit(l, kd, v, b)
      PROVE  /\ q \in Packed /\ Laid(q.w, q.len) /\ Len(q.w) = n + i /\ q.ptrs = ptrs
             /\ \A j \in 1..n : q.w[j] = p.w[j]
             /\ \A k \in 1..(i - 1) :
                  q.w[n + k] = Token("label", name[k], LabelSize[name[k]], p.len + BytesBefore(name, k))
             /\ q.w[n + i].t = kd /\ q.w[n + i].v = v /\ q.len = q.w[n + i].at + b
  <2>1. /\ q \in Packed /\ q.len = l.len + b /\ q.ptrs = l.ptrs
        /\ Len(q.w) = Len(l.w) + 1 /\ q.w[Len(l.w) + 1] = Token(kd, v, b, l.len)
        /\ \A j \in 1..Len(l.w) : q.w[j] = l.w[j]
    BY <1>6, <1>9, EmitWrites
  <2>2. Laid(q.w, q.len)
    BY <1>6, <1>8, <1>9, EmitLaid
  <2>3. Len(q.w) = n + i /\ Len(l.w) + 1 = n + i
    BY <2>1, <1>5, <1>6, <1>7
  <2>4. \A j \in 1..n : j \in 1..Len(l.w)
    BY <1>1, <1>5, <1>6, <1>7
  <2>5. \A k \in 1..(i - 1) : n + k \in 1..Len(l.w)
    BY <1>1, <1>5, <1>6, <1>7
  <2>6. q.w[n + i].t = kd /\ q.w[n + i].v = v /\ q.w[n + i].at = l.len
    BY <2>1, <2>3 DEF Token
  <2> QED BY <2>1, <2>2, <2>3, <2>4, <2>5, <2>6, <1>5, <1>6
<1>10. CASE i > Len(name)
  <2>1. q = Emit(l, "end", 0, 1) /\ ~(i <= Len(name))
    BY <1>1, <1>3, <1>10
  <2> QED BY <1>8, <1>9, <1>10, <2>1 DEF NameAt, n, q
<1>11. CASE i <= Len(name)
  <2> DEFINE v == p.ptrs[Suffix(name, i)]
  <2>1. q = Emit(l, "ptr", v, 2) /\ ~(i > Len(name))
    BY <1>1, <1>3, <1>11
  <2>2. v \in Nat /\ v \in Values
    BY <1>7, <1>11, ValuesAre
  <2> HIDE DEF q
  <2> QED BY <1>8, <1>9, <1>11, <2>1, <2>2 DEF NameAt, n, q
<1> QED BY <1>1, <1>10, <1>11

(* The parts of a token. *)
LEMMA TokenIs ==
    ASSUME NEW kd, NEW v, NEW b, NEW at
    PROVE  LET tok == Token(kd, v, b, at) IN tok.t = kd /\ tok.v = v /\ tok.size = b /\ tok.at = at
BY DEF Token

(* A suffix is remembered at the offset of a label from which it is read.   *)
Remembered(p, g) ==
    \A s \in DOMAIN p.ptrs :
        s # <<>> /\ \E k \in 1..Len(p.w) : LabelAt(p.w, k, p.ptrs[s]) /\ g[k].name = s

SoundWith(p, g) == p \in Packed /\ Laid(p.w, p.len) /\ Explains(p.w, g) /\ Remembered(p, g)
Sound(p) == \E g : SoundWith(p, g)

(* The tokens of q after those of p are a name, and that is what is read.   *)
NameReads(p, q, g, name) ==
    LET n == Len(p.w)
    IN  /\ n < Len(q.w) /\ g[n + 1].name = name /\ g[n + 1].end = q.len
        /\ \A j \in (n + 1)..Len(q.w) : q.w[j].t \in NameParts /\ g[j].hops = g[n + 1].hops

(* A suffix is its first label and the suffix after it. *)
LEMMA SuffixSplits ==
    ASSUME NEW name \in NameSet
    PROVE  /\ Suffix(name, Len(name) + 1) = <<>> /\ Suffix(name, 1) = name
           /\ \A k \in 1..(Len(name) + 1) : Suffix(name, k) \in NameSet
           /\ \A k \in 1..Len(name) : Suffix(name, k) = <<name[k]>> \o Suffix(name, k + 1)
<1>1. name \in Seq(Labels) /\ Len(name) \in Nat
  BY DEF NameSet
<1>2. Suffix(name, Len(name) + 1) = <<>> /\ Suffix(name, 1) = name
  BY <1>1 DEF Suffix
<1>3. \A k \in 1..(Len(name) + 1) : Suffix(name, k) \in Seq(Labels)
  BY <1>1 DEF Suffix
<1>4. \A k \in 1..Len(name) : Suffix(name, k) = <<name[k]>> \o Suffix(name, k + 1)
  BY <1>1 DEF Suffix
<1> QED BY <1>2, <1>3, <1>4 DEF NameSet

(* What Name.pack adds to the map: suffixes of the name, where they start.  *)
LEMMA RememberAdds ==
    ASSUME NEW p \in Packed, NEW name \in NameSet, NEW i \in 1..(Len(name) + 1),
           NEW s \in DOMAIN Remember(p, name, i)
    PROVE  \/ s \in DOMAIN p.ptrs /\ Remember(p, name, i)[s] = p.ptrs[s]
           \/ \E k \in 1..(i - 1) : /\ s = Suffix(name, k)
                                    /\ Remember(p, name, i)[s] = p.len + BytesBefore(name, k)
<1> DEFINE new == {k \in 1..(i - 1) : Start(p, name, k) <= MaxOffset}
           At == [x \in {Suffix(name, k) : k \in new} |-> Start(p, name, Len(name) - Len(x) + 1)]
           m == [x \in DOMAIN At \cup DOMAIN p.ptrs |-> IF x \in DOMAIN At THEN At[x] ELSE p.ptrs[x]]
<1>1. Remember(p, name, i) = m
  BY Zenon DEF Remember
<1>2. s \in DOMAIN At \cup DOMAIN p.ptrs /\ m[s] = IF s \in DOMAIN At THEN At[s] ELSE p.ptrs[s]
  BY <1>1
<1>3. CASE s \in DOMAIN At
  <2>1. PICK k \in new : s = Suffix(name, k)
    BY <1>3
  <2>2. k \in 1..(i - 1) /\ k \in 1..Len(name) /\ Len(name) \in Nat
    BY <2>1 DEF NameSet
  <2>3. Len(s) = Len(name) - k + 1
    BY <2>1, <2>2, SuffixIs
  <2>4. Len(name) - Len(s) + 1 = k
    BY <2>2, <2>3
  <2>5. At[s] = Start(p, name, k)
    BY <1>3, <2>4
  <2> HIDE DEF At, new
  <2>6. m[s] = p.len + BytesBefore(name, k)
    BY <1>2, <1>3, <2>5 DEF Start
  <2> QED BY <1>1, <2>1, <2>2, <2>6
<1>4. CASE s \notin DOMAIN At
  BY <1>1, <1>2, <1>4
<1> QED BY <1>3, <1>4

(* What explained a token explains it when more has been packed.            *)
LEMMA ExplainedStays ==
    ASSUME NEW w, NEW x, Len(w) \in Nat, Len(x) \in Nat, Len(w) <= Len(x), NEW g, NEW f,
           \A i \in 1..Len(w) : x[i] = w[i] /\ f[i] = g[i],
           NEW j \in 1..Len(w), Explained(w, g, j)
    PROVE  Explained(x, f, j)
<1>1. x[j] = w[j] /\ f[j] = g[j]
  OBVIOUS
<1>2. \A k \in 1..(j - 1) : x[k] = w[k] /\ f[k] = g[k]
  OBVIOUS
<1>3. CASE w[j].t = "label"
  <2>1. /\ w[j].v \in Labels /\ w[j].size = LabelSize[w[j].v]
        /\ j < Len(w) /\ w[j + 1].t \in NameParts
        /\ g[j] = [name |-> <<w[j].v>> \o g[j + 1].name, hops |-> g[j + 1].hops, end |-> g[j + 1].end]
    BY <1>3 DEF Explained
  <2>2. j + 1 \in 1..Len(w) /\ j < Len(x)
    BY <2>1
  <2>3. x[j + 1] = w[j + 1] /\ f[j + 1] = g[j + 1]
    BY <2>2
  <2> QED BY <1>1, <1>3, <2>1, <2>2, <2>3 DEF Explained, NameParts
<1>4. CASE w[j].t = "ptr"
  <2>1. PICK k \in 1..(j - 1) :
           /\ LabelAt(w, k, w[j].v)
           /\ g[j] = [name |-> g[k].name, hops |-> g[k].hops + 1, end |-> w[j].at + 2]
    BY <1>4 DEF Explained
  <2>2. LabelAt(x, k, x[j].v)
    BY <2>1, <1>1, <1>2 DEF LabelAt
  <2>3. f[j] = [name |-> f[k].name, hops |-> f[k].hops + 1, end |-> x[j].at + 2]
    BY <2>1, <1>1, <1>2
  <2> QED BY <1>1, <1>4, <2>2, <2>3 DEF Explained, NameParts
<1>5. CASE w[j].t = "end"
  BY <1>1, <1>5 DEF Explained, NameParts
<1>6. CASE w[j].t \notin NameParts
  BY <1>1, <1>6 DEF Explained, NameParts
<1> QED BY <1>3, <1>4, <1>5, <1>6 DEF NameParts

(* A name packed on top of what can be read can be read.                    *)
LEMMA NameSound ==
    ASSUME NEW p, NEW g, SoundWith(p, g), NEW name \in NameSet, NEW i \in 1..(Len(name) + 1),
           i <= Len(name) => Suffix(name, i) \in DOMAIN p.ptrs, NEW q, NameAt(p, q, name, i),
           \A s \in DOMAIN q.ptrs :
              \/ s \in DOMAIN p.ptrs /\ q.ptrs[s] = p.ptrs[s]
              \/ \E k \in 1..(i - 1) : s = Suffix(name, k) /\ q.ptrs[s] = p.len + BytesBefore(name, k)
    PROVE  \E f : SoundWith(q, f) /\ NameReads(p, q, f, name)
<1> DEFINE n == Len(p.w)
<1>1. /\ p \in Packed /\ Laid(p.w, p.len) /\ g \in [1..n -> Readings]
      /\ \A j \in 1..n : Explained(p.w, g, j)
      /\ \A s \in DOMAIN p.ptrs :
           s # <<>> /\ \E k \in 1..n : LabelAt(p.w, k, p.ptrs[s]) /\ g[k].name = s
  BY DEF SoundWith, Explains, Remembered
<1>2. n \in Nat /\ Len(name) \in Nat /\ p.len \in Nat
  BY <1>1, PackedFields DEF NameSet
<1>3. /\ q \in Packed /\ Laid(q.w, q.len) /\ Len(q.w) = n + i
      /\ \A j \in 1..n : q.w[j] = p.w[j]
      /\ \A k \in 1..(i - 1) :
           q.w[n + k] = Token("label", name[k], LabelSize[name[k]], p.len + BytesBefore(name, k))
      /\ i > Len(name) => q.w[n + i].t = "end" /\ q.len = q.w[n + i].at + 1
      /\ i <= Len(name) => /\ q.w[n + i].t = "ptr" /\ q.len = q.w[n + i].at + 2
                           /\ q.w[n + i].v = p.ptrs[Suffix(name, i)]
  BY DEF NameAt
<1> HIDE DEF n
<1>4. q.len \in Nat
  BY <1>3, PackedFields
<1>5. PICK h \in Nat : /\ i > Len(name) => h = 0
                       /\ i <= Len(name) =>
                            \E k \in 1..n : /\ LabelAt(p.w, k, p.ptrs[Suffix(name, i)])
                                            /\ g[k].name = Suffix(name, i) /\ h = g[k].hops + 1
  <2>1. CASE i > Len(name)
    <3>1. ~(i <= Len(name)) /\ 0 \in Nat
      BY <2>1, <1>2
    <3> QED BY <3>1
  <2>2. CASE i <= Len(name)
    <3>1. PICK k \in 1..n : LabelAt(p.w, k, p.ptrs[Suffix(name, i)]) /\ g[k].name = Suffix(name, i)
      BY <1>1, <2>2
    <3>2. g[k].hops + 1 \in Nat /\ ~(i > Len(name))
      BY <1>1, <1>2, <2>2 DEF Readings
    <3> QED BY <3>1, <3>2
  <2> QED BY <2>1, <2>2, <1>2
<1> DEFINE R(k) == [name |-> Suffix(name, k), hops |-> h, end |-> q.len]
           f == [j \in 1..(n + i) |-> IF j <= n THEN g[j] ELSE R(j - n)]
<1>6. \A j \in 1..n : f[j] = g[j]
  BY <1>2
<1>7. \A k \in 1..i : n + k \in 1..(n + i) /\ f[n + k] = R(k)
  <2> TAKE k \in 1..i
  <2>1. n + k \in 1..(n + i) /\ ~(n + k <= n) /\ (n + k) - n = k
    BY <1>2
  <2> QED BY <2>1
<1>8. \A k \in 1..i : R(k) \in Readings
  <2> TAKE k \in 1..i
  <2>1. k \in 1..(Len(name) + 1)
    BY <1>2
  <2>2. Suffix(name, k) \in NameSet
    BY <2>1, SuffixSplits
  <2> QED BY <2>2, <1>4, <1>5 DEF Readings
<1>9. \A j \in 1..(n + i) : j \in 1..n \/ \E k \in 1..i : j = n + k
  <2> TAKE j \in 1..(n + i)
  <2>1. CASE ~(j \in 1..n)
    <3>1. j - n \in 1..i /\ j = n + (j - n)
      BY <2>1, <1>2
    <3> QED BY <3>1
  <2> QED BY <2>1
<1>10. f \in [1..Len(q.w) -> Readings]
  <2>1. \A j \in 1..(n + i) : f[j] \in Readings
    <3> TAKE j \in 1..(n + i)
    <3>1. CASE j \in 1..n
      BY <3>1, <1>1, <1>6
    <3>2. CASE \E k \in 1..i : j = n + k
      BY <3>2, <1>7, <1>8
    <3> QED BY <3>1, <3>2, <1>9
  <2>2. f = [j \in 1..(n + i) |-> f[j]]
    OBVIOUS
  <2> HIDE DEF f
  <2>3. f \in [1..(n + i) -> Readings]
    BY <2>1, <2>2
  <2> QED BY <2>3, <1>3
<1> HIDE DEF f
<1>11. ASSUME NEW k \in 1..(i - 1)
       PROVE  /\ n + k \in 1..(n + i) /\ q.w[n + k].t = "label" /\ q.w[n + k].v = name[k]
              /\ q.w[n + k].size = LabelSize[name[k]] /\ q.w[n + k].at = p.len + BytesBefore(name, k)
              /\ f[n + k] = R(k) /\ name[k] \in Labels /\ k \in 1..i
              /\ k + 1 \in 1..i /\ f[n + (k + 1)] = R(k + 1)
              /\ Suffix(name, k) = <<name[k]>> \o Suffix(name, k + 1)
  <2>1. k \in 1..i /\ k + 1 \in 1..i /\ k \in 1..Len(name)
    BY <1>2
  <2>2. name[k] \in Labels
    BY <2>1 DEF NameSet
  <2>3. Suffix(name, k) = <<name[k]>> \o Suffix(name, k + 1)
    BY <2>1, SuffixSplits
  <2>4. /\ q.w[n + k].t = "label" /\ q.w[n + k].v = name[k]
        /\ q.w[n + k].size = LabelSize[name[k]] /\ q.w[n + k].at = p.len + BytesBefore(name, k)
    <3>1. q.w[n + k] = Token("label", name[k], LabelSize[name[k]], p.len + BytesBefore(name, k))
      BY <1>3
    <3> QED BY <3>1, TokenIs
  <2> QED BY <2>1, <2>2, <2>3, <2>4, <1>7
<1>12. \A k \in 1..i : q.w[n + k].t \in NameParts
  <2> TAKE k \in 1..i
  <2>1. CASE k \in 1..(i - 1)
    BY <2>1, <1>11 DEF NameParts
  <2>2. CASE k = i
    BY <2>2, <1>2, <1>3 DEF NameParts
  <2> QED BY <2>1, <2>2
<1>13. ASSUME NEW j \in 1..Len(q.w) PROVE Explained(q.w, f, j)
  <2>1. CASE j \in 1..n
    <3>1. \A k \in 1..n : q.w[k] = p.w[k] /\ f[k] = g[k] /\ k <= n
      BY <1>2, <1>3, <1>6
    <3>2. n <= Len(q.w) /\ Len(q.w) \in Nat /\ Explained(p.w, g, j)
      BY <2>1, <1>1, <1>2, <1>3
    <3> QED BY <2>1, <3>1, <3>2, <1>2, ExplainedStays DEF n
  <2>2. ASSUME NEW k \in 1..(i - 1), j = n + k PROVE Explained(q.w, f, j)
    <3>1. /\ q.w[j].t = "label" /\ q.w[j].v = name[k]
          /\ q.w[j].size = LabelSize[name[k]] /\ name[k] \in Labels
          /\ f[j] = R(k) /\ f[n + (k + 1)] = R(k + 1) /\ k + 1 \in 1..i
          /\ Suffix(name, k) = <<name[k]>> \o Suffix(name, k + 1)
      BY <2>2, <1>11
    <3>2. j < Len(q.w) /\ j + 1 = n + (k + 1)
      BY <2>2, <1>2, <1>3
    <3>3. q.w[j + 1].t \in NameParts
      BY <3>1, <3>2, <1>12
    <3>4. f[j] = [name |-> <<q.w[j].v>> \o f[j + 1].name, hops |-> f[j + 1].hops, end |-> f[j + 1].end]
      <4>1. f[j + 1] = R(k + 1)
        BY <3>1, <3>2
      <4>2. f[j + 1].name = Suffix(name, k + 1) /\ f[j + 1].hops = h /\ f[j + 1].end = q.len
        BY <4>1
      <4>3. f[j] = [name |-> Suffix(name, k), hops |-> h, end |-> q.len]
        BY <3>1
      <4> QED BY <3>1, <4>2, <4>3
    <3> QED BY <3>1, <3>2, <3>3, <3>4 DEF Explained, NameParts
  <2>3. CASE j = n + i /\ i > Len(name)
    <3>1. i = Len(name) + 1 /\ i \in 1..i /\ h = 0
      BY <2>3, <1>2, <1>5
    <3>2. q.w[j].t = "end" /\ q.len = q.w[j].at + 1 /\ f[j] = R(i)
      BY <2>3, <3>1, <1>3, <1>7
    <3>3. Suffix(name, i) = <<>>
      BY <3>1, SuffixSplits
    <3> QED BY <3>1, <3>2, <3>3 DEF Explained, NameParts
  <2>4. CASE j = n + i /\ i <= Len(name)
    <3>1. i \in 1..i
      OBVIOUS
    <3>2. /\ q.w[j].t = "ptr" /\ q.len = q.w[j].at + 2 /\ f[j] = R(i)
          /\ q.w[j].v = p.ptrs[Suffix(name, i)]
      BY <2>4, <3>1, <1>3, <1>7
    <3>3. PICK k \in 1..n : /\ LabelAt(p.w, k, p.ptrs[Suffix(name, i)])
                            /\ g[k].name = Suffix(name, i) /\ h = g[k].hops + 1
      BY <2>4, <1>5
    <3>4. k \in 1..(j - 1) /\ f[k] = g[k]
      BY <2>4, <1>2, <1>6
    <3>5. LabelAt(q.w, k, q.w[j].v)
      BY <3>2, <3>3, <1>3 DEF LabelAt
    <3>6. f[j] = [name |-> f[k].name, hops |-> f[k].hops + 1, end |-> q.w[j].at + 2]
      BY <3>2, <3>3, <3>4
    <3> QED BY <3>2, <3>4, <3>5, <3>6 DEF Explained, NameParts
  <2>5. j \in 1..n \/ (\E k \in 1..(i - 1) : j = n + k) \/ j = n + i
    <3>1. j \in 1..n \/ \E k \in 1..i : j = n + k
      BY <1>3, <1>9
    <3> QED BY <3>1
  <2> QED BY <2>1, <2>2, <2>3, <2>4, <2>5, <1>2
<1>14. ASSUME NEW s \in DOMAIN q.ptrs
       PROVE  s # <<>> /\ \E k \in 1..Len(q.w) : LabelAt(q.w, k, q.ptrs[s]) /\ f[k].name = s
  <2>1. CASE s \in DOMAIN p.ptrs /\ q.ptrs[s] = p.ptrs[s]
    <3>1. PICK k \in 1..n : LabelAt(p.w, k, p.ptrs[s]) /\ g[k].name = s
      BY <2>1, <1>1
    <3>2. k \in 1..Len(q.w) /\ LabelAt(q.w, k, q.ptrs[s]) /\ f[k].name = s
      BY <2>1, <3>1, <1>2, <1>3, <1>6 DEF LabelAt
    <3> QED BY <2>1, <3>2, <1>1
  <2>2. ASSUME NEW k \in 1..(i - 1), s = Suffix(name, k), q.ptrs[s] = p.len + BytesBefore(name, k)
        PROVE  s # <<>> /\ \E x \in 1..Len(q.w) : LabelAt(q.w, x, q.ptrs[s]) /\ f[x].name = s
    <3>5. /\ n + k \in 1..(n + i) /\ q.w[n + k].t = "label"
          /\ q.w[n + k].at = p.len + BytesBefore(name, k) /\ f[n + k] = R(k)
      BY <1>11
    <3>6. f[n + k].name = Suffix(name, k)
      BY <3>5
    <3>1. LabelAt(q.w, n + k, q.ptrs[s]) /\ f[n + k].name = s /\ n + k \in 1..Len(q.w)
      BY <2>2, <3>5, <3>6, <1>3 DEF LabelAt
    <3>2. k \in 1..Len(name)
      BY <1>2
    <3>3. Len(s) = Len(name) - k + 1
      BY <2>2, <3>2, SuffixIs
    <3>4. s # <<>>
      BY <3>2, <3>3, <1>2
    <3> QED BY <3>1, <3>4
  <2> QED BY <2>1, <2>2
<1>15. SoundWith(q, f)
  BY <1>3, <1>10, <1>13, <1>14 DEF SoundWith, Explains, Remembered
<1>16. NameReads(p, q, f, name)
  <2>1. 1 \in 1..i /\ Suffix(name, 1) = name
    BY <1>2, SuffixSplits
  <2>2. f[n + 1].name = name /\ f[n + 1].end = q.len /\ f[n + 1].hops = h
    <3>1. f[n + 1] = R(1)
      BY <2>1, <1>7
    <3>2. R(1).name = Suffix(name, 1) /\ R(1).end = q.len /\ R(1).hops = h
      OBVIOUS
    <3> HIDE DEF R
    <3> QED BY <2>1, <3>1, <3>2
  <2>3. \A j \in (n + 1)..Len(q.w) : \E k \in 1..i : j = n + k
    BY <1>2, <1>3, <1>9
  <2>4. \A j \in (n + 1)..Len(q.w) : q.w[j].t \in NameParts /\ f[j].hops = h
    <3> TAKE j \in (n + 1)..Len(q.w)
    <3>1. PICK k \in 1..i : j = n + k
      BY <2>3
    <3>2. f[n + k] = R(k) /\ q.w[n + k].t \in NameParts
      BY <1>7, <1>12
    <3>3. R(k).hops = h
      OBVIOUS
    <3> HIDE DEF R
    <3> QED BY <3>1, <3>2, <3>3
  <2>5. n < Len(q.w)
    BY <1>2, <1>3
  <2> QED BY <2>2, <2>4, <2>5 DEF NameReads, n
<1> QED BY <1>15, <1>16

(* A token that is no part of a name leaves the readings as they are.       *)
LEMMA EmitSound ==
    ASSUME NEW p, Sound(p), NEW kd \in Kinds \ NameParts, NEW v \in Values, NEW b \in Nat, b >= 1
    PROVE  Sound(Emit(p, kd, v, b))
<1>1. PICK g : SoundWith(p, g)
  BY DEF Sound
<1> DEFINE n == Len(p.w)
           q == Emit(p, kd, v, b)
           f == [j \in 1..(n + 1) |-> IF j <= n THEN g[j] ELSE Unread]
<1>2. /\ p \in Packed /\ Laid(p.w, p.len) /\ g \in [1..n -> Readings]
      /\ \A j \in 1..n : Explained(p.w, g, j)
      /\ \A s \in DOMAIN p.ptrs :
           s # <<>> /\ \E k \in 1..n : LabelAt(p.w, k, p.ptrs[s]) /\ g[k].name = s
  BY <1>1 DEF SoundWith, Explains, Remembered
<1>3. n \in Nat /\ p.len \in Nat /\ kd \in Kinds /\ kd \notin NameParts
  BY <1>2, PackedFields
<1>4. /\ q \in Packed /\ q.ptrs = p.ptrs
      /\ Len(q.w) = n + 1 /\ q.w[n + 1] = Token(kd, v, b, p.len)
      /\ \A i \in 1..n : q.w[i] = p.w[i]
  BY <1>2, EmitWrites
<1>5. Laid(q.w, q.len)
  BY <1>2, EmitLaid
<1> HIDE DEF n, q
<1>6. \A j \in 1..n : f[j] = g[j]
  BY <1>3
<1>7. f[n + 1] = Unread
  BY <1>3
<1>8. Unread \in Readings
  BY DEF Unread, Readings, NameSet
<1>9. f \in [1..(n + 1) -> Readings]
  <2>1. \A j \in 1..(n + 1) : f[j] \in Readings
    BY <1>2, <1>3, <1>8
  <2>2. f = [j \in 1..(n + 1) |-> f[j]]
    OBVIOUS
  <2> HIDE DEF f
  <2> QED BY <2>1, <2>2
<1> HIDE DEF f
<1>10. ASSUME NEW j \in 1..(n + 1) PROVE Explained(q.w, f, j)
  <2>1. CASE j \in 1..n
    <3>1. \A k \in 1..n : q.w[k] = p.w[k] /\ f[k] = g[k]
      BY <1>4, <1>6
    <3>2. n <= Len(q.w) /\ Len(q.w) \in Nat /\ Explained(p.w, g, j)
      BY <2>1, <1>2, <1>3, <1>4
    <3> QED BY <2>1, <3>1, <3>2, <1>3, ExplainedStays DEF n
  <2>2. CASE j = n + 1
    <3>1. q.w[j].t = kd
      BY <2>2, <1>4, TokenIs
    <3> QED BY <2>2, <3>1, <1>3, <1>7 DEF Explained, NameParts
  <2> QED BY <2>1, <2>2, <1>3
<1>11. Remembered(q, f)
  <2>1. ASSUME NEW s \in DOMAIN q.ptrs
        PROVE  s # <<>> /\ \E k \in 1..Len(q.w) : LabelAt(q.w, k, q.ptrs[s]) /\ f[k].name = s
    <3>1. s # <<>> /\ s \in DOMAIN p.ptrs
      BY <1>2, <1>4
    <3>2. PICK k \in 1..n : LabelAt(p.w, k, p.ptrs[s]) /\ g[k].name = s
      BY <1>2, <3>1
    <3>3. k \in 1..Len(q.w) /\ LabelAt(q.w, k, q.ptrs[s]) /\ f[k].name = s
      BY <3>2, <1>3, <1>4, <1>6 DEF LabelAt
    <3> QED BY <3>1, <3>3
  <2> QED BY <2>1 DEF Remembered
<1>12. SoundWith(q, f)
  BY <1>4, <1>5, <1>9, <1>10, <1>11 DEF SoundWith, Explains
<1> QED BY <1>12 DEF Sound, q

(* So does Name.pack, and the name is what is read from where it starts.    *)
LEMMA PackNameSound ==
    ASSUME NEW compress \in BOOLEAN, NEW p \in Packing(compress), Sound(p), NEW name \in NameSet
    PROVE  \E f : /\ SoundWith(PackName(p, name, compress), f)
                  /\ NameReads(p, PackName(p, name, compress), f, name)
<1>1. PICK g : SoundWith(p, g)
  BY DEF Sound
<1> DEFINE i == FirstHit(p.ptrs, name)
           n == Len(name)
           q == PackName(p, name, compress)
<1>2. /\ i \in 1..(n + 1)
      /\ i <= n => Suffix(name, i) \in DOMAIN p.ptrs
  BY FirstHitIs
<1>3. p \in Packed /\ Laid(p.w, p.len) /\ p.ptrs \in PtrMaps /\ (~compress => DOMAIN p.ptrs = {})
  BY <1>1, PackedFields DEF SoundWith, Packing
<1>4. q = IF ~compress THEN PackUpTo(p, name, n + 1, p.ptrs)
          ELSE PackUpTo(p, name, i, Remember(p, name, i))
  BY Zenon DEF PackName
<1>5. ~compress => i = n + 1
  BY <1>3, NameLenWhole
<1> HIDE DEF i, q
<1>6. ASSUME NEW ptrs \in PtrMaps, DOMAIN p.ptrs \subseteq DOMAIN ptrs, q = PackUpTo(p, name, i, ptrs),
             \A s \in DOMAIN ptrs :
                \/ s \in DOMAIN p.ptrs /\ ptrs[s] = p.ptrs[s]
                \/ \E k \in 1..(i - 1) : s = Suffix(name, k) /\ ptrs[s] = p.len + BytesBefore(name, k)
      PROVE  \E f : SoundWith(q, f) /\ NameReads(p, q, f, name)
  <2>1. NameAt(p, q, name, i) /\ q.ptrs = ptrs
    BY <1>2, <1>3, <1>6, PackUpToWrites, Zenon
  <2>2. \A s \in DOMAIN q.ptrs :
           \/ s \in DOMAIN p.ptrs /\ q.ptrs[s] = p.ptrs[s]
           \/ \E k \in 1..(i - 1) : s = Suffix(name, k) /\ q.ptrs[s] = p.len + BytesBefore(name, k)
    BY <1>6, <2>1
  <2> QED BY <1>1, <1>2, <2>1, <2>2, NameSound
<1>7. CASE compress
  <2>1. Remember(p, name, i) \in PtrMaps /\ DOMAIN p.ptrs \subseteq DOMAIN Remember(p, name, i)
    BY <1>2, <1>3, RememberIs
  <2>2. q = PackUpTo(p, name, i, Remember(p, name, i))
    BY <1>4, <1>7
  <2> DEFINE r == Remember(p, name, i)
  <2>3. \A s \in DOMAIN r :
           \/ s \in DOMAIN p.ptrs /\ r[s] = p.ptrs[s]
           \/ \E k \in 1..(i - 1) : s = Suffix(name, k) /\ r[s] = p.len + BytesBefore(name, k)
    BY <1>2, <1>3, RememberAdds
  <2> HIDE DEF r
  <2>4. r \in PtrMaps /\ DOMAIN p.ptrs \subseteq DOMAIN r /\ q = PackUpTo(p, name, i, r)
    BY <2>1, <2>2 DEF r
  <2>5. \E f : SoundWith(q, f) /\ NameReads(p, q, f, name)
    BY <1>6, <2>3, <2>4
  <2> QED BY <2>5 DEF q
<1>8. CASE ~compress
  <2>1. q = PackUpTo(p, name, i, p.ptrs)
    BY <1>4, <1>5, <1>8
  <2>2. \E f : SoundWith(q, f) /\ NameReads(p, q, f, name)
    BY <1>3, <1>6, <2>1
  <2> QED BY <2>2 DEF q
<1> QED BY <1>7, <1>8

(* So does a part of a body. *)
LEMMA PackPartSound ==
    ASSUME NEW compress \in BOOLEAN, NEW p \in Packing(compress), Sound(p), NEW bp \in BodyParts
    PROVE  Sound(PackPart(p, bp, compress))
<1>1. bp.size \in Nat /\ bp.name \in NameSet
  BY DEF BodyParts
<1>2. CASE bp.size > 0
  <2>1. bp.size \in Values /\ bp.size >= 1 /\ "fix" \in Kinds \ NameParts
    BY <1>1, <1>2, ValuesAre DEF Kinds, NameParts
  <2>2. PackPart(p, bp, compress) = Emit(p, "fix", bp.size, bp.size)
    BY <1>2 DEF PackPart
  <2> QED BY <1>1, <2>1, <2>2, EmitSound
<1>3. CASE ~(bp.size > 0)
  <2>1. PackPart(p, bp, compress) = PackName(p, bp.name, compress)
    BY <1>3 DEF PackPart
  <2> QED BY <1>1, <2>1, PackNameSound DEF Sound
<1> QED BY <1>2, <1>3

(* Writing the length of a body does not change what is read of names.      *)
LEMMA PatchSound ==
    ASSUME NEW q, Sound(q), NEW h \in Packed, NEW type \in RRTypes,
           Len(h.w) \in 1..Len(q.w), q.w[Len(h.w)].t = "rr", h.len <= q.len
    PROVE  LET o == PatchLength(q, h, type)
           IN  /\ Sound(o) /\ o.len = q.len /\ o.ptrs = q.ptrs /\ Len(o.w) = Len(q.w)
               /\ o.w[Len(h.w)].v = <<type, q.len - h.len>> /\ Begins(q.w, o.w)
               /\ \A k \in 1..Len(q.w) : k # Len(h.w) => o.w[k] = q.w[k]
<1> DEFINE i == Len(h.w)
           val == <<type, q.len - h.len>>
           w == [q.w EXCEPT ![i].v = val]
           o == PatchLength(q, h, type)
<1>1. PICK g : SoundWith(q, g)
  BY DEF Sound
<1>2. /\ q \in Packed /\ Laid(q.w, q.len) /\ g \in [1..Len(q.w) -> Readings]
      /\ \A j \in 1..Len(q.w) : Explained(q.w, g, j)
      /\ \A s \in DOMAIN q.ptrs :
           s # <<>> /\ \E k \in 1..Len(q.w) : LabelAt(q.w, k, q.ptrs[s]) /\ g[k].name = s
  BY <1>1 DEF SoundWith, Explains, Remembered
<1>3. /\ q.w \in Seq(Tokens) /\ q.len \in Nat /\ q.ptrs \in PtrMaps /\ q.cut \in BOOLEAN
      /\ Len(q.w) \in Nat /\ h.len \in Nat /\ i \in 1..Len(q.w)
  BY <1>2, PackedFields
<1>4. val \in Values
  <2>1. val \in RRTypes \X Nat
    BY <1>3
  <2> QED BY <2>1, ValuesAre
<1> HIDE DEF val
<1>5. o = [q EXCEPT !.w = w]
  BY DEF PatchLength, val
<1>6. [q.w[i] EXCEPT !.v = val] \in Tokens
  <2>1. q.w[i] \in Tokens
    BY <1>3
  <2> QED BY <1>4, <2>1 DEF Tokens
<1>7. /\ w \in Seq(Tokens) /\ Len(w) = Len(q.w) /\ w[i] = [q.w[i] EXCEPT !.v = val]
      /\ \A k \in 1..Len(q.w) : k # i => w[k] = q.w[k]
  BY <1>3, <1>6
<1>8. w[i].t = q.w[i].t /\ w[i].at = q.w[i].at /\ w[i].size = q.w[i].size /\ w[i].v = val
  <2>1. q.w[i] \in Tokens
    BY <1>3
  <2>2. LET tok == [q.w[i] EXCEPT !.v = val]
        IN  tok.t = q.w[i].t /\ tok.at = q.w[i].at /\ tok.size = q.w[i].size /\ tok.v = val
    BY <2>1 DEF Tokens
  <2> HIDE DEF w
  <2> QED BY <1>7, <2>2
<1> HIDE DEF w, i, o
<1>9. /\ o \in Packed /\ o.w = w /\ o.len = q.len /\ o.ptrs = q.ptrs
  <2>1. o = [w |-> w, len |-> q.len, ptrs |-> q.ptrs, cut |-> q.cut]
    BY <1>2, <1>5 DEF Packed
  <2>2. [w |-> w, len |-> q.len, ptrs |-> q.ptrs, cut |-> q.cut] \in Packed
    BY <1>3, <1>7, Zenon DEF Packed
  <2> QED BY <2>1, <2>2
<1>10. /\ \A k \in 1..Len(q.w) : w[k].t = q.w[k].t /\ w[k].at = q.w[k].at /\ w[k].size = q.w[k].size
       /\ \A k \in 1..Len(q.w) : q.w[k].t # "rr" => w[k] = q.w[k]
  BY <1>3, <1>7, <1>8 DEF i
<1>11. Laid(w, q.len)
  <2>1. \A k \in 1..(Len(q.w) - 1) : k \in 1..Len(q.w) /\ k + 1 \in 1..Len(q.w)
    BY <1>3
  <2>2. Len(q.w) >= 1 => 1 \in 1..Len(q.w) /\ Len(q.w) \in 1..Len(q.w)
    BY <1>3
  <2>3. /\ Len(q.w) >= 1 /\ q.w[1].at = 0
        /\ \A j \in 1..Len(q.w) : q.w[j].size >= 1
        /\ \A j \in 1..(Len(q.w) - 1) : q.w[j + 1].at = q.w[j].at + q.w[j].size
        /\ q.len = q.w[Len(q.w)].at + q.w[Len(q.w)].size
    BY <1>2 DEF Laid
  <2>4. /\ w[1].at = 0 /\ \A j \in 1..Len(q.w) : w[j].size >= 1
    BY <2>2, <2>3, <1>10
  <2>5. \A j \in 1..(Len(q.w) - 1) : w[j + 1].at = w[j].at + w[j].size
    BY <2>1, <2>3, <1>10
  <2>6. q.len = w[Len(q.w)].at + w[Len(q.w)].size
    BY <2>2, <2>3, <1>10
  <2> QED BY <1>7, <2>3, <2>4, <2>5, <2>6 DEF Laid
<1>12. ASSUME NEW j \in 1..Len(q.w) PROVE Explained(w, g, j)
  <2>1. Explained(q.w, g, j)
    BY <1>2
  <2>2. CASE q.w[j].t = "label"
    <3>1. w[j] = q.w[j]
      BY <2>2, <1>10
    <3>2. j < Len(q.w) /\ q.w[j + 1].t \in NameParts
      BY <2>1, <2>2 DEF Explained
    <3>3. j + 1 \in 1..Len(q.w)
      BY <3>2, <1>3
    <3>4. w[j + 1].t = q.w[j + 1].t
      BY <3>3, <1>10
    <3> QED BY <2>1, <2>2, <3>1, <3>2, <3>4, <1>7 DEF Explained, NameParts
  <2>3. CASE q.w[j].t = "ptr"
    <3>1. w[j] = q.w[j]
      BY <2>3, <1>10
    <3>2. PICK k \in 1..(j - 1) :
            /\ LabelAt(q.w, k, q.w[j].v)
            /\ g[j] = [name |-> g[k].name, hops |-> g[k].hops + 1, end |-> q.w[j].at + 2]
      BY <2>1, <2>3 DEF Explained
    <3>3. k \in 1..Len(q.w)
      BY <1>3
    <3>4. w[k] = q.w[k]
      BY <3>2, <3>3, <1>10 DEF LabelAt
    <3>5. LabelAt(w, k, w[j].v)
      BY <3>1, <3>2, <3>4 DEF LabelAt
    <3> QED BY <2>3, <3>1, <3>2, <3>5 DEF Explained, NameParts
  <2>4. CASE q.w[j].t = "end"
    <3>1. w[j] = q.w[j]
      BY <2>4, <1>10
    <3> QED BY <2>1, <2>4, <3>1 DEF Explained, NameParts
  <2>5. CASE q.w[j].t \notin NameParts
    <3>1. w[j].t = q.w[j].t
      BY <1>10
    <3> QED BY <2>1, <2>5, <3>1 DEF Explained, NameParts
  <2> QED BY <2>2, <2>3, <2>4, <2>5 DEF NameParts
<1>13. Remembered(o, g)
  <2>1. ASSUME NEW s \in DOMAIN q.ptrs
        PROVE  s # <<>> /\ \E k \in 1..Len(q.w) : LabelAt(w, k, q.ptrs[s]) /\ g[k].name = s
    <3>1. PICK k \in 1..Len(q.w) : LabelAt(q.w, k, q.ptrs[s]) /\ g[k].name = s
      BY <1>2
    <3>2. LabelAt(w, k, q.ptrs[s])
      BY <3>1, <1>10 DEF LabelAt
    <3> QED BY <1>2, <3>1, <3>2
  <2> QED BY <1>7, <1>9, <2>1 DEF Remembered
<1>14. SoundWith(o, g)
  BY <1>2, <1>7, <1>9, <1>11, <1>12, <1>13 DEF SoundWith, Explains
<1>15. Begins(q.w, w)
  BY <1>3, <1>7, <1>10 DEF Begins
<1>16. Sound(o)
  BY <1>14 DEF Sound
<1> QED BY <1>7, <1>8, <1>9, <1>15, <1>16 DEF o, i, val

(* A name is no shorter than what it starts with, and takes more bytes than *)
(* it has labels.                                                           *)
LEMMA NameBytesGrow ==
    ASSUME NEW a \in NameSet, NEW b \in NameSet
    PROVE  /\ a \o b \in NameSet /\ NameBytes(a) \in Nat /\ NameBytes(a \o b) \in Nat
           /\ NameBytes(a) <= NameBytes(a \o b) /\ Len(a) < NameBytes(a)
<1> DEFINE n == Len(a)
           m == Len(b)
           c == a \o b
           s == [i \in 1..n |-> LabelSize[a[i]]]
           t == [i \in 1..m |-> LabelSize[b[i]]]
           r == [i \in 1..(n + m) |-> LabelSize[c[i]]]
           one == [i \in 1..n |-> 1]
<1>1. /\ n \in Nat /\ m \in Nat /\ c \in Seq(Labels) /\ Len(c) = n + m
      /\ \A i \in 1..n : c[i] = a[i] /\ a[i] \in Labels
      /\ \A i \in 1..m : c[n + i] = b[i] /\ b[i] \in Labels
  BY DEF NameSet
<1>2. \A l \in Labels : LabelSize[l] \in Nat /\ LabelSize[l] >= 1
  BY LabelBytes
<1>3. NameBytes(a) = SumOf(s) + 1 /\ NameBytes(c) = SumOf(r) + 1
  BY <1>1 DEF NameBytes
<1>4. s \in [1..n -> Nat] /\ t \in [1..m -> Nat] /\ one \in [1..n -> Nat]
  BY <1>1, <1>2
<1>5. r \in [1..(n + m) -> Nat]
  <2>1. \A i \in 1..(n + m) : c[i] \in Labels
    BY <1>1
  <2> HIDE DEF c
  <2> QED BY <1>2, <2>1
<1>6. (\A k \in 1..n : r[k] = s[k]) /\ (\A k \in 1..m : r[n + k] = t[k])
  BY <1>1
<1>7. \A k \in 1..n : one[k] <= s[k]
  BY <1>1, <1>2
<1>8. SumOf(one) = n
  <2>1. PICK u \in [0..n -> Nat] : Sums(u, n, one) /\ SumOf(one) = u[n]
    BY <1>1, <1>4, SumOfSums
  <2> DEFINE T == {k \in 0..n : u[k] = k}
  <2>2. 0 \in T
    BY <1>1, <2>1 DEF Sums
  <2>3. \A k \in 1..n : k - 1 \in T => k \in T
    BY <1>1, <2>1 DEF Sums
  <2>4. \A k \in 0..n : k \in T
    <3> HIDE DEF T
    <3> QED BY <1>1, <2>2, <2>3, UpTo
  <2> QED BY <1>1, <2>1, <2>4
<1> HIDE DEF r, s, t, one, n, m, c
<1>9. SumOf(s) \in Nat /\ SumOf(t) \in Nat /\ SumOf(r) = SumOf(s) + SumOf(t)
  BY <1>1, <1>4, <1>5, <1>6, SumOfBoth
<1>10. SumOf(one) <= SumOf(s)
  BY <1>1, <1>4, <1>7, SumLeq
<1> DEFINE x == SumOf(s)
           y == SumOf(t)
           z == SumOf(r)
           l == SumOf(one)
<1>11. x \in Nat /\ y \in Nat /\ z = x + y /\ l = n /\ l <= x
  BY <1>8, <1>9, <1>10
<1>12. NameBytes(a) = x + 1 /\ NameBytes(c) = z + 1
  BY <1>3
<1> HIDE DEF x, y, z, l
<1>13. x + 1 \in Nat /\ z + 1 \in Nat /\ x + 1 <= z + 1 /\ n < x + 1
  BY <1>1, <1>11
<1> QED BY <1>1, <1>12, <1>13 DEF n, c, NameSet

(* What Name.unpack accepts: a name of a length it accepts, and not too     *)
(* many pointers on the way.                                                *)
Fits(name) == NameBytes(name) < NameMax
Legible(x) == x.hops <= MaxPtr /\ Fits(x.name)

States == [state : {"on", "end", "bad"}, at : Nat, next : Nat, name : NameSet, followed : Nat]
Begun(off) == [state |-> "on", at |-> off, next |-> off, name |-> <<>>, followed |-> 0]

(* After k turns token i is next, and gives the rest of what token s gives. *)
Reads(w, g, s, k, st, i) ==
    /\ w[i].t \in NameParts /\ st.at = w[i].at
    /\ st.name \o g[i].name = g[s].name /\ st.followed + g[i].hops = g[s].hops
    /\ Len(st.name) + st.followed = k /\ st.followed <= MaxPtr /\ Fits(st.name)
    /\ st.followed = 0 => g[i].end = g[s].end
    /\ st.followed > 0 => st.next = g[s].end

(* What the loop of Name.unpack has come to after k turns.                  *)
Came(w, g, s, k, st) ==
    /\ st \in States
    /\ st.state = "on" => \E i \in 1..Len(w) : Reads(w, g, s, k, st, i)
    /\ st.state = "end" => st.name = g[s].name /\ st.next = g[s].end /\ Legible(g[s])
    /\ st.state = "bad" => ~Legible(g[s])

(* A label is read, or the name is too long. *)
LEMMA LabelRead ==
    ASSUME NEW w, NEW len, Laid(w, len), NEW g, Explains(w, g), NEW s \in 1..Len(w), NEW k \in Nat,
           NEW st \in States, st.state = "on", NEW i \in 1..Len(w), Reads(w, g, s, k, st, i), w[i].t = "label"
    PROVE  Came(w, g, s, k + 1, ReadLabel(st, w[i].v, w[i].size))
<1> DEFINE l == w[i].v
           nm == Append(st.name, l)
           o == ReadLabel(st, l, w[i].size)
<1>1. /\ l \in Labels /\ i < Len(w) /\ w[i + 1].t \in NameParts
      /\ g[i] = [name |-> <<l>> \o g[i + 1].name, hops |-> g[i + 1].hops, end |-> g[i + 1].end]
  BY DEF Explains, Explained
<1>2. w \in Seq(Tokens) /\ Len(w) \in Nat /\ i + 1 \in 1..Len(w) /\ i \in 1..(Len(w) - 1)
  BY <1>1 DEF Laid
<1>3. w[i + 1].at = w[i].at + w[i].size /\ w[i].at \in Nat /\ w[i].size \in Nat
  BY <1>2, TokenFields DEF Laid
<1>4. /\ st.name \in NameSet /\ st.at \in Nat /\ st.next \in Nat /\ st.followed \in Nat
  BY DEF States
<1>5. g[i + 1] \in Readings /\ g[s] \in Readings
  BY <1>2 DEF Explains
<1>6. g[i + 1].name \in NameSet /\ g[s].name \in NameSet /\ g[i + 1].hops \in Nat
  BY <1>5 DEF Readings
<1>7. nm \in NameSet /\ nm \o g[i + 1].name = g[s].name /\ Len(nm) = Len(st.name) + 1
  <2>1. g[i].name = <<l>> \o g[i + 1].name
    BY <1>1
  <2>2. st.name \o (<<l>> \o g[i + 1].name) = g[s].name
    BY <2>1 DEF Reads
  <2> DEFINE a == st.name
             b == g[i + 1].name
  <2>3. a \in Seq(Labels) /\ b \in Seq(Labels) /\ l \in Labels
    BY <1>1, <1>4, <1>6 DEF NameSet
  <2>4. a \o (<<l>> \o b) = g[s].name /\ nm = Append(a, l)
    BY <2>2
  <2> HIDE DEF a, b, l, nm
  <2>5. Append(a, l) \in Seq(Labels) /\ Append(a, l) \o b = a \o (<<l>> \o b) /\ Len(Append(a, l)) = Len(a) + 1
    BY <2>3
  <2> QED BY <2>4, <2>5 DEF a, b, NameSet
<1>8. CASE NameBytes(nm) >= NameMax
  <2>1. o = Fail(st)
    BY <1>8, Zenon DEF ReadLabel
  <2>2. o \in States /\ o.state = "bad"
    BY <2>1 DEF Fail, States
  <2>3. NameBytes(nm) \in Nat /\ NameBytes(nm \o g[i + 1].name) \in Nat
        /\ NameBytes(nm) <= NameBytes(nm \o g[i + 1].name)
    BY <1>6, <1>7, NameBytesGrow
  <2>4. ~Legible(g[s])
    BY <1>7, <1>8, <2>3, MessagesAssumption DEF Legible, Fits
  <2> HIDE DEF o
  <2> QED BY <2>2, <2>4 DEF Came, o
<1>9. CASE ~(NameBytes(nm) >= NameMax)
  <2>1. o = [st EXCEPT !.at = @ + w[i].size, !.name = nm]
    BY <1>9, Zenon DEF ReadLabel
  <2>2. o = [state |-> "on", at |-> st.at + w[i].size, next |-> st.next, name |-> nm, followed |-> st.followed]
    BY <2>1 DEF States
  <2> HIDE DEF o
  <2>3. /\ o.state = "on" /\ o.at = st.at + w[i].size /\ o.next = st.next /\ o.name = nm
        /\ o.followed = st.followed
    BY <2>2
  <2>4. st.at = w[i].at
    BY DEF Reads
  <2>5. st.at + w[i].size \in Nat
    BY <1>3, <2>4
  <2>6. o \in States
    BY <1>4, <1>7, <2>2, <2>5 DEF States
  <2>7. o.at = w[i + 1].at
    BY <1>3, <2>3, <2>4
  <2>8. Fits(nm)
    <3>1. NameBytes(nm) \in Nat
      BY <1>6, <1>7, NameBytesGrow
    <3> HIDE DEF nm
    <3> QED BY <1>9, <3>1, MessagesAssumption DEF Fits
  <2>9. g[i].hops = g[i + 1].hops /\ g[i].end = g[i + 1].end
    BY <1>1
  <2>10. Len(nm) + st.followed = k + 1
    <3> DEFINE a == Len(st.name)
               b == st.followed
               c == Len(nm)
    <3>1. a + b = k
      BY DEF Reads
    <3>2. a \in Nat /\ b \in Nat /\ c = a + 1
      BY <1>4, <1>7 DEF NameSet
    <3> HIDE DEF a, b, c
    <3>3. c + b = k + 1
      BY <3>1, <3>2
    <3> QED BY <3>3 DEF b, c
  <2>11. Reads(w, g, s, k + 1, o, i + 1)
    BY <1>1, <1>7, <2>3, <2>7, <2>8, <2>9, <2>10 DEF Reads
  <2> HIDE DEF nm
  <2> QED BY <1>2, <2>3, <2>6, <2>11 DEF Came, o
<1> QED BY <1>8, <1>9

(* A pointer is followed, or there have been too many. *)
LEMMA PtrRead ==
    ASSUME NEW w, NEW len, Laid(w, len), NEW g, Explains(w, g), NEW s \in 1..Len(w), NEW k \in Nat,
           NEW st \in States, st.state = "on", NEW i \in 1..Len(w), Reads(w, g, s, k, st, i), w[i].t = "ptr"
    PROVE  Came(w, g, s, k + 1, FollowPtr(st, w[i].v))
<1> DEFINE to == w[i].v
           o == FollowPtr(st, to)
<1>1. PICK j \in 1..(i - 1) :
        /\ LabelAt(w, j, w[i].v)
        /\ g[i] = [name |-> g[j].name, hops |-> g[j].hops + 1, end |-> w[i].at + 2]
  BY DEF Explains, Explained
<1>2. w \in Seq(Tokens) /\ Len(w) \in Nat /\ j \in 1..Len(w)
  BY DEF Laid
<1>3. w[j].at = to /\ w[j].t \in NameParts /\ to \in Nat
  BY <1>1, <1>2, TokenFields DEF LabelAt, NameParts
<1>4. /\ st.name \in NameSet /\ st.at \in Nat /\ st.next \in Nat /\ st.followed \in Nat
  BY DEF States
<1>5. g[j] \in Readings /\ g[s] \in Readings
  BY <1>2 DEF Explains
<1>6. g[j].name \in NameSet /\ g[s].name \in NameSet /\ g[j].hops \in Nat /\ g[s].hops \in Nat
      /\ g[s].end \in Nat
  BY <1>5 DEF Readings
<1>7. g[i].name = g[j].name /\ g[i].hops = g[j].hops + 1 /\ g[i].end = w[i].at + 2
  BY <1>1
<1>8. /\ st.at = w[i].at /\ st.name \o g[j].name = g[s].name
      /\ st.followed + (g[j].hops + 1) = g[s].hops
      /\ Len(st.name) + st.followed = k /\ st.followed <= MaxPtr /\ Fits(st.name)
      /\ st.followed = 0 => w[i].at + 2 = g[s].end
      /\ st.followed > 0 => st.next = g[s].end
  BY <1>7 DEF Reads
<1> HIDE DEF to
<1>9. CASE st.followed = MaxPtr
  <2>1. o = Fail(st)
    BY <1>9 DEF FollowPtr
  <2>2. o \in States /\ o.state = "bad"
    BY <2>1 DEF Fail, States
  <2>3. ~Legible(g[s])
    BY <1>4, <1>6, <1>8, <1>9, MessagesAssumption DEF Legible
  <2> HIDE DEF o
  <2> QED BY <2>2, <2>3 DEF Came, o, to
<1>10. CASE st.followed # MaxPtr
  <2> DEFINE nx == IF st.followed = 0 THEN st.at + 2 ELSE st.next
  <2>1. o = [st EXCEPT !.at = to, !.followed = @ + 1, !.next = nx]
    BY <1>10 DEF FollowPtr
  <2>2. nx = g[s].end
    <3>1. CASE st.followed = 0
      BY <1>8, <3>1
    <3>2. CASE st.followed # 0
      <4>1. st.followed > 0
        BY <1>4, <3>2
      <4> QED BY <1>8, <3>2, <4>1
    <3> QED BY <3>1, <3>2
  <2>3. nx \in Nat
    BY <1>6, <2>2
  <2> HIDE DEF nx
  <2>4. o = [state |-> "on", at |-> to, next |-> nx, name |-> st.name, followed |-> st.followed + 1]
    BY <2>1 DEF States
  <2> HIDE DEF o
  <2>5. /\ o.state = "on" /\ o.at = to /\ o.next = nx /\ o.name = st.name
        /\ o.followed = st.followed + 1
    BY <2>4
  <2>6. o \in States
    BY <1>3, <1>4, <2>3, <2>4 DEF States
  <2>7. o.followed <= MaxPtr /\ ~(o.followed = 0)
    BY <1>4, <1>8, <1>10, <2>5, MessagesAssumption
  <2>8. o.followed + g[j].hops = g[s].hops
    <3> DEFINE a == st.followed
               b == g[j].hops
               c == g[s].hops
    <3>1. a \in Nat /\ b \in Nat /\ c \in Nat /\ a + (b + 1) = c /\ o.followed = a + 1
      BY <1>4, <1>6, <1>8, <2>5
    <3> HIDE DEF a, b, c
    <3>2. (a + 1) + b = c
      BY <3>1
    <3> QED BY <3>1, <3>2 DEF b, c
  <2>9. Len(o.name) + o.followed = k + 1
    <3> DEFINE a == Len(st.name)
               b == st.followed
    <3>1. a \in Nat /\ b \in Nat
      BY <1>4 DEF NameSet
    <3>2. a + b = k
      BY <1>8
    <3>3. Len(o.name) = a /\ o.followed = b + 1
      BY <2>5
    <3> HIDE DEF a, b
    <3>4. a + (b + 1) = k + 1
      BY <3>1, <3>2
    <3> QED BY <3>3, <3>4
  <2>10. Reads(w, g, s, k + 1, o, j)
    BY <1>3, <1>8, <2>2, <2>5, <2>7, <2>8, <2>9 DEF Reads
  <2> QED BY <1>2, <2>5, <2>6, <2>10 DEF Came, o, to
<1> QED BY <1>9, <1>10

(* The end is read. *)
LEMMA EndRead ==
    ASSUME NEW w, NEW len, Laid(w, len), NEW g, Explains(w, g), NEW s \in 1..Len(w), NEW k \in Nat,
           NEW st \in States, st.state = "on", NEW i \in 1..Len(w), Reads(w, g, s, k, st, i), w[i].t = "end"
    PROVE  Came(w, g, s, k + 1, EndName(st))
<1> DEFINE o == EndName(st)
           nx == IF st.followed = 0 THEN st.at + 1 ELSE st.next
<1>1. g[i] = [name |-> <<>>, hops |-> 0, end |-> w[i].at + 1]
  BY DEF Explains, Explained
<1>2. g[i].name = <<>> /\ g[i].hops = 0 /\ g[i].end = w[i].at + 1
  BY <1>1
<1>3. /\ st.name \in NameSet /\ st.at \in Nat /\ st.next \in Nat /\ st.followed \in Nat
  BY DEF States
<1>4. /\ st.at = w[i].at /\ st.name \o <<>> = g[s].name /\ st.followed + 0 = g[s].hops
      /\ st.followed <= MaxPtr /\ Fits(st.name)
      /\ st.followed = 0 => w[i].at + 1 = g[s].end
      /\ st.followed > 0 => st.next = g[s].end
  BY <1>2 DEF Reads
<1>5. st.name = g[s].name
  BY <1>3, <1>4 DEF NameSet
<1>6. nx \in Nat /\ nx = g[s].end
  BY <1>3, <1>4
<1>7. o = [st EXCEPT !.state = "end", !.next = nx]
  BY DEF EndName
<1> HIDE DEF nx
<1>8. o = [state |-> "end", at |-> st.at, next |-> nx, name |-> st.name, followed |-> st.followed]
  BY <1>7 DEF States
<1> HIDE DEF o
<1>9. o.state = "end" /\ o.next = nx /\ o.name = st.name
  BY <1>8
<1>10. o \in States
  BY <1>3, <1>6, <1>8 DEF States
<1>11. Legible(g[s])
  BY <1>3, <1>4, <1>5 DEF Legible
<1> QED BY <1>5, <1>6, <1>9, <1>10, <1>11 DEF Came, o

(* One turn of the loop of Name.unpack. *)
LEMMA TurnIs ==
    ASSUME NEW w, NEW len, Laid(w, len), NEW g, Explains(w, g), NEW s \in 1..Len(w), NEW k \in Nat,
           NEW st, Came(w, g, s, k, st)
    PROVE  Came(w, g, s, k + 1, ReadOn(w, st))
<1>1. st \in States
  BY DEF Came
<1>2. CASE st.state # "on"
  <2>1. ReadOn(w, st) = st
    BY <1>2, Zenon DEF ReadOn
  <2> QED BY <1>2, <2>1 DEF Came
<1>3. CASE st.state = "on"
  <2>1. PICK i \in 1..Len(w) : Reads(w, g, s, k, st, i)
    BY <1>3 DEF Came
  <2>2. w[i].t \in NameParts /\ st.at = w[i].at
    BY <2>1 DEF Reads
  <2>3. TokenAt(w, st.at, NameParts) = {i}
    BY <2>2, TokenAtIs
  <2>4. (CHOOSE x \in {i} : TRUE) = i
    OBVIOUS
  <2>5. ReadOn(w, st) = ReadToken(st, w[i])
    BY <1>3, <2>3, <2>4 DEF ReadOn
  <2>6. CASE w[i].t = "end"
    <3>1. ReadToken(st, w[i]) = EndName(st)
      BY <2>6 DEF ReadToken
    <3> QED BY <1>1, <1>3, <2>1, <2>5, <2>6, <3>1, EndRead
  <2>7. CASE w[i].t = "ptr"
    <3>1. ReadToken(st, w[i]) = FollowPtr(st, w[i].v)
      BY <2>7 DEF ReadToken
    <3> QED BY <1>1, <1>3, <2>1, <2>5, <2>7, <3>1, PtrRead
  <2>8. CASE w[i].t = "label"
    <3>1. ReadToken(st, w[i]) = ReadLabel(st, w[i].v, w[i].size)
      BY <2>8 DEF ReadToken
    <3> QED BY <1>1, <1>3, <2>1, <2>5, <2>8, <3>1, LabelRead
  <2> QED BY <2>2, <2>6, <2>7, <2>8 DEF NameParts
<1> QED BY <1>2, <1>3

Turns == NameMax + MaxPtr + 1

(* The loop of Name.unpack, turn by turn. *)
LEMMA TurnsRun ==
    ASSUME NEW w, NEW len, Laid(w, len), NEW g, Explains(w, g), NEW s \in 1..Len(w), w[s].t \in NameParts
    PROVE  \E st : /\ Came(w, g, s, Turns, st)
                   /\ UnpackName(w, w[s].at) = [ok |-> st.state = "end", name |-> st.name, next |-> st.next]
<1> DEFINE off == w[s].at
           n == Turns
           F(f) == [k \in 0..n |-> IF k = 0 THEN Begun(off) ELSE ReadOn(w, f[k - 1])]
           Turn == CHOOSE f : f = F(f)
           S == {st \in States : \E k \in Nat : Came(w, g, s, k, st)}
           step == [x \in (1..n) \X S |-> ReadOn(w, x[2])]
<1>1. UnpackName(w, off) = [ok |-> Turn[n].state = "end", name |-> Turn[n].name, next |-> Turn[n].next]
  BY Zenon DEF UnpackName, Turns, Begun
<1>a. n \in Nat
  BY MessagesAssumption DEF Turns
<1>2. Came(w, g, s, 0, Begun(off))
  <2> DEFINE st == Begun(off)
  <2>1. w \in Seq(Tokens) /\ off \in Nat
    BY TokenFields DEF Laid
  <2>2. <<>> \in NameSet /\ Len(<<>>) = 0
    BY DEF NameSet
  <2>3. /\ st.state = "on" /\ st.at = off /\ st.next = off /\ st.name = <<>> /\ st.followed = 0
    BY DEF Begun
  <2>4. st \in States
    BY <2>1, <2>2 DEF Begun, States
  <2>5. Fits(<<>>)
    <3>1. NameBytes(<<>>) = SumOf(<<>>) + 1
      BY DEF NameBytes
    <3> QED BY <3>1, SumNone, MessagesAssumption DEF Fits
  <2>6. g[s] \in Readings
    BY DEF Explains
  <2>7. g[s].name \in NameSet /\ g[s].hops \in Nat
    BY <2>6 DEF Readings
  <2>8. <<>> \o g[s].name = g[s].name /\ 0 + g[s].hops = g[s].hops /\ 0 <= MaxPtr
    BY <2>7, MessagesAssumption DEF NameSet
  <2> HIDE DEF st
  <2>9. Reads(w, g, s, 0, st, s)
    BY <2>2, <2>3, <2>5, <2>8 DEF Reads
  <2> QED BY <2>3, <2>4, <2>9 DEF Came, st
<1> HIDE DEF n, off
<1>3. \E f \in [0..n -> S] : f = F(f)
  <2>1. \A st \in S : ReadOn(w, st) \in S
    <3> TAKE st \in S
    <3>1. PICK k \in Nat : Came(w, g, s, k, st)
      OBVIOUS
    <3>2. k + 1 \in Nat /\ Came(w, g, s, k + 1, ReadOn(w, st))
      BY <3>1, TurnIs
    <3>3. ReadOn(w, st) \in States
      BY <3>2 DEF Came
    <3> QED BY <3>2, <3>3
  <2>2. Begun(off) \in S
    BY <1>2 DEF Came
  <2> HIDE DEF S
  <2>3. step \in [(1..n) \X S -> S]
    BY <2>1
  <2> HIDE DEF step
  <2>4. PICK f \in [0..n -> S] : Runs(f, Begun(off), n, step)
    BY <1>a, <2>2, <2>3, Recursion
  <2>5. ASSUME NEW k \in 0..n PROVE f[k] = IF k = 0 THEN Begun(off) ELSE ReadOn(w, f[k - 1])
    <3>1. CASE k # 0
      <4>1. k \in 1..n /\ k - 1 \in 0..n
        BY <1>a, <3>1
      <4>2. <<k, f[k - 1]>> \in (1..n) \X S
        BY <4>1
      <4>3. f[k] = step[<<k, f[k - 1]>>]
        BY <2>4, <4>1 DEF Runs
      <4> QED BY <3>1, <4>2, <4>3 DEF step
    <3>2. CASE k = 0
      BY <2>4, <3>2 DEF Runs
    <3> QED BY <3>1, <3>2
  <2> QED BY <2>5
<1>4. Turn = F(Turn)
  <2> HIDE DEF F
  <2> QED BY <1>3
<1> HIDE DEF Turn
<1>5. Turn[0] = Begun(off) /\ \A k \in 1..n : Turn[k] = ReadOn(w, Turn[k - 1])
  <2>1. \A k \in 0..n : Turn[k] = IF k = 0 THEN Begun(off) ELSE ReadOn(w, Turn[k - 1])
    BY <1>4
  <2>2. 0 \in 0..n /\ \A k \in 1..n : k \in 0..n /\ k # 0
    BY <1>a
  <2> QED BY <2>1, <2>2
<1> DEFINE T == {k \in 0..n : Came(w, g, s, k, Turn[k])}
<1>6. \A k \in 0..n : k \in T
  <2>1. 0 \in T
    BY <1>2, <1>5, <1>a
  <2>2. ASSUME NEW k \in 1..n, k - 1 \in T PROVE k \in T
    <3>1. Came(w, g, s, k - 1, Turn[k - 1]) /\ k - 1 \in Nat
      BY <2>2
    <3>2. Came(w, g, s, (k - 1) + 1, ReadOn(w, Turn[k - 1]))
      BY <3>1, TurnIs
    <3>3. (k - 1) + 1 = k /\ k \in 0..n
      BY <1>a
    <3> QED BY <1>5, <3>2, <3>3
  <2>3. \A k \in 1..n : k - 1 \in T => k \in T
    BY <2>2
  <2> HIDE DEF T
  <2> QED BY <1>a, <2>1, <2>3, UpTo
<1>7. Came(w, g, s, n, Turn[n])
  BY <1>6, <1>a
<1> QED BY <1>1, <1>7 DEF n, off

(* Name.unpack gives what the token it starts from gives, if it is legible: *)
(* the loop has as many turns as a legible name needs.                      *)
LEMMA UnpackNameIs ==
    ASSUME NEW w, NEW len, Laid(w, len), NEW g, Explains(w, g), NEW s \in 1..Len(w), w[s].t \in NameParts
    PROVE  LET n == UnpackName(w, w[s].at)
           IN  /\ n.ok <=> Legible(g[s])
               /\ n.ok \in BOOLEAN
               /\ n.ok => n.name = g[s].name /\ n.next = g[s].end
<1>1. PICK st : /\ Came(w, g, s, Turns, st)
                /\ UnpackName(w, w[s].at) = [ok |-> st.state = "end", name |-> st.name, next |-> st.next]
  BY TurnsRun
<1>2. st \in States
  BY <1>1 DEF Came
<1>3. st.state # "on"
  <2> SUFFICES ASSUME st.state = "on" PROVE FALSE
    OBVIOUS
  <2>1. PICK i \in 1..Len(w) : Reads(w, g, s, Turns, st, i)
    BY <1>1 DEF Came
  <2>2. Len(st.name) + st.followed = Turns /\ st.followed <= MaxPtr /\ Fits(st.name)
    BY <2>1 DEF Reads
  <2>3. st.name \in NameSet /\ <<>> \in NameSet /\ st.followed \in Nat
    BY <1>2 DEF States, NameSet
  <2>4. Len(st.name) < NameBytes(st.name) /\ NameBytes(st.name) \in Nat
    BY <2>3, NameBytesGrow
  <2>5. Len(st.name) \in Nat
    BY <2>3 DEF NameSet
  <2> QED BY <2>2, <2>3, <2>4, <2>5, MessagesAssumption DEF Turns, Fits
<1>4. st.state \in {"end", "bad"}
  BY <1>2, <1>3 DEF States
<1> DEFINE n == UnpackName(w, w[s].at)
<1>5. n.ok = (st.state = "end") /\ n.name = st.name /\ n.next = st.next
  BY <1>1
<1> HIDE DEF n
<1>6. CASE st.state = "end"
  BY <1>1, <1>5, <1>6 DEF Came, n
<1>7. CASE st.state = "bad"
  BY <1>1, <1>5, <1>7 DEF Came, n
<1> QED BY <1>4, <1>6, <1>7

(* The pointers on the way from the tokens after a, up to b. *)
Clears(g, a, b) == \A j \in (a + 1)..b : g[j].hops <= MaxPtr

(* Unpacking the name packed between p and q gives it back, if it can be.   *)
NameBack(w, g, p, q, name) ==
    LET n == UnpackName(w, p.len)
    IN  /\ n.ok <=> Clears(g, Len(p.w), Len(q.w)) /\ Fits(name)
        /\ n.ok => n.name = name /\ n.next = q.len

(* The next token starts where what is packed has ended. *)
LEMMA NextAt ==
    ASSUME NEW w, NEW a, Laid(w, a), NEW x, NEW b, Laid(x, b), Begins(w, x), Len(w) < Len(x)
    PROVE  x[Len(w) + 1].at = a /\ Len(w) + 1 \in 1..Len(x)
<1>1. Len(w) \in Nat /\ Len(x) \in Nat /\ Len(w) >= 1
  BY DEF Laid
<1>2. Len(w) \in 1..Len(w) /\ Len(w) \in 1..(Len(x) - 1) /\ Len(w) + 1 \in 1..Len(x)
  BY <1>1
<1>3. x[Len(w) + 1].at = x[Len(w)].at + x[Len(w)].size
  BY <1>2 DEF Laid
<1>4. x[Len(w)].at = w[Len(w)].at /\ x[Len(w)].size = w[Len(w)].size
  BY <1>2 DEF Begins
<1>5. a = w[Len(w)].at + w[Len(w)].size
  BY DEF Laid
<1> QED BY <1>2, <1>3, <1>4, <1>5

(* A name packed is read back from any message that begins with it. *)
LEMMA PackNameBack ==
    ASSUME NEW compress \in BOOLEAN, NEW p \in Packing(compress), Sound(p), NEW name \in NameSet,
           NEW w, NEW len, Laid(w, len), NEW g, Explains(w, g),
           Begins(PackName(p, name, compress).w, w)
    PROVE  /\ Sound(PackName(p, name, compress))
           /\ NameBack(w, g, p, PackName(p, name, compress), name)
<1> DEFINE q == PackName(p, name, compress)
           i == Len(p.w) + 1
<1>1. PICK f : SoundWith(q, f) /\ NameReads(p, q, f, name)
  BY PackNameSound
<1>2. Sound(q) /\ q \in Packed /\ Laid(q.w, q.len) /\ Explains(q.w, f) /\ q.w \in Seq(Tokens)
  BY <1>1 DEF SoundWith, Sound, Laid
<1>3. p \in Packed /\ Laid(p.w, p.len) /\ Len(p.w) \in Nat /\ (~compress => DOMAIN p.ptrs = {})
  BY PackedFields DEF Sound, SoundWith, Packing
<1>4. Grows(p, q) /\ Len(p.w) < Len(q.w)
  BY <1>3, PackNameIs DEF Adds
<1> HIDE DEF q
<1>5. q.w[i].at = p.len /\ i \in 1..Len(q.w)
  BY <1>2, <1>3, <1>4, NextAt, GrowsBegins
<1>6. Begins(q.w, w) /\ w \in Seq(Tokens) /\ Len(w) \in Nat /\ Len(q.w) \in Nat
  BY <1>2 DEF q, Laid
<1>7. Len(q.w) <= Len(w) /\ i \in 1..Len(w) /\ w[i].at = q.w[i].at /\ w[i].t = q.w[i].t
  BY <1>5, <1>6 DEF Begins
<1>8. \A j \in 1..Len(q.w) : g[j] = f[j]
  BY <1>2, <1>6, ReadingWithin
<1>9. /\ f[i].name = name /\ f[i].end = q.len
      /\ \A j \in i..Len(q.w) : q.w[j].t \in NameParts /\ f[j].hops = f[i].hops
  BY <1>1 DEF NameReads
<1>10. w[i].t \in NameParts /\ g[i].name = name /\ g[i].end = q.len
  <2>1. i \in i..Len(q.w)
    BY <1>3, <1>5
  <2> HIDE DEF i
  <2> QED BY <1>5, <1>7, <1>8, <1>9, <2>1
<1>11. \A j \in i..Len(q.w) : g[j].hops = g[i].hops
  <2>1. \A j \in i..Len(q.w) : j \in 1..Len(q.w)
    BY <1>3
  <2> HIDE DEF i
  <2> QED BY <1>5, <1>8, <1>9, <2>1
<1>12. Clears(g, Len(p.w), Len(q.w)) <=> g[i].hops <= MaxPtr
  <2>1. i \in i..Len(q.w)
    BY <1>3, <1>5
  <2> QED BY <1>11, <2>1 DEF Clears
<1>13. /\ UnpackName(w, p.len).ok <=> Legible(g[i])
       /\ UnpackName(w, p.len).ok => /\ UnpackName(w, p.len).name = g[i].name
                                     /\ UnpackName(w, p.len).next = g[i].end
  <2>1. w[i].at = p.len
    BY <1>5, <1>7
  <2> HIDE DEF i
  <2> QED BY <1>7, <1>10, <2>1, UnpackNameIs
<1>14. NameBack(w, g, p, q, name)
  BY <1>10, <1>12, <1>13 DEF NameBack, Legible
<1> QED BY <1>2, <1>14 DEF q

(* Where unpacking is: the fields of up are these. *)
Cursor(up) == up = [ok |-> up.ok, off |-> up.off, list |-> up.list] /\ up.ok \in BOOLEAN

(* An error leaves the rest as it was. *)
LEMMA BadIs ==
    ASSUME NEW up, Cursor(up)
    PROVE  Cursor(Bad(up)) /\ ~Bad(up).ok
<1> DEFINE a == up.ok
           b == up.off
           c == up.list
           no == FALSE
<1>1. up = [ok |-> a, off |-> b, list |-> c]
  BY DEF Cursor
<1>2. Bad(up) = [up EXCEPT !.ok = no] /\ no \in BOOLEAN
  BY DEF Bad
<1> HIDE DEF a, b, c, no
<1>3. [[ok |-> a, off |-> b, list |-> c] EXCEPT !.ok = no] = [ok |-> no, off |-> b, list |-> c]
  OBVIOUS
<1>4. Bad(up) = [ok |-> no, off |-> b, list |-> c]
  BY <1>1, <1>2, <1>3, Zenon
<1> DEFINE o == Bad(up)
<1>5. o = [ok |-> no, off |-> b, list |-> c]
  BY <1>4
<1> HIDE DEF o
<1>6. o.ok = no /\ o.off = b /\ o.list = c
  BY <1>5
<1>7. o = [ok |-> o.ok, off |-> o.off, list |-> o.list]
  BY <1>5, <1>6
<1>8. Cursor(o)
  BY <1>2, <1>6, <1>7 DEF Cursor
<1>9. ~o.ok
  BY <1>6 DEF no
<1> QED BY <1>8, <1>9, Zenon DEF o

(* What has been read is added to the list. *)
LEMMA GotIs ==
    ASSUME NEW up, Cursor(up), NEW off, NEW x
    PROVE  /\ Cursor(Got(up, off, x)) /\ Got(up, off, x).ok = up.ok
           /\ Got(up, off, x).off = off /\ Got(up, off, x).list = Append(up.list, x)
<1> DEFINE a == up.ok
           b == up.off
           c == up.list
<1>1. up = [ok |-> a, off |-> b, list |-> c] /\ a \in BOOLEAN
  BY DEF Cursor
<1> HIDE DEF a, b, c
<1> DEFINE l == Append(c, x)
<1>4. Got(up, off, x) = [ok |-> a, off |-> off, list |-> l]
  BY DEF Got, a, c
<1> HIDE DEF l
<1> DEFINE o == Got(up, off, x)
<1>5. o = [ok |-> a, off |-> off, list |-> l]
  BY <1>4
<1> HIDE DEF o
<1>6. o.ok = a /\ o.off = off /\ o.list = l
  BY <1>5
<1>7. o = [ok |-> o.ok, off |-> o.off, list |-> o.list]
  BY <1>5, <1>6
<1>8. Cursor(o)
  BY <1>1, <1>6, <1>7 DEF Cursor
<1> QED BY <1>6, <1>8 DEF o, a, l, c

(* Unpacking from the token after a has come to where p ends: all is well   *)
(* so far unless a name was illegible, and list is what has been read.      *)
In(g, a, p, up, names, list) ==
    /\ Cursor(up)
    /\ up.ok <=> Clears(g, a, Len(p.w)) /\ \A x \in names : Fits(x)
    /\ up.ok => up.off = p.len /\ up.list = list

(* The tokens up to b and from there on. *)
LEMMA ClearsOn ==
    ASSUME NEW g, NEW a \in Nat, NEW b \in Nat, NEW c \in Nat, a <= b, b <= c
    PROVE  Clears(g, a, c) <=> Clears(g, a, b) /\ Clears(g, b, c)
<1>1. \A j \in (a + 1)..c : j \in (a + 1)..b \/ j \in (b + 1)..c
  OBVIOUS
<1>2. (\A j \in (a + 1)..b : j \in (a + 1)..c) /\ (\A j \in (b + 1)..c : j \in (a + 1)..c)
  OBVIOUS
<1> QED BY <1>1, <1>2 DEF Clears

(* Once something is wrong it stays so. *)
LEMMA InBad ==
    ASSUME NEW g, NEW a \in Nat, NEW p \in Packed, NEW q \in Packed, a <= Len(p.w), Len(p.w) <= Len(q.w),
           NEW up, NEW names, NEW list, In(g, a, p, up, names, list), ~up.ok,
           NEW vp, Cursor(vp), ~vp.ok, NEW more, names \subseteq more, NEW now
    PROVE  In(g, a, q, vp, more, now)
<1>1. Len(p.w) \in Nat /\ Len(q.w) \in Nat
  BY PackedFields
<1>2. ~(Clears(g, a, Len(p.w)) /\ \A x \in names : Fits(x))
  BY DEF In
<1>3. Clears(g, a, Len(q.w)) => Clears(g, a, Len(p.w))
  BY <1>1, ClearsOn
<1> QED BY <1>2, <1>3 DEF In

(* q is p and a token that is no part of a name, found where p ends.        *)
Placed(w, g, p, q, kd, v, b) ==
    LET i == Len(p.w) + 1
    IN  /\ i \in 1..Len(w) /\ TokenAt(w, p.len, {kd}) = {i} /\ w[i].size = b
        /\ kd # "rr" => w[i].v = v
        /\ Len(q.w) = i /\ q.len = p.len + b /\ Clears(g, Len(p.w), Len(q.w)) /\ Sound(q)
        /\ q.w[i].t = kd

(* Such a token is found where it was packed. *)
LEMMA EmitBack ==
    ASSUME NEW p, Sound(p), NEW kd \in Kinds \ NameParts, NEW v \in Values, NEW b \in Nat, b >= 1,
           NEW w, NEW len, Laid(w, len), NEW g, Explains(w, g), NEW q, q = Emit(p, kd, v, b), Begins(q.w, w)
    PROVE  Placed(w, g, p, q, kd, v, b)
<1> DEFINE i == Len(p.w) + 1
<1>1. p \in Packed /\ Laid(p.w, p.len) /\ Len(p.w) \in Nat
  BY PackedFields DEF Sound, SoundWith
<1>2. /\ q \in Packed /\ q.len = p.len + b /\ Len(q.w) = i /\ q.w[i] = Token(kd, v, b, p.len)
  BY <1>1, EmitWrites
<1>3. Sound(q)
  BY EmitSound
<1>4. q.w[i].t = kd /\ q.w[i].v = v /\ q.w[i].size = b /\ q.w[i].at = p.len
  BY <1>2, TokenIs
<1>5. i \in 1..Len(q.w) /\ Len(w) \in Nat
  BY <1>1, <1>2 DEF Laid
<1>6. /\ Len(q.w) <= Len(w) /\ w[i].t = kd /\ w[i].at = p.len /\ w[i].size = b
      /\ kd # "rr" => w[i].v = v
  BY <1>4, <1>5 DEF Begins
<1>7. i \in 1..Len(w)
  BY <1>2, <1>5, <1>6
<1>8. TokenAt(w, p.len, {kd}) = {i}
  <2> HIDE DEF i
  <2> QED BY <1>6, <1>7, TokenAtIs
<1>9. g[i].hops = 0
  <2>1. g[i] = Unread
    BY <1>6, <1>7 DEF Explains, Explained
  <2> QED BY <2>1 DEF Unread
<1>10. Clears(g, Len(p.w), i)
  <2>1. \A j \in i..i : j = i
    BY <1>1
  <2> QED BY <1>9, <2>1, MessagesAssumption DEF Clears
<1> QED BY <1>2, <1>3, <1>4, <1>6, <1>7, <1>8, <1>10 DEF Placed

(* A question is read back. *)
LEMMA QuestionBack ==
    ASSUME NEW compress \in BOOLEAN, NEW p \in Packing(compress), Sound(p), NEW name \in NameSet,
           NEW w, NEW len, Laid(w, len), NEW g, Explains(w, g),
           Begins(PackQuestion(p, name, compress).w, w),
           NEW a \in Nat, a <= Len(p.w), NEW up, NEW names, NEW list, In(g, a, p, up, names, list)
    PROVE  /\ Sound(PackQuestion(p, name, compress))
           /\ In(g, a, PackQuestion(p, name, compress), UnpackField(w, up, "question"),
                 names \cup {name}, Append(list, name))
<1> DEFINE n == PackName(p, name, compress)
           q == PackQuestion(p, name, compress)
           o == UnpackField(w, up, "question")
           un == UnpackName(w, p.len)
<1>1. p \in Packed /\ Len(p.w) \in Nat /\ (~compress => DOMAIN p.ptrs = {})
  BY PackedFields DEF Packing
<1>2. q = Emit(n, "qtype", 0, 4)
  BY DEF PackQuestion
<1>3. n \in Packed /\ Grows(p, n) /\ Len(p.w) < Len(n.w)
  BY <1>1, PackNameIs DEF Adds
<1>4. Sound(n)
  BY PackNameSound DEF Sound
<1>5. "qtype" \in Kinds \ NameParts /\ 0 \in Values
  BY ValuesAre DEF Kinds, NameParts
<1> HIDE DEF n
<1>6. Adds(n, q, compress, 4)
  BY <1>2, <1>3, <1>5, EmitAdds
<1>7. q \in Packed /\ Grows(n, q) /\ Len(n.w) < Len(q.w) /\ q.len = n.len + 4
  BY <1>6 DEF Adds
<1>8. n.w \in Seq(Tokens) /\ q.w \in Seq(Tokens) /\ w \in Seq(Tokens) /\ Begins(n.w, w)
  <2>1. n.w \in Seq(Tokens) /\ q.w \in Seq(Tokens) /\ w \in Seq(Tokens)
    BY <1>3, <1>7, PackedFields DEF Laid
  <2> QED BY <1>7, <2>1, BeginsOn, GrowsBegins
<1>9. NameBack(w, g, p, n, name)
  BY <1>8, PackNameBack DEF n
<1>10. /\ TokenAt(w, n.len, {"qtype"}) = {Len(n.w) + 1} /\ Len(q.w) = Len(n.w) + 1
       /\ Clears(g, Len(n.w), Len(q.w)) /\ Sound(q)
  <2> DEFINE four == 4
             nil == 0
  <2>1. four \in Nat /\ four >= 1 /\ nil \in Values /\ q = Emit(n, "qtype", nil, four) /\ Begins(q.w, w)
    BY <1>2, <1>5
  <2> HIDE DEF four, nil, q
  <2>2. Placed(w, g, n, q, "qtype", nil, four)
    BY <1>4, <1>5, <2>1, EmitBack
  <2> QED BY <2>2 DEF Placed
<1> HIDE DEF q, o, un
<1>11. Len(n.w) \in Nat /\ Len(q.w) \in Nat
  BY <1>3, <1>7, PackedFields
<1>12. Clears(g, a, Len(q.w)) <=> Clears(g, a, Len(p.w)) /\ Clears(g, Len(p.w), Len(n.w))
  <2> DEFINE x == Len(p.w)
             y == Len(n.w)
             z == Len(q.w)
  <2>1. x \in Nat /\ y \in Nat /\ z \in Nat /\ a <= x /\ x < y /\ y < z /\ Clears(g, y, z)
    BY <1>1, <1>3, <1>7, <1>10, <1>11
  <2> HIDE DEF x, y, z
  <2>2. a <= y /\ x <= y /\ y <= z
    BY <2>1
  <2>3. Clears(g, a, y) <=> Clears(g, a, x) /\ Clears(g, x, y)
    BY <2>1, <2>2, ClearsOn
  <2>4. Clears(g, a, z) <=> Clears(g, a, y) /\ Clears(g, y, z)
    BY <2>1, <2>2, ClearsOn
  <2>5. Clears(g, a, z) <=> Clears(g, a, x) /\ Clears(g, x, y)
    BY <2>1, <2>3, <2>4
  <2> QED BY <2>5 DEF x, y, z
<1>13. CASE ~up.ok
  <2>1. o = up
    BY <1>13 DEF o, UnpackField
  <2>2. Cursor(o) /\ ~o.ok /\ Len(p.w) <= Len(q.w)
    BY <1>1, <1>3, <1>7, <1>11, <1>13, <2>1 DEF In
  <2>3. In(g, a, q, o, names \cup {name}, Append(list, name))
    BY <1>1, <1>7, <1>13, <2>2, InBad
  <2> QED BY <1>10, <2>3 DEF q, o
<1>14. CASE up.ok
  <2>1. up.off = p.len /\ up.list = list /\ Clears(g, a, Len(p.w)) /\ (\A x \in names : Fits(x)) /\ Cursor(up)
    BY <1>14 DEF In
  <2>2. o = UnpackQuestion(w, up, un)
    BY <1>14, <2>1 DEF o, UnpackField, un
  <2>3. /\ un.ok <=> Clears(g, Len(p.w), Len(n.w)) /\ Fits(name)
        /\ un.ok => un.name = name /\ un.next = n.len
    BY <1>9 DEF NameBack, un
  <2>4. CASE ~un.ok
    <3>1. o = Bad(up)
      BY <2>2, <2>4, Zenon DEF UnpackQuestion
    <3>2. Cursor(o) /\ ~o.ok
      BY <2>1, <3>1, BadIs
    <3>3. In(g, a, q, o, names \cup {name}, Append(list, name))
      BY <1>12, <2>3, <2>4, <3>2 DEF In
    <3> QED BY <1>10, <3>3 DEF q, o
  <2>5. CASE un.ok
    <3>1. TokenAt(w, un.next, {"qtype"}) # {}
      BY <1>10, <2>3, <2>5
    <3>2. o = Got(up, un.next + 4, un.name)
      BY <2>2, <2>5, <3>1, Zenon DEF UnpackQuestion
    <3>3. o = Got(up, q.len, name)
      BY <1>7, <2>3, <2>5, <3>2
    <3>4. Cursor(o) /\ o.ok /\ o.off = q.len /\ o.list = Append(list, name)
      BY <1>14, <2>1, <3>3, GotIs
    <3>5. In(g, a, q, o, names \cup {name}, Append(list, name))
      BY <1>12, <2>1, <2>3, <2>5, <3>4 DEF In
    <3> QED BY <1>10, <3>5 DEF q, o
  <2> QED BY <2>4, <2>5
<1> QED BY <1>13, <1>14

(* A part of a body is read back. *)
LEMMA PartBack ==
    ASSUME NEW compress \in BOOLEAN, NEW p \in Packing(compress), Sound(p), NEW bp \in BodyParts,
           bp.size > 0 => bp.name = <<>>,
           NEW w, NEW len, Laid(w, len), NEW g, Explains(w, g),
           Begins(PackPart(p, bp, compress).w, w),
           NEW a \in Nat, a <= Len(p.w), NEW up, NEW names, NEW list, In(g, a, p, up, names, list)
    PROVE  In(g, a, PackPart(p, bp, compress), UnpackPart(w, up, bp.size),
              names \cup {bp.name}, Append(list, bp))
<1> DEFINE q == PackPart(p, bp, compress)
           o == UnpackPart(w, up, bp.size)
           un == UnpackName(w, p.len)
<1>1. p \in Packed /\ Len(p.w) \in Nat /\ (~compress => DOMAIN p.ptrs = {})
  BY PackedFields DEF Packing
<1>2. bp.size \in Nat /\ bp.name \in NameSet /\ bp = [name |-> bp.name, size |-> bp.size]
  BY DEF BodyParts
<1>3. Adds(p, q, compress, PartLen(p.ptrs, bp))
  BY PackPartIs
<1>4. q \in Packed /\ Grows(p, q) /\ Len(p.w) < Len(q.w) /\ Len(q.w) \in Nat
  BY <1>3, PackedFields DEF Adds
<1> HIDE DEF o, un, q
<1>5. Clears(g, a, Len(q.w)) <=> Clears(g, a, Len(p.w)) /\ Clears(g, Len(p.w), Len(q.w))
  <2> DEFINE x == Len(p.w)
             z == Len(q.w)
  <2>1. x \in Nat /\ z \in Nat /\ a <= x /\ x <= z
    BY <1>1, <1>4
  <2> HIDE DEF x, z
  <2>2. Clears(g, a, z) <=> Clears(g, a, x) /\ Clears(g, x, z)
    BY <2>1, ClearsOn
  <2> QED BY <2>2 DEF x, z
<1>6. CASE ~up.ok
  <2>1. o = up
    BY <1>6, Zenon DEF o, UnpackPart
  <2>2. Cursor(o) /\ ~o.ok /\ Len(p.w) <= Len(q.w)
    BY <1>1, <1>4, <1>6, <2>1 DEF In
  <2>3. In(g, a, q, o, names \cup {bp.name}, Append(list, bp))
    BY <1>1, <1>4, <1>6, <2>2, InBad
  <2> QED BY <2>3 DEF q, o
<1>7. CASE up.ok
  <2>1. up.off = p.len /\ up.list = list /\ Clears(g, a, Len(p.w)) /\ (\A x \in names : Fits(x)) /\ Cursor(up)
    BY <1>7 DEF In
  <2>2. CASE bp.size > 0
    <3> DEFINE b == bp.size
               i == Len(p.w) + 1
    <3>1. b \in Values /\ b >= 1 /\ b \in Nat /\ "fix" \in Kinds \ NameParts
      BY <1>2, <2>2, ValuesAre DEF Kinds, NameParts
    <3>2. q = Emit(p, "fix", b, b)
      BY <2>2 DEF q, PackPart
    <3> HIDE DEF b
    <3>3. /\ TokenAt(w, p.len, {"fix"}) = {i} /\ w[i].size = b
          /\ Len(q.w) = i /\ q.len = p.len + b /\ Clears(g, Len(p.w), Len(q.w))
      <4>1. Begins(q.w, w)
        BY DEF q
      <4>2. Placed(w, g, p, q, "fix", b, b)
        BY <3>1, <3>2, <4>1, EmitBack
      <4> QED BY <4>2 DEF Placed
    <3>4. o = UnpackFixed(w, up, b)
      BY <1>7, <2>2, Zenon DEF o, UnpackPart, b
    <3>5. \E x \in TokenAt(w, up.off, {"fix"}) : w[x].size = b
      BY <2>1, <3>3
    <3>6. o = Got(up, up.off + b, FixPart(b))
      BY <3>4, <3>5, Zenon DEF UnpackFixed
    <3>7. FixPart(b) = bp /\ Fits(bp.name)
      <4>1. bp.name = <<>> /\ FixPart(b) = [name |-> <<>>, size |-> bp.size]
        BY <2>2 DEF FixPart, b
      <4>2. NameBytes(<<>>) = SumOf(<<>>) + 1
        BY DEF NameBytes
      <4> QED BY <1>2, <4>1, <4>2, SumNone, MessagesAssumption DEF Fits
    <3>8. o = Got(up, q.len, bp)
      BY <2>1, <3>3, <3>6, <3>7
    <3>9. Cursor(o) /\ o.ok /\ o.off = q.len /\ o.list = Append(list, bp)
      BY <1>7, <2>1, <3>8, GotIs
    <3>10. In(g, a, q, o, names \cup {bp.name}, Append(list, bp))
      BY <1>5, <2>1, <3>3, <3>7, <3>9 DEF In
    <3> QED BY <3>10 DEF q, o
  <2>3. CASE ~(bp.size > 0)
    <3>1. q = PackName(p, bp.name, compress)
      BY <2>3 DEF q, PackPart
    <3>2. NameBack(w, g, p, q, bp.name)
      <4>1. Begins(PackName(p, bp.name, compress).w, w)
        BY <3>1 DEF q
      <4> QED BY <1>2, <3>1, <4>1, PackNameBack
    <3>3. /\ un.ok <=> Clears(g, Len(p.w), Len(q.w)) /\ Fits(bp.name)
          /\ un.ok => un.name = bp.name /\ un.next = q.len
      BY <3>2 DEF NameBack, un
    <3>4. o = UnpackNamePart(up, un)
      BY <1>7, <2>1, <2>3, Zenon DEF o, un, UnpackPart
    <3>5. CASE ~un.ok
      <4>1. o = Bad(up)
        BY <3>4, <3>5 DEF UnpackNamePart
      <4>2. Cursor(o) /\ ~o.ok
        BY <2>1, <4>1, BadIs
      <4>3. In(g, a, q, o, names \cup {bp.name}, Append(list, bp))
        BY <1>5, <3>3, <3>5, <4>2 DEF In
      <4> QED BY <4>3 DEF q, o
    <3>6. CASE un.ok
      <4>1. NamePart(bp.name) = bp
        BY <1>2, <2>3 DEF NamePart
      <4>2. o = Got(up, q.len, bp)
        BY <3>3, <3>4, <3>6, <4>1 DEF UnpackNamePart
      <4>3. Cursor(o) /\ o.ok /\ o.off = q.len /\ o.list = Append(list, bp)
        BY <1>7, <2>1, <4>2, GotIs
      <4>4. In(g, a, q, o, names \cup {bp.name}, Append(list, bp))
        BY <1>5, <2>1, <3>3, <3>6, <4>3 DEF In
      <4> QED BY <4>4 DEF q, o
    <3> QED BY <3>5, <3>6
  <2> QED BY <2>2, <2>3
<1> QED BY <1>6, <1>7

Fresh(off) == [ok |-> TRUE, off |-> off, list |-> <<>>]

(* v holds what has been read of a body after each of its n parts. *)
PartsRead(v, w, off, layout, n) ==
    /\ v[0] = Fresh(off) /\ v[n] = UnpackParts(w, off, layout)
    /\ \A k \in 1..n : v[k] = UnpackPart(w, v[k - 1], layout[k])

(* The loop over the parts of a body, turn by turn, when unpacking. *)
LEMMA UnpackPartsRuns ==
    ASSUME NEW w, NEW off, NEW layout, NEW n \in Nat, n = Len(layout)
    PROVE  \E v : PartsRead(v, w, off, layout, n)
<1> DEFINE F(f, m) == [k \in 0..m |-> IF k = 0 THEN Fresh(off) ELSE UnpackPart(w, f[k - 1], layout[k])]
           Upto == CHOOSE f : f = F(f, n)
           T == {m \in Nat : \E f : f = F(f, m)}
<1>1. UnpackParts(w, off, layout) = Upto[n]
  BY Zenon DEF UnpackParts, Fresh
<1>2. 0 \in T
  <2> DEFINE f == [k \in 0..0 |-> Fresh(off)]
  <2>1. f = F(f, 0)
    OBVIOUS
  <2> QED BY <2>1
<1>3. \A m \in T \cap Nat : m + 1 \in T
  <2> TAKE m \in T \cap Nat
  <2>1. PICK f : f = F(f, m)
    OBVIOUS
  <2> DEFINE e == UnpackPart(w, f[m], layout[m + 1])
             h == [k \in 0..(m + 1) |-> IF k <= m THEN f[k] ELSE e]
  <2>2. \A k \in 0..m : f[k] = IF k = 0 THEN Fresh(off) ELSE UnpackPart(w, f[k - 1], layout[k])
    BY <2>1
  <2>3. \A k \in 0..m : h[k] = f[k]
    OBVIOUS
  <2>4. h[m + 1] = e
    OBVIOUS
  <2> HIDE DEF e
  <2>5. ASSUME NEW k \in 0..(m + 1)
        PROVE  h[k] = IF k = 0 THEN Fresh(off) ELSE UnpackPart(w, h[k - 1], layout[k])
    <3>1. CASE k = 0
      BY <2>2, <2>3, <3>1
    <3>2. CASE k \in 1..m
      <4>1. k \in 0..m /\ k - 1 \in 0..m /\ k # 0
        BY <3>2
      <4> QED BY <2>2, <2>3, <4>1
    <3>3. CASE k = m + 1
      <4>1. k - 1 = m /\ m \in 0..m /\ k # 0
        BY <3>3
      <4>2. h[k - 1] = f[m]
        BY <2>3, <4>1
      <4> QED BY <2>4, <3>3, <4>1, <4>2 DEF e
    <3> QED BY <3>1, <3>2, <3>3
  <2>6. h = F(h, m + 1)
    BY <2>5
  <2>7. m + 1 \in Nat /\ \E f1 : f1 = F(f1, m + 1)
    <3> HIDE DEF F, h
    <3> QED BY <2>6
  <2> HIDE DEF F
  <2> QED BY <2>7
<1>4. \E f : f = F(f, n)
  <2> HIDE DEF F
  <2>1. n \in T
    <3> HIDE DEF T
    <3> QED BY <1>2, <1>3, Induction
  <2> QED BY <2>1
<1>5. Upto = F(Upto, n)
  <2> HIDE DEF F
  <2> QED BY <1>4
<1> HIDE DEF Upto
<1>6. \A k \in 0..n : Upto[k] = IF k = 0 THEN Fresh(off) ELSE UnpackPart(w, Upto[k - 1], layout[k])
  BY <1>5
<1>7. Upto[0] = Fresh(off) /\ \A k \in 1..n : Upto[k] = UnpackPart(w, Upto[k - 1], layout[k])
  <2>1. 0 \in 0..n /\ \A k \in 1..n : k \in 0..n /\ k # 0
    OBVIOUS
  <2> QED BY <1>6, <2>1
<1>8. PartsRead(Upto, w, off, layout, n)
  BY <1>1, <1>7 DEF PartsRead
<1> QED BY <1>8

(* The names of the parts of a body. *)
NamesOf(parts, k) == {parts[i].name : i \in 1..k}

(* The start of a sequence, one element longer. *)
LEMMA SubSeqSteps ==
    ASSUME NEW S, NEW s \in Seq(S), NEW k \in 1..Len(s)
    PROVE  /\ SubSeq(s, 1, 0) = <<>> /\ SubSeq(s, 1, Len(s)) = s
           /\ Append(SubSeq(s, 1, k - 1), s[k]) = SubSeq(s, 1, k)
OBVIOUS

(* A body is read back part by part, whatever was written before. *)
LEMMA PartsBack ==
    ASSUME NEW compress \in BOOLEAN, NEW p \in Packing(compress), Sound(p), NEW parts \in Seq(BodyParts),
           \A i \in 1..Len(parts) : parts[i].size > 0 => parts[i].name = <<>>,
           NEW w, NEW len, Laid(w, len), NEW g, Explains(w, g),
           NEW layout, Len(layout) = Len(parts), \A i \in 1..Len(parts) : layout[i] = parts[i].size
    PROVE  /\ Sound(PackParts(p, parts, compress))
           /\ Begins(PackParts(p, parts, compress).w, w) =>
                In(g, Len(p.w), PackParts(p, parts, compress), UnpackParts(w, p.len, layout),
                   NamesOf(parts, Len(parts)), parts)
<1> DEFINE n == Len(parts)
           q == PackParts(p, parts, compress)
           a == Len(p.w)
<1>1. n \in Nat /\ (\A k \in 1..n : parts[k] \in BodyParts) /\ p \in Packed /\ a \in Nat
  BY PackedFields DEF Packing
<1>2. PICK u \in [0..n -> Packing(compress)] :
         /\ u[0] = p /\ u[n] = q
         /\ \A k \in 1..n : u[k] = PackPart(u[k - 1], parts[k], compress)
  BY PackPartsRuns
<1>3. PICK v : /\ v[0] = Fresh(p.len) /\ v[n] = UnpackParts(w, p.len, layout)
               /\ \A k \in 1..n : v[k] = UnpackPart(w, v[k - 1], layout[k])
  <2>1. n = Len(layout)
    OBVIOUS
  <2> HIDE DEF n
  <2>2. \E v : PartsRead(v, w, p.len, layout, n)
    BY <1>1, <2>1, UnpackPartsRuns
  <2> QED BY <2>2 DEF PartsRead
<1> DEFINE S(k) == SubSeq(parts, 1, k)
           Inv(k) == /\ Sound(u[k]) /\ a <= Len(u[k].w)
                     /\ Begins(u[k].w, w) => In(g, a, u[k], v[k], NamesOf(parts, k), S(k))
           T == {k \in 0..n : Inv(k)}
<1>4. 0 \in T
  <2>1. Clears(g, a, a)
    BY <1>1 DEF Clears
  <2>2. NamesOf(parts, 0) = {} /\ S(0) = <<>>
    BY DEF NamesOf
  <2>3. Cursor(v[0]) /\ v[0].ok /\ v[0].off = p.len /\ v[0].list = <<>>
    BY <1>3 DEF Fresh, Cursor
  <2>4. In(g, a, p, v[0], NamesOf(parts, 0), S(0))
    BY <2>1, <2>2, <2>3 DEF In
  <2> HIDE DEF S
  <2> QED BY <1>1, <1>2, <2>4
<1>5. ASSUME NEW k \in 1..n, k - 1 \in T PROVE k \in T
  <2>a. Inv(k - 1)
    <3> HIDE DEF Inv
    <3> QED BY <1>5
  <2> DEFINE o == u[k - 1]
             e == u[k]
             bp == parts[k]
  <2>1. k - 1 \in 0..n /\ k \in 0..n
    BY <1>1
  <2>2. o \in Packing(compress) /\ e \in Packing(compress) /\ bp \in BodyParts /\ e = PackPart(o, bp, compress)
    BY <1>1, <1>2, <2>1
  <2>3. bp.size > 0 => bp.name = <<>>
    OBVIOUS
  <2>4. v[k] = UnpackPart(w, v[k - 1], bp.size)
    BY <1>3
  <2>5. Sound(o) /\ a <= Len(o.w) /\ (Begins(o.w, w) => In(g, a, o, v[k - 1], NamesOf(parts, k - 1), S(k - 1)))
    BY <2>a
  <2>6. NamesOf(parts, k - 1) \cup {bp.name} = NamesOf(parts, k)
    <3>1. \A i \in 1..k : i \in 1..(k - 1) \/ i = k
      OBVIOUS
    <3>2. k \in 1..k /\ \A i \in 1..(k - 1) : i \in 1..k
      OBVIOUS
    <3> QED BY <3>1, <3>2 DEF NamesOf
  <2>7. Append(S(k - 1), bp) = S(k)
    BY SubSeqSteps
  <2> HIDE DEF o, e, bp, S
  <2>8. Sound(e)
    BY <2>2, <2>5, PackPartSound
  <2>9. Grows(o, e) /\ o.w \in Seq(Tokens) /\ e.w \in Seq(Tokens) /\ w \in Seq(Tokens)
    <3>1. Grows(o, e)
      BY <2>2, PackPartIs DEF Adds
    <3> QED BY <2>2, <3>1, PackedFields DEF Packing, Laid
  <2>10. a <= Len(e.w)
    BY <1>1, <2>2, <2>5, <2>9, PackedFields DEF Packing, Grows
  <2>11. ASSUME Begins(e.w, w) PROVE In(g, a, e, v[k], NamesOf(parts, k), S(k))
    <3>1. Begins(o.w, w)
      BY <2>9, <2>11, BeginsOn, GrowsBegins
    <3>2. In(g, a, o, v[k - 1], NamesOf(parts, k - 1), S(k - 1))
      BY <2>5, <3>1
    <3> DEFINE up == v[k - 1]
               names == NamesOf(parts, k - 1)
               list == S(k - 1)
    <3>3. In(g, a, o, up, names, list) /\ Begins(PackPart(o, bp, compress).w, w)
      BY <2>2, <2>11, <3>2
    <3> HIDE DEF up, names, list, a
    <3>4. In(g, a, PackPart(o, bp, compress), UnpackPart(w, up, bp.size), names \cup {bp.name}, Append(list, bp))
      BY <1>1, <2>2, <2>3, <2>5, <3>3, PartBack
    <3> QED BY <2>2, <2>4, <2>6, <2>7, <3>4 DEF up, names, list
  <2>12. Inv(k)
    BY <2>8, <2>10, <2>11 DEF e
  <2> HIDE DEF Inv
  <2> QED BY <2>1, <2>12
<1>6. n \in T
  <2> HIDE DEF T
  <2>1. \A k \in 1..n : k - 1 \in T => k \in T
    BY <1>5
  <2>2. \A k \in 0..n : k \in T
    BY <1>1, <1>4, <2>1, UpTo
  <2> QED BY <1>1, <2>2
<1>7. Inv(n)
  BY <1>6
<1>8. S(n) = parts
  OBVIOUS
<1> HIDE DEF S
<1> QED BY <1>2, <1>3, <1>7, <1>8 DEF q

(* The header's length gives back the parts of a body that its type reads.  *)
LEMMA LayoutBack ==
    ASSUME NEW compress \in BOOLEAN, NEW h \in Packing(compress), NEW r \in Resources, Bodied(r)
    PROVE  LET l == Layout(r.type, PackParts(h, r.body, compress).len - h.len)
           IN  Len(l) = Len(r.body) /\ \A i \in 1..Len(r.body) : l[i] = r.body[i].size
<1> DEFINE parts == r.body
           n == Len(parts)
           b == PackParts(h, parts, compress)
           sizes == [i \in 1..n |-> parts[i].size]
           sum == SumOf(sizes)
           ty == r.type
           diff == b.len - h.len
<1>1. parts \in Seq(BodyParts) /\ n \in Nat /\ h \in Packed /\ h.len \in Nat
  BY PackedFields DEF Resources, BodyParts, Packing
<1>2. sizes = Layout(ty, sum)
  BY Zenon DEF Bodied
<1>3. PICK u \in [0..n -> Packing(compress)] :
         /\ u[0] = h /\ u[n] = b
         /\ \A k \in 1..n : u[k] = PackPart(u[k - 1], parts[k], compress)
  BY <1>1, PackPartsRuns
<1>4. \A k \in 1..n : sizes[k] = parts[k].size /\ parts[k].size \in Nat
  <2>1. \A k \in 1..n : parts[k] \in BodyParts
    BY <1>1
  <2> HIDE DEF n, parts
  <2> QED BY <2>1 DEF BodyParts
<1>5. Len(sizes) = n
  BY <1>1
<1>6. Layout(ty, diff) = Layout(ty, sum)
  <2> HIDE DEF sum, diff, b, sizes
  <2>1. CASE ty \in {"A", "AAAA", "NAME", "SOA", "MX", "SRV"}
    <3> HIDE DEF ty
    <3>1. CASE ty = "A"
      BY <3>1 DEF Layout
    <3>2. CASE ty = "AAAA"
      BY <3>2 DEF Layout
    <3>3. CASE ty = "NAME"
      BY <3>3 DEF Layout
    <3>4. CASE ty = "SOA"
      BY <3>4 DEF Layout
    <3>5. CASE ty = "MX"
      BY <3>5 DEF Layout
    <3>6. CASE ty = "SRV"
      BY <3>6 DEF Layout
    <3> QED BY <2>1, <3>1, <3>2, <3>3, <3>4, <3>5, <3>6
  <2>2. CASE ty \notin {"A", "AAAA", "NAME", "SOA", "MX", "SRV"}
    <3>1. Layout(ty, sum) = IF sum = 0 THEN <<>> ELSE <<sum>>
      BY <2>2 DEF Layout
    <3>2. diff = sum
      <4>1. CASE sum = 0
        <5>1. sizes = <<>>
          BY <1>2, <3>1, <4>1
        <5>2. n = 0
          BY <1>5, <5>1
        <5>3. b = h
          BY <1>3, <5>2
        <5> QED BY <1>1, <4>1, <5>3 DEF diff
      <4>2. CASE sum # 0
        <5>1. sizes = <<sum>>
          BY <1>2, <3>1, <4>2
        <5>2. n = 1
          BY <1>5, <5>1
        <5>3. parts[1].size = sum /\ sum \in Nat /\ parts[1] \in BodyParts
          BY <1>1, <1>4, <5>1, <5>2
        <5>4. b = PackPart(h, parts[1], compress)
          BY <1>3, <5>2
        <5>5. b = Emit(h, "fix", sum, sum)
          BY <4>2, <5>3, <5>4 DEF PackPart
        <5>6. sum \in Values /\ "fix" \in Kinds
          BY <5>3, ValuesAre DEF Kinds
        <5>7. b.len = h.len + sum
          BY <1>1, <5>3, <5>5, <5>6, EmitAdds DEF Adds
        <5> QED BY <1>1, <5>3, <5>7 DEF diff
      <4> QED BY <4>1, <4>2
    <3> QED BY <3>2
  <2> QED BY <2>1, <2>2
<1>7. Layout(ty, diff) = sizes
  BY <1>2, <1>6
<1> HIDE DEF sizes
<1> QED BY <1>4, <1>5, <1>7

(* x starts with the very tokens of w. *)
Prefix(w, x) == Len(w) <= Len(x) /\ \A i \in 1..Len(w) : x[i] = w[i]

(* The names of a record. *)
NamesIn(r) == {r.name} \cup NamesOf(r.body, Len(r.body))

(* What is packed of a record on the way: its name, its header, its body.   *)
LEMMA RRStages ==
    ASSUME NEW compress \in BOOLEAN, NEW p \in Packing(compress), NEW r \in Resources,
           NEW n, n = PackName(p, r.name, compress), NEW h, h = Emit(n, "rr", <<r.type, 0>>, 10),
           NEW b, b = PackParts(h, r.body, compress)
    PROVE  /\ PackRR(p, r, compress) = PatchLength(b, h, r.type)
           /\ n \in Packing(compress) /\ h \in Packing(compress) /\ b \in Packing(compress)
           /\ Grows(p, n) /\ Grows(n, h) /\ Grows(h, b)
           /\ Len(p.w) < Len(n.w) /\ Len(h.w) = Len(n.w) + 1
           /\ h.len = n.len + 10 /\ <<r.type, 0>> \in Values /\ "rr" \in Kinds \ NameParts
<1>1. /\ p \in Packed /\ (~compress => DOMAIN p.ptrs = {})
      /\ r.name \in NameSet /\ r.type \in RRTypes /\ r.body \in Seq(BodyParts)
  BY DEF Packing, Resources, BodyParts
<1>2. Adds(p, n, compress, NameLen(p.ptrs, r.name))
  BY <1>1, PackNameIs
<1>3. <<r.type, 0>> \in Values /\ "rr" \in Kinds \ NameParts /\ "rr" \in Kinds
  BY <1>1, ValuesAre DEF Kinds, NameParts
<1> DEFINE val == <<r.type, 0>>
           ten == 10
<1>4. n \in Packed /\ val \in Values /\ ten \in Nat /\ h = Emit(n, "rr", val, ten)
  BY <1>2, <1>3 DEF Adds
<1> HIDE DEF val, ten
<1>5. Adds(n, h, compress, ten) /\ Len(h.w) = Len(n.w) + 1
  BY <1>3, <1>4, EmitAdds
<1>6. n \in Packing(compress) /\ h \in Packing(compress)
  BY <1>1, <1>2, <1>5 DEF Adds, Packing
<1>7. b \in Packing(compress) /\ Grows(h, b)
  <2> DEFINE base == h.ptrs
             parts == r.body
  <2>1. DOMAIN base \subseteq DOMAIN h.ptrs /\ parts \in Seq(BodyParts) /\ b = PackParts(h, parts, compress)
    BY <1>1
  <2> HIDE DEF base, parts
  <2> QED BY <1>6, <2>1, PackPartsLen
<1>8. PackRR(p, r, compress) = PatchLength(b, h, r.type)
  BY Zenon DEF PackRR, PackBody, PackHeader
<1> QED BY <1>2, <1>3, <1>5, <1>6, <1>7, <1>8 DEF Adds, ten

(* All is well, or read up to end. *)
Well(up) == Cursor(up) /\ up.ok
ReadUpTo(b, end, list) == Cursor(b) /\ (b.ok => b.off = end /\ b.list = list)

(* A record with its header and its body read is it. *)
LEMMA BodyBack ==
    ASSUME NEW up, Well(up), NEW r \in Resources, NEW end, NEW b, ReadUpTo(b, end, r.body),
           NEW o, o = TakeBody(up, r.name, r.type, end, b)
    PROVE  ReadUpTo(o, end, Append(up.list, r)) /\ (o.ok <=> b.ok)
<1>0. Cursor(up) /\ up.ok /\ Cursor(b) /\ (b.ok => b.off = end /\ b.list = r.body)
  BY DEF Well, ReadUpTo
<1>1. CASE ~b.ok
  <2>1. o = Bad(up)
    BY <1>1, Zenon DEF TakeBody
  <2>2. Cursor(o) /\ ~o.ok
    BY <1>0, <2>1, BadIs
  <2> QED BY <1>1, <2>2 DEF ReadUpTo
<1>2. CASE b.ok
  <2>1. r = [name |-> r.name, type |-> r.type, body |-> r.body]
    BY DEF Resources
  <2>2. o = Got(up, end, [name |-> r.name, type |-> r.type, body |-> b.list])
    BY <1>0, <1>2, Zenon DEF TakeBody
  <2>3. o = Got(up, end, r)
    BY <1>0, <1>2, <2>1, <2>2
  <2> DEFINE got == Got(up, end, r)
  <2>5. Cursor(got) /\ got.ok /\ got.off = end /\ got.list = Append(up.list, r)
    BY <1>0, GotIs
  <2> HIDE DEF got
  <2>4. Cursor(o) /\ o.ok /\ o.off = end /\ o.list = Append(up.list, r)
    BY <2>3, <2>5 DEF got
  <2> QED BY <1>2, <2>4 DEF ReadUpTo
<1> QED BY <1>1, <1>2

(* What TokenAt finds is taken. *)
LEMMA OnlyOne == ASSUME NEW i PROVE (CHOOSE x \in {i} : TRUE) = i
OBVIOUS

(* A record is read back: its name, its header with the length of its body, *)
(* and the body.                                                            *)
LEMMA RRBack ==
    ASSUME NEW compress \in BOOLEAN, NEW p \in Packing(compress), Sound(p), NEW r \in Resources, Bodied(r),
           NEW w, NEW len, Laid(w, len), NEW g, Explains(w, g),
           NEW q, q = PackRR(p, r, compress), Prefix(q.w, w),
           NEW a \in Nat, a <= Len(p.w), NEW up, NEW names, NEW list, In(g, a, p, up, names, list)
    PROVE  /\ Sound(q)
           /\ In(g, a, q, UnpackField(w, up, "rr"), names \cup NamesIn(r), Append(list, r))
<1> DEFINE n == PackName(p, r.name, compress)
           h == Emit(n, "rr", <<r.type, 0>>, 10)
           b == PackParts(h, r.body, compress)
           parts == r.body
           l == b.len - h.len
           i == Len(h.w)
           o == UnpackField(w, up, "rr")
           un == UnpackName(w, p.len)
           ub == UnpackParts(w, h.len, Layout(r.type, l))
<1>1. /\ q = PatchLength(b, h, r.type)
      /\ n \in Packing(compress) /\ h \in Packing(compress) /\ b \in Packing(compress)
      /\ Grows(p, n) /\ Grows(n, h) /\ Grows(h, b)
      /\ Len(p.w) < Len(n.w) /\ i = Len(n.w) + 1
      /\ h.len = n.len + 10 /\ <<r.type, 0>> \in Values /\ "rr" \in Kinds \ NameParts
  BY RRStages
<1>2. r.name \in NameSet /\ r.type \in RRTypes /\ parts \in Seq(BodyParts)
  BY DEF Resources, BodyParts
<1>3. /\ p \in Packed /\ n \in Packed /\ h \in Packed /\ b \in Packed
  BY <1>1 DEF Packing
<1>4. /\ Len(p.w) \in Nat /\ Len(n.w) \in Nat /\ i \in Nat /\ Len(b.w) \in Nat
      /\ p.len \in Nat /\ n.len \in Nat /\ h.len \in Nat /\ b.len \in Nat
      /\ n.w \in Seq(Tokens) /\ h.w \in Seq(Tokens) /\ b.w \in Seq(Tokens) /\ w \in Seq(Tokens)
  BY <1>3, PackedFields DEF Laid
<1>5. Sound(n)
  BY <1>2, PackNameSound DEF Sound
<1> DEFINE val == <<r.type, 0>>
           ten == 10
<1>6. val \in Values /\ ten \in Nat /\ ten >= 1 /\ h = Emit(n, "rr", val, ten)
  BY <1>1
<1>7. /\ Len(Layout(r.type, l)) = Len(parts)
      /\ \A j \in 1..Len(parts) : Layout(r.type, l)[j] = parts[j].size
  BY <1>1, LayoutBack
<1>8. \A j \in 1..Len(parts) : parts[j].size > 0 => parts[j].name = <<>>
  BY DEF Bodied
<1> HIDE DEF h, val, ten
<1>9. Sound(h)
  BY <1>1, <1>5, <1>6, EmitSound
<1>10. h.w[i].t = "rr" /\ i \in 1..Len(h.w)
  <2>1. h.w[i] = Token("rr", val, ten, n.len)
    BY <1>1, <1>3, <1>6, EmitWrites
  <2> QED BY <1>1, <1>4, <2>1, TokenIs
<1> DEFINE lay == Layout(r.type, l)
<1> HIDE DEF lay
<1>11. /\ Sound(b)
       /\ Begins(b.w, w) => In(g, i, b, ub, NamesOf(parts, Len(parts)), parts)
  <2>1. Len(lay) = Len(parts) /\ \A j \in 1..Len(parts) : lay[j] = parts[j].size
    BY <1>7 DEF lay
  <2>2. b = PackParts(h, parts, compress) /\ ub = UnpackParts(w, h.len, lay)
    BY DEF lay
  <2> HIDE DEF parts, b, ub
  <2> QED BY <1>1, <1>2, <1>8, <1>9, <2>1, <2>2, PartsBack
<1> HIDE DEF n, b, ub, l
<1>12. /\ Sound(q) /\ q.len = b.len /\ Len(q.w) = Len(b.w) /\ q.w[i].v = <<r.type, l>> /\ Begins(b.w, q.w)
  <2>1. i \in 1..Len(b.w) /\ b.w[i].t = "rr" /\ h.len <= b.len
    <3>1. Len(h.w) <= Len(b.w) /\ (\A j \in 1..Len(h.w) : b.w[j] = h.w[j]) /\ h.len <= b.len
      BY <1>1 DEF Grows
    <3> HIDE DEF i
    <3>2. i \in 1..Len(h.w) /\ Len(b.w) \in Nat /\ i \in Nat
      BY <1>4, <1>10
    <3>3. i = Len(h.w)
      BY DEF i
    <3>4. b.w[i] = h.w[i]
      BY <3>1, <3>2, <3>3
    <3> QED BY <1>10, <3>1, <3>2, <3>3, <3>4
  <2>2. Sound(b) /\ h \in Packed /\ r.type \in RRTypes
    BY <1>2, <1>3, <1>11
  <2> DEFINE z == PatchLength(b, h, r.type)
             type == r.type
  <2>3. q = z /\ i = Len(h.w) /\ l = b.len - h.len
    BY <1>1 DEF i, l
  <2>4. b.w[Len(h.w)].t = "rr" /\ Len(h.w) \in 1..Len(b.w)
    BY <2>1, <2>3
  <2> HIDE DEF i
  <2>5. /\ Sound(z) /\ z.len = b.len /\ Len(z.w) = Len(b.w)
        /\ z.w[Len(h.w)].v = <<type, b.len - h.len>> /\ Begins(b.w, z.w)
    BY <2>1, <2>2, <2>4, PatchSound
  <2> HIDE DEF z, type
  <2> QED BY <2>3, <2>5 DEF type
<1>13. q \in Packed /\ q.w \in Seq(Tokens)
  BY <1>12, PackedFields DEF Sound, SoundWith
<1>14. Begins(q.w, w) /\ Begins(b.w, w) /\ Begins(h.w, w) /\ Begins(n.w, w)
  <2>1. Begins(q.w, w)
    BY DEF Prefix, Begins
  <2>2. Begins(b.w, w)
    BY <1>4, <1>12, <1>13, <2>1, BeginsOn
  <2>3. Begins(h.w, w)
    BY <1>1, <1>4, <2>2, BeginsOn, GrowsBegins
  <2>4. Begins(n.w, w)
    BY <1>1, <1>4, <2>3, BeginsOn, GrowsBegins
  <2> QED BY <2>1, <2>2, <2>3, <2>4
<1>15. NameBack(w, g, p, n, r.name)
  BY <1>2, <1>14, PackNameBack DEF n
<1>16. Placed(w, g, n, h, "rr", val, ten)
  BY <1>1, <1>5, <1>6, <1>14, EmitBack
<1>17. i \in 1..Len(w) /\ TokenAt(w, n.len, {"rr"}) = {i} /\ Clears(g, Len(n.w), i)
  BY <1>1, <1>16 DEF Placed
<1>18. w[i].v = <<r.type, l>>
  <2>1. i \in 1..Len(q.w)
    BY <1>1, <1>4, <1>12 DEF Grows
  <2>2. w[i] = q.w[i]
    BY <2>1 DEF Prefix
  <2> QED BY <1>12, <2>2
<1>19. Clears(g, a, Len(q.w)) <=> Clears(g, a, Len(p.w)) /\ Clears(g, Len(p.w), Len(n.w)) /\ Clears(g, i, Len(q.w))
  <2> DEFINE x == Len(p.w)
             y == Len(n.w)
             z == Len(q.w)
  <2>1. x \in Nat /\ y \in Nat /\ z \in Nat /\ a <= x /\ x < y /\ i = y + 1 /\ i <= z /\ Clears(g, y, i)
    BY <1>1, <1>4, <1>12, <1>17 DEF Grows
  <2> HIDE DEF x, y, z, i
  <2>2. a <= y /\ x <= y /\ y <= i /\ a <= i /\ i \in Nat
    BY <2>1
  <2>3. Clears(g, a, y) <=> Clears(g, a, x) /\ Clears(g, x, y)
    BY <2>1, <2>2, ClearsOn
  <2>4. Clears(g, a, i) <=> Clears(g, a, y) /\ Clears(g, y, i)
    BY <2>1, <2>2, ClearsOn
  <2>5. Clears(g, a, z) <=> Clears(g, a, i) /\ Clears(g, i, z)
    BY <2>1, <2>2, ClearsOn
  <2>6. Clears(g, a, z) <=> Clears(g, a, x) /\ Clears(g, x, y) /\ Clears(g, i, z)
    BY <2>1, <2>3, <2>4, <2>5
  <2> QED BY <2>6 DEF x, y, z
<1> DEFINE more == names \cup NamesIn(r)
           now == Append(list, r)
<1>20. (\A x \in more : Fits(x)) <=>
          (\A x \in names : Fits(x)) /\ Fits(r.name) /\ \A x \in NamesOf(parts, Len(parts)) : Fits(x)
  BY DEF NamesIn
<1> HIDE DEF more, now, o, un, parts, i
<1>21. CASE ~up.ok
  <2>1. o = up
    BY <1>21, Zenon DEF o, UnpackField
  <2>2. Cursor(o) /\ ~o.ok /\ Len(p.w) <= Len(q.w) /\ names \subseteq more
    <3>1. Len(p.w) <= Len(q.w)
      BY <1>1, <1>4, <1>12 DEF Grows, i
    <3> QED BY <1>21, <2>1, <3>1 DEF In, more
  <2>3. In(g, a, q, o, more, now)
    BY <1>3, <1>13, <1>21, <2>2, InBad
  <2> QED BY <1>12, <2>3 DEF more, now, o
<1>22. CASE up.ok
  <2>1. up.off = p.len /\ up.list = list /\ Clears(g, a, Len(p.w)) /\ (\A x \in names : Fits(x)) /\ Cursor(up)
    BY <1>22 DEF In
  <2>2. o = UnpackRR(w, up, un)
    BY <1>22, <2>1, Zenon DEF o, UnpackField, un
  <2>3. /\ un.ok <=> Clears(g, Len(p.w), Len(n.w)) /\ Fits(r.name)
        /\ un.ok => un.name = r.name /\ un.next = n.len
    BY <1>15 DEF NameBack, un
  <2>4. CASE ~un.ok
    <3>1. o = Bad(up)
      BY <2>2, <2>4, Zenon DEF UnpackRR
    <3>2. Cursor(o) /\ ~o.ok
      BY <2>1, <3>1, BadIs
    <3>3. In(g, a, q, o, more, now)
      BY <1>19, <1>20, <2>3, <2>4, <3>2 DEF In
    <3> QED BY <1>12, <3>3 DEF more, now, o
  <2>5. CASE un.ok
    <3>1. TokenAt(w, un.next, {"rr"}) = {i} /\ {i} # {} /\ (CHOOSE x \in {i} : TRUE) = i
      BY <1>17, <2>3, <2>5, OnlyOne
    <3>2. o = TakeHeader(w, up, un, w[i].v)
      BY <2>2, <2>5, <3>1, Zenon DEF UnpackRR
    <3> DEFINE hdr == <<r.type, l>>
    <3>3. hdr[1] = r.type /\ hdr[2] = l
      OBVIOUS
    <3> HIDE DEF hdr
    <3>4. o = TakeHeader(w, up, un, hdr)
      BY <1>18, <3>2 DEF hdr
    <3>5. o = TakeBody(up, r.name, r.type, n.len + 10 + l, UnpackParts(w, n.len + 10, Layout(r.type, l)))
      <4>1. un.name = r.name /\ un.next = n.len
        BY <2>3, <2>5
      <4> QED BY <3>3, <3>4, <4>1, Zenon DEF TakeHeader
    <3>6. n.len + 10 = h.len /\ n.len + 10 + l = q.len
      BY <1>1, <1>4, <1>12 DEF l
    <3>7. o = TakeBody(up, r.name, r.type, q.len, ub)
      BY <3>5, <3>6 DEF ub
    <3>8. /\ Cursor(ub)
          /\ ub.ok <=> Clears(g, i, Len(q.w)) /\ \A x \in NamesOf(parts, Len(parts)) : Fits(x)
          /\ ub.ok => ub.off = q.len /\ ub.list = r.body
      <4>1. In(g, i, b, ub, NamesOf(parts, Len(parts)), parts)
        BY <1>11, <1>14
      <4> QED BY <1>12, <4>1 DEF In, parts
    <3> HIDE DEF ub
    <3>9. /\ Cursor(o) /\ (o.ok <=> ub.ok)
          /\ o.ok => o.off = q.len /\ o.list = now
      <4> DEFINE end == q.len
      <4>1. ReadUpTo(ub, end, r.body) /\ Well(up) /\ o = TakeBody(up, r.name, r.type, end, ub)
        BY <1>22, <2>1, <3>7, <3>8 DEF ReadUpTo, Well
      <4> HIDE DEF end
      <4>2. ReadUpTo(o, end, Append(up.list, r)) /\ (o.ok <=> ub.ok)
        BY <4>1, BodyBack
      <4> QED BY <2>1, <4>2 DEF end, now, ReadUpTo
    <3>10. In(g, a, q, o, more, now)
      BY <1>19, <1>20, <2>1, <2>3, <2>5, <3>8, <3>9 DEF In
    <3> QED BY <1>12, <3>10 DEF more, now, o
  <2> QED BY <2>4, <2>5
<1> QED BY <1>21, <1>22

(* The fields of a section: its questions, or its records, and the names in *)
(* one.                                                                     *)
Kind == {"question", "rr"}
FieldsOf(kind) == IF kind = "question" THEN NameSet ELSE {r \in Resources : Bodied(r)}
PackField(p, x, kind, compress) ==
    IF kind = "question" THEN PackQuestion(p, x, compress) ELSE PackRR(p, x, compress)
FieldNames(x, kind) == IF kind = "question" THEN {x} ELSE NamesIn(x)

(* A field packed on top of something. *)
LEMMA PackFieldIs ==
    ASSUME NEW compress \in BOOLEAN, NEW p \in Packing(compress), NEW kind \in Kind, NEW x \in FieldsOf(kind)
    PROVE  PackField(p, x, kind, compress) \in Packing(compress) /\ Grows(p, PackField(p, x, kind, compress))
<1> DEFINE q == PackField(p, x, kind, compress)
<1>1. CASE kind = "question"
  <2> DEFINE n == PackName(p, x, compress)
             nil == 0
             four == 4
  <2>1. x \in NameSet /\ q = Emit(n, "qtype", nil, four)
    BY <1>1 DEF FieldsOf, PackField, PackQuestion
  <2>2. p \in Packed /\ (~compress => DOMAIN p.ptrs = {})
    BY DEF Packing
  <2>3. Adds(p, n, compress, NameLen(p.ptrs, x)) /\ n \in Packed
    BY <2>1, <2>2, PackNameIs DEF Adds
  <2>4. nil \in Values /\ four \in Nat /\ "qtype" \in Kinds
    BY ValuesAre DEF Kinds
  <2> HIDE DEF n, nil, four, q
  <2>5. Adds(n, q, compress, four)
    BY <2>1, <2>3, <2>4, EmitAdds
  <2>6. q \in Packed /\ Grows(p, q) /\ (~compress => q.ptrs = p.ptrs)
    BY <2>2, <2>3, <2>5, GrowsOn DEF Adds
  <2> QED BY <2>2, <2>6 DEF Packing, q
<1>2. CASE kind # "question"
  <2> DEFINE base == p.ptrs
  <2>1. x \in Resources /\ q = PackRR(p, x, compress) /\ DOMAIN base \subseteq DOMAIN p.ptrs
    BY <1>2 DEF FieldsOf, PackField
  <2> HIDE DEF base, q
  <2>2. q \in Packing(compress) /\ Grows(p, q)
    BY <2>1, PackRRIs
  <2> QED BY <2>2 DEF q
<1> QED BY <1>1, <1>2

(* A field is read back. *)
LEMMA FieldBack ==
    ASSUME NEW compress \in BOOLEAN, NEW p \in Packing(compress), Sound(p), NEW kind \in Kind, NEW x \in FieldsOf(kind),
           NEW w, NEW len, Laid(w, len), NEW g, Explains(w, g),
           NEW q, q = PackField(p, x, kind, compress), Prefix(q.w, w),
           NEW a \in Nat, a <= Len(p.w), NEW up, NEW names, NEW list, In(g, a, p, up, names, list)
    PROVE  Sound(q) /\ In(g, a, q, UnpackField(w, up, kind), names \cup FieldNames(x, kind), Append(list, x))
<1>1. CASE kind = "question"
  <2>1. x \in NameSet /\ q = PackQuestion(p, x, compress) /\ FieldNames(x, kind) = {x}
    BY <1>1 DEF FieldsOf, PackField, FieldNames
  <2>2. Begins(PackQuestion(p, x, compress).w, w)
    BY <2>1 DEF Prefix, Begins
  <2> QED BY <1>1, <2>1, <2>2, QuestionBack
<1>2. CASE kind # "question"
  <2>1. x \in Resources /\ Bodied(x) /\ q = PackRR(p, x, compress) /\ FieldNames(x, kind) = NamesIn(x) /\ kind = "rr"
    BY <1>2 DEF FieldsOf, PackField, FieldNames, Kind
  <2> QED BY <2>1, RRBack
<1> QED BY <1>1, <1>2

Emptied(up) == [up EXCEPT !.list = <<>>]

(* v holds what has been read of a section after each of its n fields. *)
SectionRead(v, w, prev, kind, n) ==
    /\ v[0] = Emptied(prev) /\ v[n] = UnpackSection(w, prev, kind, n)
    /\ \A k \in 1..n : v[k] = UnpackField(w, v[k - 1], kind)

(* The loop over the fields of a section, turn by turn, when unpacking. *)
LEMMA UnpackSectionRuns ==
    ASSUME NEW w, NEW prev, NEW kind, NEW n \in Nat
    PROVE  \E v : SectionRead(v, w, prev, kind, n)
<1> DEFINE F(f, m) == [k \in 0..m |-> IF k = 0 THEN Emptied(prev) ELSE UnpackField(w, f[k - 1], kind)]
           Upto == CHOOSE f : f = F(f, n)
           T == {m \in Nat : \E f : f = F(f, m)}
<1>1. UnpackSection(w, prev, kind, n) = Upto[n]
  BY Zenon DEF UnpackSection, Emptied
<1>2. 0 \in T
  <2> DEFINE f == [k \in 0..0 |-> Emptied(prev)]
  <2>1. f = F(f, 0)
    OBVIOUS
  <2> QED BY <2>1
<1>3. \A m \in T \cap Nat : m + 1 \in T
  <2> TAKE m \in T \cap Nat
  <2>1. PICK f : f = F(f, m)
    OBVIOUS
  <2> DEFINE e == UnpackField(w, f[m], kind)
             h == [k \in 0..(m + 1) |-> IF k <= m THEN f[k] ELSE e]
  <2>2. \A k \in 0..m : f[k] = IF k = 0 THEN Emptied(prev) ELSE UnpackField(w, f[k - 1], kind)
    BY <2>1
  <2>3. \A k \in 0..m : h[k] = f[k]
    OBVIOUS
  <2>4. h[m + 1] = e
    OBVIOUS
  <2> HIDE DEF e
  <2>5. ASSUME NEW k \in 0..(m + 1)
        PROVE  h[k] = IF k = 0 THEN Emptied(prev) ELSE UnpackField(w, h[k - 1], kind)
    <3>1. CASE k = 0
      BY <2>2, <2>3, <3>1
    <3>2. CASE k \in 1..m
      <4>1. k \in 0..m /\ k - 1 \in 0..m /\ k # 0
        BY <3>2
      <4> QED BY <2>2, <2>3, <4>1
    <3>3. CASE k = m + 1
      <4>1. k - 1 = m /\ m \in 0..m /\ k # 0
        BY <3>3
      <4>2. h[k - 1] = f[m]
        BY <2>3, <4>1
      <4> QED BY <2>4, <3>3, <4>1, <4>2 DEF e
    <3> QED BY <3>1, <3>2, <3>3
  <2>6. h = F(h, m + 1)
    BY <2>5
  <2>7. m + 1 \in Nat /\ \E f1 : f1 = F(f1, m + 1)
    <3> HIDE DEF F, h
    <3> QED BY <2>6
  <2> HIDE DEF F
  <2> QED BY <2>7
<1>4. \E f : f = F(f, n)
  <2> HIDE DEF F
  <2>1. n \in T
    <3> HIDE DEF T
    <3> QED BY <1>2, <1>3, Induction
  <2> QED BY <2>1
<1>5. Upto = F(Upto, n)
  <2> HIDE DEF F
  <2> QED BY <1>4
<1> HIDE DEF Upto
<1>6. \A k \in 0..n : Upto[k] = IF k = 0 THEN Emptied(prev) ELSE UnpackField(w, Upto[k - 1], kind)
  BY <1>5
<1>7. Upto[0] = Emptied(prev) /\ \A k \in 1..n : Upto[k] = UnpackField(w, Upto[k - 1], kind)
  <2>1. 0 \in 0..n /\ \A k \in 1..n : k \in 0..n /\ k # 0
    OBVIOUS
  <2> QED BY <1>6, <2>1
<1>8. SectionRead(Upto, w, prev, kind, n)
  BY <1>1, <1>7 DEF SectionRead
<1> QED BY <1>8

(* A section starts with an empty list. *)
LEMMA EmptiedIs ==
    ASSUME NEW g, NEW a, NEW p, NEW up, NEW names, NEW list, In(g, a, p, up, names, list)
    PROVE  In(g, a, p, Emptied(up), names, <<>>)
<1> DEFINE x == up.ok
           b == up.off
           c == up.list
           none == <<>>
           o == Emptied(up)
<1>1. up = [ok |-> x, off |-> b, list |-> c] /\ x \in BOOLEAN
  BY DEF In, Cursor
<1>2. o = [up EXCEPT !.list = none]
  BY DEF Emptied
<1> HIDE DEF x, b, c, none, o
<1>3. [[ok |-> x, off |-> b, list |-> c] EXCEPT !.list = none] = [ok |-> x, off |-> b, list |-> none]
  OBVIOUS
<1>4. o = [ok |-> x, off |-> b, list |-> none]
  BY <1>1, <1>2, <1>3, Zenon
<1>5. o.ok = x /\ o.off = b /\ o.list = none
  BY <1>4
<1>6. o = [ok |-> o.ok, off |-> o.off, list |-> o.list]
  BY <1>4, <1>5
<1>7. Cursor(o)
  BY <1>1, <1>5, <1>6 DEF Cursor
<1>8. (o.ok <=> up.ok) /\ o.off = up.off /\ o.list = <<>>
  BY <1>5 DEF x, b, none
<1>9. In(g, a, p, o, names, <<>>)
  BY <1>7, <1>8 DEF In
<1> QED BY <1>9 DEF o

(* u holds what is packed after each field of a section, none left out.     *)
PacksAll(u, p, q, items, kind, compress) ==
    /\ u \in [0..Len(items) -> Packing(compress)] /\ u[0] = p /\ u[Len(items)] = q
    /\ \A k \in 1..Len(items) : u[k] = PackField(u[k - 1], items[k], kind, compress)

SectionNames(items, kind, n) == UNION {FieldNames(items[i], kind) : i \in 1..n}

(* What starts with what is packed starts with what was packed before.      *)
LEMMA PrefixOn ==
    ASSUME NEW p \in Packed, NEW q \in Packed, Grows(p, q), NEW w, Prefix(q.w, w), Len(w) \in Nat
    PROVE  Prefix(p.w, w)
<1>1. Len(p.w) \in Nat /\ Len(q.w) \in Nat
  BY PackedFields
<1>2. Len(p.w) <= Len(q.w) /\ \A i \in 1..Len(p.w) : q.w[i] = p.w[i]
  BY DEF Grows
<1>3. Len(q.w) <= Len(w) /\ \A i \in 1..Len(q.w) : w[i] = q.w[i]
  BY DEF Prefix
<1>4. \A i \in 1..Len(p.w) : i \in 1..Len(q.w)
  BY <1>1, <1>2
<1> QED BY <1>1, <1>2, <1>3, <1>4 DEF Prefix

(* A section none of whose fields was left out is read back. *)
LEMMA SectionBack ==
    ASSUME NEW compress \in BOOLEAN, NEW p \in Packing(compress), Sound(p), NEW kind \in Kind,
           NEW items \in Seq(FieldsOf(kind)), NEW u, NEW q, PacksAll(u, p, q, items, kind, compress),
           NEW w, NEW len, Laid(w, len), NEW g, Explains(w, g), Prefix(q.w, w),
           NEW a \in Nat, a <= Len(p.w), NEW prev, NEW names, NEW list, In(g, a, p, prev, names, list)
    PROVE  /\ q \in Packing(compress) /\ Sound(q) /\ a <= Len(q.w)
           /\ In(g, a, q, UnpackSection(w, prev, kind, Len(items)),
                 names \cup SectionNames(items, kind, Len(items)), items)
<1> DEFINE n == Len(items)
<1>1. n \in Nat /\ (\A k \in 1..n : items[k] \in FieldsOf(kind)) /\ p \in Packed /\ Len(p.w) \in Nat
      /\ Len(w) \in Nat
  BY PackedFields DEF Packing, Laid
<1>2. /\ u \in [0..n -> Packing(compress)] /\ u[0] = p /\ u[n] = q
      /\ \A k \in 1..n : u[k] = PackField(u[k - 1], items[k], kind, compress)
  BY DEF PacksAll
<1>3. PICK v : SectionRead(v, w, prev, kind, n)
  BY <1>1, UnpackSectionRuns
<1>4. /\ v[0] = Emptied(prev) /\ v[n] = UnpackSection(w, prev, kind, n)
      /\ \A k \in 1..n : v[k] = UnpackField(w, v[k - 1], kind)
  BY <1>3 DEF SectionRead
<1> DEFINE S(k) == SubSeq(items, 1, k)
           N(k) == names \cup SectionNames(items, kind, k)
           Inv(k) == /\ a <= Len(u[k].w)
                     /\ Prefix(u[k].w, w) => Sound(u[k]) /\ In(g, a, u[k], v[k], N(k), S(k))
           T == {k \in 0..n : Inv(k)}
<1>5. 0 \in T
  <2>1. N(0) = names /\ S(0) = <<>>
    BY DEF SectionNames
  <2>2. In(g, a, p, v[0], names, <<>>)
    BY <1>4, EmptiedIs
  <2> HIDE DEF S, N
  <2> QED BY <1>1, <1>2, <2>1, <2>2
<1>6. ASSUME NEW k \in 1..n, k - 1 \in T PROVE k \in T
  <2>a. Inv(k - 1)
    <3> HIDE DEF Inv
    <3> QED BY <1>6
  <2> DEFINE o == u[k - 1]
             e == u[k]
             x == items[k]
  <2>1. k - 1 \in 0..n /\ k \in 0..n
    BY <1>1
  <2>2. o \in Packing(compress) /\ e \in Packing(compress) /\ x \in FieldsOf(kind)
        /\ e = PackField(o, x, kind, compress)
    BY <1>1, <1>2, <2>1
  <2>4. v[k] = UnpackField(w, v[k - 1], kind)
    BY <1>4
  <2>5. a <= Len(o.w) /\ (Prefix(o.w, w) => Sound(o) /\ In(g, a, o, v[k - 1], N(k - 1), S(k - 1)))
    BY <2>a
  <2>6. N(k - 1) \cup FieldNames(x, kind) = N(k)
    <3>1. \A i \in 1..k : i \in 1..(k - 1) \/ i = k
      OBVIOUS
    <3>2. k \in 1..k /\ \A i \in 1..(k - 1) : i \in 1..k
      OBVIOUS
    <3>3. SectionNames(items, kind, k - 1) \cup FieldNames(x, kind) = SectionNames(items, kind, k)
      BY <3>1, <3>2 DEF SectionNames
    <3> QED BY <3>3
  <2>7. Append(S(k - 1), x) = S(k)
    BY SubSeqSteps
  <2> HIDE DEF o, e, x, S, N
  <2>8. Grows(o, e) /\ o \in Packed /\ e \in Packed /\ Len(o.w) \in Nat /\ Len(e.w) \in Nat
    <3>1. Grows(o, e)
      BY <2>2, PackFieldIs
    <3> QED BY <2>2, <3>1, PackedFields DEF Packing
  <2>9. a <= Len(e.w)
    BY <2>5, <2>8 DEF Grows
  <2>10. ASSUME Prefix(e.w, w) PROVE Sound(e) /\ In(g, a, e, v[k], N(k), S(k))
    <3>1. Prefix(o.w, w)
      BY <1>1, <2>8, <2>10, PrefixOn
    <3> DEFINE up == v[k - 1]
               nm == N(k - 1)
               li == S(k - 1)
    <3>2. Sound(o) /\ In(g, a, o, up, nm, li)
      BY <2>5, <3>1
    <3> HIDE DEF up, nm, li
    <3>3. Sound(e) /\ In(g, a, e, UnpackField(w, up, kind), nm \cup FieldNames(x, kind), Append(li, x))
      BY <2>2, <2>5, <2>10, <3>2, FieldBack
    <3> QED BY <2>4, <2>6, <2>7, <3>3 DEF up, nm, li
  <2>11. Inv(k)
    BY <2>9, <2>10 DEF e
  <2> HIDE DEF Inv
  <2> QED BY <2>1, <2>11
<1>7. n \in T
  <2> HIDE DEF T
  <2>1. \A k \in 1..n : k - 1 \in T => k \in T
    BY <1>6
  <2>2. \A k \in 0..n : k \in T
    BY <1>1, <1>5, <2>1, UpTo
  <2> QED BY <1>1, <2>2
<1>8. Inv(n)
  BY <1>7
<1>9. S(n) = items
  OBVIOUS
<1>10. q \in Packing(compress)
  BY <1>1, <1>2
<1> HIDE DEF S
<1> QED BY <1>2, <1>4, <1>8, <1>9, <1>10

-----------------------------------------------------------------------------
(* Reading back: records, sections and messages.                           *)

(* What can be read with a record packed on top of it can be read.          *)
LEMMA RRSound ==
    ASSUME NEW compress \in BOOLEAN, NEW p \in Packing(compress), Sound(p), NEW r \in Resources, Bodied(r)
    PROVE  Sound(PackRR(p, r, compress))
<1> DEFINE n == PackName(p, r.name, compress)
           h == Emit(n, "rr", <<r.type, 0>>, 10)
           b == PackParts(h, r.body, compress)
           parts == r.body
           i == Len(h.w)
<1>1. /\ PackRR(p, r, compress) = PatchLength(b, h, r.type)
      /\ n \in Packing(compress) /\ h \in Packing(compress) /\ b \in Packing(compress)
      /\ Grows(p, n) /\ Grows(n, h) /\ Grows(h, b)
      /\ Len(p.w) < Len(n.w) /\ i = Len(n.w) + 1
      /\ h.len = n.len + 10 /\ <<r.type, 0>> \in Values /\ "rr" \in Kinds \ NameParts
  BY RRStages
<1>2. r.name \in NameSet /\ r.type \in RRTypes /\ parts \in Seq(BodyParts)
  BY DEF Resources, BodyParts
<1>3. n \in Packed /\ h \in Packed /\ b \in Packed
  BY <1>1 DEF Packing
<1>4. /\ Len(n.w) \in Nat /\ i \in Nat /\ Len(b.w) \in Nat
      /\ n.len \in Nat /\ h.len \in Nat /\ b.len \in Nat
  BY <1>3, PackedFields
<1>5. Sound(n)
  BY <1>2, PackNameSound DEF Sound
<1> DEFINE val == <<r.type, 0>>
           ten == 10
<1>6. val \in Values /\ ten \in Nat /\ ten >= 1 /\ h = Emit(n, "rr", val, ten)
  BY <1>1
<1>7. \A j \in 1..Len(parts) : parts[j].size > 0 => parts[j].name = <<>>
  BY DEF Bodied
<1> HIDE DEF h, val, ten
<1>8. Sound(h)
  BY <1>1, <1>5, <1>6, EmitSound
<1>9. h.w[i].t = "rr" /\ i \in 1..Len(h.w)
  <2>1. h.w[i] = Token("rr", val, ten, n.len)
    BY <1>1, <1>3, <1>6, EmitWrites
  <2> QED BY <1>1, <1>4, <2>1, TokenIs
<1>10. Sound(b)
  <2>1. PICK g : SoundWith(h, g)
    BY <1>8 DEF Sound
  <2>2. Laid(h.w, h.len) /\ Explains(h.w, g)
    BY <2>1 DEF SoundWith
  <2> DEFINE x == h.w
             l == h.len
             lay == [j \in 1..Len(parts) |-> parts[j].size]
  <2>3. Len(parts) \in Nat /\ Len(lay) = Len(parts) /\ \A j \in 1..Len(parts) : lay[j] = parts[j].size
    BY <1>2
  <2>4. b = PackParts(h, parts, compress)
    OBVIOUS
  <2> HIDE DEF parts, b, x, l, lay
  <2>5. Laid(x, l) /\ Explains(x, g)
    BY <2>2 DEF x, l
  <2> QED BY <1>1, <1>2, <1>7, <1>8, <2>3, <2>4, <2>5, PartsBack
<1> HIDE DEF n, b
<1>11. i \in 1..Len(b.w) /\ b.w[i].t = "rr" /\ h.len <= b.len
  <2>1. Len(h.w) <= Len(b.w) /\ (\A k \in 1..Len(h.w) : b.w[k] = h.w[k]) /\ h.len <= b.len
    BY <1>1 DEF Grows
  <2>2. b.w[i] = h.w[i]
    BY <1>9, <2>1
  <2> QED BY <1>4, <1>9, <2>1, <2>2
<1> QED BY <1>1, <1>2, <1>3, <1>10, <1>11, PatchSound

(* A question too. *)
LEMMA QuestionSound ==
    ASSUME NEW compress \in BOOLEAN, NEW p \in Packing(compress), Sound(p), NEW name \in NameSet
    PROVE  Sound(PackQuestion(p, name, compress))
<1> DEFINE n == PackName(p, name, compress)
           val == 0
           four == 4
<1>1. Sound(n)
  BY PackNameSound DEF Sound
<1>2. "qtype" \in Kinds \ NameParts /\ val \in Values /\ four \in Nat /\ four >= 1
      /\ PackQuestion(p, name, compress) = Emit(n, "qtype", val, four)
  BY ValuesAre DEF PackQuestion, Kinds, NameParts
<1> HIDE DEF n, val, four
<1> QED BY <1>1, <1>2, EmitSound

(* A section none of whose fields was left out is packed on top of what was *)
(* there, and can be read.                                                  *)
LEMMA SectionSound ==
    ASSUME NEW compress \in BOOLEAN, NEW p \in Packing(compress), Sound(p), NEW kind \in Kind,
           NEW items \in Seq(FieldsOf(kind)), NEW u, NEW q, PacksAll(u, p, q, items, kind, compress)
    PROVE  q \in Packing(compress) /\ Sound(q) /\ Grows(p, q)
<1> DEFINE n == Len(items)
           Inv(k) == Sound(u[k]) /\ Grows(p, u[k])
           T == {k \in 0..n : Inv(k)}
<1>1. n \in Nat /\ (\A k \in 1..n : items[k] \in FieldsOf(kind)) /\ p \in Packed
  BY DEF Packing
<1>2. /\ u \in [0..n -> Packing(compress)] /\ u[0] = p /\ u[n] = q
      /\ \A k \in 1..n : u[k] = PackField(u[k - 1], items[k], kind, compress)
  BY DEF PacksAll
<1>3. 0 \in T
  <2>1. Grows(p, p)
    BY <1>1, PackedFields DEF Grows
  <2> QED BY <1>1, <1>2, <2>1
<1>4. ASSUME NEW k \in 1..n, k - 1 \in T PROVE k \in T
  <2> DEFINE o == u[k - 1]
             e == u[k]
             x == items[k]
  <2>1. k - 1 \in 0..n /\ k \in 0..n
    BY <1>1
  <2>2. o \in Packing(compress) /\ e \in Packing(compress) /\ x \in FieldsOf(kind)
        /\ e = PackField(o, x, kind, compress)
    BY <1>1, <1>2, <2>1
  <2>3. Sound(o) /\ Grows(p, o)
    BY <1>4
  <2> HIDE DEF o, e, x
  <2>4. Grows(o, e) /\ o \in Packed /\ e \in Packed
    <3>1. Grows(o, e)
      BY <2>2, PackFieldIs
    <3> QED BY <2>2, <3>1 DEF Packing
  <2>5. Grows(p, e)
    BY <1>1, <2>3, <2>4, GrowsOn
  <2>6. Sound(e)
    <3>1. CASE kind = "question"
      <4>1. x \in NameSet /\ e = PackQuestion(o, x, compress)
        BY <2>2, <3>1 DEF FieldsOf, PackField
      <4> QED BY <2>2, <2>3, <4>1, QuestionSound
    <3>2. CASE kind # "question"
      <4>1. x \in Resources /\ Bodied(x) /\ e = PackRR(o, x, compress)
        BY <2>2, <3>2 DEF FieldsOf, PackField
      <4> QED BY <2>2, <2>3, <4>1, RRSound
    <3> QED BY <3>1, <3>2
  <2>7. Inv(k)
    BY <2>5, <2>6 DEF e
  <2> HIDE DEF Inv
  <2> QED BY <2>1, <2>7
<1>5. n \in T
  <2> HIDE DEF T
  <2>1. \A k \in 1..n : k - 1 \in T => k \in T
    BY <1>4
  <2>2. \A k \in 0..n : k \in T
    BY <1>1, <1>3, <2>1, UpTo
  <2> QED BY <1>1, <2>2
<1>6. Inv(n)
  BY <1>5
<1> QED BY <1>1, <1>2, <1>6

(* The value of the header's token. *)
HeaderValue(m) == [hdr |-> m.hdr, counts |-> Counts(m)]

(* The header can be read. *)
LEMMA HeadedSound ==
    ASSUME NEW m \in MessageSet, NEW compress \in BOOLEAN
    PROVE  /\ Headed(m) \in Packing(compress) /\ Sound(Headed(m)) /\ Headed(m).len = 12
           /\ Len(Headed(m).w) = 1 /\ Headed(m).w[1].v = HeaderValue(m)
           /\ Headed(m).w[1].t = "header" /\ Headed(m).cut = FALSE /\ DOMAIN Headed(m).ptrs = {}
<1> DEFINE val == HeaderValue(m)
           twelve == 12
           q == Headed(m)
           f == FALSE
<1>1. m.hdr \in Headers
  BY DEF MessageSet
<1>2. Counts(m) \in Seq(Nat)
  <2>1. /\ Len(m.questions) \in Nat /\ Len(m.answers) \in Nat /\ Len(m.authorities) \in Nat
        /\ Len(m.additionals) \in Nat
    BY DEF MessageSet
  <2> QED BY <2>1 DEF Counts
<1>3. val \in Values
  BY <1>1, <1>2 DEF Values, HeaderValue
<1>4. Blank \in Packing(compress)
  BY BlankIs DEF Blank
<1>5. Blank \in Packed /\ Len(Blank.w) = 0 /\ Blank.len = 0 /\ DOMAIN Blank.ptrs = {} /\ Blank.cut = f
  BY <1>4 DEF Packing, Blank
<1>6. "header" \in Kinds \ NameParts /\ twelve \in Nat /\ q = Emit(Blank, "header", val, twelve)
  BY DEF Kinds, NameParts, Headed, HeaderValue
<1> HIDE DEF val, twelve, f, q
<1>7. /\ q \in Packed /\ q.len = Blank.len + twelve /\ q.ptrs = Blank.ptrs /\ q.cut = Blank.cut
      /\ Len(q.w) = Len(Blank.w) + 1 /\ q.w[Len(Blank.w) + 1] = Token("header", val, twelve, Blank.len)
  <2> DEFINE kd == "header"
             b == Blank
  <2>1. b \in Packed /\ kd \in Kinds /\ q = Emit(b, kd, val, twelve)
    BY <1>5, <1>6
  <2> HIDE DEF b, kd
  <2>2. /\ q \in Packed /\ q.len = b.len + twelve /\ q.ptrs = b.ptrs /\ q.cut = b.cut
        /\ Len(q.w) = Len(b.w) + 1 /\ q.w[Len(b.w) + 1] = Token(kd, val, twelve, b.len)
    BY <1>3, <1>6, <2>1, EmitWrites
  <2> QED BY <2>2 DEF b, kd
<1>8. /\ q.len = twelve /\ Len(q.w) = 1 /\ q.w[1] = Token("header", val, twelve, 0)
      /\ DOMAIN q.ptrs = {} /\ q.cut = f /\ q.w \in Seq(Tokens)
  <2>1. q.w \in Seq(Tokens)
    BY <1>7, PackedFields
  <2>2. 0 + twelve = twelve /\ 0 + 1 = 1
    BY <1>6
  <2> QED BY <1>5, <1>7, <2>1, <2>2
<1>9. q.w[1].t = "header" /\ q.w[1].v = val /\ q.w[1].size = twelve /\ q.w[1].at = 0
  BY <1>8, TokenIs
<1>10. Laid(q.w, q.len)
  <2>1. twelve >= 1 /\ twelve = 0 + twelve
    BY DEF twelve
  <2>2. \A i \in 1..Len(q.w) : i = 1
    BY <1>8
  <2>3. 1..(Len(q.w) - 1) = {}
    BY <1>8
  <2>4. Len(q.w) >= 1 /\ q.w[Len(q.w)] = q.w[1]
    BY <1>8
  <2> QED BY <1>8, <1>9, <2>1, <2>2, <2>3, <2>4 DEF Laid
<1> DEFINE g == [i \in 1..Len(q.w) |-> Unread]
<1>11. Explains(q.w, g)
  <2>1. Unread \in Readings
    <3>1. <<>> \in NameSet /\ 0 \in Nat
      BY DEF NameSet
    <3> QED BY <3>1 DEF Unread, Readings
  <2>2. ASSUME NEW i \in 1..Len(q.w) PROVE Explained(q.w, g, i)
    <3>1. i = 1
      BY <1>8
    <3>2. q.w[i].t \notin NameParts /\ g[i] = Unread
      BY <1>6, <1>9, <3>1
    <3>3. q.w[i].t # "end" /\ q.w[i].t # "ptr" /\ q.w[i].t # "label"
      BY <3>2 DEF NameParts
    <3> HIDE DEF g
    <3> QED BY <3>2, <3>3, Zenon DEF Explained
  <2> QED BY <2>1, <2>2 DEF Explains
<1>12. Remembered(q, g)
  BY <1>8 DEF Remembered
<1> HIDE DEF g
<1>13. Sound(q)
  BY <1>7, <1>10, <1>11, <1>12 DEF Sound, SoundWith
<1>14. q \in Packing(compress)
  BY <1>7, <1>8 DEF Packing
<1> QED BY <1>8, <1>9, <1>13, <1>14 DEF q, val, twelve, f

(* Nothing has been read of names behind the header. *)
LEMMA HeaderBack ==
    ASSUME NEW m \in MessageSet, NEW g
    PROVE  In(g, 1, Headed(m), Fresh(12), {}, <<>>)
<1> DEFINE q == Headed(m)
           twelve == 12
<1>1. Len(q.w) = 1 /\ q.len = twelve
  BY HeadedSound
<1>2. Clears(g, 1, 1)
  BY DEF Clears
<1> HIDE DEF q, twelve
<1>3. Cursor(Fresh(twelve)) /\ Fresh(twelve).ok /\ Fresh(twelve).off = twelve /\ Fresh(twelve).list = <<>>
  BY DEF Fresh, Cursor
<1>4. In(g, 1, q, Fresh(twelve), {}, <<>>)
  BY <1>1, <1>2, <1>3 DEF In
<1> QED BY <1>4 DEF q, twelve

(* A message whose bodies have the parts of their types. *)
Shaped(m) ==
    /\ m \in MessageSet /\ m.questions \in Seq(FieldsOf("question"))
    /\ m.answers \in Seq(FieldsOf("rr")) /\ m.authorities \in Seq(FieldsOf("rr"))
    /\ m.additionals \in Seq(FieldsOf("rr"))

(* q is the whole of m, packed section by section behind its header. *)
Packs(p, q, items, kind, compress) == \E u : PacksAll(u, p, q, items, kind, compress)
PacksMessage(m, q1, q2, q3, q, compress) ==
    /\ Packs(Headed(m), q1, m.questions, "question", compress)
    /\ Packs(q1, q2, m.answers, "rr", compress)
    /\ Packs(q2, q3, m.authorities, "rr", compress)
    /\ Packs(q3, q, m.additionals, "rr", compress)
Whole(m, q, compress) == \E q1, q2, q3 : PacksMessage(m, q1, q2, q3, q, compress)

(* A whole message can be read. *)
LEMMA WholeSound ==
    ASSUME NEW compress \in BOOLEAN, NEW m, Shaped(m), NEW q1, NEW q2, NEW q3, NEW q,
           PacksMessage(m, q1, q2, q3, q, compress)
    PROVE  /\ q1 \in Packing(compress) /\ q2 \in Packing(compress)
           /\ q3 \in Packing(compress) /\ q \in Packing(compress)
           /\ Sound(q1) /\ Sound(q2) /\ Sound(q3) /\ Sound(q)
           /\ Grows(Headed(m), q1) /\ Grows(q1, q2) /\ Grows(q2, q3) /\ Grows(q3, q)
<1> DEFINE h == Headed(m)
<1>1. h \in Packing(compress) /\ Sound(h)
  BY HeadedSound DEF Shaped
<1> HIDE DEF h
<1>2. "question" \in Kind /\ "rr" \in Kind
  BY DEF Kind
<1>3. q1 \in Packing(compress) /\ Sound(q1) /\ Grows(h, q1)
  BY <1>1, <1>2, SectionSound DEF PacksMessage, Packs, Shaped, h
<1>4. q2 \in Packing(compress) /\ Sound(q2) /\ Grows(q1, q2)
  BY <1>2, <1>3, SectionSound DEF PacksMessage, Packs, Shaped
<1>5. q3 \in Packing(compress) /\ Sound(q3) /\ Grows(q2, q3)
  BY <1>2, <1>4, SectionSound DEF PacksMessage, Packs, Shaped
<1>6. q \in Packing(compress) /\ Sound(q) /\ Grows(q3, q)
  BY <1>2, <1>5, SectionSound DEF PacksMessage, Packs, Shaped
<1> QED BY <1>3, <1>4, <1>5, <1>6 DEF h

NamesOfSection(items, kind) == SectionNames(items, kind, Len(items))
MessageNames(m) ==
    NamesOfSection(m.questions, "question") \cup NamesOfSection(m.answers, "rr")
    \cup NamesOfSection(m.authorities, "rr") \cup NamesOfSection(m.additionals, "rr")

(* The sections of a message as Msg.Unpack reads them, one after the other. *)
Unpacked(w, m, asked, answered, authorised, added) ==
    /\ asked = UnpackSection(w, Fresh(12), "question", Len(m.questions))
    /\ answered = UnpackSection(w, asked, "rr", Len(m.answers))
    /\ authorised = UnpackSection(w, answered, "rr", Len(m.authorities))
    /\ added = UnpackSection(w, authorised, "rr", Len(m.additionals))

(* Reading w has come to where p ends. *)
ReadInPart(w, g, compress, p, up, names, list) ==
    /\ p \in Packing(compress) /\ Sound(p) /\ 1 <= Len(p.w)
    /\ Explains(w, g) /\ \E len : Laid(w, len)
    /\ In(g, 1, p, up, names, list)

(* A section packed on top of p is read back. *)
LEMMA PackedBack ==
    ASSUME NEW compress \in BOOLEAN, NEW p, NEW w, NEW g, NEW prev, NEW names, NEW list,
           ReadInPart(w, g, compress, p, prev, names, list),
           NEW kind \in Kind, NEW items \in Seq(FieldsOf(kind)), NEW q, Packs(p, q, items, kind, compress),
           Prefix(q.w, w), NEW up, up = UnpackSection(w, prev, kind, Len(items))
    PROVE  ReadInPart(w, g, compress, q, up, names \cup NamesOfSection(items, kind), items)
<1> DEFINE one == 1
<1>1. /\ one \in Nat /\ p \in Packing(compress) /\ Sound(p) /\ one <= Len(p.w) /\ Explains(w, g)
      /\ In(g, one, p, prev, names, list)
  BY DEF ReadInPart
<1>2. PICK u : PacksAll(u, p, q, items, kind, compress)
  BY DEF Packs
<1>3. PICK len : Laid(w, len)
  BY DEF ReadInPart
<1> HIDE DEF one
<1>4. /\ q \in Packing(compress) /\ Sound(q) /\ one <= Len(q.w)
      /\ In(g, one, q, up, names \cup SectionNames(items, kind, Len(items)), items)
  BY <1>1, <1>2, <1>3, SectionBack
<1> QED BY <1>1, <1>3, <1>4 DEF one, NamesOfSection, ReadInPart

(* Reading a whole message, every section comes out as it went in, unless a *)
(* name cannot be read.                                                     *)
LEMMA SectionsBack ==
    ASSUME NEW compress \in BOOLEAN, NEW m, Shaped(m), NEW q1, NEW q2, NEW q3, NEW q,
           PacksMessage(m, q1, q2, q3, q, compress),
           NEW g, Explains(q.w, g), NEW asked, NEW answered, NEW authorised, NEW added,
           Unpacked(q.w, m, asked, answered, authorised, added)
    PROVE  \E n1, n2, n3 :
              /\ n1 \subseteq n2 /\ n2 \subseteq n3 /\ n3 \subseteq MessageNames(m)
              /\ In(g, 1, q1, asked, n1, m.questions) /\ In(g, 1, q2, answered, n2, m.answers)
              /\ In(g, 1, q3, authorised, n3, m.authorities)
              /\ In(g, 1, q, added, MessageNames(m), m.additionals)
<1> DEFINE h == Headed(m)
           w == q.w
           len == q.len
           s1 == NamesOfSection(m.questions, "question")
           s2 == NamesOfSection(m.answers, "rr")
           s3 == NamesOfSection(m.authorities, "rr")
           s4 == NamesOfSection(m.additionals, "rr")
<1>1. h \in Packing(compress) /\ Sound(h) /\ 1 <= Len(h.w)
  <2>1. h \in Packing(compress) /\ Sound(h) /\ Len(h.w) = 1
    <3>1. m \in MessageSet
      BY DEF Shaped
    <3> QED BY <3>1, HeadedSound
  <2> QED BY <2>1
<1>2. /\ q1 \in Packing(compress) /\ q2 \in Packing(compress)
      /\ q3 \in Packing(compress) /\ q \in Packing(compress)
      /\ Sound(q1) /\ Sound(q2) /\ Sound(q3) /\ Sound(q)
      /\ Grows(q1, q2) /\ Grows(q2, q3) /\ Grows(q3, q)
  BY WholeSound
<1>3. q1 \in Packed /\ q2 \in Packed /\ q3 \in Packed /\ q \in Packed
  BY <1>2 DEF Packing
<1>4. Laid(w, len) /\ Len(w) \in Nat
  BY <1>2, <1>3, PackedFields DEF Sound, SoundWith
<1>5. Prefix(w, w) /\ Prefix(q3.w, w) /\ Prefix(q2.w, w) /\ Prefix(q1.w, w)
  <2>1. Prefix(w, w)
    BY <1>4 DEF Prefix
  <2>2. Prefix(q3.w, w)
    BY <1>2, <1>3, <1>4, <2>1, PrefixOn
  <2>3. Prefix(q2.w, w)
    BY <1>2, <1>3, <1>4, <2>2, PrefixOn
  <2>4. Prefix(q1.w, w)
    BY <1>2, <1>3, <1>4, <2>3, PrefixOn
  <2> QED BY <2>1, <2>2, <2>3, <2>4
<1> DEFINE f == Fresh(12)
<1>6. In(g, 1, h, f, {}, <<>>)
  BY HeaderBack DEF Shaped
<1>7. "question" \in Kind /\ "rr" \in Kind
  BY DEF Kind
<1>8. /\ Packs(h, q1, m.questions, "question", compress) /\ Packs(q1, q2, m.answers, "rr", compress)
      /\ Packs(q2, q3, m.authorities, "rr", compress) /\ Packs(q3, q, m.additionals, "rr", compress)
      /\ m.questions \in Seq(FieldsOf("question")) /\ m.answers \in Seq(FieldsOf("rr"))
      /\ m.authorities \in Seq(FieldsOf("rr")) /\ m.additionals \in Seq(FieldsOf("rr"))
  BY DEF PacksMessage, Shaped
<1>9. /\ asked = UnpackSection(w, f, "question", Len(m.questions))
      /\ answered = UnpackSection(w, asked, "rr", Len(m.answers))
      /\ authorised = UnpackSection(w, answered, "rr", Len(m.authorities))
      /\ added = UnpackSection(w, authorised, "rr", Len(m.additionals))
      /\ Explains(w, g)
  BY DEF Unpacked
<1> HIDE DEF h, w, len, f
<1> DEFINE n0 == {}
           n1 == n0 \cup s1
           n2 == n1 \cup s2
           n3 == n2 \cup s3
           R(p, up, names, list) == ReadInPart(w, g, compress, p, up, names, list)
<1>10. R(h, f, n0, <<>>)
  BY <1>1, <1>4, <1>6, <1>9 DEF ReadInPart
<1>11. R(q1, asked, n1, m.questions)
  BY <1>5, <1>7, <1>8, <1>9, <1>10, PackedBack
<1> HIDE DEF n1
<1>12. R(q2, answered, n2, m.answers)
  BY <1>5, <1>7, <1>8, <1>9, <1>11, PackedBack
<1> HIDE DEF n2
<1>13. R(q3, authorised, n3, m.authorities)
  BY <1>5, <1>7, <1>8, <1>9, <1>12, PackedBack
<1> HIDE DEF n3
<1>14. R(q, added, n3 \cup s4, m.additionals)
  BY <1>5, <1>7, <1>8, <1>9, <1>13, PackedBack DEF w
<1>15. n3 \cup s4 = MessageNames(m)
  BY DEF MessageNames, n0, n1, n2, n3
<1>16. n1 \subseteq n2 /\ n2 \subseteq n3 /\ n3 \subseteq MessageNames(m)
  BY <1>15 DEF n2, n3
<1> HIDE DEF s1, s2, s3, s4
<1> QED BY <1>11, <1>12, <1>13, <1>14, <1>15, <1>16 DEF ReadInPart

(* Msg.Unpack, section by section. *)
LEMMA UnpackIs ==
    ASSUME NEW w, NEW m, w[1].v = HeaderValue(m),
           NEW asked, NEW answered, NEW authorised, NEW added,
           Unpacked(w, m, asked, answered, authorised, added)
    PROVE  Unpack(w) = {o \in {[hdr |-> m.hdr, questions |-> asked.list, answers |-> answered.list,
                                authorities |-> authorised.list, additionals |-> added.list]} : added.ok}
<1> DEFINE v == HeaderValue(m)
<1>1. /\ v.hdr = m.hdr /\ v.counts[1] = Len(m.questions) /\ v.counts[2] = Len(m.answers)
      /\ v.counts[3] = Len(m.authorities) /\ v.counts[4] = Len(m.additionals)
  BY DEF HeaderValue, Counts
<1>2. w[1].v = v
  OBVIOUS
<1> HIDE DEF v
<1> QED BY <1>1, <1>2 DEF Unpack, Unpacked, Fresh

(* What is packed is what unpacks, if its names can be read; if not, nothing *)
(* does.                                                                    *)
LEMMA WholeBack ==
    ASSUME NEW compress \in BOOLEAN, NEW m, Shaped(m), NEW q, Whole(m, q, compress),
           NEW g, Explains(q.w, g)
    PROVE  Unpack(q.w) = IF Clears(g, 1, Len(q.w)) /\ \A x \in MessageNames(m) : Fits(x)
                         THEN {m} ELSE {}
<1>1. PICK q1, q2, q3 : PacksMessage(m, q1, q2, q3, q, compress)
  BY DEF Whole
<1> DEFINE w == q.w
           asked == UnpackSection(w, Fresh(12), "question", Len(m.questions))
           answered == UnpackSection(w, asked, "rr", Len(m.answers))
           authorised == UnpackSection(w, answered, "rr", Len(m.authorities))
           added == UnpackSection(w, authorised, "rr", Len(m.additionals))
           made == [hdr |-> m.hdr, questions |-> asked.list, answers |-> answered.list,
                    authorities |-> authorised.list, additionals |-> added.list]
<1>2. Unpacked(w, m, asked, answered, authorised, added)
  BY DEF Unpacked
<1> HIDE DEF asked, answered, authorised, added
<1>3. PICK n1, n2, n3 :
              /\ n1 \subseteq n2 /\ n2 \subseteq n3 /\ n3 \subseteq MessageNames(m)
              /\ In(g, 1, q1, asked, n1, m.questions) /\ In(g, 1, q2, answered, n2, m.answers)
              /\ In(g, 1, q3, authorised, n3, m.authorities)
              /\ In(g, 1, q, added, MessageNames(m), m.additionals)
  BY <1>1, <1>2, SectionsBack
<1>4. /\ q1 \in Packing(compress) /\ q2 \in Packing(compress)
      /\ q3 \in Packing(compress) /\ q \in Packing(compress)
      /\ Grows(Headed(m), q1) /\ Grows(q1, q2) /\ Grows(q2, q3) /\ Grows(q3, q)
  BY <1>1, WholeSound
<1> DEFINE c == Len(w)
           c1 == Len(q1.w)
           c2 == Len(q2.w)
           c3 == Len(q3.w)
<1>5. /\ c1 \in Nat /\ c2 \in Nat /\ c3 \in Nat /\ c \in Nat /\ c1 <= c2 /\ c2 <= c3 /\ c3 <= c
      /\ 1 <= c1 /\ w[1].v = HeaderValue(m)
  <2>1. q1 \in Packed /\ q2 \in Packed /\ q3 \in Packed /\ q \in Packed
    BY <1>4 DEF Packing
  <2>2. c1 \in Nat /\ c2 \in Nat /\ c3 \in Nat /\ c \in Nat /\ c1 <= c2 /\ c2 <= c3 /\ c3 <= c
    BY <1>4, <2>1, PackedFields DEF Grows
  <2>3. Len(Headed(m).w) = 1 /\ Headed(m).w[1].v = HeaderValue(m)
    BY HeadedSound DEF Shaped
  <2>4. 1 <= c1 /\ q1.w[1] = Headed(m).w[1]
    BY <1>4, <2>3 DEF Grows
  <2>5. q2.w[1] = q1.w[1]
    BY <1>4, <2>2, <2>4 DEF Grows
  <2>6. q3.w[1] = q2.w[1]
    BY <1>4, <2>2, <2>4 DEF Grows
  <2>7. w[1] = q3.w[1]
    BY <1>4, <2>2, <2>4 DEF Grows
  <2> QED BY <2>2, <2>3, <2>4, <2>5, <2>6, <2>7
<1>6. Unpack(w) = {o \in {made} : added.ok}
  BY <1>2, <1>5, UnpackIs
<1>7. added.ok <=> Clears(g, 1, c) /\ \A x \in MessageNames(m) : Fits(x)
  BY <1>3 DEF In
<1>8. ASSUME added.ok PROVE made = m
  <2>1. Clears(g, 1, c3) /\ Clears(g, 1, c2) /\ Clears(g, 1, c1)
    <3> HIDE DEF c, c1, c2, c3
    <3>1. Clears(g, 1, c)
      BY <1>7, <1>8
    <3>2. 1 <= c2 /\ 1 <= c3 /\ 1 \in Nat
      BY <1>5
    <3>3. Clears(g, 1, c3)
      BY <1>5, <3>1, <3>2, ClearsOn
    <3>4. Clears(g, 1, c2)
      BY <1>5, <3>2, <3>3, ClearsOn
    <3>5. Clears(g, 1, c1)
      BY <1>5, <3>2, <3>4, ClearsOn
    <3> QED BY <3>3, <3>4, <3>5
  <2>2. /\ \A x \in n1 : Fits(x)
        /\ \A x \in n2 : Fits(x)
        /\ \A x \in n3 : Fits(x)
    BY <1>3, <1>7, <1>8
  <2>3. asked.list = m.questions
    BY <1>3, <2>1, <2>2 DEF In
  <2>4. answered.list = m.answers
    BY <1>3, <2>1, <2>2 DEF In
  <2>5. authorised.list = m.authorities
    BY <1>3, <2>1, <2>2 DEF In
  <2>6. added.list = m.additionals
    BY <1>3, <1>8 DEF In
  <2>7. m = [hdr |-> m.hdr, questions |-> m.questions, answers |-> m.answers,
             authorities |-> m.authorities, additionals |-> m.additionals]
    BY DEF Shaped, MessageSet
  <2> QED BY <2>3, <2>4, <2>5, <2>6, <2>7
<1> HIDE DEF made, w, c
<1>9. Unpack(w) = IF added.ok THEN {m} ELSE {}
  <2>1. CASE added.ok
    BY <1>6, <1>8, <2>1
  <2>2. CASE ~added.ok
    BY <1>6, <2>2
  <2> QED BY <2>1, <2>2
<1>10. Unpack(w) = IF Clears(g, 1, c) /\ \A x \in MessageNames(m) : Fits(x) THEN {m} ELSE {}
  BY <1>7, <1>9
<1> QED BY <1>10 DEF w, c

(* The label a pointer leads to. *)
Target(w, i) == CHOOSE k \in TokenAt(w, w[i].v, {"label"}) : TRUE

(* f counts the pointers that reading each token follows. *)
Counted(w, f, i) ==
    /\ w[i].t = "label" => f[i] = f[i + 1]
    /\ w[i].t = "ptr" => f[i] = 1 + f[Target(w, i)]
    /\ w[i].t # "label" /\ w[i].t # "ptr" => f[i] = 0

(* A reading is what it is by the label before it, or the label pointed to. *)
LEMMA ReadingSteps ==
    ASSUME NEW w, NEW len, Laid(w, len), NEW g, Explains(w, g), NEW i \in 1..Len(w)
    PROVE  /\ g[i].hops \in Nat /\ Len(g[i].name) \in Nat
           /\ w[i].t = "label" =>
                /\ i + 1 \in 1..Len(w) /\ g[i].hops = g[i + 1].hops
                /\ Len(g[i].name) = Len(g[i + 1].name) + 1
           /\ w[i].t = "ptr" =>
                /\ Target(w, i) \in 1..Len(w) /\ g[i].hops = 1 + g[Target(w, i)].hops
                /\ g[i].name = g[Target(w, i)].name
           /\ w[i].t # "label" /\ w[i].t # "ptr" => g[i].hops = 0
<1>1. w \in Seq(Tokens) /\ Len(w) \in Nat
  BY DEF Laid
<1>2. \A k \in 1..Len(w) : g[k].hops \in Nat /\ g[k].name \in NameSet /\ Len(g[k].name) \in Nat
  <2>1. \A k \in 1..Len(w) : g[k] \in Readings
    BY DEF Explains
  <2> QED BY <2>1 DEF Readings, NameSet
<1>3. Explained(w, g, i)
  BY DEF Explains
<1>4. ASSUME w[i].t = "label"
      PROVE  /\ i + 1 \in 1..Len(w) /\ g[i].hops = g[i + 1].hops
             /\ Len(g[i].name) = Len(g[i + 1].name) + 1
  <2>1. /\ i < Len(w) /\ w[i].v \in Labels
        /\ g[i] = [name |-> <<w[i].v>> \o g[i + 1].name, hops |-> g[i + 1].hops, end |-> g[i + 1].end]
    BY <1>3, <1>4 DEF Explained
  <2>2. i + 1 \in 1..Len(w)
    BY <1>1, <2>1
  <2>3. g[i].name = <<w[i].v>> \o g[i + 1].name /\ g[i].hops = g[i + 1].hops
    BY <2>1
  <2>4. Len(g[i].name) = Len(g[i + 1].name) + 1
    BY <1>2, <2>1, <2>2, <2>3 DEF NameSet
  <2> QED BY <2>2, <2>3, <2>4
<1>5. ASSUME w[i].t = "ptr"
      PROVE  /\ Target(w, i) \in 1..Len(w) /\ g[i].hops = 1 + g[Target(w, i)].hops
             /\ g[i].name = g[Target(w, i)].name
  <2>1. PICK k \in 1..(i - 1) :
            /\ LabelAt(w, k, w[i].v)
            /\ g[i] = [name |-> g[k].name, hops |-> g[k].hops + 1, end |-> w[i].at + 2]
    BY <1>3, <1>5 DEF Explained
  <2>2. k \in 1..Len(w)
    BY <1>1
  <2>3. w[k].t = "label" /\ w[k].at = w[i].v
    BY <2>1 DEF LabelAt
  <2>4. TokenAt(w, w[k].at, {"label"}) = {k}
    <3>1. w[k].t \in {"label"}
      BY <2>3
    <3> QED BY <2>2, <3>1, TokenAtIs
  <2>5. Target(w, i) = k
    BY <2>3, <2>4, OnlyOne DEF Target
  <2>6. g[i].hops = g[k].hops + 1 /\ g[i].name = g[k].name
    BY <2>1
  <2> QED BY <1>2, <2>2, <2>5, <2>6
<1>6. ASSUME w[i].t # "label", w[i].t # "ptr" PROVE g[i].hops = 0
  <2>1. CASE w[i].t = "end"
    <3>1. g[i] = [name |-> <<>>, hops |-> 0, end |-> w[i].at + 1]
      BY <1>3, <2>1 DEF Explained
    <3> QED BY <3>1
  <2>2. CASE w[i].t # "end"
    <3>1. w[i].t \notin NameParts
      BY <1>6, <2>2 DEF NameParts
    <3>2. g[i] = Unread
      BY <1>3, <3>1 DEF Explained
    <3> QED BY <3>2 DEF Unread
  <2> QED BY <2>1, <2>2
<1> QED BY <1>2, <1>4, <1>5, <1>6

(* What counts them is the reading: a count that differs from it does so at *)
(* a token from which less is read.                                         *)
LEMMA CountedIs ==
    ASSUME NEW w, NEW len, Laid(w, len), NEW g, Explains(w, g),
           NEW f, \A i \in 1..Len(w) : Counted(w, f, i)
    PROVE  \A i \in 1..Len(w) : f[i] = g[i].hops
<1> DEFINE Size(i) == Len(g[i].name) + g[i].hops
           D == {i \in 1..Len(w) : f[i] # g[i].hops}
           M == {Size(i) : i \in D}
<1>0. SUFFICES ASSUME D # {} PROVE FALSE
  OBVIOUS
<1>1. \A i \in 1..Len(w) : g[i].hops \in Nat /\ Len(g[i].name) \in Nat /\ Size(i) \in Nat
  BY ReadingSteps
<1>2. M \subseteq Nat /\ M # {}
  <2> HIDE DEF Size
  <2> QED BY <1>0, <1>1
<1>3. PICK m \in M : \A y \in M : m <= y
  <2> HIDE DEF M
  <2> QED BY <1>2, Least
<1>4. PICK i \in D : m = Size(i)
  <2> HIDE DEF Size
  <2> QED OBVIOUS
<1>5. i \in 1..Len(w) /\ f[i] # g[i].hops
  OBVIOUS
<1>6. \A k \in 1..Len(w) : f[k] # g[k].hops => m <= Size(k)
  <2> HIDE DEF Size
  <2> QED BY <1>3
<1> HIDE DEF D, M
<1>7. /\ Counted(w, f, i)
      /\ w[i].t = "label" =>
           /\ i + 1 \in 1..Len(w) /\ g[i].hops = g[i + 1].hops
           /\ Len(g[i].name) = Len(g[i + 1].name) + 1
      /\ w[i].t = "ptr" =>
           /\ Target(w, i) \in 1..Len(w) /\ g[i].hops = 1 + g[Target(w, i)].hops
           /\ g[i].name = g[Target(w, i)].name
      /\ w[i].t # "label" /\ w[i].t # "ptr" => g[i].hops = 0
  BY <1>5, ReadingSteps
<1>8. CASE w[i].t = "label"
  <2>1. i + 1 \in 1..Len(w) /\ f[i + 1] # g[i + 1].hops
    BY <1>5, <1>7, <1>8 DEF Counted
  <2>2. m <= Size(i + 1) /\ Size(i + 1) \in Nat
    <3> HIDE DEF Size
    <3> QED BY <1>1, <1>6, <2>1
  <2>3. g[i + 1].hops \in Nat /\ Len(g[i + 1].name) \in Nat
    BY <1>1, <2>1
  <2> QED BY <1>4, <1>7, <1>8, <2>2, <2>3
<1>9. CASE w[i].t = "ptr"
  <2> DEFINE k == Target(w, i)
  <2>1. k \in 1..Len(w) /\ f[k] # g[k].hops
    BY <1>5, <1>7, <1>9 DEF Counted
  <2> HIDE DEF k
  <2>2. m <= Size(k)
    <3> HIDE DEF Size
    <3> QED BY <1>6, <2>1
  <2>3. g[k].hops \in Nat /\ Len(g[k].name) \in Nat
    BY <1>1, <2>1
  <2>4. g[i].hops = 1 + g[k].hops /\ g[i].name = g[k].name
    BY <1>7, <1>9 DEF k
  <2> QED BY <1>4, <2>2, <2>3, <2>4
<1>10. CASE w[i].t # "label" /\ w[i].t # "ptr"
  BY <1>5, <1>7, <1>10 DEF Counted
<1> QED BY <1>8, <1>9, <1>10

(* The pointers followed are those of the readings. *)
LEMMA HopsAre ==
    ASSUME NEW w, NEW len, Laid(w, len), NEW g, Explains(w, g)
    PROVE  Hops(w) = {g[i].hops : i \in 1..Len(w)}
<1> DEFINE F(f) == [i \in 1..Len(w) |->
                      IF w[i].t = "label" THEN f[i + 1]
                      ELSE IF w[i].t # "ptr" THEN 0
                      ELSE 1 + f[CHOOSE k \in TokenAt(w, w[i].v, {"label"}) : TRUE]]
           Chain == CHOOSE f : f = F(f)
           e == [i \in 1..Len(w) |-> g[i].hops]
<1>1. Hops(w) = {Chain[i] : i \in 1..Len(w)}
  BY Zenon DEF Hops
<1>2. e = F(e)
  <2>1. ASSUME NEW i \in 1..Len(w)
        PROVE  g[i].hops = IF w[i].t = "label" THEN e[i + 1]
                           ELSE IF w[i].t # "ptr" THEN 0 ELSE 1 + e[Target(w, i)]
    BY ReadingSteps
  <2> QED BY <2>1 DEF Target
<1>3. Chain = F(Chain)
  <2> HIDE DEF F, e
  <2> QED BY <1>2
<1> HIDE DEF Chain
<1>4. \A i \in 1..Len(w) : Counted(w, Chain, i)
  <2>1. \A i \in 1..Len(w) :
           Chain[i] = IF w[i].t = "label" THEN Chain[i + 1]
                      ELSE IF w[i].t # "ptr" THEN 0
                      ELSE 1 + Chain[CHOOSE k \in TokenAt(w, w[i].v, {"label"}) : TRUE]
    BY <1>3
  <2> HIDE DEF F
  <2> QED BY <2>1 DEF Counted, Target
<1> HIDE DEF F, e
<1>5. \A i \in 1..Len(w) : Chain[i] = g[i].hops
  BY <1>4, CountedIs
<1> QED BY <1>1, <1>5

(* The elements of two lists one after the other. *)
LEMMA BothElements ==
    ASSUME NEW S, NEW a \in Seq(S), NEW b \in Seq(S)
    PROVE  a \o b \in Seq(S) /\ ToSet(a \o b) = ToSet(a) \cup ToSet(b)
<1> DEFINE n == Len(a)
           k == Len(b)
           s == a \o b
<1>1. s \in Seq(S) /\ Len(s) = n + k /\ n \in Nat /\ k \in Nat
  OBVIOUS
<1>2. (\A i \in 1..n : s[i] = a[i]) /\ (\A i \in 1..k : s[n + i] = b[i])
  OBVIOUS
<1>3. ToSet(s) = {s[i] : i \in 1..(n + k)} /\ ToSet(a) = {a[i] : i \in 1..n} /\ ToSet(b) = {b[i] : i \in 1..k}
  BY <1>1 DEF ToSet
<1> HIDE DEF s, n, k
<1>4. ASSUME NEW x \in ToSet(s) PROVE x \in ToSet(a) \cup ToSet(b)
  <2>1. PICK i \in 1..(n + k) : x = s[i]
    BY <1>3
  <2>2. CASE i \in 1..n
    BY <1>2, <1>3, <2>1, <2>2
  <2>3. CASE i \notin 1..n
    <3>1. i - n \in 1..k /\ n + (i - n) = i
      BY <1>1, <2>3
    <3> QED BY <1>2, <1>3, <2>1, <3>1
  <2> QED BY <2>2, <2>3
<1>5. ASSUME NEW x \in ToSet(a) PROVE x \in ToSet(s)
  <2>1. PICK i \in 1..n : x = a[i]
    BY <1>3
  <2>2. i \in 1..(n + k)
    BY <1>1
  <2> QED BY <1>2, <1>3, <2>1, <2>2
<1>6. ASSUME NEW x \in ToSet(b) PROVE x \in ToSet(s)
  <2>1. PICK i \in 1..k : x = b[i]
    BY <1>3
  <2>2. n + i \in 1..(n + k)
    BY <1>1
  <2> QED BY <1>2, <1>3, <2>1, <2>2
<1>7. s \in Seq(S) /\ ToSet(s) = ToSet(a) \cup ToSet(b)
  BY <1>1, <1>4, <1>5, <1>6
<1> QED BY <1>7 DEF s

(* The names of the records of a section. *)
RecordNames(rs) == {r.name : r \in rs} \cup UNION {{r.body[i].name : i \in 1..Len(r.body)} : r \in rs}

(* Those are the names of its fields. *)
LEMMA SectionNamesAre ==
    ASSUME NEW items \in Seq(Resources)
    PROVE  NamesOfSection(items, "rr") = RecordNames(ToSet(items))
<1> DEFINE n == Len(items)
           N(r) == {r.body[i].name : i \in 1..Len(r.body)}
<1>1. ToSet(items) = {items[i] : i \in 1..n}
  BY DEF ToSet
<1>2. NamesOfSection(items, "rr") = UNION {{items[i].name} \cup N(items[i]) : i \in 1..n}
  BY DEF NamesOfSection, SectionNames, FieldNames, NamesIn, NamesOf
<1>3. RecordNames(ToSet(items)) = {r.name : r \in ToSet(items)} \cup UNION {N(r) : r \in ToSet(items)}
  BY DEF RecordNames
<1> HIDE DEF N, n
<1>4. {r.name : r \in ToSet(items)} \cup UNION {N(r) : r \in ToSet(items)}
      = UNION {{items[i].name} \cup N(items[i]) : i \in 1..n}
  BY <1>1
<1> QED BY <1>2, <1>3, <1>4

(* The names of a message are those of its sections. *)
LEMMA NamesAre ==
    ASSUME NEW m \in MessageSet
    PROVE  Names(m) = MessageNames(m)
<1> DEFINE a == m.answers
           b == m.authorities
           c == m.additionals
           qs == m.questions
<1>1. a \in Seq(Resources) /\ b \in Seq(Resources) /\ c \in Seq(Resources) /\ qs \in Seq(NameSet)
  BY DEF MessageSet
<1>2. Records(m) = (a \o b) \o c
  BY DEF Records
<1>3. ToSet(Records(m)) = ToSet(a) \cup ToSet(b) \cup ToSet(c)
  <2> HIDE DEF a, b, c
  <2>1. a \o b \in Seq(Resources) /\ ToSet(a \o b) = ToSet(a) \cup ToSet(b)
    BY <1>1, BothElements
  <2> DEFINE d == a \o b
  <2>2. d \in Seq(Resources) /\ ToSet(d) = ToSet(a) \cup ToSet(b) /\ Records(m) = d \o c
    BY <1>2, <2>1
  <2> HIDE DEF d
  <2>3. ToSet(d \o c) = ToSet(d) \cup ToSet(c)
    BY <1>1, <2>2, BothElements
  <2> QED BY <2>2, <2>3
<1>4. Names(m) = ToSet(qs) \cup RecordNames(ToSet(Records(m)))
  BY DEF Names, RecordNames
<1>5. MessageNames(m) = NamesOfSection(qs, "question") \cup RecordNames(ToSet(a))
                        \cup RecordNames(ToSet(b)) \cup RecordNames(ToSet(c))
  <2>1. /\ NamesOfSection(a, "rr") = RecordNames(ToSet(a))
        /\ NamesOfSection(b, "rr") = RecordNames(ToSet(b))
        /\ NamesOfSection(c, "rr") = RecordNames(ToSet(c))
    <3> HIDE DEF a, b, c
    <3> QED BY <1>1, SectionNamesAre
  <2>2. MessageNames(m) = NamesOfSection(qs, "question") \cup NamesOfSection(a, "rr")
                          \cup NamesOfSection(b, "rr") \cup NamesOfSection(c, "rr")
    BY DEF MessageNames
  <2> HIDE DEF a, b, c, qs
  <2> QED BY <2>1, <2>2
<1>6. NamesOfSection(qs, "question") = ToSet(qs)
  <2>1. NamesOfSection(qs, "question") = UNION {{qs[i]} : i \in 1..Len(qs)}
    <3> HIDE DEF qs
    <3> QED BY DEF NamesOfSection, SectionNames, FieldNames
  <2>2. ToSet(qs) = {qs[i] : i \in 1..Len(qs)}
    <3> HIDE DEF qs
    <3> QED BY <1>1 DEF ToSet
  <2> HIDE DEF qs
  <2> QED BY <2>1, <2>2
<1>7. \A x, y : RecordNames(x \cup y) = RecordNames(x) \cup RecordNames(y)
  BY DEF RecordNames
<1> HIDE DEF a, b, c, qs
<1>8. RecordNames(ToSet(Records(m))) = RecordNames(ToSet(a)) \cup RecordNames(ToSet(b)) \cup RecordNames(ToSet(c))
  <2> HIDE DEF RecordNames
  <2>1. RecordNames(ToSet(a) \cup ToSet(b) \cup ToSet(c)) = RecordNames(ToSet(a) \cup ToSet(b)) \cup RecordNames(ToSet(c))
    BY <1>7
  <2> QED BY <1>3, <1>7, <2>1
<1> QED BY <1>4, <1>5, <1>6, <1>8

(* The first token of a whole message is its header's. *)
LEMMA WholeStarts ==
    ASSUME NEW compress \in BOOLEAN, NEW m, Shaped(m), NEW q, Whole(m, q, compress)
    PROVE  q \in Packing(compress) /\ Sound(q) /\ Len(q.w) >= 1 /\ q.w[1].t = "header"
<1> DEFINE h == Headed(m)
<1>1. PICK q1, q2, q3 : PacksMessage(m, q1, q2, q3, q, compress)
  BY DEF Whole
<1>2. /\ q1 \in Packing(compress) /\ q2 \in Packing(compress)
      /\ q3 \in Packing(compress) /\ q \in Packing(compress) /\ Sound(q)
      /\ Grows(h, q1) /\ Grows(q1, q2) /\ Grows(q2, q3) /\ Grows(q3, q)
  BY <1>1, WholeSound
<1>3. h \in Packing(compress) /\ Len(h.w) = 1 /\ h.w[1].t = "header"
  BY HeadedSound DEF Shaped
<1> HIDE DEF h
<1>4. h \in Packed /\ q1 \in Packed /\ q2 \in Packed /\ q3 \in Packed /\ q \in Packed
  BY <1>2, <1>3 DEF Packing
<1>5. Grows(h, q2)
  BY <1>2, <1>4, GrowsOn
<1>6. Grows(h, q3)
  BY <1>2, <1>4, <1>5, GrowsOn
<1>7. Grows(h, q)
  BY <1>2, <1>4, <1>6, GrowsOn
<1>8. Len(q.w) >= 1 /\ q.w[1] = h.w[1]
  BY <1>3, <1>4, <1>7, PackedFields DEF Grows
<1> QED BY <1>2, <1>3, <1>8

(* A whole message is read back if it is readable; if not, nothing is.      *)
LEMMA WholeUnpacks ==
    ASSUME NEW compress \in BOOLEAN, NEW m, Shaped(m), NEW q, Whole(m, q, compress)
    PROVE  Unpack(q.w) = IF Readable(m, q.w) THEN {m} ELSE {}
<1> DEFINE w == q.w
           n == Len(w)
<1>1. q \in Packing(compress) /\ Sound(q) /\ n >= 1 /\ w[1].t = "header"
  BY WholeStarts
<1>2. PICK g : SoundWith(q, g)
  BY <1>1 DEF Sound
<1>3. Laid(w, q.len) /\ Explains(w, g) /\ n \in Nat
  BY <1>2, PackedFields DEF SoundWith
<1>4. Unpack(w) = IF Clears(g, 1, n) /\ \A x \in MessageNames(m) : Fits(x) THEN {m} ELSE {}
  BY <1>3, WholeBack
<1>5. Hops(w) = {g[i].hops : i \in 1..n}
  BY <1>3, HopsAre
<1>6. g[1].hops = 0 /\ 0 <= MaxPtr
  <2>1. 1 \in 1..n
    BY <1>1, <1>3
  <2>2. g[1].hops = 0
    BY <1>1, <1>3, <2>1, ReadingSteps
  <2> QED BY <2>2, MessagesAssumption
<1> HIDE DEF w, n
<1>7. (\A x \in Hops(w) : x <= MaxPtr) <=> Clears(g, 1, n)
  <2>1. \A i \in 1..n : i = 1 \/ i \in (1 + 1)..n
    BY <1>3
  <2>2. \A i \in (1 + 1)..n : i \in 1..n
    BY <1>3
  <2> QED BY <1>5, <1>6, <2>1, <2>2 DEF Clears
<1>8. Names(m) = MessageNames(m)
  BY NamesAre DEF Shaped
<1>9. Readable(m, w) <=> Clears(g, 1, n) /\ \A x \in MessageNames(m) : Fits(x)
  BY <1>7, <1>8 DEF Readable, Fits
<1>10. Unpack(w) = IF Readable(m, w) THEN {m} ELSE {}
  <2>1. CASE Readable(m, w)
    BY <1>4, <1>9, <2>1
  <2>2. CASE ~Readable(m, w)
    BY <1>4, <1>9, <2>2
  <2> QED BY <2>1, <2>2
<1> QED BY <1>10 DEF w

-----------------------------------------------------------------------------
(* What is left out of a message, and when nothing is.                     *)

(* Packing a field leaves nothing out. *)
LEMMA FieldCut ==
    ASSUME NEW compress \in BOOLEAN, NEW p \in Packing(compress), NEW kind \in Kind, NEW x \in FieldsOf(kind)
    PROVE  PackField(p, x, kind, compress).cut = p.cut
<1>1. CASE kind = "question"
  <2> DEFINE n == PackName(p, x, compress)
             val == 0
             four == 4
  <2>1. x \in NameSet /\ PackField(p, x, kind, compress) = Emit(n, "qtype", val, four)
    BY <1>1 DEF FieldsOf, PackField, PackQuestion
  <2>2. n \in Packed /\ n.cut = p.cut
    BY <2>1, PackNameIs DEF Packing, Adds
  <2>3. "qtype" \in Kinds /\ val \in Values /\ four \in Nat
    BY ValuesAre DEF Kinds
  <2> HIDE DEF n, val, four
  <2>4. Emit(n, "qtype", val, four).cut = n.cut
    BY <2>2, <2>3, EmitWrites
  <2> QED BY <2>1, <2>2, <2>4
<1>2. CASE kind # "question"
  <2>1. x \in Resources /\ PackField(p, x, kind, compress) = PackRR(p, x, compress)
    BY <1>2 DEF FieldsOf, PackField
  <2>2. PackRR(p, x, compress).cut = p.cut
    BY <2>1, PackRRIs DEF Packing
  <2> QED BY <2>1, <2>2
<1> QED BY <1>1, <1>2

(* What is left out once stays out. *)
LEMMA CutStays ==
    ASSUME NEW n \in Nat, NEW u, \A k \in 1..n : u[k - 1].cut => u[k].cut, ~u[n].cut
    PROVE  \A k \in 0..n : ~u[k].cut
<1> DEFINE T == {k \in 0..n : \A j \in 0..k : u[j].cut => u[k].cut}
<1>1. 0 \in T
  <2>1. \A j \in 0..0 : j = 0
    OBVIOUS
  <2> QED BY <2>1
<1>2. ASSUME NEW k \in 1..n, k - 1 \in T PROVE k \in T
  <2>1. \A j \in 0..k : j = k \/ j \in 0..(k - 1)
    OBVIOUS
  <2> QED BY <1>2, <2>1
<1>3. n \in T
  <2> HIDE DEF T
  <2>1. \A k \in 1..n : k - 1 \in T => k \in T
    BY <1>2
  <2>2. \A k \in 0..n : k \in T
    BY <1>1, <2>1, UpTo
  <2> QED BY <2>2
<1> QED BY <1>3

(* One turn of a loop over fields: the field is packed, or left out for the *)
(* limit and that noted.                                                    *)
TakesField(o, e, x, kind, compress, limit) ==
    \/ e = PackField(o, x, kind, compress)
    \/ limit > 0 /\ e.cut

(* When nothing was left out, or nothing could be, everything was packed.   *)
LEMMA TakenRun ==
    ASSUME NEW compress \in BOOLEAN, NEW limit \in Int, NEW kind \in Kind,
           NEW items \in Seq(FieldsOf(kind)), NEW u \in [0..Len(items) -> Packing(compress)],
           \A k \in 1..Len(items) : TakesField(u[k - 1], u[k], items[k], kind, compress, limit),
           ~u[Len(items)].cut \/ limit = 0
    PROVE  /\ PacksAll(u, u[0], u[Len(items)], items, kind, compress)
           /\ ~u[Len(items)].cut => ~u[0].cut
<1> DEFINE n == Len(items)
<1>1. n \in Nat /\ \A k \in 1..n : items[k] \in FieldsOf(kind)
  OBVIOUS
<1>2. ASSUME NEW k \in 1..n, u[k - 1].cut PROVE u[k].cut
  <2>1. u[k - 1] \in Packing(compress)
    BY <1>1
  <2> DEFINE o == u[k - 1]
             e == u[k]
  <2>2. TakesField(o, e, items[k], kind, compress, limit)
    OBVIOUS
  <2> HIDE DEF o, e
  <2>3. PackField(o, items[k], kind, compress).cut = o.cut
    BY <1>1, <2>1, FieldCut DEF o
  <2> QED BY <1>2, <2>2, <2>3 DEF TakesField, o, e
<1>3. ASSUME ~u[n].cut PROVE \A k \in 0..n : ~u[k].cut
  BY <1>1, <1>2, <1>3, CutStays
<1>4. \A k \in 1..n : u[k] = PackField(u[k - 1], items[k], kind, compress)
  <2>1. CASE ~u[n].cut
    <3>1. \A k \in 1..n : ~u[k].cut
      BY <1>1, <1>3, <2>1
    <3> QED BY <3>1 DEF TakesField
  <2>2. CASE limit = 0
    BY <2>2 DEF TakesField
  <2> QED BY <2>1, <2>2
<1>5. ~u[n].cut => ~u[0].cut
  BY <1>1, <1>3
<1> QED BY <1>4, <1>5 DEF PacksAll

(* Over asks for a limit; a limit passed over is noted. *)
LEMMA CutIs ==
    ASSUME NEW p \in Packed
    PROVE  [p EXCEPT !.cut = TRUE].cut
BY DEF Packed

(* The questions, all of them unless one was left out. *)
LEMMA TakenQuestions ==
    ASSUME NEW compress \in BOOLEAN, NEW p \in Packing(compress), NEW limit \in Int,
           NEW qs \in Seq(FieldsOf("question")), NEW q, q = TakeQuestions(p, qs, compress, limit),
           ~q.cut \/ limit = 0
    PROVE  Packs(p, q, qs, "question", compress) /\ (~q.cut => ~p.cut)
<1>1. qs \in Seq(NameSet) /\ "question" \in Kind
  BY DEF FieldsOf, Kind
<1>2. PICK u \in [0..Len(qs) -> Packing(compress)] :
             /\ u[0] = p /\ u[Len(qs)] = TakeQuestions(p, qs, compress, limit)
             /\ \A k \in 1..Len(qs) : u[k] = TakeQuestion(u[k - 1], qs[k], compress, limit)
  BY <1>1, TakeQuestionsRuns
<1> DEFINE n == Len(qs)
<1>3. n \in Nat /\ u[n] = q
  BY <1>1, <1>2
<1>4. ASSUME NEW k \in 1..n
      PROVE  TakesField(u[k - 1], u[k], qs[k], "question", compress, limit)
  <2> DEFINE o == u[k - 1]
             e == u[k]
  <2>1. o \in Packed
    BY <1>2, <1>3 DEF Packing
  <2>2. e = TakeQuestion(o, qs[k], compress, limit)
    BY <1>2
  <2> HIDE DEF o, e
  <2>3. [o EXCEPT !.cut = TRUE].cut
    BY <2>1, CutIs
  <2>4. TakesField(o, e, qs[k], "question", compress, limit)
    <3>1. CASE Over(o, QuestionLen(o.ptrs, qs[k]), limit)
      <4>1. limit > 0 /\ e = [o EXCEPT !.cut = TRUE]
        BY <2>2, <3>1 DEF TakeQuestion, Over
      <4> QED BY <2>3, <4>1 DEF TakesField
    <3>2. CASE ~Over(o, QuestionLen(o.ptrs, qs[k]), limit)
      <4>1. e = PackQuestion(o, qs[k], compress)
        BY <2>2, <3>2 DEF TakeQuestion
      <4> QED BY <4>1 DEF TakesField, PackField
    <3> QED BY <3>1, <3>2
  <2> QED BY <2>4 DEF o, e
<1> HIDE DEF n
<1>5. PacksAll(u, u[0], u[Len(qs)], qs, "question", compress) /\ (~u[Len(qs)].cut => ~u[0].cut)
  <2>1. ~u[Len(qs)].cut \/ limit = 0
    BY <1>2
  <2> QED BY <1>1, <1>2, <1>4, <2>1, TakenRun DEF n
<1>6. PacksAll(u, p, q, qs, "question", compress) /\ (~q.cut => ~p.cut)
  BY <1>2, <1>5
<1> QED BY <1>6 DEF Packs

(* One turn of the loop over records that are not skipped. *)
LEMMA TurnTakes ==
    ASSUME NEW o \in Packed, NEW r, NEW compress, NEW limit \in Int, NEW e, e = TakeRR(o, r, compress, limit)
    PROVE  TakesField(o, e, r, "rr", compress, limit)
<1>1. [o EXCEPT !.cut = TRUE].cut
  BY CutIs
<1>2. CASE Over(o, RRLen(o.ptrs, r), limit)
  <2>1. limit > 0 /\ e = [o EXCEPT !.cut = TRUE]
    BY <1>2 DEF TakeRR, Over
  <2> QED BY <1>1, <2>1 DEF TakesField
<1>3. CASE ~Over(o, RRLen(o.ptrs, r), limit)
  <2>1. e = PackRR(o, r, compress)
    BY <1>3 DEF TakeRR
  <2> QED BY <2>1 DEF TakesField, PackField
<1> QED BY <1>2, <1>3

(* The records of a section without an OPT to skip, all of them unless one  *)
(* was left out.                                                            *)
LEMMA TakenRRs ==
    ASSUME NEW compress \in BOOLEAN, NEW skip \in BOOLEAN, NEW p \in Packing(compress), NEW limit \in Int,
           NEW rrs \in Seq(FieldsOf("rr")), skip => OptsAt(rrs) = {},
           NEW q, q = TakeRRs(p, rrs, skip, compress, limit),
           ~q.cut \/ limit = 0
    PROVE  Packs(p, q, rrs, "rr", compress) /\ (~q.cut => ~p.cut)
<1>1. rrs \in Seq(Resources) /\ "rr" \in Kind
  BY DEF FieldsOf, Kind
<1>2. PICK u \in [0..Len(rrs) -> Packing(compress)] : TakesRRs(u, p, rrs, skip, compress, limit)
  BY <1>1, TakeRRsRuns
<1> DEFINE n == Len(rrs)
<1>3. /\ n \in Nat /\ u[0] = p /\ u[n] = q
      /\ \A k \in 1..n : u[k] = NextRR(u[k - 1], rrs[k], skip, compress, limit)
  BY <1>1, <1>2 DEF TakesRRs
<1>4. ASSUME NEW k \in 1..n
      PROVE  TakesField(u[k - 1], u[k], rrs[k], "rr", compress, limit)
  <2>1. u[k - 1] \in Packed
    BY <1>2, <1>3 DEF Packing
  <2>2. ~(skip /\ rrs[k].type = "OPT")
    BY DEF OptsAt
  <2>3. u[k] = TakeRR(u[k - 1], rrs[k], compress, limit)
    BY <1>3, <2>2 DEF NextRR
  <2> QED BY <2>1, <2>3, TurnTakes
<1> HIDE DEF n
<1>5. PacksAll(u, u[0], u[Len(rrs)], rrs, "rr", compress) /\ (~u[Len(rrs)].cut => ~u[0].cut)
  <2>1. ~u[Len(rrs)].cut \/ limit = 0
    BY <1>3 DEF n
  <2> QED BY <1>1, <1>2, <1>4, <2>1, TakenRun DEF n
<1>6. PacksAll(u, p, q, rrs, "rr", compress) /\ (~q.cut => ~p.cut)
  BY <1>3, <1>5 DEF n
<1> QED BY <1>6 DEF Packs

(* The same, for a section at hand. *)
TakesWhole(p, q, rrs, skip, compress, limit) ==
    /\ compress \in BOOLEAN /\ skip \in BOOLEAN /\ limit \in Int
    /\ p \in Packing(compress) /\ rrs \in Seq(FieldsOf("rr"))
    /\ skip => OptsAt(rrs) = {}
    /\ q = TakeRRs(p, rrs, skip, compress, limit) /\ (~q.cut \/ limit = 0)
TookWhole(p, q, rrs, compress) == Packs(p, q, rrs, "rr", compress) /\ (~q.cut => ~p.cut)

LEMMA TakenWhole ==
    ASSUME NEW compress, NEW skip, NEW p, NEW limit, NEW rrs, NEW q,
           TakesWhole(p, q, rrs, skip, compress, limit)
    PROVE  TookWhole(p, q, rrs, compress)
BY TakenRRs DEF TakesWhole, TookWhole

(* A section whose last record is its OPT: that is packed behind the others, *)
(* and comes where it was.                                                   *)
LEMMA TakenOpt ==
    ASSUME NEW compress \in BOOLEAN, NEW skip \in BOOLEAN, skip,
           NEW p \in Packing(compress), NEW limit \in Int,
           NEW rrs \in Seq(FieldsOf("rr")), OptsAt(rrs) = {Len(rrs)},
           NEW o, o = TakeRRs(p, rrs, skip, compress, limit),
           NEW opt, opt = rrs[Len(rrs)], NEW q, q = PackRR(o, opt, compress), ~q.cut
    PROVE  Packs(p, q, rrs, "rr", compress) /\ ~p.cut
<1> DEFINE n == Len(rrs)
<1>1. rrs \in Seq(Resources) /\ "rr" \in Kind /\ n \in Nat /\ n >= 1
      /\ (\A k \in 1..n : rrs[k] \in FieldsOf("rr")) /\ rrs[n].type = "OPT" /\ rrs[n] \in Resources
  <2>1. n \in OptsAt(rrs)
    OBVIOUS
  <2>2. n \in 1..n /\ rrs[n].type = "OPT"
    BY <2>1 DEF OptsAt
  <2> QED BY <2>2 DEF FieldsOf, Kind
<1>2. opt = rrs[n]
  OBVIOUS
<1>3. PICK u \in [0..n -> Packing(compress)] : TakesRRs(u, p, rrs, skip, compress, limit)
  BY <1>1, TakeRRsRuns
<1>4. /\ u[0] = p /\ u[n] = o
      /\ \A k \in 1..n : u[k] = NextRR(u[k - 1], rrs[k], skip, compress, limit)
  BY <1>3 DEF TakesRRs
<1>5. n \in 1..n /\ n - 1 \in 0..n /\ u[n] = u[n - 1]
  <2>1. n \in 1..n /\ n - 1 \in 0..n
    BY <1>1
  <2> QED BY <1>1, <1>4, <2>1 DEF NextRR
<1>6. o \in Packing(compress) /\ q \in Packing(compress) /\ q.cut = o.cut
  <2>1. o \in Packing(compress)
    BY <1>3, <1>4, <1>5
  <2>2. opt \in Resources /\ DOMAIN o.ptrs \subseteq DOMAIN o.ptrs
    BY <1>1, <1>2
  <2>3. PackRR(o, opt, compress) \in Packing(compress) /\ PackRR(o, opt, compress).cut = o.cut
    BY <2>1, <2>2, PackRRIs
  <2> QED BY <2>1, <2>3
<1>7. ASSUME NEW k \in 1..(n - 1)
      PROVE  TakesField(u[k - 1], u[k], rrs[k], "rr", compress, limit)
  <2>1. u[k - 1] \in Packed /\ k \in 1..n
    BY <1>3 DEF Packing
  <2>2. ~(skip /\ rrs[k].type = "OPT")
    <3>1. k \notin OptsAt(rrs)
      OBVIOUS
    <3> QED BY <2>1, <3>1 DEF OptsAt
  <2>3. u[k] = TakeRR(u[k - 1], rrs[k], compress, limit)
    BY <1>4, <2>1, <2>2 DEF NextRR
  <2> QED BY <2>1, <2>3, TurnTakes
<1> DEFINE v == [u EXCEPT ![n] = q]
<1>8. /\ v \in [0..n -> Packing(compress)] /\ v[0] = p /\ v[n] = q
      /\ \A k \in 0..(n - 1) : v[k] = u[k]
  <2>1. 0 \in 0..n /\ n \in 0..n /\ 0 # n /\ \A k \in 0..(n - 1) : k \in 0..n /\ k # n
    BY <1>1
  <2>2. u \in [0..n -> Packing(compress)] /\ q \in Packing(compress)
    BY <1>3, <1>6
  <2> DEFINE S == Packing(compress)
  <2> HIDE DEF n, S
  <2>3. v \in [0..n -> S] /\ v[n] = q /\ \A k \in 0..n : k # n => v[k] = u[k]
    BY <2>1, <2>2 DEF S
  <2> HIDE DEF v
  <2> QED BY <1>4, <2>1, <2>3 DEF S
<1>9. v[n] = PackField(v[n - 1], rrs[n], "rr", compress)
  <2>1. v[n - 1] = o
    BY <1>1, <1>4, <1>5, <1>8
  <2>2. q = PackField(o, rrs[n], "rr", compress)
    BY <1>2 DEF PackField
  <2> HIDE DEF v
  <2> QED BY <1>8, <2>1, <2>2
<1>10. ASSUME NEW k \in 1..n
       PROVE  TakesField(v[k - 1], v[k], rrs[k], "rr", compress, limit)
  <2> HIDE DEF v
  <2>1. CASE k = n
    BY <1>9, <2>1 DEF TakesField
  <2>2. CASE k \in 1..(n - 1)
    <3>1. k \in 0..(n - 1) /\ k - 1 \in 0..(n - 1)
      BY <2>2, <1>1
    <3>2. v[k] = u[k] /\ v[k - 1] = u[k - 1]
      BY <1>8, <3>1
    <3> QED BY <1>7, <2>2, <3>2
  <2>3. k = n \/ k \in 1..(n - 1)
    BY <1>1
  <2> QED BY <2>1, <2>2, <2>3
<1> HIDE DEF v
<1>11. PacksAll(v, v[0], v[Len(rrs)], rrs, "rr", compress) /\ (~v[Len(rrs)].cut => ~v[0].cut)
  <2>1. ~v[Len(rrs)].cut \/ limit = 0
    BY <1>8
  <2>2. v \in [0..Len(rrs) -> Packing(compress)]
    BY <1>8
  <2> QED BY <1>1, <1>10, <2>1, <2>2, TakenRun
<1>12. PacksAll(v, p, q, rrs, "rr", compress) /\ ~p.cut
  BY <1>8, <1>11
<1> QED BY <1>12 DEF Packs

(* The first three sections, all of them unless something was left out. *)
LEMMA FirstSections ==
    ASSUME NEW compress \in BOOLEAN, NEW limit \in Int, NEW m, Shaped(m),
           NEW q1, q1 = TakeQuestions(Headed(m), m.questions, compress, limit),
           NEW q2, q2 = TakeRRs(q1, m.answers, FALSE, compress, limit),
           NEW q3, q3 = TakeRRs(q2, m.authorities, FALSE, compress, limit)
    PROVE  /\ q3 \in Packing(compress)
           /\ ~q3.cut \/ limit = 0 =>
                /\ Packs(Headed(m), q1, m.questions, "question", compress)
                /\ Packs(q1, q2, m.answers, "rr", compress)
                /\ Packs(q2, q3, m.authorities, "rr", compress)
<1> DEFINE h == Headed(m)
           no == FALSE
<1>1. /\ m \in MessageSet /\ m.questions \in Seq(FieldsOf("question"))
      /\ m.answers \in Seq(FieldsOf("rr")) /\ m.authorities \in Seq(FieldsOf("rr"))
  BY DEF Shaped
<1>2. m.questions \in Seq(NameSet) /\ m.answers \in Seq(Resources) /\ m.authorities \in Seq(Resources)
  BY <1>1 DEF MessageSet
<1>3. h \in Packing(compress)
  BY <1>1, HeadedSound
<1>4. no \in BOOLEAN /\ ~no /\ q2 = TakeRRs(q1, m.answers, no, compress, limit)
      /\ q3 = TakeRRs(q2, m.authorities, no, compress, limit)
  OBVIOUS
<1>5. q1 = TakeQuestions(h, m.questions, compress, limit)
  OBVIOUS
<1> HIDE DEF h, no
<1>6. q1 \in Packing(compress)
  BY <1>2, <1>3, <1>5, TakeQuestionsIs DEF Took
<1> DEFINE a == m.answers
           b == m.authorities
<1>7. q2 \in Packing(compress)
  <2>1. a \in Seq(Resources) /\ q2 = TakeRRs(q1, a, no, compress, limit)
    BY <1>2, <1>4
  <2> HIDE DEF a
  <2>2. Took(q1, TakeRRs(q1, a, no, compress, limit), compress, limit, SectionLen(a, no))
    BY <1>4, <1>6, <2>1, TakeRRsIs
  <2> QED BY <2>1, <2>2 DEF Took
<1>8. q3 \in Packing(compress)
  <2>1. b \in Seq(Resources) /\ q3 = TakeRRs(q2, b, no, compress, limit)
    BY <1>2, <1>4
  <2> HIDE DEF b
  <2>2. Took(q2, TakeRRs(q2, b, no, compress, limit), compress, limit, SectionLen(b, no))
    BY <1>4, <1>7, <2>1, TakeRRsIs
  <2> QED BY <2>1, <2>2 DEF Took
<1>9. ASSUME ~q3.cut \/ limit = 0
      PROVE  /\ Packs(h, q1, m.questions, "question", compress)
             /\ Packs(q1, q2, m.answers, "rr", compress)
             /\ Packs(q2, q3, m.authorities, "rr", compress)
  <2>1. Packs(q2, q3, m.authorities, "rr", compress) /\ (~q3.cut => ~q2.cut)
    <3>1. /\ b \in Seq(FieldsOf("rr")) /\ q3 = TakeRRs(q2, b, no, compress, limit)
          /\ no \in BOOLEAN /\ (no => OptsAt(b) = {})
      BY <1>1, <1>4
    <3> HIDE DEF b
    <3>2. TakesWhole(q2, q3, b, no, compress, limit)
      BY <1>7, <1>9, <3>1 DEF TakesWhole
    <3>3. TookWhole(q2, q3, b, compress)
      BY <3>2, TakenWhole
    <3> QED BY <3>3 DEF b, TookWhole
  <2>2. ~q2.cut \/ limit = 0
    BY <1>9, <2>1
  <2>3. Packs(q1, q2, m.answers, "rr", compress) /\ (~q2.cut => ~q1.cut)
    <3>1. /\ a \in Seq(FieldsOf("rr")) /\ q2 = TakeRRs(q1, a, no, compress, limit)
          /\ no \in BOOLEAN /\ (no => OptsAt(a) = {})
      BY <1>1, <1>4
    <3> HIDE DEF a
    <3>2. TakesWhole(q1, q2, a, no, compress, limit)
      BY <1>6, <2>2, <3>1 DEF TakesWhole
    <3>3. TookWhole(q1, q2, a, compress)
      BY <3>2, TakenWhole
    <3> QED BY <3>3 DEF a, TookWhole
  <2>4. ~q1.cut \/ limit = 0
    BY <2>2, <2>3
  <2>5. Packs(h, q1, m.questions, "question", compress)
    BY <1>1, <1>3, <1>5, <2>4, TakenQuestions
  <2> QED BY <2>1, <2>3, <2>5
<1> QED BY <1>8, <1>9 DEF h

(* All four, when there is no OPT to skip. *)
LEMMA AllWhole ==
    ASSUME NEW compress \in BOOLEAN, NEW skip \in BOOLEAN, NEW limit \in Int, NEW m, Shaped(m),
           skip => OptsAt(m.additionals) = {},
           NEW q, q = TakeAll(Headed(m), m, skip, compress, limit), ~q.cut \/ limit = 0
    PROVE  Whole(m, q, compress)
<1> DEFINE q1 == TakeQuestions(Headed(m), m.questions, compress, limit)
           q2 == TakeRRs(q1, m.answers, FALSE, compress, limit)
           q3 == TakeRRs(q2, m.authorities, FALSE, compress, limit)
<1>1. q = TakeRRs(q3, m.additionals, skip, compress, limit)
  BY DEF TakeAll
<1>2. m.additionals \in Seq(FieldsOf("rr"))
  BY DEF Shaped
<1>3. /\ q3 \in Packing(compress)
      /\ ~q3.cut \/ limit = 0 =>
           /\ Packs(Headed(m), q1, m.questions, "question", compress)
           /\ Packs(q1, q2, m.answers, "rr", compress)
           /\ Packs(q2, q3, m.authorities, "rr", compress)
  BY FirstSections
<1> HIDE DEF q1, q2, q3
<1>4. Packs(q3, q, m.additionals, "rr", compress) /\ (~q.cut => ~q3.cut)
  BY <1>1, <1>2, <1>3, TakenRRs
<1>5. PacksMessage(m, q1, q2, q3, q, compress)
  BY <1>3, <1>4 DEF PacksMessage
<1> QED BY <1>5 DEF Whole

(* And when the last record is the OPT, packed after the limit. *)
LEMMA OptWhole ==
    ASSUME NEW compress \in BOOLEAN, NEW limit \in Int, NEW m, Shaped(m),
           OptsAt(m.additionals) = {Len(m.additionals)},
           NEW skip \in BOOLEAN, skip, NEW o, o = TakeAll(Headed(m), m, skip, compress, limit),
           NEW opt, opt = m.additionals[Len(m.additionals)],
           NEW q, q = PackRR(o, opt, compress), ~q.cut
    PROVE  Whole(m, q, compress)
<1> DEFINE q1 == TakeQuestions(Headed(m), m.questions, compress, limit)
           q2 == TakeRRs(q1, m.answers, FALSE, compress, limit)
           q3 == TakeRRs(q2, m.authorities, FALSE, compress, limit)
<1>1. o = TakeRRs(q3, m.additionals, skip, compress, limit)
  BY DEF TakeAll
<1>2. m.additionals \in Seq(FieldsOf("rr"))
  BY DEF Shaped
<1>3. /\ q3 \in Packing(compress)
      /\ ~q3.cut \/ limit = 0 =>
           /\ Packs(Headed(m), q1, m.questions, "question", compress)
           /\ Packs(q1, q2, m.answers, "rr", compress)
           /\ Packs(q2, q3, m.authorities, "rr", compress)
  BY FirstSections
<1> HIDE DEF q1, q2, q3
<1>4. Packs(q3, q, m.additionals, "rr", compress) /\ ~q3.cut
  <2> DEFINE rrs == m.additionals
  <2>1. rrs \in Seq(FieldsOf("rr")) /\ OptsAt(rrs) = {Len(rrs)} /\ opt = rrs[Len(rrs)]
        /\ o = TakeRRs(q3, rrs, skip, compress, limit)
    BY <1>1, <1>2
  <2> HIDE DEF rrs
  <2>2. Packs(q3, q, rrs, "rr", compress) /\ ~q3.cut
    BY <1>3, <2>1, TakenOpt
  <2> QED BY <2>2 DEF rrs
<1>5. PacksMessage(m, q1, q2, q3, q, compress)
  BY <1>3, <1>4 DEF PacksMessage
<1> QED BY <1>5 DEF Whole

(* Msg.Pack packs all of a message it leaves nothing out of, when its OPT   *)
(* record, if it has one, is its last.                                      *)
LEMMA PackWhole ==
    ASSUME NEW m, Shaped(m), OptsAt(m.additionals) \subseteq {Len(m.additionals)},
           NEW compression \in BOOLEAN, NEW prefix \in Nat, NEW size \in Nat,
           NEW q, q = Pack(m, compression, prefix, size), ~q.cut \/ size = 0
    PROVE  \E compress \in BOOLEAN : Whole(m, q, compress)
<1> DEFINE compress == compression /\ Len(m.questions) + Len(Records(m)) > 1
           rrs == m.additionals
           opt == rrs[LastOpt(rrs)]
           most == (IF size < MinSize THEN MinSize ELSE size) - prefix
           rest == most - BodyLen(<<>>, opt)
<1>1. q = IF size = 0 THEN TakeAll(Headed(m), m, FALSE, compress, 0)
          ELSE IF OptsAt(rrs) = {} THEN TakeAll(Headed(m), m, FALSE, compress, most)
          ELSE PackRR(TakeAll(Headed(m), m, TRUE, compress, rest), opt, compress)
  BY DEF Pack, Headed, Blank
<1>2. rrs \in Seq(Resources) /\ compress \in BOOLEAN /\ most \in Int
  <2>1. MinSize \in Nat
    BY MessagesAssumption
  <2> QED BY <2>1 DEF Shaped, MessageSet
<1> HIDE DEF compress, rrs, most
<1>3. CASE size = 0
  <2> DEFINE no == FALSE
             none == 0
  <2>1. no \in BOOLEAN /\ ~no /\ none \in Int /\ none = 0 /\ q = TakeAll(Headed(m), m, no, compress, none)
    BY <1>1, <1>3
  <2> HIDE DEF no, none
  <2> QED BY <1>2, <2>1, AllWhole
<1>4. CASE size # 0 /\ OptsAt(rrs) = {}
  <2> DEFINE no == FALSE
  <2>1. no \in BOOLEAN /\ ~no /\ q = TakeAll(Headed(m), m, no, compress, most) /\ ~q.cut
    BY <1>1, <1>4
  <2> HIDE DEF no
  <2> QED BY <1>2, <2>1, AllWhole
<1>5. CASE size # 0 /\ OptsAt(rrs) # {}
  <2>1. OptsAt(rrs) = {Len(rrs)} /\ LastOpt(rrs) = Len(rrs)
    BY <1>2, <1>5, LastOptIs DEF rrs
  <2>2. opt \in Resources
    BY <1>2, <1>5, LastOptIs
  <2>3. rest \in Int
    BY <1>2, <2>2, BodyLenIsNat
  <2> HIDE DEF rest
  <2> DEFINE yes == TRUE
             o == TakeAll(Headed(m), m, yes, compress, rest)
  <2>4. q = PackRR(o, opt, compress) /\ ~q.cut /\ opt = rrs[Len(rrs)] /\ yes \in BOOLEAN /\ yes
    BY <1>1, <1>5, <2>1
  <2>5. o = TakeAll(Headed(m), m, yes, compress, rest)
    OBVIOUS
  <2> HIDE DEF yes, o, opt
  <2>6. Whole(m, q, compress)
    BY <1>2, <2>1, <2>3, <2>4, <2>5, OptWhole DEF rrs
  <2> QED BY <1>2, <2>6
<1> QED BY <1>3, <1>4, <1>5

(* So such a message survives. *)
LEMMA PackUnpacks ==
    ASSUME NEW m, Shaped(m), OptsAt(m.additionals) \subseteq {Len(m.additionals)},
           NEW compression \in BOOLEAN, NEW prefix \in Nat, NEW size \in Nat,
           NEW q, q = Pack(m, compression, prefix, size), ~q.cut \/ size = 0
    PROVE  Unpack(q.w) = IF Readable(m, q.w) THEN {m} ELSE {}
<1>1. PICK compress \in BOOLEAN : Whole(m, q, compress)
  BY PackWhole
<1> QED BY <1>1, WholeUnpacks

-----------------------------------------------------------------------------
(* Replies: their types, what they answer and how long they are.           *)

(* At most one OPT record. *)
OneOpt(rrs) == \A i, j \in OptsAt(rrs) : i = j

(* The OPT record the servers add. *)
LEMMA OptIs == Opt \in Resources /\ Opt.type = "OPT" /\ Opt.name = <<>> /\ Opt.body = <<>>
<1>1. <<>> \in NameSet /\ <<>> \in Seq([name : NameSet, size : Nat])
  BY DEF NameSet
<1> QED BY <1>1 DEF Opt, Resources, RRTypes

(* One record more. *)
LEMMA OptsAtAppend ==
    ASSUME NEW rrs \in Seq(Resources), NEW r \in Resources
    PROVE  /\ Append(rrs, r) \in Seq(Resources)
           /\ r.type # "OPT" => OptsAt(Append(rrs, r)) = OptsAt(rrs)
           /\ r.type = "OPT" /\ OptsAt(rrs) = {} => OptsAt(Append(rrs, r)) = {Len(rrs) + 1}
<1> DEFINE n == Len(rrs)
           s == Append(rrs, r)
<1>1. /\ s \in Seq(Resources) /\ n \in Nat /\ Len(s) = n + 1 /\ s[n + 1] = r
      /\ \A k \in 1..n : s[k] = rrs[k]
  OBVIOUS
<1> HIDE DEF s
<1>2. \A k \in 1..(n + 1) : k \in 1..n \/ k = n + 1
  BY <1>1
<1>3. OptsAt(s) = {k \in 1..(n + 1) : s[k].type = "OPT"} /\ OptsAt(rrs) = {k \in 1..n : rrs[k].type = "OPT"}
  BY <1>1 DEF OptsAt
<1> HIDE DEF n
<1>4. ASSUME r.type # "OPT" PROVE OptsAt(s) = OptsAt(rrs)
  BY <1>1, <1>2, <1>3, <1>4
<1>5. ASSUME r.type = "OPT", OptsAt(rrs) = {} PROVE OptsAt(s) = {n + 1}
  BY <1>1, <1>2, <1>3, <1>5
<1> QED BY <1>1, <1>4, <1>5 DEF s, n

(* PopEDNS0 takes the OPT record out. *)
LEMMA PopEDNS0Is ==
    ASSUME NEW rrs \in Seq(Resources), OneOpt(rrs)
    PROVE  PopEDNS0(rrs) \in Seq(Resources) /\ OptsAt(PopEDNS0(rrs)) = {}
<1>1. CASE OptsAt(rrs) = {}
  BY <1>1 DEF PopEDNS0
<1>2. CASE OptsAt(rrs) # {}
  <2> DEFINE n == Len(rrs)
             i == LastOpt(rrs)
             s == [rrs EXCEPT ![i] = rrs[n]]
             q == SubSeq(s, 1, n - 1)
  <2>1. i \in OptsAt(rrs) /\ i \in 1..n /\ n \in Nat
    BY <1>2, LastOptIs
  <2>2. PopEDNS0(rrs) = q
    <3>1. Last(rrs) = rrs[n]
      BY DEF Last
    <3>2. Len(s) = n
      BY <2>1
    <3> QED BY <1>2, <3>1, <3>2 DEF PopEDNS0, Front
  <2>3. \A k \in 1..n : rrs[k] \in Resources /\ (k # i => rrs[k].type # "OPT")
    <3>1. \A k \in 1..n : rrs[k].type = "OPT" => k \in OptsAt(rrs)
      BY DEF OptsAt
    <3> QED BY <2>1, <3>1 DEF OneOpt
  <2> HIDE DEF i, n
  <2>4. s \in Seq(Resources) /\ Len(s) = n /\ \A k \in 1..n : s[k] = IF k = i THEN rrs[n] ELSE rrs[k]
    <3>1. n \in 1..n /\ rrs[n] \in Resources
      BY <2>1, <2>3
    <3>2. n = Len(rrs)
      BY DEF n
    <3> QED BY <2>1, <3>1, <3>2
  <2> HIDE DEF s
  <2>5. q \in Seq(Resources) /\ Len(q) = n - 1 /\ \A k \in 1..(n - 1) : q[k] = s[k]
    BY <2>1, <2>4
  <2> HIDE DEF q
  <2>6. ASSUME NEW k \in 1..(n - 1) PROVE q[k].type # "OPT"
    <3>1. k \in 1..n /\ k # n /\ n \in 1..n
      BY <2>1
    <3>2. CASE k = i
      BY <2>3, <2>4, <2>5, <3>1, <3>2
    <3>3. CASE k # i
      BY <2>3, <2>4, <2>5, <3>1, <3>3
    <3> QED BY <3>2, <3>3
  <2>7. OptsAt(q) = {}
    BY <2>5, <2>6 DEF OptsAt
  <2> QED BY <2>2, <2>5, <2>7
<1> QED BY <1>1, <1>2

(* What a server makes of the answer to a request.                          *)
LEMMA PostProcessIs ==
    ASSUME req \in Requests, NEW m \in MessageSet, OneOpt(m.additionals)
    PROVE  LET p == PostProcess(m)
           IN  /\ p \in MessageSet
               /\ p.hdr.id = req.m.hdr.id /\ p.hdr.opcode = req.m.hdr.opcode
               /\ HasEDNS0(req.m) =>
                    /\ Cardinality(OptsAt(p.additionals)) = 1
                    /\ OptsAt(p.additionals) # {} /\ p.additionals[LastOpt(p.additionals)] = Opt
               /\ ~HasEDNS0(req.m) => OptsAt(p.additionals) = {} /\ Cardinality(OptsAt(p.additionals)) = 0
<1> DEFINE popped == PopEDNS0(m.additionals)
           adds == IF HasEDNS0(req.m) THEN Append(popped, Opt) ELSE popped
           hdr == ReplyHeader(m.hdr)
           p == PostProcess(m)
<1>1. /\ m.hdr \in Headers /\ m.additionals \in Seq(Resources)
      /\ req.m \in MessageSet /\ req.m.hdr \in Headers
  BY RepliesAssumption DEF MessageSet
<1>2. hdr \in Headers /\ hdr.id = req.m.hdr.id /\ hdr.opcode = req.m.hdr.opcode
  BY <1>1 DEF Headers, ReplyHeader
<1>3. popped \in Seq(Resources) /\ OptsAt(popped) = {}
  BY <1>1, PopEDNS0Is
<1>4. p = [m EXCEPT !.hdr = hdr, !.additionals = adds]
  BY DEF PostProcess
<1> HIDE DEF p, hdr, popped
<1>5. adds \in Seq(Resources)
  BY <1>3, OptIs, OptsAtAppend
<1>6. p \in MessageSet /\ p.hdr = hdr /\ p.additionals = adds
  <2> HIDE DEF adds
  <2> QED BY <1>2, <1>4, <1>5 DEF MessageSet
<1>7. ASSUME HasEDNS0(req.m)
      PROVE  /\ Cardinality(OptsAt(p.additionals)) = 1
             /\ OptsAt(p.additionals) # {} /\ p.additionals[LastOpt(p.additionals)] = Opt
  <2> DEFINE l == Len(popped) + 1
  <2>1. p.additionals = Append(popped, Opt)
    BY <1>6, <1>7
  <2>2. p.additionals \in Seq(Resources) /\ OptsAt(p.additionals) = {l}
    BY <1>3, <2>1, OptIs, OptsAtAppend
  <2>3. p.additionals[l] = Opt
    BY <1>3, <2>1
  <2> HIDE DEF l
  <2>4. LastOpt(p.additionals) = l
    BY <2>2, LastOptIs
  <2> QED BY <2>2, <2>3, <2>4, FS_Singleton
<1>8. ASSUME ~HasEDNS0(req.m)
      PROVE  OptsAt(p.additionals) = {} /\ Cardinality(OptsAt(p.additionals)) = 0
  BY <1>3, <1>6, <1>8, FS_EmptySet
<1> QED BY <1>2, <1>6, <1>7, <1>8 DEF p

(* What a server knows of a request it works on, and of the reply.          *)
Matched ==
    /\ sent.w[1].v.hdr.id = req.m.hdr.id
    /\ sent.w[1].v.hdr.opcode = req.m.hdr.opcode
    /\ Cardinality(OptsAt(resp.additionals)) = (IF HasEDNS0(req.m) THEN 1 ELSE 0)
    /\ sent.len <= MaxPackLen(resp)
    /\ front.proto = "udp" =>
         /\ ~sent.framed
         /\ sent.len <= CalUdpSize + IF HasEDNS0(req.m) THEN NameBytes(<<>>) + 10 ELSE 0

RepliesIInv ==
    /\ req \in Requests /\ front \in Fronts /\ resp \in MessageSet
    /\ status = "given" => OneOpt(resp.additionals)
    /\ status = "packed" => Matched
    /\ status = "dropped" => front.proto = "udp" /\ ~ParseQuery(req.m)
    /\ front.proto = "http" /\ status \in {"given", "packed"} => front.http.payload = "message"

(* The message nothing has been written to. *)
LEMMA EmptyMsgIs ==
    ASSUME NEW qs \in Seq(NameSet), NEW code \in RCodes
    PROVE  /\ [EmptyMsg EXCEPT !.questions = qs] \in MessageSet
           /\ [EmptyMsg EXCEPT !.hdr.rcode = code, !.questions = qs] \in MessageSet
           /\ EmptyMsg \in MessageSet /\ OptsAt(EmptyMsg.additionals) = {}
<1>1. EmptyMsg \in MessageSet
  <2>1. <<>> \in Seq(NameSet) /\ <<>> \in Seq(Resources)
    OBVIOUS
  <2>2. EmptyMsg.hdr \in Headers
    BY DEF EmptyMsg, Headers, RCodes
  <2> QED BY <2>1, <2>2 DEF EmptyMsg, MessageSet
<1>2. OptsAt(EmptyMsg.additionals) = {}
  BY DEF EmptyMsg, OptsAt
<1>3. [EmptyMsg EXCEPT !.questions = qs] \in MessageSet
  BY <1>1 DEF MessageSet
<1>4. [EmptyMsg EXCEPT !.hdr.rcode = code, !.questions = qs] \in MessageSet
  <2> DEFINE hdr == [EmptyMsg.hdr EXCEPT !.rcode = code]
  <2>1. hdr \in Headers
    BY <1>1 DEF MessageSet, Headers
  <2>2. [EmptyMsg EXCEPT !.hdr.rcode = code, !.questions = qs]
        = [EmptyMsg EXCEPT !.hdr = hdr, !.questions = qs]
    OBVIOUS
  <2> HIDE DEF hdr
  <2> QED BY <1>1, <2>1, <2>2 DEF MessageSet
<1> QED BY <1>1, <1>2, <1>3, <1>4

(* The first question of a request. *)
LEMMA FirstQuestionIs ==
    ASSUME req \in Requests
    PROVE  /\ req.m \in MessageSet /\ req.m.questions \in Seq(NameSet)
           /\ FirstQuestion(req.m) \in Seq(NameSet)
<1> DEFINE qs == req.m.questions
           fst == <<qs[1]>>
<1>1. req.m \in MessageSet /\ qs \in Seq(NameSet)
  BY RepliesAssumption DEF MessageSet
<1>2. FirstQuestion(req.m) = IF qs = <<>> THEN <<>> ELSE fst
  BY DEF FirstQuestion
<1> HIDE DEF qs
<1>3. qs # <<>> => qs[1] \in NameSet
  BY <1>1
<1>4. FirstQuestion(req.m) \in Seq(NameSet)
  <2> HIDE DEF fst
  <2>1. <<>> \in Seq(NameSet)
    OBVIOUS
  <2>2. qs # <<>> => fst \in Seq(NameSet)
    BY <1>3 DEF fst
  <2> QED BY <1>2, <2>1, <2>2
<1> QED BY <1>1, <1>4 DEF qs

(* The size a UDP server cuts its answers to. *)
LEMMA CalUdpSizeIs ==
    ASSUME req \in Requests
    PROVE  CalUdpSize \in Nat /\ CalUdpSize >= MinSize /\ CalUdpSize >= 12
<1>1. req.udpSize \in Nat
  BY RepliesAssumption
<1> QED BY <1>1, RepliesAssumption, MessagesAssumption DEF CalUdpSize

(* Packing a reply and sending it. *)
LEMMA FinalRespIs ==
    ASSUME NEW m \in MessageSet, NEW tcp \in BOOLEAN, NEW size \in Nat, FinalResp(m, tcp, size)
    PROVE  /\ resp' = m /\ status' \in {"header", "packed"} /\ sent'.framed = tcp
           /\ sent'.w[1].v.hdr = m.hdr /\ sent'.len <= MaxPackLen(m)
           /\ ~tcp /\ size >= MinSize =>
                LET opt == m.additionals[LastOpt(m.additionals)]
                IN  /\ OptsAt(m.additionals) = {} => sent'.len <= size
                    /\ OptsAt(m.additionals) # {} /\ opt = Opt => sent'.len <= size + NameBytes(<<>>) + 10
<1> DEFINE prefix == IF tcp THEN 2 ELSE 0
           most == IF tcp THEN FrameMax ELSE size
           pk == Pack(m, TRUE, prefix, most)
           yes == TRUE
           opt == m.additionals[LastOpt(m.additionals)]
<1>1. SendPacked(m, tcp, pk)
  BY DEF FinalResp
<1>2. yes \in BOOLEAN /\ prefix \in Nat /\ most \in Nat /\ pk = Pack(m, yes, prefix, most)
  BY RepliesAssumption
<1> HIDE DEF pk, yes, opt
<1>3. /\ resp' = m /\ status' \in {"header", "packed"} /\ sent'.framed = tcp
      /\ sent'.w = pk.w /\ sent'.len = pk.len
  BY <1>1 DEF SendPacked
<1> HIDE DEF prefix, most
<1>4. /\ pk.w[1].v.hdr = m.hdr /\ pk.len <= MaxPackLen(m)
      /\ most > 0 /\ Most(prefix, most) >= 12 =>
           /\ OptsAt(m.additionals) = {} => pk.len <= Most(prefix, most)
           /\ OptsAt(m.additionals) # {} /\ opt.name = <<>> /\ opt.body = <<>> =>
                pk.len <= Most(prefix, most) + NameBytes(<<>>) + 10
  <2>1. IsPacked(m, pk, yes, prefix, most)
    BY <1>2, PackIs
  <2> QED BY <2>1 DEF IsPacked, opt
<1>5. ASSUME ~tcp, size >= MinSize
      PROVE  most > 0 /\ Most(prefix, most) >= 12 /\ Most(prefix, most) = size
  <2>1. prefix = 0 /\ most = size
    BY <1>5 DEF prefix, most
  <2> QED BY <1>5, <2>1, MessagesAssumption DEF Most
<1>6. ASSUME ~tcp, size >= MinSize
      PROVE  /\ OptsAt(m.additionals) = {} => sent'.len <= size
             /\ OptsAt(m.additionals) # {} /\ opt = Opt => sent'.len <= size + NameBytes(<<>>) + 10
  BY <1>3, <1>4, <1>5, <1>6, OptIs
<1> QED BY <1>3, <1>4, <1>6 DEF opt

(* An envelope without an error carries a message. *)
LEMMA HttpErrorIs ==
    ASSUME front \in Fronts
    PROVE  /\ HttpError(front.http) \notin {"received", "given", "packed", "dropped"}
           /\ HttpError(front.http) = "none" => front.http.payload = "message"
<1>1. front.http.payload \in {"message", "missing", "large", "garbled"}
  BY RepliesAssumption
<1> DEFINE h == front.http
<1> QED BY <1>1 DEF HttpError

(* At the start nothing has been replied. *)
LEMMA RepliesInitIInv == ASSUME RepliesInit PROVE RepliesIInv
<1>1. <<>> \in Seq(NameSet) /\ "success" \in RCodes
  BY DEF RCodes
<1>2. EmptyMsg \in MessageSet
  BY <1>1, EmptyMsgIs
<1> QED BY <1>2 DEF RepliesInit, RepliesIInv

(* A query goes to the router. *)
LEMMA DispatchIInv == ASSUME RepliesIInv, Dispatch PROVE RepliesIInv'
<1>1. /\ req \in Requests /\ front \in Fronts /\ req' = req /\ front' = front /\ sent' = sent
      /\ status' = "given" /\ (front.proto = "http" => HttpError(front.http) = "none")
  BY DEF RepliesIInv, Dispatch, Arrived
<1>2. PICK qs \in {req.m.questions} \cup OtherQuestions : resp' = [EmptyMsg EXCEPT !.questions = qs]
  BY DEF Dispatch
<1>3. resp' \in MessageSet /\ OptsAt(EmptyMsg.additionals) = {}
  <2>1. "success" \in RCodes
    BY DEF RCodes
  <2>2. qs \in Seq(NameSet)
    BY <1>1, FirstQuestionIs, RepliesAssumption
  <2> QED BY <1>2, <2>1, <2>2, EmptyMsgIs
<1>4. resp'.additionals = EmptyMsg.additionals
  BY <1>2 DEF EmptyMsg
<1>5. OneOpt(resp'.additionals)
  BY <1>3, <1>4 DEF OneOpt
<1>6. front.proto = "http" => front.http.payload = "message"
  BY <1>1, HttpErrorIs
<1> QED BY <1>1, <1>3, <1>4, <1>5, <1>6 DEF RepliesIInv

(* What is sent answers the request it is sent for. *)
LEMMA FinalRespMatched ==
    ASSUME RepliesIInv, NEW m \in MessageSet, OneOpt(m.additionals),
           NEW tcp \in BOOLEAN, NEW size \in Nat,
           front.proto = "udp" => ~tcp /\ size = CalUdpSize,
           FinalResp(PostProcess(m), tcp, size), UNCHANGED <<req, front>>
    PROVE  resp' \in MessageSet /\ status' \in {"header", "packed"} /\ Matched'
<1> DEFINE p == PostProcess(m)
           opt == p.additionals[LastOpt(p.additionals)]
<1>1. req \in Requests /\ front \in Fronts /\ req' = req /\ front' = front
  BY DEF RepliesIInv
<1>2. /\ p \in MessageSet
      /\ p.hdr.id = req.m.hdr.id /\ p.hdr.opcode = req.m.hdr.opcode
      /\ HasEDNS0(req.m) => /\ Cardinality(OptsAt(p.additionals)) = 1
                            /\ OptsAt(p.additionals) # {} /\ opt = Opt
      /\ ~HasEDNS0(req.m) => OptsAt(p.additionals) = {} /\ Cardinality(OptsAt(p.additionals)) = 0
  BY <1>1, PostProcessIs
<1> HIDE DEF p
<1>3. /\ resp' = p /\ status' \in {"header", "packed"} /\ sent'.framed = tcp
      /\ sent'.w[1].v.hdr = p.hdr /\ sent'.len <= MaxPackLen(p)
      /\ ~tcp /\ size >= MinSize =>
           /\ OptsAt(p.additionals) = {} => sent'.len <= size
           /\ OptsAt(p.additionals) # {} /\ opt = Opt => sent'.len <= size + NameBytes(<<>>) + 10
  <2>1. FinalResp(p, tcp, size)
    BY DEF p
  <2> QED BY <1>2, <2>1, FinalRespIs
<1>4. ASSUME front.proto = "udp"
      PROVE  /\ ~sent'.framed
             /\ sent'.len <= CalUdpSize + IF HasEDNS0(req.m) THEN NameBytes(<<>>) + 10 ELSE 0
  <2> DEFINE b == NameBytes(<<>>)
             l == sent'.len
  <2>1. ~tcp /\ size = CalUdpSize /\ size >= MinSize
    BY <1>1, <1>4, CalUdpSizeIs
  <2>2. HasEDNS0(req.m) => l <= size + b + 10
    BY <1>2, <1>3, <2>1, Zenon DEF b, l
  <2>3. ~HasEDNS0(req.m) => l <= size
    BY <1>2, <1>3, <2>1, Zenon DEF l
  <2>4. b \in Nat
    BY OptIs, BareLen DEF b
  <2> HIDE DEF b, l
  <2>5. l <= size + IF HasEDNS0(req.m) THEN b + 10 ELSE 0
    <3>1. CASE HasEDNS0(req.m)
      <4>1. size + b + 10 = size + (b + 10)
        BY <2>4
      <4> QED BY <2>2, <3>1, <4>1
    <3>2. CASE ~HasEDNS0(req.m)
      <4>1. size + 0 = size
        OBVIOUS
      <4> QED BY <2>3, <3>2, <4>1
    <3> QED BY <3>1, <3>2
  <2> QED BY <1>3, <2>1, <2>5 DEF b, l
<1>5. /\ sent'.w[1].v.hdr.opcode = req.m.hdr.opcode
      /\ Cardinality(OptsAt(resp'.additionals)) = (IF HasEDNS0(req.m) THEN 1 ELSE 0)
      /\ sent'.w[1].v.hdr.id = req.m.hdr.id
      /\ sent'.len <= MaxPackLen(resp')
  BY <1>2, <1>3
<1>6. /\ HasEDNS0(req.m)' = HasEDNS0(req.m) /\ CalUdpSize' = CalUdpSize
      /\ req'.m.hdr.opcode = req.m.hdr.opcode /\ req'.m.hdr.id = req.m.hdr.id
  BY <1>1 DEF HasEDNS0, CalUdpSize, OptsAt
<1>7. Matched'
  BY <1>1, <1>4, <1>5, <1>6 DEF Matched
<1> QED BY <1>2, <1>3, <1>7

(* What is no query is refused with its first question. *)
LEMMA RefuseIInv == ASSUME RepliesIInv, Refuse PROVE RepliesIInv'
<1> DEFINE m == [EmptyMsg EXCEPT !.hdr.rcode = "refused", !.questions = FirstQuestion(req.m)]
           yes == TRUE
           none == 0
<1>1. /\ req \in Requests /\ front \in Fronts /\ req' = req /\ front' = front
      /\ FinalResp(PostProcess(m), yes, none) /\ front.proto # "udp"
      /\ (front.proto = "http" => HttpError(front.http) = "none")
  BY DEF RepliesIInv, Refuse, Arrived
<1>2. FirstQuestion(req.m) \in Seq(NameSet) /\ "refused" \in RCodes
  BY <1>1, FirstQuestionIs DEF RCodes
<1>3. m \in MessageSet /\ OptsAt(EmptyMsg.additionals) = {}
  BY <1>2, EmptyMsgIs
<1>4. m.additionals = EmptyMsg.additionals
  BY DEF EmptyMsg
<1>5. yes \in BOOLEAN /\ none \in Nat
  OBVIOUS
<1> HIDE DEF m, yes, none
<1>6. OneOpt(m.additionals)
  BY <1>3, <1>4 DEF OneOpt
<1>7. resp' \in MessageSet /\ status' \in {"header", "packed"} /\ Matched'
  BY <1>1, <1>3, <1>4, <1>5, <1>6, FinalRespMatched
<1>8. front.proto = "http" => front.http.payload = "message"
  BY <1>1, HttpErrorIs
<1> QED BY <1>1, <1>7, <1>8 DEF RepliesIInv

(* A server sends what the router answers with. *)
LEMMA SendIInv == ASSUME RepliesIInv, Send PROVE RepliesIInv'
<1> DEFINE tcp == front.proto \in {"tcp", "quic"}
           size == IF front.proto = "udp" THEN CalUdpSize ELSE MaxEdns0Size
<1>1. /\ req \in Requests /\ front \in Fronts /\ req' = req /\ front' = front
      /\ status = "given" /\ resp \in MessageSet /\ FinalResp(PostProcess(resp), tcp, size)
  BY DEF RepliesIInv, Send
<1>2. OneOpt(resp.additionals) /\ (front.proto = "http" => front.http.payload = "message")
  BY <1>1 DEF RepliesIInv
<1>3. tcp \in BOOLEAN /\ size \in Nat /\ (front.proto = "udp" => ~tcp /\ size = CalUdpSize)
  BY <1>1, CalUdpSizeIs, RepliesAssumption
<1> HIDE DEF tcp, size
<1>4. resp' \in MessageSet /\ status' \in {"header", "packed"} /\ Matched'
  BY <1>1, <1>2, <1>3, FinalRespMatched
<1> QED BY <1>1, <1>2, <1>4 DEF RepliesIInv

(* The router adds a record to its answer. *)
LEMMA GiveIInv == ASSUME RepliesIInv, NEW g \in Given, Give(g) PROVE RepliesIInv'
<1>1. /\ req' = req /\ front' = front /\ sent' = sent /\ status' = "given" /\ status = "given"
      /\ resp \in MessageSet /\ resp' = [resp EXCEPT ![g.section] = Append(@, g.rr)]
      /\ g.rr.type = "OPT" => OptsAt(resp.additionals) = {}
  BY DEF RepliesIInv, Give, HasEDNS0
<1>2. g.section \in {"answers", "authorities", "additionals"} /\ g.rr \in Resources
  BY RepliesAssumption
<1>3. /\ resp.answers \in Seq(Resources) /\ resp.authorities \in Seq(Resources)
      /\ resp.additionals \in Seq(Resources) /\ OneOpt(resp.additionals)
  BY <1>1 DEF MessageSet, RepliesIInv
<1>4. resp' \in MessageSet /\ OneOpt(resp'.additionals)
  <2>1. CASE g.section = "answers"
    <3>1. resp' = [resp EXCEPT !.answers = Append(resp.answers, g.rr)]
      BY <1>1, <2>1
    <3>2. Append(resp.answers, g.rr) \in Seq(Resources)
      BY <1>2, <1>3
    <3>3. resp'.additionals = resp.additionals
      BY <1>1, <3>1 DEF MessageSet
    <3> QED BY <1>1, <1>3, <3>1, <3>2, <3>3 DEF MessageSet
  <2>2. CASE g.section = "authorities"
    <3>1. resp' = [resp EXCEPT !.authorities = Append(resp.authorities, g.rr)]
      BY <1>1, <2>2
    <3>2. Append(resp.authorities, g.rr) \in Seq(Resources)
      BY <1>2, <1>3
    <3>3. resp'.additionals = resp.additionals
      BY <1>1, <3>1 DEF MessageSet
    <3> QED BY <1>1, <1>3, <3>1, <3>2, <3>3 DEF MessageSet
  <2>3. CASE g.section = "additionals"
    <3> DEFINE adds == Append(resp.additionals, g.rr)
    <3>1. resp' = [resp EXCEPT !.additionals = adds]
      BY <1>1, <2>3
    <3>2. adds \in Seq(Resources) /\ OneOpt(adds)
      <4>1. /\ adds \in Seq(Resources)
            /\ g.rr.type # "OPT" => OptsAt(adds) = OptsAt(resp.additionals)
            /\ g.rr.type = "OPT" => OptsAt(adds) = {Len(resp.additionals) + 1}
        BY <1>1, <1>2, <1>3, OptsAtAppend
      <4> QED BY <1>3, <4>1 DEF OneOpt
    <3> HIDE DEF adds
    <3>3. resp'.additionals = adds
      BY <1>1, <3>1 DEF MessageSet
    <3> QED BY <1>1, <3>1, <3>2, <3>3 DEF MessageSet
  <2> QED BY <1>2, <2>1, <2>2, <2>3
<1> QED BY <1>1, <1>3, <1>4 DEF RepliesIInv

(* Every step of the servers keeps the invariant. *)
LEMMA RepliesStepIInv == ASSUME RepliesIInv, RepliesStep \/ UNCHANGED replyVars PROVE RepliesIInv'
<1>1. CASE HttpRefuses
  <2>1. status' \notin {"received", "given", "packed", "dropped"}
    BY <1>1, HttpErrorIs DEF HttpRefuses, RepliesIInv
  <2> QED BY <1>1, <2>1 DEF HttpRefuses, RepliesIInv
<1>2. CASE DropQuery
  BY <1>2 DEF DropQuery, RepliesIInv, ParseQuery
<1>3. CASE UNCHANGED replyVars
  BY <1>3 DEF replyVars, RepliesIInv, Matched, ParseQuery, HasEDNS0, OptsAt, CalUdpSize
<1> QED BY <1>1, <1>2, <1>3, DispatchIInv, RefuseIInv, SendIInv, GiveIInv DEF RepliesStep

(* The invariant says that replies match their requests. *)
LEMMA RepliesIInvMatch == ASSUME RepliesIInv PROVE RepliesMatchRequests
<1>1. ASSUME status = "dropped"
      PROVE  front.proto = "udp" /\ ~PlainQuery(req.m)
  <2>1. front.proto = "udp" /\ ~ParseQuery(req.m)
    BY <1>1 DEF RepliesIInv
  <2>2. Len(<<>>) = 0
    OBVIOUS
  <2>3. ASSUME PlainQuery(req.m) PROVE ParseQuery(req.m)
    <3> DEFINE adds == req.m.additionals
    <3>1. adds = <<>> \/ Len(adds) = 1
      BY <2>3, Zenon DEF PlainQuery
    <3> HIDE DEF adds
    <3>2. Len(adds) \in {0, 1}
      BY <2>2, <3>1, Zenon
    <3>3. \A n \in {0, 1} : n <= 1
      OBVIOUS
    <3>4. Len(adds) <= 1
      BY <3>2, <3>3, Zenon
    <3> QED BY <2>3, <3>4, Zenon DEF PlainQuery, ParseQuery, adds
  <2> QED BY <2>1, <2>3, Zenon
<1> QED BY <1>1 DEF RepliesIInv, Matched, RepliesMatchRequests

(* The invariant says that no reply is longer than was measured. *)
LEMMA RepliesIInvLengths == ASSUME RepliesIInv PROVE LengthsHold
<1> DEFINE no == FALSE
           none == 0
           q == Pack(resp, no, none, none)
<1>1. resp \in MessageSet /\ no \in BOOLEAN /\ none \in Nat /\ none = 0 /\ ~no
  BY DEF RepliesIInv
<1> HIDE DEF no, none
<1>2. IsPacked(resp, q, no, none, none)
  BY <1>1, PackIs
<1>3. q.len = MaxPackLen(resp)
  BY <1>1, <1>2 DEF IsPacked
<1>4. q = Pack(resp, FALSE, 0, 0)
  BY DEF no, none
<1> QED BY <1>3, <1>4 DEF LengthsHold, RepliesIInv, Matched

-----------------------------------------------------------------------------
(* Replies: the messages that reach the client.                            *)

(* What is packed is a reply whose bodies are those of their types, with its *)
(* OPT record last, and what Msg.Pack made of it.                            *)
OptLast(m) == OptsAt(m.additionals) \subseteq {Len(m.additionals)}
PackedAs(m, w, cut) ==
    \E prefix, size \in Nat : \E q : q = Pack(m, TRUE, prefix, size) /\ w = q.w /\ cut = q.cut
SurviveIInv ==
    /\ RepliesIInv
    /\ status \in {"given", "packed"} => Shaped(resp)
    /\ status = "packed" => OptLast(resp) /\ PackedAs(resp, sent.w, sent.cut)

(* The OPT record the servers add has no body. *)
LEMMA OptFits == Opt \in FieldsOf("rr")
<1> DEFINE sizes == [i \in 1..Len(Opt.body) |-> Opt.body[i].size]
<1>1. Opt.body = <<>> /\ Opt.type = "OPT" /\ Opt \in Resources /\ Len(Opt.body) = 0
  BY OptIs
<1>2. sizes = <<>>
  BY <1>1
<1>3. SumOf(sizes) = 0
  BY <1>2, SumNone
<1>4. Layout("OPT", 0) = <<>>
  BY DEF Layout
<1>5. sizes = Layout(Opt.type, SumOf(sizes))
  BY <1>1, <1>2, <1>3, <1>4
<1>6. Bodied(Opt)
  <2>1. \A i \in 1..Len(Opt.body) : Opt.body[i].size > 0 => Opt.body[i].name = <<>>
    BY <1>1
  <2> QED BY <1>5, <2>1 DEF Bodied
<1> QED BY <1>1, <1>6 DEF FieldsOf

(* PopEDNS0 only leaves records out. *)
LEMMA PopKeeps ==
    ASSUME NEW rrs \in Seq(FieldsOf("rr"))
    PROVE  PopEDNS0(rrs) \in Seq(FieldsOf("rr"))
<1>1. CASE OptsAt(rrs) = {}
  BY <1>1 DEF PopEDNS0
<1>2. CASE OptsAt(rrs) # {}
  <2> DEFINE F == FieldsOf("rr")
             n == Len(rrs)
             i == LastOpt(rrs)
             s == [rrs EXCEPT ![i] = rrs[n]]
             q == SubSeq(s, 1, n - 1)
  <2>1. i \in 1..n /\ n \in Nat
    <3>1. rrs \in Seq(Resources)
      BY DEF FieldsOf
    <3> QED BY <1>2, <3>1, LastOptIs
  <2>2. PopEDNS0(rrs) = q
    <3>1. Last(rrs) = rrs[n]
      BY DEF Last
    <3>2. Len(s) = n
      BY <2>1
    <3> QED BY <1>2, <3>1, <3>2 DEF PopEDNS0, Front
  <2> HIDE DEF i, F
  <2>3. s \in Seq(F) /\ Len(s) = n
    <3>1. rrs \in Seq(F)
      BY DEF F
    <3> QED BY <2>1, <3>1
  <2> HIDE DEF s
  <2>4. q \in Seq(F)
    BY <2>1, <2>3
  <2> QED BY <2>2, <2>4 DEF F
<1> QED BY <1>1, <1>2

(* A server's header and OPT record leave such a reply one, the OPT last.   *)
LEMMA PostProcessShaped ==
    ASSUME req \in Requests, NEW m, Shaped(m), OneOpt(m.additionals)
    PROVE  Shaped(PostProcess(m)) /\ OptLast(PostProcess(m))
<1> DEFINE popped == PopEDNS0(m.additionals)
           adds == IF HasEDNS0(req.m) THEN Append(popped, Opt) ELSE popped
           hdr == ReplyHeader(m.hdr)
           p == PostProcess(m)
           F == FieldsOf("rr")
<1>1. m \in MessageSet /\ p \in MessageSet
  BY PostProcessIs DEF Shaped
<1>2. popped \in Seq(F) /\ popped \in Seq(Resources) /\ OptsAt(popped) = {}
  <2>1. m.additionals \in Seq(Resources)
    BY <1>1 DEF MessageSet
  <2> QED BY <2>1, PopKeeps, PopEDNS0Is DEF Shaped
<1>3. p = [m EXCEPT !.hdr = hdr, !.additionals = adds]
  BY DEF PostProcess
<1> HIDE DEF p, hdr, popped
<1>4. adds \in Seq(F)
  BY <1>2, OptFits
<1>5. /\ p.additionals = adds /\ p.questions = m.questions /\ p.answers = m.answers
      /\ p.authorities = m.authorities
  <2> HIDE DEF adds
  <2> QED BY <1>1, <1>3 DEF MessageSet
<1>6. Shaped(p)
  <2> HIDE DEF adds
  <2> QED BY <1>1, <1>4, <1>5 DEF Shaped
<1>7. OptsAt(adds) \subseteq {Len(adds)}
  <2>1. CASE HasEDNS0(req.m)
    <3>1. adds = Append(popped, Opt)
      BY <2>1
    <3>2. OptsAt(Append(popped, Opt)) = {Len(popped) + 1}
      BY <1>2, OptIs, OptsAtAppend
    <3>3. Len(Append(popped, Opt)) = Len(popped) + 1
      BY <1>2
    <3> QED BY <3>1, <3>2, <3>3
  <2>2. CASE ~HasEDNS0(req.m)
    BY <1>2, <2>2
  <2> QED BY <2>1, <2>2
<1>8. OptLast(p)
  BY <1>5, <1>7 DEF OptLast
<1> QED BY <1>6, <1>8 DEF p

(* What is sent is what Msg.Pack made of the reply. *)
LEMMA FinalRespPacks ==
    ASSUME NEW m, Shaped(m), OptLast(m), NEW tcp \in BOOLEAN, NEW size \in Nat, FinalResp(m, tcp, size)
    PROVE  Shaped(resp)' /\ OptLast(resp)' /\ PackedAs(resp, sent.w, sent.cut)'
<1> DEFINE prefix == IF tcp THEN 2 ELSE 0
           limit == IF tcp THEN FrameMax ELSE size
           q == Pack(m, TRUE, prefix, limit)
<1>1. prefix \in Nat /\ limit \in Nat
  BY RepliesAssumption
<1>2. resp' = m /\ sent' = [w |-> q.w, len |-> q.len, cut |-> q.cut, framed |-> tcp]
  BY DEF FinalResp, SendPacked
<1>3. sent'.w = q.w /\ sent'.cut = q.cut
  <2> HIDE DEF q
  <2> QED BY <1>2
<1>4. PackedAs(m, sent'.w, sent'.cut)
  <2>1. q = Pack(m, TRUE, prefix, limit)
    OBVIOUS
  <2> HIDE DEF q, prefix, limit
  <2> QED BY <1>1, <1>3, <2>1 DEF PackedAs
<1>5. Shaped(resp)' /\ OptLast(resp)'
  BY <1>2 DEF Shaped, OptLast, OptsAt, MessageSet, Headers, FieldsOf
<1>6. PackedAs(resp, sent.w, sent.cut)'
  BY <1>2, <1>4 DEF PackedAs
<1> QED BY <1>5, <1>6

(* A query goes to the router with a question and no records. *)
LEMMA EmptyShaped ==
    ASSUME NEW m \in MessageSet, m.answers = <<>>, m.authorities = <<>>, m.additionals = <<>>
    PROVE  Shaped(m)
<1>1. m.questions \in Seq(FieldsOf("question"))
  BY DEF MessageSet, FieldsOf
<1> QED BY <1>1 DEF Shaped

(* At the start nothing has been replied. *)
LEMMA SurviveInit == ASSUME RepliesInit PROVE SurviveIInv
<1>1. status = "received"
  BY DEF RepliesInit
<1> QED BY <1>1, RepliesInitIInv DEF SurviveIInv

(* A server sends a reply with its OPT record last, packed. *)
LEMMA FinalRespSurvives ==
    ASSUME req \in Requests, NEW m, Shaped(m), OneOpt(m.additionals), NEW tcp \in BOOLEAN, NEW size \in Nat,
           FinalResp(PostProcess(m), tcp, size)
    PROVE  Shaped(resp)' /\ OptLast(resp)' /\ PackedAs(resp, sent.w, sent.cut)'
<1> DEFINE p == PostProcess(m)
<1>1. Shaped(p) /\ OptLast(p)
  BY PostProcessShaped
<1>2. FinalResp(p, tcp, size)
  OBVIOUS
<1> HIDE DEF p
<1> QED BY <1>1, <1>2, FinalRespPacks

(* A refusal is packed. *)
LEMMA RefuseSurvives ==
    ASSUME RepliesIInv, Refuse
    PROVE  Shaped(resp)' /\ OptLast(resp)' /\ PackedAs(resp, sent.w, sent.cut)'
<1> DEFINE m == [EmptyMsg EXCEPT !.hdr.rcode = "refused", !.questions = FirstQuestion(req.m)]
           yes == TRUE
           none == 0
<1>1. req \in Requests /\ FinalResp(PostProcess(m), yes, none) /\ yes \in BOOLEAN /\ none \in Nat
  BY DEF RepliesIInv, Refuse
<1>2. FirstQuestion(req.m) \in Seq(NameSet) /\ "refused" \in RCodes
  BY <1>1, FirstQuestionIs DEF RCodes
<1>3. m \in MessageSet
  BY <1>2, EmptyMsgIs
<1>4. m.answers = <<>> /\ m.authorities = <<>> /\ m.additionals = <<>>
  BY DEF EmptyMsg
<1> HIDE DEF m, yes, none
<1>5. Shaped(m)
  BY <1>3, <1>4, EmptyShaped
<1>6. OneOpt(m.additionals)
  BY <1>4 DEF OneOpt, OptsAt
<1> QED BY <1>1, <1>5, <1>6, FinalRespSurvives

(* So is the router's answer. *)
LEMMA SendSurvives ==
    ASSUME SurviveIInv, Send
    PROVE  Shaped(resp)' /\ OptLast(resp)' /\ PackedAs(resp, sent.w, sent.cut)'
<1> DEFINE tcp == front.proto \in {"tcp", "quic"}
           size == IF front.proto = "udp" THEN CalUdpSize ELSE MaxEdns0Size
<1>1. req \in Requests /\ status = "given" /\ FinalResp(PostProcess(resp), tcp, size)
  BY DEF SurviveIInv, RepliesIInv, Send
<1>2. Shaped(resp) /\ OneOpt(resp.additionals)
  BY <1>1 DEF SurviveIInv, RepliesIInv
<1>3. tcp \in BOOLEAN /\ size \in Nat
  BY <1>1, CalUdpSizeIs, RepliesAssumption
<1> HIDE DEF tcp, size
<1> QED BY <1>1, <1>2, <1>3, FinalRespSurvives

(* A record of the router's answer has the parts of its type. *)
LEMMA GiveShaped ==
    ASSUME SurviveIInv, NEW g \in Given, Give(g)
    PROVE  Shaped(resp)'
<1> DEFINE F == FieldsOf("rr")
           x == g.rr
<1>1. status = "given" /\ Shaped(resp) /\ resp' = [resp EXCEPT ![g.section] = Append(@, x)]
  BY DEF SurviveIInv, Give
<1>2. g.section \in {"answers", "authorities", "additionals"} /\ x \in Resources /\ Bodied(x)
  BY RepliesAssumption
<1>3. x \in F
  BY <1>2 DEF FieldsOf
<1> DEFINE y == resp'
<1>4. resp \in MessageSet /\ y \in MessageSet
  <2>1. RepliesIInv'
    BY GiveIInv DEF SurviveIInv
  <2> QED BY <1>1, <2>1 DEF Shaped, RepliesIInv
<1>5. /\ resp.questions \in Seq(FieldsOf("question")) /\ resp.answers \in Seq(F)
      /\ resp.authorities \in Seq(F) /\ resp.additionals \in Seq(F)
  BY <1>1 DEF Shaped
<1> HIDE DEF F, x
<1>6. y.questions = resp.questions /\ y.answers \in Seq(F) /\ y.authorities \in Seq(F) /\ y.additionals \in Seq(F)
  <2>1. /\ y.questions = resp.questions
        /\ y.answers = IF g.section = "answers" THEN Append(resp.answers, x) ELSE resp.answers
        /\ y.authorities = IF g.section = "authorities" THEN Append(resp.authorities, x) ELSE resp.authorities
        /\ y.additionals = IF g.section = "additionals" THEN Append(resp.additionals, x) ELSE resp.additionals
    BY <1>1, <1>2, <1>4 DEF MessageSet
  <2> HIDE DEF y
  <2>2. Append(resp.answers, x) \in Seq(F) /\ Append(resp.authorities, x) \in Seq(F)
        /\ Append(resp.additionals, x) \in Seq(F)
    BY <1>3, <1>5
  <2> QED BY <1>5, <2>1, <2>2
<1> HIDE DEF y
<1>7. Shaped(y)
  BY <1>4, <1>5, <1>6 DEF Shaped, F
<1> QED BY <1>7 DEF y, Shaped, MessageSet, FieldsOf

(* Every step of the servers keeps the invariant. *)
LEMMA SurviveStepIInv == ASSUME SurviveIInv, RepliesStep \/ UNCHANGED replyVars PROVE SurviveIInv'
<1>1. RepliesIInv /\ RepliesIInv'
  BY RepliesStepIInv DEF SurviveIInv
<1>2. CASE HttpRefuses
  <2>1. status' \notin {"received", "given", "packed", "dropped"}
    BY <1>1, <1>2, HttpErrorIs DEF HttpRefuses, RepliesIInv
  <2> QED BY <1>1, <2>1 DEF SurviveIInv
<1>3. CASE DropQuery
  BY <1>1, <1>3 DEF DropQuery, SurviveIInv
<1>4. CASE Dispatch
  <2>1. PICK qs \in {req.m.questions} \cup OtherQuestions :
           status' = "given" /\ resp' = [EmptyMsg EXCEPT !.questions = qs]
    BY <1>4 DEF Dispatch
  <2> DEFINE y == resp'
  <2>2. y \in MessageSet
    BY <1>1 DEF RepliesIInv
  <2>3. y.answers = <<>> /\ y.authorities = <<>> /\ y.additionals = <<>>
    BY <2>1 DEF EmptyMsg
  <2> HIDE DEF y
  <2>4. Shaped(y)
    BY <2>2, <2>3, EmptyShaped
  <2>5. Shaped(resp)'
    BY <2>4 DEF y, Shaped, MessageSet, FieldsOf
  <2> QED BY <1>1, <2>1, <2>5 DEF SurviveIInv
<1>5. CASE Refuse
  BY <1>1, <1>5, RefuseSurvives DEF SurviveIInv
<1>6. CASE Send
  BY <1>1, <1>6, SendSurvives DEF SurviveIInv
<1>7. ASSUME NEW g \in Given, Give(g) PROVE SurviveIInv'
  <2>1. status' = "given"
    BY <1>7 DEF Give
  <2> QED BY <1>1, <1>7, <2>1, GiveShaped DEF SurviveIInv
<1>8. CASE UNCHANGED replyVars
  <2>1. resp' = resp /\ sent' = sent /\ status' = status
    BY <1>8 DEF replyVars
  <2>2. status \in {"given", "packed"} => Shaped(resp)'
    BY <2>1 DEF SurviveIInv, Shaped, MessageSet, FieldsOf
  <2>3. status = "packed" => OptLast(resp)' /\ PackedAs(resp, sent.w, sent.cut)'
    BY <2>1 DEF SurviveIInv, OptLast, OptsAt, PackedAs
  <2> QED BY <1>1, <2>1, <2>2, <2>3 DEF SurviveIInv
<1> QED BY <1>2, <1>3, <1>4, <1>5, <1>6, <1>7, <1>8 DEF RepliesStep

(* The invariant says that messages survive being packed. *)
LEMMA SurviveIInvSays == ASSUME SurviveIInv PROVE MessagesSurvive
<1>0. LengthsHold
  BY RepliesIInvLengths DEF SurviveIInv
<1> SUFFICES ASSUME status = "packed"
             PROVE  LET plain == Pack(resp, FALSE, 0, 0)
                    IN  /\ ~sent.cut => Unpack(sent.w) = IF Readable(resp, sent.w) THEN {resp} ELSE {}
                        /\ Unpack(plain.w) = IF Readable(resp, plain.w) THEN {resp} ELSE {}
                        /\ LengthsHold
  BY DEF MessagesSurvive
<1>1. Shaped(resp) /\ OptsAt(resp.additionals) \subseteq {Len(resp.additionals)}
      /\ PackedAs(resp, sent.w, sent.cut)
  BY DEF SurviveIInv, OptLast
<1>2. ASSUME ~sent.cut PROVE Unpack(sent.w) = IF Readable(resp, sent.w) THEN {resp} ELSE {}
  <2> DEFINE yes == TRUE
  <2>1. PICK prefix \in Nat, size \in Nat :
           \E q : q = Pack(resp, yes, prefix, size) /\ sent.w = q.w /\ sent.cut = q.cut
    BY <1>1 DEF PackedAs
  <2>2. PICK q : q = Pack(resp, yes, prefix, size) /\ sent.w = q.w /\ sent.cut = q.cut
    BY <2>1
  <2>3. yes \in BOOLEAN
    OBVIOUS
  <2> HIDE DEF yes
  <2>4. Unpack(q.w) = IF Readable(resp, q.w) THEN {resp} ELSE {}
    BY <1>1, <1>2, <2>2, <2>3, PackUnpacks
  <2> QED BY <2>2, <2>4
<1> DEFINE no == FALSE
           none == 0
           plain == Pack(resp, no, none, none)
<1>3. Unpack(plain.w) = IF Readable(resp, plain.w) THEN {resp} ELSE {}
  <2>1. no \in BOOLEAN /\ none \in Nat /\ none = 0 /\ plain = Pack(resp, no, none, none)
    OBVIOUS
  <2> HIDE DEF no, none, plain
  <2> QED BY <1>1, <2>1, PackUnpacks
<1> QED BY <1>0, <1>2, <1>3

=============================================================================
