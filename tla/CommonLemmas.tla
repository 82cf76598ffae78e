---------------------------- MODULE CommonLemmas ----------------------------
(***************************************************************************)
(* Facts that the proofs about several components rest on: least and       *)
(* greatest elements, descent, sets in order, powers of two, quotients.    *)
(***************************************************************************)
EXTENDS Integers, Sequences, SequencesExt, FiniteSets, FiniteSetsExt, AddressOrder,
        SequenceTheorems, FiniteSetTheorems, TLAPS

\* Numbers that each come with the one before are none.
LEMMA Descent ==
  ASSUME NEW T \in SUBSET Nat, \A k \in T : k - 1 \in T
  PROVE  T = {}
<1> SUFFICES ASSUME NEW m \in T
             PROVE  FALSE
  OBVIOUS
<1> DEFINE U == {k \in T : k <= m}  f == [k \in U |-> k - 1]
<1>1. /\ m \in U /\ U \in SUBSET Nat /\ m \in Nat
      /\ \A k \in U : k \in Nat /\ k <= m /\ k - 1 \in U /\ k - 1 # m
  <2>1. m \in U /\ U \in SUBSET Nat /\ m \in Nat
    <3>1. m \in Nat /\ m <= m
      OBVIOUS
    <3>2. QED BY <3>1
  <2>2. ASSUME NEW k \in U
        PROVE  k \in Nat /\ k <= m /\ k - 1 \in U /\ k - 1 # m
    <3>1. k \in T /\ k \in Nat /\ k <= m /\ k - 1 \in T
      OBVIOUS
    <3>2. k - 1 <= m /\ k - 1 # m
      BY <2>1, <3>1
    <3>3. QED BY <3>1, <3>2
  <2>3. QED BY <2>1, <2>2
<1> HIDE DEF U
<1>2. IsFiniteSet(U)
  BY <1>1, FS_BoundedSetOfNaturals
<1>3. IsFiniteSet(U \ {m}) /\ Cardinality(U \ {m}) = Cardinality(U) - 1 /\ Cardinality(U) \in Nat
  BY <1>1, <1>2, FS_RemoveElement, FS_CardinalityType
<1>4. f \in Injection(U, U \ {m})
  <2>1. f \in [U -> U \ {m}]
    BY <1>1
  <2>2. \A j, k \in U : f[j] = f[k] => j = k
    BY <1>1
  <2> HIDE DEF f
  <2>3. QED BY <2>1, <2>2 DEF Injection, IsInjective
<1> HIDE DEF f
<1>5. Cardinality(U) <= Cardinality(U \ {m})
  BY <1>3, <1>4, FS_Injection
<1>6. QED BY <1>3, <1>5

\* Of some numbers one is the smallest.
LEMMA SmallestOf ==
  ASSUME NEW S \in SUBSET Nat, S # {}
  PROVE  \E x \in S : \A y \in S : x <= y
<1> SUFFICES ASSUME \A x \in S : \E y \in S : y < x
             PROVE  FALSE
  OBVIOUS
<1> DEFINE T == {k \in Nat : \E s \in S : s <= k}
<1>1. ASSUME NEW k \in T
      PROVE  k - 1 \in T
  <2>1. PICK s \in S : k \in Nat /\ s <= k
    OBVIOUS
  <2>2. PICK r \in S : r < s
    OBVIOUS
  <2>3. r \in Nat /\ s \in Nat /\ r <= k - 1
    BY <2>1, <2>2
  <2>4. k - 1 \in Nat
    BY <2>1, <2>3
  <2>5. QED BY <2>3, <2>4
<1>2. T = {}
  <2>1. T \in SUBSET Nat
    OBVIOUS
  <2> HIDE DEF T
  <2>2. QED BY <1>1, <2>1, Descent
<1>3. PICK s \in S : TRUE
  OBVIOUS
<1>4. s \in T
  OBVIOUS
<1>5. QED BY <1>2, <1>4

LEMMA MinOf ==
  ASSUME NEW S \in SUBSET Nat, S # {}
  PROVE  Min(S) \in S /\ \A y \in S : Min(S) <= y
BY SmallestOf DEF Min

LEMMA MaxOf ==
  ASSUME NEW n \in Nat, NEW S \in SUBSET (0 .. n), S # {}
  PROVE  Max(S) \in S /\ \A y \in S : y <= Max(S)
<1> DEFINE T == {k \in 0 .. n : n - k \in S}
<1>1. T \in SUBSET Nat /\ \A s \in S : n - s \in T
  OBVIOUS
<1>2. T # {}
  BY <1>1
<1> HIDE DEF T
<1>3. PICK t \in T : \A y \in T : t <= y
  BY <1>1, <1>2, SmallestOf
<1>4. n - t \in S /\ t \in 0 .. n
  BY <1>3 DEF T
<1>5. \A s \in S : n - t >= s
  BY <1>1, <1>3, <1>4
<1>6. \E x \in S : \A y \in S : x >= y
  BY <1>4, <1>5
<1>7. Max(S) \in S /\ \A y \in S : Max(S) >= y
  BY <1>6 DEF Max
<1>8. QED BY <1>7

\* The elements of a sequence without the one at p.

\* The elements of a set from the lowest to the highest, each once.
LEMMA InAddressOrderIs ==
  ASSUME NEW S \in SUBSET Nat, IsFiniteSet(S)
  PROVE  LET f == InAddressOrder(S)
         IN  f \in Seq(S) /\ IsInjective(f) /\ Range(f) = S
<1> DEFINE n == Cardinality(S)  Upto(x) == {y \in S : y <= x}  f == InAddressOrder(S)
           r == [x \in S |-> Cardinality(Upto(x))]
<1>1. S \in SUBSET Nat /\ \A x \in S : x \in Nat
  OBVIOUS
<1>2. IsFiniteSet(S) /\ n \in Nat
  BY FS_CardinalityType
<1>3. ASSUME NEW x \in S
      PROVE  IsFiniteSet(Upto(x)) /\ Cardinality(Upto(x)) \in 1 .. n
  <2>1. Upto(x) \in SUBSET S /\ x \in Upto(x)
    BY <1>1
  <2> HIDE DEF Upto
  <2>2. IsFiniteSet(Upto(x)) /\ Cardinality(Upto(x)) <= n
    BY <1>2, <2>1, FS_Subset
  <2>3. Cardinality(Upto(x)) \in Nat /\ Cardinality(Upto(x)) # 0
    BY <2>1, <2>2, FS_CardinalityType, FS_EmptySet
  <2>4. QED BY <1>2, <2>2, <2>3
<1>4. ASSUME NEW x \in S, NEW y \in S, x < y, Cardinality(Upto(x)) = Cardinality(Upto(y))
      PROVE  FALSE
  <2>1. Upto(x) \in SUBSET Upto(y) /\ y \in Upto(y) /\ y \notin Upto(x)
    <3>1. x \in Nat /\ y \in Nat /\ ~(y <= x)
      BY <1>1, <1>4
    <3>2. \A z \in S : z <= x => z <= y
      BY <1>1, <1>4, <3>1
    <3>3. y \in Upto(y)
      <4>1. y <= y
        BY <3>1
      <4>2. QED BY <4>1
    <3>4. y \notin Upto(x)
      BY <3>1
    <3>5. Upto(x) \in SUBSET Upto(y)
      BY <3>2
    <3> HIDE DEF Upto
    <3>6. QED BY <3>3, <3>4, <3>5
  <2> HIDE DEF Upto
  <2>2. Upto(y) = Upto(x)
    BY <1>3, <1>4, <2>1, FS_Subset
  <2>3. QED BY <2>1, <2>2
<1>5. r \in Injection(S, 1 .. n)
  <2>1. r \in [S -> 1 .. n]
    <3> HIDE DEF Upto, n
    <3>1. QED BY <1>3
  <2>2. \A x, y \in S : r[x] = r[y] => x = y
    <3> SUFFICES ASSUME NEW x \in S, NEW y \in S, r[x] = r[y]
                 PROVE  x = y
      OBVIOUS
    <3>1. Cardinality(Upto(x)) = Cardinality(Upto(y))
      OBVIOUS
    <3>2. ~(x < y) /\ ~(y < x)
      <4> HIDE DEF Upto, r
      <4>1. QED BY <1>4, <3>1
    <3>3. QED BY <1>1, <3>2
  <2> HIDE DEF r
  <2>3. QED BY <2>1, <2>2 DEF Injection, IsInjective
<1>6. \A k \in 1 .. n : \E x \in S : r[x] = k
  <2>1. IsFiniteSet(1 .. n) /\ Cardinality(1 .. n) = n
    BY <1>2, FS_Interval
  <2> HIDE DEF r
  <2>2. r \in Surjection(S, 1 .. n)
    BY <1>5, <2>1, FS_Injection
  <2>3. QED BY <2>2 DEF Surjection
<1>7. f = [k \in 1 .. n |-> CHOOSE x \in S : Cardinality(Upto(x)) = k]
  BY DEF InAddressOrder
<1>8. \A k \in 1 .. n : f[k] \in S /\ r[f[k]] = k
  <2> SUFFICES ASSUME NEW k \in 1 .. n
               PROVE  f[k] \in S /\ r[f[k]] = k
    OBVIOUS
  <2> HIDE DEF Upto, n, f
  <2>1. f[k] = CHOOSE x \in S : Cardinality(Upto(x)) = k
    BY <1>7
  <2>2. \E x \in S : Cardinality(Upto(x)) = k
    BY <1>6
  <2>3. f[k] \in S /\ Cardinality(Upto(f[k])) = k
    BY <2>1, <2>2
  <2>4. QED BY <2>3
<1> HIDE DEF f
<1>9. f \in Seq(S) /\ DOMAIN f = 1 .. n /\ Len(f) = n
  <2>1. f \in [1 .. n -> S]
    BY <1>7, <1>8
  <2> HIDE DEF n
  <2>2. QED BY <1>2, <2>1
<1>10. IsInjective(f)
  <2>1. \A j, k \in 1 .. n : f[j] = f[k] => j = k
    <3> HIDE DEF r
    <3>1. QED BY <1>8
  <2>2. QED BY <1>9, <2>1 DEF IsInjective
<1>11. ASSUME NEW x \in S
       PROVE  x \in Range(f)
  <2>1. r[x] \in 1 .. n /\ r[f[r[x]]] = r[x] /\ f[r[x]] \in S
    BY <1>3, <1>8
  <2> HIDE DEF r
  <2>2. f[r[x]] = x
    BY <1>5, <2>1 DEF Injection, IsInjective
  <2>3. QED BY <1>9, <2>1, <2>2 DEF Range
<1>12. Range(f) \subseteq S
  BY <1>8, <1>9 DEF Range
<1>13. QED BY <1>9, <1>10, <1>11, <1>12 DEF f

-----------------------------------------------------------------------------
(* Arithmetic.                                                             *)

\* A power of two is a natural number, and no power is 0.
LEMMA PowerIs ==
  ASSUME NEW n \in Nat
  PROVE  2^n \in Nat /\ 2^n >= 1
<1> DEFINE S == 1 .. n
<1>1. IsFiniteSet(S) /\ Cardinality(S) = n
  BY FS_Interval
<1> HIDE DEF S
<1>2. IsFiniteSet(SUBSET S) /\ Cardinality(SUBSET S) = 2^n
  BY <1>1, FS_SUBSET
<1>3. 2^n \in Nat
  BY <1>2, FS_CardinalityType
<1>4. 2^n # 0
  <2>1. {} \in SUBSET S
    OBVIOUS
  <2>2. QED BY <1>2, <2>1, FS_EmptySet
<1>5. QED BY <1>3, <1>4


\* How often p goes into a number, and what it leaves over.
LEMMA Quotient ==
  ASSUME NEW p \in Nat \ {0}, NEW n \in Int
  PROVE  n \div p \in Int /\ n % p \in 0 .. p - 1 /\ n = (n \div p) * p + (n % p) /\ (n >= 0 => n \div p \in Nat)
<1>1. n \div p \in Int
  OBVIOUS
<1>2. n % p \in 0 .. p - 1
  OBVIOUS
<1>3. n = (n \div p) * p + (n % p)
  OBVIOUS
<1>4. n >= 0 => n \div p \in Nat
  OBVIOUS
<1>5. QED BY <1>1, <1>2, <1>3, <1>4

LEMMA QuotientIs ==
  ASSUME NEW p \in Nat \ {0}, NEW q \in Nat, NEW r \in 0 .. p - 1
  PROVE  (q * p + r) \div p = q /\ (q * p + r) % p = r
<1> DEFINE n == q * p + r  d == n \div p  s == n % p
<1>1. n \in Nat
  OBVIOUS
<1>2. d \in Int /\ s \in 0 .. p - 1 /\ n = d * p + s
  <2> HIDE DEF n
  <2>1. QED BY <1>1, Quotient
<1>3. q * p + r = d * p + s
  BY <1>2
<1> HIDE DEF n, d, s
<1>4. ASSUME NEW a \in Int, NEW b \in Int, NEW u \in 0 .. p - 1, NEW v \in 0 .. p - 1, a < b,
             a * p + u = b * p + v
      PROVE  FALSE
  <2>1. b - a - 1 \in Nat /\ b = a + 1 + (b - a - 1)
    BY <1>4
  <2>2. PICK c \in Nat : b = a + 1 + c
    BY <2>1
  <2>3. b * p = a * p + p + c * p
    BY <2>2
  <2>4. c * p \in Nat /\ a * p \in Int
    OBVIOUS
  <2>5. QED BY <1>4, <2>3, <2>4
<1>5. ~(q < d) /\ ~(d < q)
  BY <1>2, <1>3, <1>4
<1>6. q = d
  BY <1>2, <1>5
<1>7. q * p \in Nat
  OBVIOUS
<1>8. r = s
  BY <1>2, <1>3, <1>6, <1>7
<1>9. QED BY <1>6, <1>8 DEF n, d, s

-----------------------------------------------------------------------------
(* The identity map (kernel/src/mmu.c).                                    *)
=============================================================================
