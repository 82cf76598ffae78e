---------------------------- MODULE AllocProofs -----------------------------
(***************************************************************************)
(* Proofs about the allocators: the objects of one size and the pages.     *)
(***************************************************************************)
EXTENDS Slab, PgMgr, CommonLemmas

\* The elements of a sequence without the one at p.
LEMMA RemoveAtIs ==
  ASSUME NEW S, NEW l \in Seq(S), NEW p \in 1 .. Len(l)
  PROVE  /\ RemoveAt(l, p) \in Seq(S) /\ Len(RemoveAt(l, p)) = Len(l) - 1
         /\ \A k \in 1 .. Len(l) - 1 : RemoveAt(l, p)[k] = l[IF k < p THEN k ELSE k + 1]
<1> DEFINE n == Len(l)  u == RemoveAt(l, p)  old(k) == IF k < p THEN k ELSE k + 1
<1>1. n \in Nat /\ DOMAIN l = 1 .. n /\ (\A k \in 1 .. n : l[k] \in S) /\ p \in 1 .. n
  OBVIOUS
<1> DEFINE a == SubSeq(l, 1, p - 1)  b == SubSeq(l, p + 1, n)
<1>2. a \in Seq(S) /\ Len(a) = p - 1 /\ \A k \in 1 .. p - 1 : a[k] = l[k]
  BY <1>1
<1>3. b \in Seq(S) /\ Len(b) = n - p /\ \A k \in 1 .. n - p : b[k] = l[p + k]
  <2>1. p + 1 \in Int /\ n \in Int /\ p \in Int /\ \A i \in p + 1 .. n : l[i] \in S
    BY <1>1
  <2>2. /\ b \in Seq(S)
        /\ Len(b) = IF p + 1 <= n THEN n - (p + 1) + 1 ELSE 0
        /\ \A i \in 1 .. n - (p + 1) + 1 : b[i] = l[(p + 1) + i - 1]
    <3> HIDE DEF n
    <3>1. QED BY <2>1, SubSeqProperties
  <2> HIDE DEF b, n
  <2>3. Len(b) = n - p
    BY <1>1, <2>1, <2>2
  <2>4. ASSUME NEW k \in 1 .. n - p
        PROVE  b[k] = l[p + k]
    <3>1. k \in 1 .. n - (p + 1) + 1 /\ (p + 1) + k - 1 = p + k
      BY <2>1
    <3>2. QED BY <2>2, <3>1
  <2>5. QED BY <2>2, <2>3, <2>4
<1>4. u = a \o b
  BY DEF RemoveAt
<1> HIDE DEF a, b
<1>5. /\ u \in Seq(S) /\ Len(u) = n - 1
      /\ \A k \in 1 .. n - 1 : u[k] = IF k <= p - 1 THEN a[k] ELSE b[k - (p - 1)]
  <2>1. Len(a \o b) = Len(a) + Len(b) /\ a \o b \in Seq(S)
    BY <1>2, <1>3, ConcatProperties
  <2>2. Len(a) + Len(b) = n - 1
    BY <1>1, <1>2, <1>3
  <2>3. \A k \in 1 .. Len(a) + Len(b) : (a \o b)[k] = IF k <= Len(a) THEN a[k] ELSE b[k - Len(a)]
    BY <1>2, <1>3, ConcatProperties
  <2>4. QED BY <1>2, <1>4, <2>1, <2>2, <2>3
<1>6. ASSUME NEW k \in 1 .. n - 1
      PROVE  u[k] = l[old(k)]
  <2>1. CASE k < p
    BY <1>1, <1>2, <1>5, <2>1
  <2>2. CASE ~(k < p)
    <3>1. k - (p - 1) \in 1 .. n - p /\ p + (k - (p - 1)) = k + 1
      BY <1>1, <2>2
    <3>2. QED BY <1>1, <1>3, <1>5, <2>2, <3>1
  <2>3. QED BY <2>1, <2>2
<1>7. QED BY <1>5, <1>6

-----------------------------------------------------------------------------
(* lib/libslab/slab.c: objects of one size.                                *)

\* A list of pages without repetitions, and one where none follows one of F
\* that is not of F itself.
PageLists == {l \in Seq(SlabPages) : IsInjective(l)}
InOrder(l, F) == \A a, b \in 1 .. Len(l) : a < b /\ l[a] \in F => l[b] \in F

\* The pages with no object left.
FullPages == {s \in SlabPages : slab[s].used_cnt = ObjN}

SlabRecords ==
  [used_cnt : 0 .. ObjN, first_free : Idx \cup {-1}, free_list : [Idx -> Idx], data : Nat]

\* The n objects not in L, in the order of the free list.
FreeChain(sl, L, n, q) ==
  /\ \A j, k \in 1 .. n : q[j] = q[k] => j = k
  /\ \A i \in Idx : i \notin L <=> \E k \in 1 .. n : q[k] = i
  /\ IF n = 0 THEN sl.first_free = -1 ELSE sl.first_free = q[1]
  /\ \A k \in 1 .. n - 1 : sl.free_list[q[k]] = q[k + 1]
  /\ n # 0 => sl.free_list[q[n]] = q[n]

\* A page knows how many of its objects, L, are handed out, and which are not;
\* its objects begin behind its free list.
PageSound(sl, L) ==
  /\ sl.used_cnt = Cardinality(L) /\ sl.data >= HdrSize + ObjN
  /\ \E q \in [1 .. ObjN - sl.used_cnt -> Idx] : FreeChain(sl, L, ObjN - sl.used_cnt, q)

SlabInv ==
  /\ slabs \in PageLists /\ empty_slabs \in PageLists
  /\ slab \in [SlabPages -> SlabRecords] /\ live \in [SlabPages -> SUBSET Idx]
  /\ InOrder(slabs, FullPages)
  /\ Range(slabs) \cap Range(empty_slabs) = {}
  /\ \A s \in SlabPages : live[s] # {} <=> s \in Range(slabs)
  /\ \A s \in Range(slabs) \cup Range(empty_slabs) : PageSound(slab[s], live[s])

\* The layout drawn in slab_alloc_init: the paddings leave room for the header.
ObjectsBehindList == \A p \in Paddings : HdrSize <= p

-----------------------------------------------------------------------------
(* Lists of pages.                                                         *)

LEMMA ListOf ==
  ASSUME NEW l \in PageLists
  PROVE  /\ l \in Seq(SlabPages) /\ Len(l) \in Nat /\ DOMAIN l = 1 .. Len(l)
         /\ \A k \in 1 .. Len(l) : l[k] \in SlabPages /\ l[k] \in Range(l)
         /\ \A s \in Range(l) : s \in SlabPages /\ \E k \in 1 .. Len(l) : l[k] = s
         /\ \A j, k \in 1 .. Len(l) : l[j] = l[k] => j = k
         /\ l # <<>> => Head(l) = l[1] /\ 1 \in 1 .. Len(l) /\ Head(l) \in Range(l)
<1>1. l \in Seq(SlabPages) /\ IsInjective(l) /\ DOMAIN l = 1 .. Len(l) /\ Len(l) \in Nat
  BY DEF PageLists
<1>2. /\ \A k \in 1 .. Len(l) : l[k] \in SlabPages /\ l[k] \in Range(l)
      /\ \A s \in Range(l) : s \in SlabPages /\ \E k \in 1 .. Len(l) : l[k] = s
  BY <1>1 DEF Range
<1>3. \A j, k \in 1 .. Len(l) : l[j] = l[k] => j = k
  BY <1>1 DEF IsInjective
<1>4. l # <<>> => Head(l) = l[1] /\ 1 \in 1 .. Len(l)
  BY <1>1, EmptySeq
<1>5. QED BY <1>1, <1>2, <1>3, <1>4

LEMMA ListFrom ==
  ASSUME NEW l \in Seq(SlabPages), \A j, k \in 1 .. Len(l) : l[j] = l[k] => j = k
  PROVE  l \in PageLists
BY DEF PageLists, IsInjective

\* DL_PREPEND2
LEMMA ListPrepend ==
  ASSUME NEW l \in PageLists, NEW s \in SlabPages, s \notin Range(l), NEW F, s \notin F, InOrder(l, F)
  PROVE  /\ <<s>> \o l \in PageLists /\ Range(<<s>> \o l) = Range(l) \cup {s} /\ InOrder(<<s>> \o l, F)
         /\ Head(<<s>> \o l) = s /\ Tail(<<s>> \o l) = l /\ <<s>> \o l # <<>>
<1> DEFINE m == <<s>> \o l
<1>1. /\ l \in Seq(SlabPages) /\ Len(l) \in Nat
      /\ \A k \in 1 .. Len(l) : l[k] \in SlabPages /\ l[k] \in Range(l)
      /\ \A r \in Range(l) : r \in SlabPages /\ \E k \in 1 .. Len(l) : l[k] = r
      /\ \A j, k \in 1 .. Len(l) : l[j] = l[k] => j = k
  BY ListOf
<1>2. /\ m \in Seq(SlabPages) /\ Len(m) = Len(l) + 1 /\ m[1] = s
      /\ \A k \in 2 .. Len(m) : m[k] = l[k - 1] /\ k - 1 \in 1 .. Len(l)
      /\ \A k \in 1 .. Len(l) : m[k + 1] = l[k] /\ k + 1 \in 1 .. Len(m)
  BY <1>1
<1>3. Head(m) = s /\ Tail(m) = l /\ m # <<>>
  BY <1>1
<1> HIDE DEF m
<1>4. \A j, k \in 1 .. Len(m) : m[j] = m[k] => j = k
  <2> SUFFICES ASSUME NEW j \in 1 .. Len(m), NEW k \in 1 .. Len(m), m[j] = m[k], j # 1 \/ k # 1
               PROVE  j = k
    OBVIOUS
  <2>1. CASE j # 1 /\ k # 1
    <3>1. j \in 2 .. Len(m) /\ k \in 2 .. Len(m)
      BY <1>1, <1>2, <2>1
    <3>2. j - 1 = k - 1
      BY <1>1, <1>2, <3>1
    <3>3. QED BY <3>1, <3>2
  <2>2. CASE j = 1
    <3>1. k \in 2 .. Len(m)
      BY <1>1, <1>2, <2>2
    <3>2. QED BY <1>1, <1>2, <2>2, <3>1
  <2>3. CASE k = 1
    <3>1. j \in 2 .. Len(m)
      BY <1>1, <1>2, <2>3
    <3>2. QED BY <1>1, <1>2, <2>3, <3>1
  <2>4. QED BY <2>1, <2>2, <2>3
<1>5. m \in PageLists
  BY <1>2, <1>4, ListFrom
<1>6. Range(m) = Range(l) \cup {s}
  <2>1. ASSUME NEW r \in Range(m)
        PROVE  r \in Range(l) \cup {s}
    <3>1. PICK k \in 1 .. Len(m) : m[k] = r
      BY <1>5, ListOf
    <3>2. CASE k = 1
      BY <1>2, <3>1, <3>2
    <3>3. CASE k # 1
      <4>1. k \in 2 .. Len(m)
        BY <1>1, <1>2, <3>1, <3>3
      <4>2. QED BY <1>1, <1>2, <3>1, <4>1
    <3>4. QED BY <3>2, <3>3
  <2>2. 1 \in 1 .. Len(m)
    BY <1>1, <1>2
  <2>3. \A k \in 1 .. Len(m) : m[k] \in Range(m)
    BY <1>5, ListOf
  <2>4. ASSUME NEW r \in Range(l)
        PROVE  r \in Range(m)
    <3>1. PICK k \in 1 .. Len(l) : l[k] = r
      BY <1>1
    <3>2. m[k + 1] = r /\ k + 1 \in 1 .. Len(m)
      BY <1>2, <3>1
    <3>3. QED BY <2>3, <3>2
  <2>5. QED BY <1>2, <2>1, <2>2, <2>3, <2>4
<1>7. InOrder(m, F)
  <2> SUFFICES ASSUME NEW a \in 1 .. Len(m), NEW b \in 1 .. Len(m), a < b, m[a] \in F
               PROVE  m[b] \in F
    BY DEF InOrder
  <2>1. a # 1
    BY <1>2
  <2>2. a \in 2 .. Len(m) /\ b \in 2 .. Len(m)
    BY <1>1, <1>2, <2>1
  <2>3. m[a] = l[a - 1] /\ m[b] = l[b - 1] /\ a - 1 \in 1 .. Len(l) /\ b - 1 \in 1 .. Len(l) /\ a - 1 < b - 1
    BY <1>2, <2>2
  <2>4. QED BY <2>3 DEF InOrder
<1>8. QED BY <1>3, <1>5, <1>6, <1>7 DEF m

\* DL_DELETE2 of the first page.
LEMMA ListTail ==
  ASSUME NEW l \in PageLists, l # <<>>, NEW F, InOrder(l, F)
  PROVE  /\ Tail(l) \in PageLists /\ Range(Tail(l)) = Range(l) \ {Head(l)} /\ InOrder(Tail(l), F)
         /\ l = <<Head(l)>> \o Tail(l)
         /\ Head(l) \in F => \A s \in Range(l) : s \in F
<1> DEFINE t == Tail(l)
<1>1. /\ l \in Seq(SlabPages) /\ Len(l) \in Nat
      /\ \A k \in 1 .. Len(l) : l[k] \in SlabPages /\ l[k] \in Range(l)
      /\ \A r \in Range(l) : r \in SlabPages /\ \E k \in 1 .. Len(l) : l[k] = r
      /\ \A j, k \in 1 .. Len(l) : l[j] = l[k] => j = k
      /\ Head(l) = l[1] /\ 1 \in 1 .. Len(l)
  BY ListOf
<1>2. t \in Seq(SlabPages) /\ Len(t) = Len(l) - 1
  BY <1>1
<1>3. \A k \in 1 .. Len(t) : t[k] = l[k + 1]
  BY <1>1
<1>4. l = <<Head(l)>> \o t
  BY <1>1
<1> HIDE DEF t
<1>5. \A k \in 1 .. Len(t) : k + 1 \in 1 .. Len(l) /\ k + 1 # 1 /\ t[k] = l[k + 1]
  BY <1>1, <1>2, <1>3
<1>6. \A k \in 1 .. Len(l) : k # 1 => k - 1 \in 1 .. Len(t) /\ t[k - 1] = l[k]
  <2> SUFFICES ASSUME NEW k \in 1 .. Len(l), k # 1
               PROVE  k - 1 \in 1 .. Len(t) /\ t[k - 1] = l[k]
    OBVIOUS
  <2>1. k - 1 \in 1 .. Len(t) /\ (k - 1) + 1 = k
    BY <1>1, <1>2
  <2>2. QED BY <1>3, <2>1
<1>7. \A j, k \in 1 .. Len(t) : t[j] = t[k] => j = k
  <2> SUFFICES ASSUME NEW j \in 1 .. Len(t), NEW k \in 1 .. Len(t), t[j] = t[k]
               PROVE  j = k
    OBVIOUS
  <2>1. j + 1 = k + 1
    BY <1>1, <1>5
  <2>2. QED BY <2>1
<1>8. t \in PageLists
  BY <1>2, <1>7, ListFrom
<1>9. Range(t) = Range(l) \ {Head(l)}
  <2>1. ASSUME NEW r \in Range(t)
        PROVE  r \in Range(l) /\ r # Head(l)
    <3>1. PICK k \in 1 .. Len(t) : t[k] = r
      BY <1>8, ListOf
    <3>2. QED BY <1>1, <1>5, <3>1
  <2>2. ASSUME NEW r \in Range(l), r # Head(l)
        PROVE  r \in Range(t)
    <3>1. PICK k \in 1 .. Len(l) : l[k] = r
      BY <1>1
    <3>2. k - 1 \in 1 .. Len(t) /\ t[k - 1] = r
      BY <1>1, <1>6, <2>2, <3>1
    <3>3. QED BY <1>8, <3>2, ListOf
  <2>3. QED BY <2>1, <2>2
<1>10. InOrder(t, F)
  <2> SUFFICES ASSUME NEW a \in 1 .. Len(t), NEW b \in 1 .. Len(t), a < b, t[a] \in F
               PROVE  t[b] \in F
    BY DEF InOrder
  <2>1. a + 1 < b + 1
    OBVIOUS
  <2>2. QED BY <1>5, <2>1 DEF InOrder
<1>11. ASSUME Head(l) \in F, NEW s \in Range(l)
       PROVE  s \in F
  <2>1. PICK k \in 1 .. Len(l) : l[k] = s
    BY <1>1
  <2>2. k = 1 \/ 1 < k
    BY <1>1
  <2>3. QED BY <1>1, <1>11, <2>1, <2>2 DEF InOrder
<1>12. QED BY <1>4, <1>8, <1>9, <1>10, <1>11 DEF t

\* DL_APPEND2 of a page of F.
LEMMA ListAppend ==
  ASSUME NEW l \in PageLists, NEW s \in SlabPages, s \notin Range(l), NEW F, InOrder(l, F), s \in F
  PROVE  Append(l, s) \in PageLists /\ Range(Append(l, s)) = Range(l) \cup {s} /\ InOrder(Append(l, s), F)
<1> DEFINE m == Append(l, s)
<1>1. /\ l \in Seq(SlabPages) /\ Len(l) \in Nat
      /\ \A k \in 1 .. Len(l) : l[k] \in SlabPages /\ l[k] \in Range(l)
      /\ \A r \in Range(l) : r \in SlabPages /\ \E k \in 1 .. Len(l) : l[k] = r
      /\ \A j, k \in 1 .. Len(l) : l[j] = l[k] => j = k
  BY ListOf
<1>2. /\ m \in Seq(SlabPages) /\ Len(m) = Len(l) + 1 /\ m[Len(l) + 1] = s /\ Len(l) + 1 \in 1 .. Len(m)
      /\ \A k \in 1 .. Len(l) : m[k] = l[k] /\ k \in 1 .. Len(m)
      /\ \A k \in 1 .. Len(m) : k # Len(l) + 1 => k \in 1 .. Len(l)
  BY <1>1
<1> HIDE DEF m
<1>3. \A j, k \in 1 .. Len(m) : m[j] = m[k] => j = k
  <2> SUFFICES ASSUME NEW j \in 1 .. Len(m), NEW k \in 1 .. Len(m), m[j] = m[k]
               PROVE  j = k
    OBVIOUS
  <2>1. CASE j = Len(l) + 1
    BY <1>1, <1>2, <2>1
  <2>2. CASE j # Len(l) + 1
    BY <1>1, <1>2, <2>2
  <2>3. QED BY <2>1, <2>2
<1>4. m \in PageLists
  BY <1>2, <1>3, ListFrom
<1>5. Range(m) = Range(l) \cup {s}
  <2>1. ASSUME NEW r \in Range(m)
        PROVE  r \in Range(l) \cup {s}
    <3>1. PICK k \in 1 .. Len(m) : m[k] = r
      BY <1>4, ListOf
    <3>2. QED BY <1>1, <1>2, <3>1
  <2>2. ASSUME NEW r \in Range(l) \cup {s}
        PROVE  r \in Range(m)
    <3>1. \A k \in 1 .. Len(m) : m[k] \in Range(m)
      BY <1>4, ListOf
    <3>2. QED BY <1>1, <1>2, <2>2, <3>1
  <2>3. QED BY <2>1, <2>2
<1>6. InOrder(m, F)
  <2> SUFFICES ASSUME NEW a \in 1 .. Len(m), NEW b \in 1 .. Len(m), a < b, m[a] \in F
               PROVE  m[b] \in F
    BY DEF InOrder
  <2>1. CASE b = Len(l) + 1
    BY <1>2, <2>1
  <2>2. CASE b # Len(l) + 1
    <3>1. b \in 1 .. Len(l) /\ a \in 1 .. Len(l)
      BY <1>1, <1>2, <2>2
    <3>2. QED BY <1>2, <3>1 DEF InOrder
  <2>3. QED BY <2>1, <2>2
<1>7. QED BY <1>4, <1>5, <1>6 DEF m

\* DL_DELETE2
LEMMA ListUnlinked ==
  ASSUME NEW l \in PageLists, NEW s \in Range(l), NEW F, InOrder(l, F)
  PROVE  Unlinked(l, s) \in PageLists /\ Range(Unlinked(l, s)) = Range(l) \ {s} /\ InOrder(Unlinked(l, s), F)
<1> DEFINE n == Len(l)  p == CHOOSE k \in DOMAIN l : l[k] = s
           u == RemoveAt(l, p)  old(k) == IF k < p THEN k ELSE k + 1
<1>1. /\ l \in Seq(SlabPages) /\ n \in Nat /\ DOMAIN l = 1 .. n
      /\ \A k \in 1 .. n : l[k] \in SlabPages /\ l[k] \in Range(l)
      /\ \A r \in Range(l) : r \in SlabPages /\ \E k \in 1 .. n : l[k] = r
      /\ \A j, k \in 1 .. n : l[j] = l[k] => j = k
  BY ListOf
<1>2. p \in 1 .. n /\ l[p] = s
  BY <1>1
<1> HIDE DEF p
<1>3. /\ u \in Seq(SlabPages) /\ Len(u) = n - 1
      /\ \A k \in 1 .. n - 1 : u[k] = l[old(k)]
  <2>1. l \in Seq(SlabPages) /\ p \in 1 .. Len(l)
    BY <1>1, <1>2
  <2> HIDE DEF u, old, n
  <2>2. /\ RemoveAt(l, p) \in Seq(SlabPages) /\ Len(RemoveAt(l, p)) = Len(l) - 1
        /\ \A k \in 1 .. Len(l) - 1 : RemoveAt(l, p)[k] = l[IF k < p THEN k ELSE k + 1]
    BY <2>1, RemoveAtIs
  <2>3. QED BY <2>2 DEF u, old, n
<1>4. /\ \A k \in 1 .. n - 1 : old(k) \in 1 .. n /\ old(k) # p
      /\ \A j, k \in 1 .. n - 1 : (j < k => old(j) < old(k)) /\ (old(j) = old(k) => j = k)
      /\ \A k \in 1 .. n : k # p => \E j \in 1 .. n - 1 : old(j) = k
  <2>1. \A k \in 1 .. n - 1 : old(k) \in 1 .. n /\ old(k) # p
    BY <1>1, <1>2
  <2>2. \A j, k \in 1 .. n - 1 : (j < k => old(j) < old(k)) /\ (old(j) = old(k) => j = k)
    BY <1>1, <1>2
  <2>3. ASSUME NEW k \in 1 .. n, k # p
        PROVE  \E j \in 1 .. n - 1 : old(j) = k
    <3>1. CASE k < p
      BY <1>1, <1>2, <3>1
    <3>2. CASE k > p
      <4>1. k - 1 \in 1 .. n - 1 /\ ~(k - 1 < p) /\ (k - 1) + 1 = k
        BY <1>1, <1>2, <3>2
      <4>2. QED BY <4>1
    <3>3. QED BY <1>1, <1>2, <2>3, <3>1, <3>2
  <2>4. QED BY <2>1, <2>2, <2>3
<1> HIDE DEF u, old
<1>5. \A j, k \in 1 .. Len(u) : u[j] = u[k] => j = k
  BY <1>1, <1>3, <1>4
<1>6. u \in PageLists
  BY <1>3, <1>5, ListFrom
<1>7. Range(u) = Range(l) \ {s}
  <2>1. ASSUME NEW r \in Range(u)
        PROVE  r \in Range(l) /\ r # s
    <3>1. PICK k \in 1 .. Len(u) : u[k] = r
      BY <1>6, ListOf
    <3>2. k \in 1 .. n - 1 /\ r = l[old(k)]
      BY <1>3, <3>1
    <3>3. QED BY <1>1, <1>2, <1>4, <3>2
  <2>2. ASSUME NEW r \in Range(l), r # s
        PROVE  r \in Range(u)
    <3>1. PICK k \in 1 .. n : l[k] = r
      BY <1>1
    <3>2. PICK j \in 1 .. n - 1 : old(j) = k
      BY <1>2, <1>4, <2>2, <3>1
    <3>3. j \in 1 .. Len(u) /\ u[j] = r
      BY <1>3, <3>1, <3>2
    <3>4. QED BY <1>6, <3>3, ListOf
  <2>3. QED BY <2>1, <2>2
<1>8. InOrder(u, F)
  <2> SUFFICES ASSUME NEW a \in 1 .. Len(u), NEW b \in 1 .. Len(u), a < b, u[a] \in F
               PROVE  u[b] \in F
    BY DEF InOrder
  <2>1. a \in 1 .. n - 1 /\ b \in 1 .. n - 1
    BY <1>3
  <2>2. old(a) < old(b) /\ old(a) \in 1 .. n /\ old(b) \in 1 .. n /\ u[a] = l[old(a)] /\ u[b] = l[old(b)]
    BY <1>3, <1>4, <2>1
  <2>3. QED BY <2>2 DEF InOrder
<1>9. u = Unlinked(l, s)
  BY DEF u, p, Unlinked
<1>10. QED BY <1>6, <1>7, <1>8, <1>9

-----------------------------------------------------------------------------
(* The free list of a page.                                                *)

\* The list that a free list is followed to is the only one it can be.
LEMMA ChainIs ==
  ASSUME NEW sl, NEW n \in Nat, NEW q,
         q = [k \in 1 .. n |-> IF k = 1 THEN sl.first_free ELSE sl.free_list[q[k - 1]]]
  PROVE  Chain(sl, n) = q
<1> DEFINE c == Chain(sl, n)
<1>1. c = [k \in 1 .. n |-> IF k = 1 THEN sl.first_free ELSE sl.free_list[c[k - 1]]]
  <2>1. c = CHOOSE d : d = [k \in 1 .. n |-> IF k = 1 THEN sl.first_free ELSE sl.free_list[d[k - 1]]]
    BY DEF Chain
  <2>2. \E d : d = [k \in 1 .. n |-> IF k = 1 THEN sl.first_free ELSE sl.free_list[d[k - 1]]]
    OBVIOUS
  <2>3. QED BY <2>1, <2>2
<1> HIDE DEF c
<1> DEFINE T == {k \in 1 .. n : c[k] # q[k]}
<1>2. ASSUME NEW k \in T
      PROVE  k - 1 \in T
  <2>1. k \in 1 .. n /\ c[k] # q[k]
    OBVIOUS
  <2>2. k # 1
    BY <2>1, <1>1
  <2>3. k - 1 \in 1 .. n
    BY <2>1, <2>2
  <2>4. c[k - 1] # q[k - 1]
    BY <2>1, <2>2, <2>3, <1>1
  <2>5. QED BY <2>3, <2>4
<1>3. T = {}
  <2>1. T \in SUBSET Nat
    OBVIOUS
  <2> HIDE DEF T
  <2>2. QED BY <1>2, <2>1, Descent
<1>4. \A k \in 1 .. n : c[k] = q[k]
  BY <1>3
<1>5. QED BY <1>1, <1>4 DEF c

\* Objects are counted by their indices.
LEMMA ObjectCount ==
  ASSUME NEW L \in SUBSET Idx
  PROVE  /\ IsFiniteSet(L) /\ Cardinality(L) \in 0 .. ObjN
         /\ Cardinality(L) = ObjN => L = Idx
         /\ \A i \in Idx \ L : Cardinality(L \cup {i}) = Cardinality(L) + 1
         /\ \A i \in L : Cardinality(L \ {i}) = Cardinality(L) - 1
         /\ Cardinality(L) = 0 <=> L = {}
<1>1. IsFiniteSet(Idx) /\ Cardinality(Idx) = ObjN /\ ObjN \in Nat \ {0}
  BY FS_Interval, SlabAssumption DEF Idx
<1>2. IsFiniteSet(L) /\ Cardinality(L) <= Cardinality(Idx) /\ (Cardinality(Idx) = Cardinality(L) => Idx = L)
  BY <1>1, FS_Subset
<1>3. Cardinality(L) \in Nat
  BY <1>2, FS_CardinalityType
<1>4. /\ \A i \in Idx \ L : Cardinality(L \cup {i}) = Cardinality(L) + 1
      /\ \A i \in L : Cardinality(L \ {i}) = Cardinality(L) - 1
  BY <1>2, FS_AddElement, FS_RemoveElement
<1>5. Cardinality(L) = 0 <=> L = {}
  BY <1>2, FS_EmptySet
<1>6. Cardinality(L) \in 0 .. ObjN
  BY <1>1, <1>2, <1>3
<1>7. QED BY <1>1, <1>2, <1>4, <1>5, <1>6

\* slab_slab_init: all objects are free.
LEMMA NewPage ==
  ASSUME ObjectsBehindList, NEW p \in Paddings
  PROVE  slab_slab_init(p) \in SlabRecords /\ PageSound(slab_slab_init(p), {}) /\ slab_slab_init(p).used_cnt = 0
<1> DEFINE sl == slab_slab_init(p)  q == [k \in 1 .. ObjN |-> k - 1]
<1>1. ObjN \in Nat \ {0} /\ HdrSize \in Nat /\ p \in Nat /\ HdrSize <= p
  BY SlabAssumption DEF ObjectsBehindList
<1>2. /\ sl.used_cnt = 0 /\ sl.first_free = 0 /\ sl.data = ObjN + p
      /\ sl.free_list = [i \in Idx |-> IF i < ObjN - 1 THEN i + 1 ELSE i]
  BY DEF slab_slab_init
<1>3. sl \in SlabRecords
  <2>1. [i \in Idx |-> IF i < ObjN - 1 THEN i + 1 ELSE i] \in [Idx -> Idx]
    BY <1>1 DEF Idx
  <2>2. 0 \in Idx /\ 0 \in 0 .. ObjN /\ ObjN + p \in Nat
    BY <1>1 DEF Idx
  <2>3. QED BY <2>1, <2>2 DEF SlabRecords, slab_slab_init
<1>4. q \in [1 .. ObjN -> Idx] /\ FreeChain(sl, {}, ObjN, q)
  <2>1. q \in [1 .. ObjN -> Idx] /\ q[1] = 0 /\ q[ObjN] = ObjN - 1 /\ ObjN - 1 \in Idx
    BY <1>1 DEF Idx
  <2>2. \A j, k \in 1 .. ObjN : q[j] = q[k] => j = k
    OBVIOUS
  <2>3. \A i \in Idx : i + 1 \in 1 .. ObjN /\ q[i + 1] = i
    BY <1>1 DEF Idx
  <2>4. \A k \in 1 .. ObjN - 1 : sl.free_list[q[k]] = q[k + 1]
    <3> SUFFICES ASSUME NEW k \in 1 .. ObjN - 1
                 PROVE  sl.free_list[q[k]] = q[k + 1]
      OBVIOUS
    <3>1. q[k] = k - 1 /\ q[k + 1] = k /\ k - 1 \in Idx /\ k - 1 < ObjN - 1
      BY <1>1 DEF Idx
    <3> HIDE DEF q, sl
    <3>2. QED BY <1>2, <3>1
  <2>5. sl.free_list[q[ObjN]] = q[ObjN]
    <3> HIDE DEF q, sl
    <3>1. QED BY <1>1, <1>2, <2>1
  <2> HIDE DEF q, sl
  <2>6. QED BY <1>1, <1>2, <2>1, <2>2, <2>3, <2>4, <2>5 DEF FreeChain
<1>5. PageSound(sl, {})
  <2>1. Cardinality({}) = 0
    BY FS_EmptySet
  <2>2. ObjN - sl.used_cnt = ObjN /\ sl.data >= HdrSize + ObjN
    BY <1>1, <1>2
  <2> HIDE DEF q, sl
  <2>3. QED BY <1>2, <1>4, <2>1, <2>2 DEF PageSound
<1>6. QED BY <1>2, <1>3, <1>5

\* slab_slab_alloc: the first of the free list is handed out.
LEMMA PageTakes ==
  ASSUME NEW sl \in SlabRecords, NEW L \in SUBSET Idx, PageSound(sl, L), sl.used_cnt # ObjN
  PROVE  /\ HasObject(sl) /\ sl.first_free \in Idx \ L
         /\ slab_slab_alloc(sl) \in SlabRecords /\ PageSound(slab_slab_alloc(sl), L \cup {sl.first_free})
         /\ slab_slab_alloc(sl).used_cnt = sl.used_cnt + 1
<1> DEFINE n == ObjN - sl.used_cnt  i == sl.first_free  t == slab_slab_alloc(sl)
<1>1. /\ ObjN \in Nat \ {0} /\ sl.used_cnt \in 0 .. ObjN /\ n \in Nat \ {0} /\ sl.data \in Nat
      /\ sl.free_list \in [Idx -> Idx] /\ sl.first_free \in Idx \cup {-1} /\ HdrSize \in Nat
  BY SlabAssumption DEF SlabRecords
<1>2. PICK q \in [1 .. n -> Idx] : FreeChain(sl, L, n, q)
  BY DEF PageSound
<1>3. /\ \A j, k \in 1 .. n : q[j] = q[k] => j = k
      /\ \A x \in Idx : x \notin L <=> \E k \in 1 .. n : q[k] = x
      /\ i = q[1] /\ sl.free_list[q[n]] = q[n]
      /\ \A k \in 1 .. n - 1 : sl.free_list[q[k]] = q[k + 1]
      /\ 1 \in 1 .. n /\ n \in 1 .. n
  BY <1>1, <1>2 DEF FreeChain
<1> HIDE DEF n
<1>4. i \in Idx \ L /\ i # -1 /\ HasObject(sl)
  <2>1. q[1] \in Idx
    BY <1>2, <1>3
  <2>2. i # -1
    BY <1>3, <2>1, SlabAssumption DEF Idx
  <2>3. i \notin L
    BY <1>3, <2>1
  <2>4. QED BY <1>1, <1>3, <2>1, <2>2, <2>3 DEF HasObject
<1>5. t = [sl EXCEPT !.used_cnt = @ + 1, !.first_free = IF n = 1 THEN -1 ELSE q[2]]
  <2>1. t = [sl EXCEPT !.used_cnt = @ + 1, !.first_free = IF sl.free_list[i] = i THEN -1 ELSE sl.free_list[i]]
    BY <1>4 DEF slab_slab_alloc
  <2>2. CASE n = 1
    BY <1>3, <2>1, <2>2
  <2>3. CASE n # 1
    <3>1. 1 \in 1 .. n - 1 /\ 2 \in 1 .. n /\ 1 + 1 = 2
      BY <1>1, <2>3 DEF n
    <3>2. sl.free_list[i] = q[2] /\ q[2] # i
      BY <1>3, <3>1
    <3>3. QED BY <2>1, <2>3, <3>2
  <2>4. QED BY <2>2, <2>3
<1>6. /\ t \in SlabRecords /\ t.used_cnt = sl.used_cnt + 1 /\ t.data = sl.data /\ t.free_list = sl.free_list
      /\ t.first_free = IF n = 1 THEN -1 ELSE q[2]
  <2>1. sl.used_cnt + 1 \in 0 .. ObjN
    BY <1>1
  <2>2. (IF n = 1 THEN -1 ELSE q[2]) \in Idx \cup {-1}
    <3>1. n # 1 => 2 \in 1 .. n
      BY <1>1 DEF n
    <3>2. QED BY <1>2, <3>1
  <2> HIDE DEF t
  <2>3. QED BY <1>5, <2>1, <2>2 DEF SlabRecords
<1> DEFINE M == L \cup {i}  r == [k \in 1 .. n - 1 |-> q[k + 1]]
<1>7. \A k \in 1 .. n - 1 : k + 1 \in 1 .. n /\ k + 1 # 1 /\ r[k] = q[k + 1]
  BY <1>1 DEF n
<1>8. FreeChain(t, M, n - 1, r) /\ r \in [1 .. n - 1 -> Idx]
  <2> HIDE DEF t, i
  <2>1. r \in [1 .. n - 1 -> Idx]
    BY <1>2, <1>7
  <2>2. \A j, k \in 1 .. n - 1 : r[j] = r[k] => j = k
    <3> SUFFICES ASSUME NEW j \in 1 .. n - 1, NEW k \in 1 .. n - 1, r[j] = r[k]
                 PROVE  j = k
      OBVIOUS
    <3>1. j + 1 = k + 1
      BY <1>3, <1>7
    <3>2. QED BY <3>1
  <2>3. ASSUME NEW x \in Idx
        PROVE  x \notin M <=> \E k \in 1 .. n - 1 : r[k] = x
    <3>1. ASSUME NEW k \in 1 .. n - 1, r[k] = x
          PROVE  x \notin M
      BY <1>3, <1>7, <3>1
    <3>2. ASSUME x \notin M
          PROVE  \E k \in 1 .. n - 1 : r[k] = x
      <4>1. PICK k \in 1 .. n : q[k] = x
        BY <1>3, <3>2
      <4>2. k # 1
        BY <1>3, <3>2, <4>1
      <4>3. k - 1 \in 1 .. n - 1 /\ (k - 1) + 1 = k
        BY <1>1, <4>2 DEF n
      <4>4. r[k - 1] = x
        BY <1>7, <4>1, <4>3
      <4>5. QED BY <4>3, <4>4
    <3>3. QED BY <3>1, <3>2
  <2>4. \A k \in 1 .. (n - 1) - 1 : t.free_list[r[k]] = r[k + 1]
    <3> SUFFICES ASSUME NEW k \in 1 .. (n - 1) - 1
                 PROVE  t.free_list[r[k]] = r[k + 1]
      OBVIOUS
    <3>1. k \in 1 .. n - 1 /\ k + 1 \in 1 .. n - 1
      BY <1>1 DEF n
    <3>2. r[k] = q[k + 1] /\ r[k + 1] = q[(k + 1) + 1] /\ sl.free_list[q[k + 1]] = q[(k + 1) + 1]
      BY <1>3, <1>7, <3>1
    <3> HIDE DEF r
    <3>3. QED BY <1>6, <3>2
  <2>5. n - 1 # 0 => t.free_list[r[n - 1]] = r[n - 1] /\ t.first_free = r[1]
    <3> SUFFICES ASSUME n - 1 # 0
                 PROVE  t.free_list[r[n - 1]] = r[n - 1] /\ t.first_free = r[1]
      OBVIOUS
    <3>1. n # 1 /\ n - 1 \in 1 .. n - 1 /\ 1 \in 1 .. n - 1 /\ (n - 1) + 1 = n /\ 1 + 1 = 2
      BY <1>1 DEF n
    <3>2. r[n - 1] = q[n] /\ r[1] = q[2]
      BY <1>7, <3>1
    <3> HIDE DEF r
    <3>3. QED BY <1>3, <1>6, <3>1, <3>2
  <2>6. n - 1 = 0 => t.first_free = -1
    <3>1. n - 1 = 0 => n = 1
      BY <1>1 DEF n
    <3>2. QED BY <1>6, <3>1
  <2> HIDE DEF M, r
  <2>7. QED BY <2>1, <2>2, <2>3, <2>4, <2>5, <2>6 DEF FreeChain
<1>9. PageSound(t, M)
  <2>1. Cardinality(M) = Cardinality(L) + 1
    BY <1>4, ObjectCount
  <2>2. sl.used_cnt = Cardinality(L) /\ sl.data >= HdrSize + ObjN
    BY DEF PageSound
  <2>3. ObjN - t.used_cnt = n - 1
    BY <1>1, <1>6 DEF n
  <2> HIDE DEF t, M, r
  <2>4. QED BY <1>6, <1>8, <2>1, <2>2, <2>3 DEF PageSound
<1>10. QED BY <1>4, <1>6, <1>9

\* slab_slab_free: the object becomes the first of the free list.
LEMMA PageGets ==
  ASSUME NEW sl \in SlabRecords, NEW L \in SUBSET Idx, PageSound(sl, L), NEW i \in L
  PROVE  /\ slab_slab_free(sl, i) \in SlabRecords /\ PageSound(slab_slab_free(sl, i), L \ {i})
         /\ slab_slab_free(sl, i).used_cnt = sl.used_cnt - 1
         /\ slab_slab_free(sl, i).used_cnt # ObjN
         /\ slab_slab_free(sl, i).used_cnt = 0 <=> L \ {i} = {}
<1> DEFINE n == ObjN - sl.used_cnt  t == slab_slab_free(sl, i)  M == L \ {i}
           next == IF sl.first_free = -1 THEN i ELSE sl.first_free
<1>1. /\ ObjN \in Nat \ {0} /\ sl.used_cnt \in 0 .. ObjN /\ sl.data \in Nat /\ i \in Idx
      /\ sl.free_list \in [Idx -> Idx] /\ sl.first_free \in Idx \cup {-1} /\ HdrSize \in Nat
      /\ sl.used_cnt = Cardinality(L) /\ sl.data >= HdrSize + ObjN
  BY SlabAssumption DEF SlabRecords, PageSound
<1>2. Cardinality(M) = Cardinality(L) - 1 /\ Cardinality(M) \in Nat /\ (Cardinality(M) = 0 <=> M = {})
  <2>1. M \in SUBSET Idx
    OBVIOUS
  <2>2. Cardinality(M) \in 0 .. ObjN
    BY <2>1, ObjectCount
  <2>3. QED BY <1>1, <2>1, <2>2, ObjectCount
<1>3. n \in Nat /\ n + 1 = ObjN - (sl.used_cnt - 1) /\ sl.used_cnt - 1 \in 0 .. ObjN /\ sl.used_cnt - 1 # ObjN
  BY <1>1, <1>2
<1>4. PICK q \in [1 .. n -> Idx] : FreeChain(sl, L, n, q)
  BY DEF PageSound
<1>5. /\ \A j, k \in 1 .. n : q[j] = q[k] => j = k
      /\ \A x \in Idx : x \notin L <=> \E k \in 1 .. n : q[k] = x
      /\ n = 0 => sl.first_free = -1
      /\ n # 0 => sl.first_free = q[1] /\ sl.free_list[q[n]] = q[n]
      /\ \A k \in 1 .. n - 1 : sl.free_list[q[k]] = q[k + 1]
  BY <1>4 DEF FreeChain
<1> HIDE DEF n
<1>6. next \in Idx /\ (n = 0 => next = i) /\ (n # 0 => next = q[1])
  <2>1. n # 0 => q[1] \in Idx /\ q[1] # -1
    <3>1. n # 0 => 1 \in 1 .. n
      BY <1>3
    <3>2. n # 0 => q[1] \in Idx
      BY <1>4, <3>1
    <3>3. QED BY <1>1, <3>2 DEF Idx
  <2>2. QED BY <1>1, <1>5, <2>1
<1>7. /\ t \in SlabRecords /\ t.used_cnt = sl.used_cnt - 1 /\ t.data = sl.data /\ t.first_free = i
      /\ t.free_list = [sl.free_list EXCEPT ![i] = next]
  <2>1. t = [sl EXCEPT !.used_cnt = @ - 1, !.free_list[i] = next, !.first_free = i]
    BY DEF slab_slab_free
  <2> HIDE DEF next
  <2>2. [sl.free_list EXCEPT ![i] = next] \in [Idx -> Idx]
    BY <1>1, <1>6
  <2>3. t = [used_cnt |-> sl.used_cnt - 1, first_free |-> i,
             free_list |-> [sl.free_list EXCEPT ![i] = next], data |-> sl.data]
    <3>1. sl = [used_cnt |-> sl.used_cnt, first_free |-> sl.first_free, free_list |-> sl.free_list,
                data |-> sl.data]
      BY DEF SlabRecords
    <3>2. QED BY <2>1, <3>1
  <2> HIDE DEF t
  <2>4. QED BY <1>1, <1>3, <2>2, <2>3 DEF SlabRecords
<1>8. /\ t.free_list[i] = next
      /\ \A x \in Idx : x # i => t.free_list[x] = sl.free_list[x]
  BY <1>1, <1>7
<1> HIDE DEF t, next
<1> DEFINE r == [k \in 1 .. n + 1 |-> IF k = 1 THEN i ELSE q[k - 1]]
<1>9. /\ 1 \in 1 .. n + 1 /\ r[1] = i
      /\ \A k \in 1 .. n + 1 : k # 1 => k - 1 \in 1 .. n /\ r[k] = q[k - 1] /\ q[k - 1] \in Idx
      /\ \A k \in 1 .. n : k + 1 \in 1 .. n + 1 /\ k + 1 # 1 /\ r[k + 1] = q[k] /\ q[k] \in Idx /\ q[k] # i
  <2>1. 1 \in 1 .. n + 1 /\ r[1] = i
    BY <1>3
  <2>2. ASSUME NEW k \in 1 .. n + 1, k # 1
        PROVE  k - 1 \in 1 .. n /\ r[k] = q[k - 1] /\ q[k - 1] \in Idx
    <3>1. k - 1 \in 1 .. n
      BY <1>3, <2>2
    <3>2. QED BY <1>4, <2>2, <3>1
  <2>3. ASSUME NEW k \in 1 .. n
        PROVE  k + 1 \in 1 .. n + 1 /\ k + 1 # 1 /\ r[k + 1] = q[k] /\ q[k] \in Idx /\ q[k] # i
    <3>1. k + 1 \in 1 .. n + 1 /\ k + 1 # 1 /\ (k + 1) - 1 = k
      BY <1>3
    <3>2. q[k] \in Idx /\ q[k] # i
      BY <1>4, <1>5
    <3>3. QED BY <3>1, <3>2
  <2>4. QED BY <2>1, <2>2, <2>3
<1>10. FreeChain(t, M, n + 1, r) /\ r \in [1 .. n + 1 -> Idx]
  <2>1. r \in [1 .. n + 1 -> Idx]
    BY <1>1, <1>9
  <2> HIDE DEF r
  <2>2. \A j, k \in 1 .. n + 1 : r[j] = r[k] => j = k
    <3> SUFFICES ASSUME NEW j \in 1 .. n + 1, NEW k \in 1 .. n + 1, r[j] = r[k]
                 PROVE  j = k
      OBVIOUS
    <3>1. CASE j = 1
      BY <1>9, <3>1
    <3>2. CASE k = 1
      BY <1>9, <3>2
    <3>3. CASE j # 1 /\ k # 1
      <4>1. j - 1 = k - 1
        BY <1>5, <1>9, <3>3
      <4>2. QED BY <4>1
    <3>4. QED BY <3>1, <3>2, <3>3
  <2>3. ASSUME NEW x \in Idx
        PROVE  x \notin M <=> \E k \in 1 .. n + 1 : r[k] = x
    <3>1. ASSUME NEW k \in 1 .. n + 1, r[k] = x
          PROVE  x \notin M
      BY <1>5, <1>9, <3>1
    <3>2. ASSUME x \notin M
          PROVE  \E k \in 1 .. n + 1 : r[k] = x
      <4>1. CASE x = i
        BY <1>9, <4>1
      <4>2. CASE x # i
        <5>1. PICK k \in 1 .. n : q[k] = x
          BY <1>5, <3>2, <4>2
        <5>2. QED BY <1>9, <5>1
      <4>3. QED BY <4>1, <4>2
    <3>3. QED BY <3>1, <3>2
  <2>4. \A k \in 1 .. (n + 1) - 1 : t.free_list[r[k]] = r[k + 1]
    <3> SUFFICES ASSUME NEW k \in 1 .. (n + 1) - 1
                 PROVE  t.free_list[r[k]] = r[k + 1]
      OBVIOUS
    <3>1. k \in 1 .. n /\ k \in 1 .. n + 1 /\ r[k + 1] = q[k] /\ n # 0
      BY <1>3, <1>9
    <3>2. CASE k = 1
      BY <1>6, <1>8, <1>9, <3>1, <3>2
    <3>3. CASE k # 1
      <4>1. k - 1 \in 1 .. n /\ r[k] = q[k - 1] /\ q[k - 1] \in Idx /\ q[k - 1] # i
        BY <1>9, <3>1, <3>3
      <4>2. k - 1 \in 1 .. n - 1 /\ (k - 1) + 1 = k
        BY <1>3, <3>1, <3>3
      <4>3. sl.free_list[q[k - 1]] = q[k]
        BY <1>5, <4>2
      <4>4. QED BY <1>8, <3>1, <4>1, <4>3
    <3>4. QED BY <3>2, <3>3
  <2>5. t.free_list[r[n + 1]] = r[n + 1]
    <3>1. CASE n = 0
      BY <1>6, <1>8, <1>9, <3>1
    <3>2. CASE n # 0
      <4>1. n \in 1 .. n
        BY <1>3, <3>2
      <4>2. r[n + 1] = q[n] /\ q[n] \in Idx /\ q[n] # i
        BY <1>9, <4>1
      <4>3. QED BY <1>5, <1>8, <3>2, <4>2
    <3>3. QED BY <3>1, <3>2
  <2>6. t.first_free = r[1] /\ n + 1 # 0
    BY <1>3, <1>7, <1>9
  <2> HIDE DEF M
  <2>7. QED BY <2>1, <2>2, <2>3, <2>4, <2>5, <2>6 DEF FreeChain
<1>11. PageSound(t, M)
  <2>1. ObjN - t.used_cnt = n + 1 /\ t.used_cnt = Cardinality(M) /\ t.data >= HdrSize + ObjN
    BY <1>1, <1>2, <1>3, <1>7
  <2> HIDE DEF M, r
  <2>2. QED BY <1>10, <2>1 DEF PageSound
<1>12. t.used_cnt # ObjN /\ (t.used_cnt = 0 <=> M = {})
  BY <1>1, <1>2, <1>3, <1>7
<1>13. QED BY <1>7, <1>11, <1>12 DEF t

-----------------------------------------------------------------------------
(* The steps.                                                              *)

\* What becomes of a page that is not listed does not matter to the order.
LEMMA OrderOfOthers ==
  ASSUME NEW l \in PageLists, NEW s, s \notin Range(l), NEW F, InOrder(l, F),
         NEW G, \A r \in SlabPages : r # s => (r \in F <=> r \in G)
  PROVE  InOrder(l, G)
<1> SUFFICES ASSUME NEW a \in 1 .. Len(l), NEW b \in 1 .. Len(l), a < b, l[a] \in G
             PROVE  l[b] \in G
  BY DEF InOrder
<1>1. l[a] \in SlabPages /\ l[b] \in SlabPages /\ l[a] # s /\ l[b] # s
  BY ListOf
<1>2. QED BY <1>1 DEF InOrder

\* An object is taken from s, which comes before rest.
LEMMA TakeKeeps ==
  ASSUME SlabInv, NEW s \in SlabPages, NEW sl \in SlabRecords, NEW rest \in PageLists,
         empty_slabs' \in PageLists, TakeFrom(s, sl, <<s>> \o rest),
         PageSound(sl, live[s]), sl.used_cnt # ObjN, InOrder(rest, FullPages),
         s \notin Range(rest), s \notin Range(empty_slabs'), Range(rest) \cap Range(empty_slabs') = {},
         \A r \in SlabPages : r # s => (live[r] # {} <=> r \in Range(rest)),
         \A r \in Range(rest) \cup Range(empty_slabs') : PageSound(slab[r], live[r])
  PROVE  SlabInv' /\ Range(slabs') = Range(rest) \cup {s}
<1> DEFINE t == slab_slab_alloc(sl)  i == sl.first_free  L == live[s] \cup {i}
           F == FullPages \ {s}
<1>1. /\ slab \in [SlabPages -> SlabRecords] /\ live \in [SlabPages -> SUBSET Idx]
      /\ live[s] \in SUBSET Idx
  BY DEF SlabInv
<1>2. HasObject(sl) /\ i \in Idx \ live[s] /\ t \in SlabRecords /\ PageSound(t, L)
  BY <1>1, PageTakes
<1>3. /\ slab' = [slab EXCEPT ![s] = t] /\ live' = [live EXCEPT ![s] = L]
      /\ slabs' = IF t.used_cnt = ObjN THEN Append(Tail(<<s>> \o rest), s) ELSE <<s>> \o rest
  BY <1>2 DEF TakeFrom
<1> HIDE DEF t, i, L
<1>4. /\ slab' \in [SlabPages -> SlabRecords] /\ slab'[s] = t /\ \A r \in SlabPages : r # s => slab'[r] = slab[r]
  BY <1>1, <1>2, <1>3
<1>5. L \in SUBSET Idx /\ L # {}
  BY <1>1, <1>2 DEF L
<1>6. live' \in [SlabPages -> SUBSET Idx] /\ live'[s] = L /\ \A r \in SlabPages : r # s => live'[r] = live[r]
  BY <1>1, <1>3, <1>5
<1>7. \A r \in SlabPages : r # s => (r \in FullPages' <=> r \in FullPages)
  BY <1>4 DEF FullPages
<1>8. s \in FullPages' <=> t.used_cnt = ObjN
  BY <1>4 DEF FullPages
<1>9. InOrder(rest, F)
  BY OrderOfOthers
<1>10. InOrder(rest, FullPages')
  BY <1>7, OrderOfOthers
<1>11. /\ Tail(<<s>> \o rest) = rest /\ <<s>> \o rest \in PageLists
       /\ Range(<<s>> \o rest) = Range(rest) \cup {s}
  BY <1>9, ListPrepend
<1>12. slabs' \in PageLists /\ Range(slabs') = Range(rest) \cup {s} /\ InOrder(slabs', FullPages')
  <2>1. CASE t.used_cnt = ObjN
    <3>1. slabs' = Append(rest, s) /\ s \in FullPages'
      BY <1>3, <1>8, <1>11, <2>1
    <3>2. QED BY <1>10, <3>1, ListAppend
  <2>2. CASE t.used_cnt # ObjN
    <3>1. slabs' = <<s>> \o rest /\ s \notin FullPages'
      BY <1>3, <1>8, <2>2
    <3>2. QED BY <1>10, <3>1, ListPrepend
  <2>3. QED BY <2>1, <2>2
<1>13. \A r \in Range(rest) \cup Range(empty_slabs') : r \in SlabPages
  BY ListOf
<1>14. Range(slabs') \cap Range(empty_slabs') = {}
  BY <1>12
<1>15. \A r \in SlabPages : live'[r] # {} <=> r \in Range(slabs')
  BY <1>5, <1>6, <1>12
<1>16. \A r \in Range(slabs') \cup Range(empty_slabs') : PageSound(slab'[r], live'[r])
  <2> SUFFICES ASSUME NEW r \in Range(slabs') \cup Range(empty_slabs')
               PROVE  PageSound(slab'[r], live'[r])
    OBVIOUS
  <2>1. CASE r = s
    BY <1>2, <1>4, <1>6, <2>1
  <2>2. CASE r # s
    BY <1>4, <1>6, <1>12, <1>13, <2>2
  <2>3. QED BY <2>1, <2>2
<1>17. QED BY <1>4, <1>6, <1>12, <1>14, <1>15, <1>16 DEF SlabInv

\* A page with an object handed out is on slabs, and one on empty_slabs has none.
LEMMA PageOnList ==
  ASSUME SlabInv
  PROVE  /\ slabs \in PageLists /\ empty_slabs \in PageLists
         /\ slab \in [SlabPages -> SlabRecords] /\ live \in [SlabPages -> SUBSET Idx]
         /\ \A s \in Range(slabs) \cup Range(empty_slabs) :
              /\ s \in SlabPages /\ PageSound(slab[s], live[s])
              /\ slab[s].used_cnt = Cardinality(live[s])
              /\ slab[s].used_cnt = ObjN <=> live[s] = Idx
              /\ slab[s].used_cnt = ObjN <=> s \in FullPages
         /\ \A s \in Range(empty_slabs) : live[s] = {} /\ slab[s].used_cnt # ObjN
<1>1. /\ slabs \in PageLists /\ empty_slabs \in PageLists
      /\ slab \in [SlabPages -> SlabRecords] /\ live \in [SlabPages -> SUBSET Idx]
      /\ \A s \in SlabPages : live[s] # {} <=> s \in Range(slabs)
      /\ Range(slabs) \cap Range(empty_slabs) = {}
  BY DEF SlabInv
<1>2. ASSUME NEW s \in Range(slabs) \cup Range(empty_slabs)
      PROVE  /\ s \in SlabPages /\ PageSound(slab[s], live[s])
             /\ slab[s].used_cnt = Cardinality(live[s])
             /\ slab[s].used_cnt = ObjN <=> live[s] = Idx
             /\ slab[s].used_cnt = ObjN <=> s \in FullPages
  <2>1. s \in SlabPages /\ PageSound(slab[s], live[s])
    BY <1>1, ListOf DEF SlabInv
  <2>2. slab[s].used_cnt = Cardinality(live[s])
    BY <2>1 DEF PageSound
  <2>3. Cardinality(live[s]) = ObjN => live[s] = Idx
    BY <1>1, <2>1, ObjectCount
  <2>4. Cardinality(Idx) = ObjN
    BY FS_Interval, SlabAssumption DEF Idx
  <2>5. QED BY <2>1, <2>2, <2>3, <2>4 DEF FullPages
<1>3. ASSUME NEW s \in Range(empty_slabs)
      PROVE  live[s] = {} /\ slab[s].used_cnt # ObjN
  <2>1. live[s] = {} /\ slab[s].used_cnt = Cardinality(live[s])
    BY <1>1, <1>2
  <2>2. ObjN # 0 /\ Cardinality({}) = 0
    BY SlabAssumption, FS_EmptySet
  <2>3. QED BY <2>1, <2>2
<1>4. QED BY <1>1, <1>2, <1>3

\* Whether or not the first page has room.
LEMMA FrontOf ==
  ASSUME SlabInv
  PROVE  /\ FrontHasRoom => slabs # <<>> /\ Head(slabs) \in Range(slabs) /\ slab[Head(slabs)].used_cnt # ObjN
         /\ ~FrontHasRoom => \A r \in Range(slabs) : live[r] = Idx
         /\ ~FrontHasRoom => \A r \in Range(slabs) : slab[r].used_cnt = ObjN
<1>1. FrontHasRoom => slabs # <<>> /\ Head(slabs) \in Range(slabs) /\ slab[Head(slabs)].used_cnt # ObjN
  BY PageOnList, ListOf DEF FrontHasRoom
<1>2. ASSUME ~FrontHasRoom, NEW r \in Range(slabs)
      PROVE  live[r] = Idx /\ slab[r].used_cnt = ObjN
  <2>1. slabs # <<>> /\ Head(slabs) \in Range(slabs)
    <3>1. \E k \in 1 .. Len(slabs) : slabs[k] = r
      BY PageOnList, ListOf
    <3>2. slabs # <<>>
      BY <3>1, EmptySeq
    <3>3. QED BY <3>2, PageOnList, ListOf
  <2>2. slab[Head(slabs)].used_cnt = ObjN
    BY <1>2, <2>1 DEF FrontHasRoom
  <2>3. Head(slabs) \in FullPages
    BY <2>1, <2>2, PageOnList
  <2>4. r \in FullPages
    BY <2>1, <2>3, PageOnList, ListTail DEF SlabInv
  <2>5. QED BY <2>4, PageOnList
<1>3. QED BY <1>1, <1>2

\* slab_alloc keeps the invariant, and asks for a page only when all are full.
LEMMA AllocKeeps ==
  ASSUME ObjectsBehindList, SlabInv, slab_alloc
  PROVE  /\ SlabInv'
         /\ \A s \in Range(slabs') : s \notin Range(slabs) \cup Range(empty_slabs) =>
              \A r \in Range(slabs) \cup Range(empty_slabs) : live[r] = Idx
<1>1. /\ slabs \in PageLists /\ empty_slabs \in PageLists
      /\ slab \in [SlabPages -> SlabRecords] /\ live \in [SlabPages -> SUBSET Idx]
      /\ InOrder(slabs, FullPages)
      /\ Range(slabs) \cap Range(empty_slabs) = {}
      /\ \A s \in SlabPages : live[s] # {} <=> s \in Range(slabs)
      /\ \A s \in Range(slabs) \cup Range(empty_slabs) : s \in SlabPages /\ PageSound(slab[s], live[s])
  BY PageOnList DEF SlabInv
<1>2. CASE AllocFront
  <2> DEFINE s == Head(slabs)  rest == Tail(slabs)
  <2>1. slabs # <<>> /\ s \in Range(slabs) /\ slab[s].used_cnt # ObjN /\ s \in SlabPages /\ slab[s] \in SlabRecords
    BY <1>1, <1>2, FrontOf DEF AllocFront
  <2>2. /\ rest \in PageLists /\ Range(rest) = Range(slabs) \ {s} /\ InOrder(rest, FullPages)
        /\ slabs = <<s>> \o rest
    BY <1>1, <2>1, ListTail
  <2>3. TakeFrom(s, slab[s], slabs) /\ empty_slabs' = empty_slabs
    BY <1>2 DEF AllocFront
  <2> HIDE DEF s, rest
  <2>4. TakeFrom(s, slab[s], <<s>> \o rest)
    BY <2>2, <2>3
  <2>5. SlabInv' /\ Range(slabs') = Range(rest) \cup {s}
    <3> DEFINE sl == slab[s]
    <3>1. sl \in SlabRecords /\ sl.used_cnt # ObjN /\ PageSound(sl, live[s]) /\ TakeFrom(s, sl, <<s>> \o rest)
      BY <1>1, <2>1, <2>4
    <3> HIDE DEF sl
    <3>2. empty_slabs' \in PageLists /\ s \notin Range(empty_slabs') /\ Range(rest) \cap Range(empty_slabs') = {}
      BY <1>1, <2>1, <2>2, <2>3
    <3>3. s \notin Range(rest) /\ \A r \in SlabPages : r # s => (live[r] # {} <=> r \in Range(rest))
      BY <1>1, <2>2
    <3>4. \A r \in Range(rest) \cup Range(empty_slabs') : PageSound(slab[r], live[r])
      BY <1>1, <2>2, <2>3
    <3>5. s \in SlabPages /\ rest \in PageLists /\ InOrder(rest, FullPages)
      BY <2>1, <2>2
    <3>6. QED BY <3>1, <3>2, <3>3, <3>4, <3>5, TakeKeeps
  <2>6. QED BY <2>1, <2>2, <2>5
<1>3. CASE AllocEmpty
  <2> DEFINE s == Head(empty_slabs)  rest == Tail(empty_slabs)
  <2>1. /\ empty_slabs # <<>> /\ empty_slabs' = rest /\ TakeFrom(s, slab[s], <<s>> \o slabs)
    BY <1>3 DEF AllocEmpty
  <2>2. s \in Range(empty_slabs) /\ s \in SlabPages /\ slab[s] \in SlabRecords /\ slab[s].used_cnt # ObjN
    BY <1>1, <2>1, ListOf, PageOnList
  <2>3. rest \in PageLists /\ Range(rest) = Range(empty_slabs) \ {s}
    <3>1. InOrder(empty_slabs, {})
      BY DEF InOrder
    <3>2. QED BY <1>1, <2>1, <3>1, ListTail
  <2> HIDE DEF s, rest
  <2>4. SlabInv' /\ Range(slabs') = Range(slabs) \cup {s}
    BY <1>1, <2>1, <2>2, <2>3, TakeKeeps
  <2>5. QED BY <2>2, <2>4
<1>4. CASE AllocPage
  <2>1. PICK s \in SlabPages \ (Range(slabs) \cup Range(empty_slabs)), p \in Paddings :
          TakeFrom(s, slab_slab_init(p), <<s>> \o slabs)
    BY <1>4 DEF AllocPage
  <2>2. ~FrontHasRoom /\ empty_slabs = <<>> /\ empty_slabs' = empty_slabs
    BY <1>4 DEF AllocPage
  <2>3. /\ slab_slab_init(p) \in SlabRecords /\ PageSound(slab_slab_init(p), {})
        /\ slab_slab_init(p).used_cnt # ObjN
    BY NewPage, SlabAssumption
  <2>4. live[s] = {}
    BY <1>1, <2>1
  <2>5. SlabInv' /\ Range(slabs') = Range(slabs) \cup {s}
    <3> DEFINE sl == slab_slab_init(p)
    <3>1. sl \in SlabRecords /\ sl.used_cnt # ObjN /\ PageSound(sl, live[s]) /\ TakeFrom(s, sl, <<s>> \o slabs)
      BY <2>1, <2>3, <2>4
    <3> HIDE DEF sl
    <3>2. empty_slabs' \in PageLists /\ s \notin Range(empty_slabs') /\ Range(slabs) \cap Range(empty_slabs') = {}
      BY <1>1, <2>1, <2>2
    <3>3. s \in SlabPages /\ s \notin Range(slabs) /\ slabs \in PageLists /\ InOrder(slabs, FullPages)
      BY <1>1, <2>1
    <3>4. \A r \in SlabPages : r # s => (live[r] # {} <=> r \in Range(slabs))
      BY <1>1
    <3>5. \A r \in Range(slabs) \cup Range(empty_slabs') : PageSound(slab[r], live[r])
      BY <1>1, <2>2
    <3>6. QED BY <3>1, <3>2, <3>3, <3>4, <3>5, TakeKeeps
  <2>6. Range(empty_slabs) = {}
    BY <2>2, EmptySeq DEF Range
  <2>7. QED BY <2>2, <2>5, <2>6, FrontOf
<1>5. QED BY <1>2, <1>3, <1>4 DEF slab_alloc

\* slab_free keeps the invariant.
LEMMA FreeKeeps ==
  ASSUME SlabInv, NEW s \in SlabPages, NEW i \in Idx, slab_free(s, i)
  PROVE  SlabInv' /\ Range(slabs') \subseteq Range(slabs)
<1> DEFINE t == slab_slab_free(slab[s], i)  L == live[s] \ {i}
<1>1. /\ slabs \in PageLists /\ empty_slabs \in PageLists
      /\ slab \in [SlabPages -> SlabRecords] /\ live \in [SlabPages -> SUBSET Idx]
      /\ InOrder(slabs, FullPages)
      /\ Range(slabs) \cap Range(empty_slabs) = {}
      /\ \A r \in SlabPages : live[r] # {} <=> r \in Range(slabs)
      /\ \A r \in Range(slabs) \cup Range(empty_slabs) : r \in SlabPages /\ PageSound(slab[r], live[r])
  BY PageOnList DEF SlabInv
<1>2. i \in live[s] /\ s \in Range(slabs) /\ s \notin Range(empty_slabs)
  BY <1>1 DEF slab_free
<1>3. /\ t \in SlabRecords /\ PageSound(t, L) /\ t.used_cnt # ObjN
      /\ t.used_cnt = 0 <=> L = {}
  <2> DEFINE sl == slab[s]  M == live[s]
  <2>1. sl \in SlabRecords /\ M \in SUBSET Idx /\ PageSound(sl, M) /\ i \in M
    BY <1>1, <1>2
  <2> HIDE DEF sl, M
  <2>2. /\ slab_slab_free(sl, i) \in SlabRecords /\ PageSound(slab_slab_free(sl, i), M \ {i})
        /\ slab_slab_free(sl, i).used_cnt # ObjN
        /\ slab_slab_free(sl, i).used_cnt = 0 <=> M \ {i} = {}
    BY <2>1, PageGets
  <2>3. QED BY <2>2 DEF sl, M
<1>4. /\ slab' = [slab EXCEPT ![s] = t] /\ live' = [live EXCEPT ![s] = L]
  BY DEF slab_free
<1>5. /\ t.used_cnt = 0 => slabs' = Unlinked(slabs, s) /\ empty_slabs' = <<s>> \o empty_slabs
      /\ t.used_cnt # 0 => /\ slabs' = IF s = Head(slabs) THEN slabs ELSE <<s>> \o Unlinked(slabs, s)
                           /\ empty_slabs' = empty_slabs
  <2>1. slab'[s] = t
    BY <1>1, <1>4
  <2> HIDE DEF t
  <2>2. QED BY <2>1 DEF slab_free
<1> HIDE DEF t
<1>6. L \in SUBSET Idx
  BY <1>1
<1> HIDE DEF L
<1>7. /\ slab' \in [SlabPages -> SlabRecords] /\ slab'[s] = t /\ \A r \in SlabPages : r # s => slab'[r] = slab[r]
      /\ live' \in [SlabPages -> SUBSET Idx] /\ live'[s] = L /\ \A r \in SlabPages : r # s => live'[r] = live[r]
  BY <1>1, <1>3, <1>4, <1>6
<1>8. s \notin FullPages' /\ \A r \in SlabPages : r # s => (r \in FullPages <=> r \in FullPages')
  BY <1>3, <1>7 DEF FullPages
<1> DEFINE u == Unlinked(slabs, s)
<1>9. u \in PageLists /\ Range(u) = Range(slabs) \ {s} /\ InOrder(u, FullPages)
  BY <1>1, <1>2, ListUnlinked
<1> HIDE DEF u
<1>10. InOrder(u, FullPages')
  BY <1>8, <1>9, OrderOfOthers
<1>11. CASE t.used_cnt = 0
  <2>1. L = {} /\ slabs' = u /\ empty_slabs' = <<s>> \o empty_slabs
    BY <1>3, <1>5, <1>11 DEF u
  <2>2. empty_slabs' \in PageLists /\ Range(empty_slabs') = Range(empty_slabs) \cup {s}
    <3>1. InOrder(empty_slabs, {})
      BY DEF InOrder
    <3>2. QED BY <1>1, <1>2, <2>1, <3>1, ListPrepend
  <2>3. Range(slabs') \cap Range(empty_slabs') = {}
    BY <1>1, <1>9, <2>1, <2>2
  <2>4. \A r \in SlabPages : live'[r] # {} <=> r \in Range(slabs')
    BY <1>1, <1>7, <1>9, <2>1
  <2>5. \A r \in Range(slabs') \cup Range(empty_slabs') : PageSound(slab'[r], live'[r])
    <3> SUFFICES ASSUME NEW r \in Range(slabs') \cup Range(empty_slabs')
                 PROVE  PageSound(slab'[r], live'[r])
      OBVIOUS
    <3>1. CASE r = s
      BY <1>3, <1>7, <3>1
    <3>2. CASE r # s
      BY <1>1, <1>7, <1>9, <2>1, <2>2, <3>2
    <3>3. QED BY <3>1, <3>2
  <2>6. slabs' \in PageLists /\ InOrder(slabs', FullPages') /\ Range(slabs') \subseteq Range(slabs)
    BY <1>9, <1>10, <2>1
  <2>7. QED BY <1>7, <2>2, <2>3, <2>4, <2>5, <2>6 DEF SlabInv
<1>12. CASE t.used_cnt # 0
  <2>1. L # {} /\ empty_slabs' = empty_slabs
    BY <1>3, <1>5, <1>12
  <2>2. slabs' \in PageLists /\ Range(slabs') = Range(slabs) /\ InOrder(slabs', FullPages')
    <3>1. CASE s = Head(slabs)
      <4>1. slabs' = slabs
        BY <1>5, <1>12, <3>1
      <4>2. slabs # <<>>
        <5>1. \E k \in 1 .. Len(slabs) : slabs[k] = s
          BY <1>1, <1>2, ListOf
        <5>2. QED BY <5>1, EmptySeq
      <4> DEFINE rest == Tail(slabs)
      <4>3. /\ rest \in PageLists /\ Range(rest) = Range(slabs) \ {s} /\ InOrder(rest, FullPages)
            /\ slabs = <<s>> \o rest
        BY <1>1, <3>1, <4>2, ListTail
      <4> HIDE DEF rest
      <4>4. InOrder(rest, FullPages')
        BY <1>8, <4>3, OrderOfOthers
      <4>5. InOrder(<<s>> \o rest, FullPages')
        BY <1>8, <4>3, <4>4, ListPrepend
      <4>6. QED BY <1>1, <4>1, <4>3, <4>5
    <3>2. CASE s # Head(slabs)
      <4>1. slabs' = <<s>> \o u
        BY <1>5, <1>12, <3>2 DEF u
      <4>2. s \notin Range(u) /\ u \in PageLists /\ Range(u) \cup {s} = Range(slabs)
        BY <1>2, <1>9
      <4>3. <<s>> \o u \in PageLists /\ Range(<<s>> \o u) = Range(u) \cup {s} /\ InOrder(<<s>> \o u, FullPages')
        BY <1>8, <1>10, <4>2, ListPrepend
      <4>4. QED BY <4>1, <4>2, <4>3
    <3>3. QED BY <3>1, <3>2
  <2>3. \A r \in SlabPages : live'[r] # {} <=> r \in Range(slabs')
    BY <1>1, <1>2, <1>7, <2>1, <2>2
  <2>4. \A r \in Range(slabs') \cup Range(empty_slabs') : PageSound(slab'[r], live'[r])
    <3> SUFFICES ASSUME NEW r \in Range(slabs') \cup Range(empty_slabs')
                 PROVE  PageSound(slab'[r], live'[r])
      OBVIOUS
    <3>1. CASE r = s
      BY <1>3, <1>7, <3>1
    <3>2. CASE r # s
      BY <1>1, <1>7, <2>1, <2>2, <3>2
    <3>3. QED BY <3>1, <3>2
  <2>5. QED BY <1>1, <1>7, <2>1, <2>2, <2>3, <2>4 DEF SlabInv
<1>13. QED BY <1>11, <1>12

\* What an owner writes to its object changes no free list.
LEMMA WriteHarmless ==
  ASSUME SlabInv, NEW s \in SlabPages, NEW i \in Idx, WriteObject(s, i)
  PROVE  UNCHANGED slabvars
<1>1. s \in Range(slabs) /\ slab \in [SlabPages -> SlabRecords] /\ slab[s] \in SlabRecords /\ PageSound(slab[s], live[s])
  BY PageOnList DEF SlabInv, WriteObject
<1>2. /\ slab[s].data >= HdrSize + ObjN /\ slab[s].data \in Nat /\ slab[s].free_list \in [Idx -> Idx]
      /\ HdrSize \in Nat /\ ObjN \in Nat /\ ObjSz \in Nat
  BY <1>1, SlabAssumption DEF PageSound, SlabRecords
<1>3. Covered(s, i) = {}
  <2> SUFFICES ASSUME NEW k \in Idx, HdrSize + k >= slab[s].data + i * ObjSz
               PROVE  FALSE
    BY <1>2 DEF Covered
  <2>1. i \in Nat /\ k \in Nat /\ k < ObjN
    BY <1>2 DEF Idx
  <2>2. PICK a \in Nat : a = i * ObjSz
    BY <1>2, <2>1
  <2>3. HdrSize + k >= slab[s].data + a
    BY <2>2
  <2>4. QED BY <1>2, <2>1, <2>3
<1>4. PICK bytes \in [Covered(s, i) -> Idx] :
        slab' = [slab EXCEPT ![s].free_list =
                   [k \in Idx |-> IF k \in Covered(s, i) THEN bytes[k] ELSE @[k]]]
  BY DEF WriteObject
<1>5. slab' = [slab EXCEPT ![s].free_list = [k \in Idx |-> slab[s].free_list[k]]]
  BY <1>1, <1>3, <1>4
<1>6. [k \in Idx |-> slab[s].free_list[k]] = slab[s].free_list
  BY <1>2
<1>7. slab' = slab
  <2>1. [slab[s] EXCEPT !.free_list = slab[s].free_list] = slab[s]
    BY <1>1 DEF SlabRecords
  <2>2. QED BY <1>1, <1>5, <1>6, <2>1
<1>8. QED BY <1>7 DEF WriteObject, slabvars

LEMMA SlabInitInv == SlabInit => SlabInv
<1> SUFFICES ASSUME SlabInit
             PROVE  SlabInv
  OBVIOUS
<1>1. slabs = <<>> /\ empty_slabs = <<>>
  BY DEF SlabInit
<1>2. <<>> \in PageLists /\ Range(<<>>) = {} /\ InOrder(<<>>, FullPages)
  <2>1. <<>> \in Seq(SlabPages) /\ Len(<<>>) = 0
    OBVIOUS
  <2>2. Range(<<>>) = {}
    BY DEF Range
  <2>3. 1 .. Len(<<>>) = {}
    BY <2>1
  <2>4. <<>> \in PageLists
    BY <2>1, <2>3, ListFrom
  <2>5. InOrder(<<>>, FullPages)
    BY <2>3 DEF InOrder
  <2>6. QED BY <2>2, <2>4, <2>5
<1>3. slab \in [SlabPages -> SlabRecords]
  <2>1. 0 \in Idx /\ 0 \in 0 .. ObjN /\ ObjN + 0 \in Nat /\ ObjN \in Nat \ {0}
    BY SlabAssumption DEF Idx
  <2>2. [i \in Idx |-> IF i < ObjN - 1 THEN i + 1 ELSE i] \in [Idx -> Idx]
    BY <2>1 DEF Idx
  <2>3. NoSlab \in SlabRecords
    BY <2>1, <2>2 DEF NoSlab, slab_slab_init, SlabRecords
  <2>4. QED BY <2>3 DEF SlabInit
<1>4. live \in [SlabPages -> SUBSET Idx] /\ \A s \in SlabPages : live[s] = {}
  BY DEF SlabInit
<1>5. QED BY <1>1, <1>2, <1>3, <1>4 DEF SlabInv

LEMMA SlabStep ==
  ASSUME ObjectsBehindList, SlabInv, [SlabNext]_slabvars
  PROVE  /\ SlabInv'
         /\ \A s \in Range(slabs') : s \notin Range(slabs) \cup Range(empty_slabs) =>
              \A r \in Range(slabs) \cup Range(empty_slabs) : live[r] = Idx
<1>1. ASSUME UNCHANGED slabvars
      PROVE  SlabInv' /\ Range(slabs') = Range(slabs)
  <2>1. slabs' = slabs /\ empty_slabs' = empty_slabs /\ slab' = slab /\ live' = live
    BY <1>1 DEF slabvars
  <2>2. FullPages' = FullPages
    BY <2>1 DEF FullPages
  <2>3. QED BY <2>1, <2>2 DEF SlabInv
<1>2. CASE slab_alloc
  BY <1>2, AllocKeeps
<1>3. ASSUME NEW s \in SlabPages, NEW i \in Idx, slab_free(s, i) \/ WriteObject(s, i)
      PROVE  SlabInv' /\ Range(slabs') \subseteq Range(slabs)
  <2>1. CASE slab_free(s, i)
    BY <2>1, FreeKeeps
  <2>2. CASE WriteObject(s, i)
    BY <1>1, <2>2, WriteHarmless
  <2>3. QED BY <1>3, <2>1, <2>2
<1>4. CASE SlabNext
  BY <1>2, <1>3, <1>4 DEF SlabNext
<1>5. CASE UNCHANGED slabvars
  BY <1>1, <1>5
<1>6. QED BY <1>4, <1>5

\* The invariant says that the free list, followed to its end, visits the
\* objects that are not handed out.
LEMMA FreeListFollows == SlabInv => FreeListIsFreeObjects
<1> SUFFICES ASSUME SlabInv, NEW s \in Range(slabs) \cup Range(empty_slabs)
             PROVE  LET n == ObjN - Cardinality(live[s])
                        c == Chain(slab[s], n)
                    IN  /\ slab[s].used_cnt = Cardinality(live[s])
                        /\ IF n = 0 THEN slab[s].first_free = -1
                           ELSE /\ {c[k] : k \in 1 .. n} = Idx \ live[s]
                                /\ slab[s].free_list[c[n]] = c[n]
  BY DEF FreeListIsFreeObjects
<1> DEFINE n == ObjN - Cardinality(live[s])  c == Chain(slab[s], n)
<1>1. /\ s \in SlabPages /\ PageSound(slab[s], live[s]) /\ slab[s].used_cnt = Cardinality(live[s])
      /\ live[s] \in SUBSET Idx
  BY PageOnList
<1>2. n \in Nat
  <2>1. Cardinality(live[s]) \in 0 .. ObjN /\ ObjN \in Nat
    BY <1>1, ObjectCount, SlabAssumption
  <2>2. QED BY <2>1
<1>3. PICK q \in [1 .. n -> Idx] : FreeChain(slab[s], live[s], n, q)
  BY <1>1 DEF PageSound
<1> HIDE DEF n
<1>4. /\ \A i \in Idx : i \notin live[s] <=> \E k \in 1 .. n : q[k] = i
      /\ IF n = 0 THEN slab[s].first_free = -1 ELSE slab[s].first_free = q[1]
      /\ \A k \in 1 .. n - 1 : slab[s].free_list[q[k]] = q[k + 1]
      /\ n # 0 => slab[s].free_list[q[n]] = q[n]
  BY <1>3 DEF FreeChain
<1>5. c = q
  <2>1. ASSUME NEW k \in 1 .. n
        PROVE  q[k] = IF k = 1 THEN slab[s].first_free ELSE slab[s].free_list[q[k - 1]]
    <3>1. CASE k = 1
      BY <1>2, <1>4, <3>1
    <3>2. CASE k # 1
      <4>1. k - 1 \in 1 .. n - 1 /\ (k - 1) + 1 = k
        BY <1>2, <3>2
      <4>2. QED BY <1>4, <3>2, <4>1
    <3>3. QED BY <3>1, <3>2
  <2> DEFINE sl == slab[s]
  <2>2. q = [k \in 1 .. n |-> IF k = 1 THEN sl.first_free ELSE sl.free_list[q[k - 1]]]
    BY <1>3, <2>1
  <2> HIDE DEF sl
  <2>3. Chain(sl, n) = q
    BY <1>2, <2>2, ChainIs
  <2>4. QED BY <2>3 DEF c, sl
<1>6. {q[k] : k \in 1 .. n} = Idx \ live[s]
  BY <1>3, <1>4
<1>7. /\ slab[s].used_cnt = Cardinality(live[s])
      /\ IF n = 0 THEN slab[s].first_free = -1
         ELSE {q[k] : k \in 1 .. n} = Idx \ live[s] /\ slab[s].free_list[q[n]] = q[n]
  BY <1>1, <1>4, <1>6
<1>8. /\ slab[s].used_cnt = Cardinality(live[s])
      /\ IF n = 0 THEN slab[s].first_free = -1
         ELSE {c[k] : k \in 1 .. n} = Idx \ live[s] /\ slab[s].free_list[c[n]] = c[n]
  <2> HIDE DEF c
  <2>1. QED BY <1>5, <1>7
<1>9. QED BY <1>8 DEF n

LEMMA ListsInOrder == SlabInv => SlabTypeOK /\ RoomBeforeFull
<1> SUFFICES ASSUME SlabInv
             PROVE  SlabTypeOK /\ RoomBeforeFull
  OBVIOUS
<1>1. /\ slabs \in PageLists /\ empty_slabs \in PageLists
      /\ slab \in [SlabPages -> SlabRecords] /\ live \in [SlabPages -> SUBSET Idx]
      /\ InOrder(slabs, FullPages) /\ Range(slabs) \cap Range(empty_slabs) = {}
      /\ \A s \in SlabPages : live[s] # {} <=> s \in Range(slabs)
  BY DEF SlabInv
<1>2. SlabTypeOK
  BY <1>1 DEF SlabTypeOK, PageLists, SlabRecords
<1>3. ASSUME NEW a \in DOMAIN slabs, NEW b \in DOMAIN slabs, a < b, slab[slabs[a]].used_cnt = ObjN
      PROVE  slab[slabs[b]].used_cnt = ObjN
  <2>1. a \in 1 .. Len(slabs) /\ b \in 1 .. Len(slabs) /\ slabs[a] \in SlabPages
    BY <1>1, ListOf
  <2>2. slabs[a] \in FullPages
    BY <1>3, <2>1 DEF FullPages
  <2>3. slabs[b] \in FullPages
    BY <1>1, <1>3, <2>1, <2>2 DEF InOrder
  <2>4. QED BY <2>3 DEF FullPages
<1>4. IsInjective(slabs \o empty_slabs)
  <2> DEFINE m == slabs \o empty_slabs  e == empty_slabs
  <2>1. /\ slabs \in Seq(SlabPages) /\ e \in Seq(SlabPages) /\ Len(slabs) \in Nat /\ Len(e) \in Nat
        /\ \A k \in 1 .. Len(slabs) : slabs[k] \in Range(slabs)
        /\ \A k \in 1 .. Len(e) : e[k] \in Range(e)
        /\ \A j, k \in 1 .. Len(slabs) : slabs[j] = slabs[k] => j = k
        /\ \A j, k \in 1 .. Len(e) : e[j] = e[k] => j = k
    BY <1>1, ListOf
  <2>2. /\ m \in Seq(SlabPages) /\ Len(m) = Len(slabs) + Len(e)
        /\ \A k \in 1 .. Len(slabs) + Len(e) : m[k] = IF k <= Len(slabs) THEN slabs[k] ELSE e[k - Len(slabs)]
    BY <2>1, ConcatProperties
  <2>3. DOMAIN m = 1 .. Len(slabs) + Len(e)
    BY <2>2
  <2> HIDE DEF m
  <2> SUFFICES ASSUME NEW j \in 1 .. Len(slabs) + Len(e), NEW k \in 1 .. Len(slabs) + Len(e), m[j] = m[k]
               PROVE  j = k
    BY <2>3 DEF IsInjective, m
  <2>4. /\ j \in 1 .. Len(slabs) \/ j - Len(slabs) \in 1 .. Len(e)
        /\ k \in 1 .. Len(slabs) \/ k - Len(slabs) \in 1 .. Len(e)
    BY <2>1
  <2> HIDE DEF e
  <2>5. CASE j <= Len(slabs) /\ k <= Len(slabs)
    <3>1. m[j] = slabs[j] /\ m[k] = slabs[k]
      BY <2>2, <2>5
    <3>2. j \in 1 .. Len(slabs) /\ k \in 1 .. Len(slabs)
      BY <2>1, <2>5
    <3>3. QED BY <2>1, <3>1, <3>2
  <2>6. CASE ~(j <= Len(slabs)) /\ ~(k <= Len(slabs))
    <3>1. m[j] = e[j - Len(slabs)] /\ m[k] = e[k - Len(slabs)]
      BY <2>2, <2>6
    <3>2. j - Len(slabs) \in 1 .. Len(e) /\ k - Len(slabs) \in 1 .. Len(e)
      BY <2>1, <2>4, <2>6
    <3>3. j - Len(slabs) = k - Len(slabs)
      BY <2>1, <3>1, <3>2
    <3>4. QED BY <2>1, <3>3
  <2>7. CASE j <= Len(slabs) /\ ~(k <= Len(slabs))
    <3>1. m[j] = slabs[j] /\ m[k] = e[k - Len(slabs)]
      BY <2>2, <2>7
    <3>2. j \in 1 .. Len(slabs) /\ k - Len(slabs) \in 1 .. Len(e)
      BY <2>1, <2>4, <2>7
    <3>3. m[j] \in Range(slabs) /\ m[k] \in Range(e)
      BY <2>1, <3>1, <3>2
    <3>4. QED BY <1>1, <3>3 DEF e
  <2>8. CASE ~(j <= Len(slabs)) /\ k <= Len(slabs)
    <3>1. m[k] = slabs[k] /\ m[j] = e[j - Len(slabs)]
      BY <2>2, <2>8
    <3>2. k \in 1 .. Len(slabs) /\ j - Len(slabs) \in 1 .. Len(e)
      BY <2>1, <2>4, <2>8
    <3>3. m[k] \in Range(slabs) /\ m[j] \in Range(e)
      BY <2>1, <3>1, <3>2
    <3>4. QED BY <1>1, <3>3 DEF e
  <2>9. QED BY <2>5, <2>6, <2>7, <2>8
<1>5. QED BY <1>1, <1>2, <1>3, <1>4 DEF RoomBeforeFull

\* No object is given to two owners and none is lost, whatever the owners write
\* to their objects (slab_slab_alloc, slab_slab_free, slab.c:11), as long as the
\* objects begin behind the free list.
THEOREM FreeListTheorem ==
  ASSUME ObjectsBehindList
  PROVE  SlabSpec => []FreeListIsFreeObjects
<1>1. SlabInv /\ [SlabNext]_slabvars => SlabInv'
  BY SlabStep
<1>2. QED BY <1>1, SlabInitInv, FreeListFollows, PTL DEF SlabSpec

\* slab_alloc (slab.c:126) asks for a page only when every object of every page
\* is handed out, the pages with room are in front of the full ones and
\* slab_free always finds the page of a live object on the list it deletes from.
THEOREM PageOnlyWhenFullTheorem ==
  ASSUME ObjectsBehindList
  PROVE  SlabSpec => PageOnlyWhenFull
<1>1. SlabInv /\ [SlabNext]_slabvars => SlabInv'
  BY SlabStep
<1>2. SlabInv /\ [SlabNext]_slabvars =>
        [\A s \in Range(slabs') :
           s \notin Range(slabs) \cup Range(empty_slabs)
             => \A r \in Range(slabs) \cup Range(empty_slabs) : live[r] = Idx]_slabvars
  BY SlabStep
<1>3. QED BY <1>1, <1>2, SlabInitInv, ListsInOrder, PTL DEF SlabSpec, PageOnlyWhenFull

-----------------------------------------------------------------------------
(* Powers of two, as the numbers of subsets.                               *)

LEMMA PowerNext ==
  ASSUME NEW n \in Nat
  PROVE  2^(n + 1) = 2^n + 2^n
<1> DEFINE S == 1 .. n  x == n + 1  T == 1 .. n + 1  A == SUBSET S  B == {U \cup {x} : U \in A}
           f == [U \in A |-> U \cup {x}]
<1>1. /\ IsFiniteSet(S) /\ Cardinality(S) = n
      /\ IsFiniteSet(T) /\ Cardinality(T) = n + 1
  BY FS_Interval
<1>2. x \notin S /\ T = S \cup {x}
  OBVIOUS
<1> HIDE DEF S, x, T
<1>3. /\ IsFiniteSet(A) /\ Cardinality(A) = 2^n
      /\ Cardinality(SUBSET T) = 2^(n + 1)
  BY <1>1, FS_SUBSET
<1>4. f \in Bijection(A, B)
  <2>1. f \in [A -> B]
    OBVIOUS
  <2>2. \A U, V \in A : f[U] = f[V] => U = V
    <3> SUFFICES ASSUME NEW U \in A, NEW V \in A, f[U] = f[V]
                 PROVE  U = V
      OBVIOUS
    <3>1. U \cup {x} = V \cup {x}
      OBVIOUS
    <3>2. x \notin U /\ x \notin V
      BY <1>2
    <3>3. QED BY <3>1, <3>2
  <2>3. \A b \in B : \E U \in A : f[U] = b
    OBVIOUS
  <2> HIDE DEF f, A, B
  <2>4. QED BY <2>1, <2>2, <2>3 DEF Bijection, Injection, Surjection, IsInjective
<1>5. IsFiniteSet(B) /\ Cardinality(B) = 2^n
  <2>1. ExistsBijection(A, B)
    BY <1>4 DEF ExistsBijection
  <2> HIDE DEF A, B
  <2>2. QED BY <1>3, <2>1, FS_Bijection
<1>6. SUBSET T = A \cup B /\ A \cap B = {}
  <2>1. A \cap B = {}
    BY <1>2
  <2>2. ASSUME NEW U \in SUBSET T
        PROVE  U \in A \cup B
    <3>1. CASE x \in U
      <4>1. U \ {x} \in A /\ U = (U \ {x}) \cup {x}
        BY <1>2, <3>1
      <4>2. QED BY <4>1
    <3>2. CASE x \notin U
      BY <1>2, <3>2
    <3>3. QED BY <3>1, <3>2
  <2>3. \A U \in A \cup B : U \in SUBSET T
    BY <1>2
  <2>4. QED BY <2>1, <2>2, <2>3
<1>7. Cardinality(A \cup B) = 2^n + 2^n - Cardinality({})
  <2> HIDE DEF A, B
  <2>1. QED BY <1>3, <1>5, <1>6, FS_Union
<1>8. Cardinality({}) = 0
  BY FS_EmptySet
<1>9. 2^n \in Nat
  BY PowerIs
<1>10. Cardinality(A \cup B) = 2^(n + 1)
  BY <1>3, <1>6
<1> HIDE DEF A, B
<1>11. QED BY <1>7, <1>8, <1>9, <1>10

\* Multiplication, where the provers need it spelt out.
LEMMA Times ==
  ASSUME NEW a \in Int, NEW b \in Int, NEW p \in Nat
  PROVE  /\ a * p \in Int /\ (a + b) * p = a * p + b * p /\ (a - b) * p = a * p - b * p
         /\ a <= b => a * p <= b * p
         /\ a * (b * p) = (a * b) * p
         /\ 1 * p = p
  OBVIOUS

LEMMA PowerDivides ==
  ASSUME NEW l \in Nat, NEW m \in Nat, l <= m
  PROVE  \E r \in Nat : r >= 1 /\ 2^m = r * 2^l
<1> DEFINE T == {k \in Nat : ~\E r \in Nat : r >= 1 /\ 2^(l + k) = r * 2^l}
<1>1. ASSUME NEW k \in T
      PROVE  k - 1 \in T
  <2>1. k \in Nat /\ ~\E r \in Nat : r >= 1 /\ 2^(l + k) = r * 2^l
    OBVIOUS
  <2>2. k # 0
    <3>1. 2^l = 1 * 2^l /\ l + 0 = l
      BY PowerIs
    <3>2. QED BY <2>1, <3>1
  <2>3. k - 1 \in Nat
    BY <2>1, <2>2
  <2>4. ASSUME NEW r \in Nat, r >= 1, 2^(l + (k - 1)) = r * 2^l
        PROVE  FALSE
    <3>1. 2^(l + k) = 2^(l + (k - 1)) + 2^(l + (k - 1))
      <4>1. l + (k - 1) \in Nat /\ (l + (k - 1)) + 1 = l + k
        BY <2>1, <2>3
      <4>2. QED BY <4>1, PowerNext
    <3>2. (r + r) * 2^l = r * 2^l + r * 2^l
      BY PowerIs, Times
    <3>3. r + r \in Nat /\ r + r >= 1
      BY <2>4
    <3>4. QED BY <2>1, <2>4, <3>1, <3>2, <3>3
  <2>5. QED BY <2>3, <2>4
<1>2. T = {}
  <2>1. T \in SUBSET Nat
    OBVIOUS
  <2> HIDE DEF T
  <2>2. QED BY <1>1, <2>1, Descent
<1>3. m - l \in Nat /\ l + (m - l) = m
  OBVIOUS
<1>4. QED BY <1>2, <1>3

LEMMA PowerGrows ==
  ASSUME NEW l \in Nat, NEW m \in Nat, l <= m
  PROVE  2^l <= 2^m
<1>1. PICK r \in Nat : r >= 1 /\ 2^m = r * 2^l
  BY PowerDivides
<1>2. 2^l \in Nat
  BY PowerIs
<1>3. 1 * 2^l <= r * 2^l /\ 1 * 2^l = 2^l
  BY <1>1, <1>2, Times
<1>4. QED BY <1>1, <1>3

-----------------------------------------------------------------------------
(* Blocks of pages.                                                        *)

\* Page number n is where a block of level l may start.
Aligned(n, l) == \E c \in Nat : n = c * 2^l

PgLists == {s \in Seq(Pages) : IsInjective(s)}

\* d starts a block of level l that is free, or that somebody holds.
IsFree(d, l)  == d \in Range(free_lists[l])
IsBlock(d, l) == IsFree(d, l) \/ (d \in Held /\ lvl[d] = l)

\* The segment has room for a block of level l at d.
Fits(d, l) == Aligned(FirstPage + d, l) /\ Reserved <= d /\ d + 2^l <= NumPages

\* The block of level l at d is not, and not part of, a block.
Divided(d, l) ==
  \A e \in Pages, m \in Lvls : IsBlock(e, m) => ~(e <= d /\ d + 2^l <= e + 2^m)

PgTypes ==
  /\ free_lists \in [Lvls -> PgLists]
  /\ used \subseteq Pages /\ lvl \in [Pages -> Lvls]
  /\ stacks \subseteq Pages /\ kept \subseteq Pages /\ corrupt = FALSE

\* Blocks fit, do not overlap and leave no page out; what is held is not free.
BlocksSound ==
  /\ \A d \in Pages, l \in Lvls : IsBlock(d, l) => Fits(d, l)
  /\ \A d, e \in Pages, l, m \in Lvls :
       IsBlock(d, l) /\ IsBlock(e, m) => (d = e /\ l = m) \/ d + 2^l <= e \/ e + 2^m <= d
  /\ \A i \in Reserved .. NumPages - 1 : \E d \in Pages, l \in Lvls : IsBlock(d, l) /\ i \in Span(d, l)
  /\ \A d \in Held, l \in Lvls : ~IsFree(d, l)

HoldersApart ==
  /\ stacks \cap kept = {} /\ \A d \in stacks : lvl[d] = 0
  /\ 0 .. Reserved - 1 \subseteq used

\* Half of a divided block is marked used, or a free block.
HalvesMarked ==
  \A d \in Pages, l \in Lvls :
    l + 1 \in Lvls /\ Fits(d, l + 1) /\ Divided(d, l + 1) =>
      /\ d \notin used => IsFree(d, l)
      /\ d + 2^l \notin used => IsFree(d + 2^l, l)

\* Page y is the upper half of a block that the end of the segment cuts off.
CutOff(d, l, y) == Fits(d, l) /\ Aligned(FirstPage + d, l + 1) /\ y = d + 2^l /\ y + 2^l > NumPages

\* Until it is marked used it starts a free block, as large as its room, and the
\* block below it is not divided but for good.
TailMarked ==
  \A d, y \in Pages, l \in Lvls :
    l + 1 \in Lvls /\ CutOff(d, l, y) /\ y \notin used =>
      /\ \E m \in Lvls : m < l /\ IsFree(y, m) /\ y + 2^(m + 1) > NumPages
      /\ Divided(d, l) => \E k \in kept : k \in Span(d, l)

PgInv == PgTypes /\ BlocksSound /\ HoldersApart /\ HalvesMarked /\ TailMarked

LEMMA AlignedNat ==
  ASSUME NEW n \in Nat, NEW l \in Nat
  PROVE  /\ Aligned(n, l) => Aligned(n + 2^l, l)
         /\ Aligned(n, l) /\ 2^l <= n => Aligned(n - 2^l, l)
         /\ Aligned(n, 0)
         /\ \A k \in 0 .. l : Aligned(n, l) => Aligned(n, k)
<1>1. 2^l \in Nat /\ 2^l >= 1
  BY PowerIs
<1>2. Aligned(n, l) => Aligned(n + 2^l, l)
  <2> SUFFICES ASSUME NEW c \in Nat, n = c * 2^l
               PROVE  \E d \in Nat : n + 2^l = d * 2^l
    BY DEF Aligned
  <2>1. (c + 1) * 2^l = c * 2^l + 1 * 2^l /\ 1 * 2^l = 2^l
    BY <1>1, Times
  <2>2. c + 1 \in Nat /\ n + 2^l = (c + 1) * 2^l
    BY <2>1
  <2>3. QED BY <2>2
<1>3. Aligned(n, l) /\ 2^l <= n => Aligned(n - 2^l, l)
  <2> SUFFICES ASSUME NEW c \in Nat, n = c * 2^l, 2^l <= n
               PROVE  \E d \in Nat : n - 2^l = d * 2^l
    BY DEF Aligned
  <2>1. (c - 1) * 2^l = c * 2^l - 1 * 2^l /\ 1 * 2^l = 2^l
    BY <1>1, Times
  <2>2. c # 0
    <3>1. 0 * 2^l = 0
      BY <1>1
    <3>2. QED BY <1>1, <3>1
  <2>3. c - 1 \in Nat /\ n - 2^l = (c - 1) * 2^l
    BY <2>1, <2>2
  <2>4. QED BY <2>3
<1>4. Aligned(n, 0)
  <2>1. n = n * 2^0
    OBVIOUS
  <2>2. QED BY <2>1 DEF Aligned
<1>5. ASSUME NEW k \in 0 .. l, NEW c \in Nat, n = c * 2^l
      PROVE  Aligned(n, k)
  <2>1. PICK r \in Nat : 2^l = r * 2^k
    BY <1>5, PowerDivides
  <2>2. 2^k \in Nat
    BY PowerIs
  <2>3. n = (c * r) * 2^k
    BY <1>5, <2>1, <2>2, Times
  <2>4. c * r \in Nat
    OBVIOUS
  <2>5. QED BY <2>3, <2>4 DEF Aligned
<1>6. QED BY <1>2, <1>3, <1>4, <1>5 DEF Aligned

\* Of two multiples the smaller is smaller by the unit at least.
LEMMA Multiples ==
  ASSUME NEW a \in Nat, NEW b \in Nat, NEW p \in Nat, p >= 1, a * p < b * p
  PROVE  a * p + p <= b * p
<1>1. a < b
  <2>1. b <= a => b * p <= a * p
    BY Times
  <2>2. a * p \in Int /\ b * p \in Int
    BY Times
  <2>3. QED BY <2>1, <2>2
<1>2. (a + 1) * p <= b * p /\ (a + 1) * p = a * p + 1 * p /\ 1 * p = p
  BY <1>1, Times
<1>3. QED BY <1>2

LEMMA AlignedApart ==
  ASSUME NEW n \in Nat, NEW m \in Nat, NEW l \in Nat, Aligned(n, l), Aligned(m, l), n < m
  PROVE  n + 2^l <= m
<1>1. PICK a \in Nat : n = a * 2^l
  BY DEF Aligned
<1>2. PICK b \in Nat : m = b * 2^l
  BY DEF Aligned
<1>3. QED BY <1>1, <1>2, PowerIs, Multiples

\* Two blocks are apart or one lies in the other.
LEMMA Nested ==
  ASSUME NEW n \in Nat, NEW m \in Nat, NEW l \in Nat, NEW k \in Nat, l <= k,
         Aligned(n, l), Aligned(m, k)
  PROVE  (m <= n /\ n + 2^l <= m + 2^k) \/ n + 2^l <= m \/ m + 2^k <= n
<1>1. Aligned(m + 2^k, k) /\ 2^k \in Nat /\ 2^l \in Nat
  BY AlignedNat, PowerIs
<1>2. Aligned(m, l) /\ Aligned(m + 2^k, l)
  BY <1>1, AlignedNat
<1>3. n < m => n + 2^l <= m
  BY AlignedApart, <1>2
<1>4. n < m + 2^k => n + 2^l <= m + 2^k
  BY AlignedApart, <1>1, <1>2
<1>5. QED BY <1>1, <1>3, <1>4

\* The halves of a block; the upper half starts no larger block.
LEMMA Halves ==
  ASSUME NEW n \in Nat, NEW l \in Nat, Aligned(n, l + 1)
  PROVE  /\ 2^(l + 1) = 2^l + 2^l /\ 2^l \in Nat /\ 2^l >= 1
         /\ Aligned(n, l) /\ Aligned(n + 2^l, l)
         /\ \A k \in Nat : k > l => ~Aligned(n + 2^l, k)
<1>1. 2^(l + 1) = 2^l + 2^l /\ 2^l \in Nat /\ 2^l >= 1
  BY PowerNext, PowerIs
<1>2. Aligned(n, l) /\ Aligned(n + 2^l, l)
  BY AlignedNat
<1>3. ASSUME NEW k \in Nat, k > l, Aligned(n + 2^l, k)
      PROVE  FALSE
  <2>1. Aligned(n + 2^l, l + 1) /\ n + 2^l \in Nat /\ l + 1 \in Nat
    BY <1>1, <1>3, AlignedNat
  <2>2. n + 2^(l + 1) <= n + 2^l
    BY <1>1, <2>1, AlignedApart
  <2>3. QED BY <1>1, <2>2
<1>4. QED BY <1>1, <1>2, <1>3

\* BlockOf and BuddyPage: the block that a page lies in, and the other half.
LEMMA BlockOfIs ==
  ASSUME NEW i \in Nat, NEW l \in Nat
  PROVE  /\ BlockOf(i, l) \in Nat /\ Aligned(BlockOf(i, l), l)
         /\ BlockOf(i, l) <= FirstPage + i /\ FirstPage + i < BlockOf(i, l) + 2^l
         /\ \A n \in Nat : Aligned(n, l) /\ n <= FirstPage + i /\ FirstPage + i < n + 2^l => n = BlockOf(i, l)
<1> DEFINE p == 2^l  x == FirstPage + i  c == x \div p  b == BlockOf(i, l)
<1>1. p \in Nat /\ p >= 1 /\ x \in Nat
  BY PowerIs, PgAssumption
<1>2. b = p * c
  BY DEF BlockOf
<1> HIDE DEF p, x, b
<1>3. c \in Nat /\ p * c <= x /\ x < p * c + p /\ p * c = c * p /\ p * c \in Nat
  BY <1>1
<1> HIDE DEF c
<1>4. b \in Nat /\ b <= x /\ x < b + p /\ Aligned(b, l)
  BY <1>2, <1>3 DEF Aligned, p
<1>5. ASSUME NEW n \in Nat, Aligned(n, l), n <= x, x < n + p
      PROVE  n = b
  <2>1. n < b => n + p <= b
    BY <1>4, <1>5, AlignedApart DEF p
  <2>2. b < n => b + p <= n
    BY <1>4, <1>5, AlignedApart DEF p
  <2>3. QED BY <1>1, <1>4, <1>5, <2>1, <2>2
<1>6. QED BY <1>4, <1>5 DEF b, x, p

LEMMA BuddyIs ==
  ASSUME NEW i \in Nat, NEW l \in Nat
  PROVE  /\ BuddyPage(i, l) \in Nat
         /\ \/ BlockOf(i, l + 1) = BlockOf(i, l) /\ BuddyPage(i, l) = BlockOf(i, l) + 2^l
            \/ BlockOf(i, l + 1) = BuddyPage(i, l) /\ BlockOf(i, l) = BuddyPage(i, l) + 2^l
<1> DEFINE p == 2^l  x == FirstPage + i  b == BlockOf(i, l)  e == b \div p  y == BuddyPage(i, l)
<1>1. p \in Nat /\ p >= 1 /\ x \in Nat /\ b \in Nat /\ b <= x /\ x < b + p /\ 2^(l + 1) = p + p
  <2>1. p \in Nat /\ p >= 1 /\ 2^(l + 1) = p + p
    BY PowerIs, PowerNext
  <2>2. b \in Nat /\ b <= x /\ x < b + p
    BY BlockOfIs
  <2>3. x \in Nat
    BY PgAssumption
  <2> HIDE DEF p, x, b
  <2>4. QED BY <2>1, <2>2, <2>3
<1>2. PICK c \in Nat : b = c * p
  BY BlockOfIs DEF Aligned
<1>3. y = IF e % 2 = 1 THEN b - p ELSE b + p
  BY DEF BuddyPage
<1> HIDE DEF p, x, b, y
<1>4. e = c
  <2>1. e \in Int /\ p * e <= b /\ b < p * e + p
    BY <1>1
  <2> HIDE DEF e
  <2>2. p * e = e * p
    BY <1>1, <2>1
  <2>3. e * p <= c * p /\ c * p < e * p + p
    BY <1>2, <2>1, <2>2
  <2>4. ~(e < c)
    <3>1. e + 1 <= c => (e + 1) * p <= c * p
      BY <1>1, <2>1, Times
    <3>2. (e + 1) * p = e * p + 1 * p /\ 1 * p = p
      BY <1>1, <2>1, Times
    <3>3. QED BY <1>1, <2>1, <2>3, <3>1, <3>2
  <2>5. ~(c < e)
    <3>1. c + 1 <= e => (c + 1) * p <= e * p
      BY <1>1, <2>1, Times
    <3>2. (c + 1) * p = c * p + 1 * p /\ 1 * p = p /\ c * p \in Int /\ e * p \in Int
      BY <1>1, <2>1, Times
    <3>3. QED BY <1>1, <2>1, <2>3, <3>1, <3>2
  <2>6. QED BY <2>1, <2>4, <2>5
<1> HIDE DEF e
<1>5. CASE c % 2 = 1
  <2>1. PICK d \in Nat : c = d + d + 1
    <3>1. c \div 2 \in Nat /\ c = (c \div 2) + (c \div 2) + 1
      BY <1>5
    <3>2. QED BY <3>1
  <2>2. b = d * p + d * p + p /\ d * (p + p) = d * p + d * p /\ d * p \in Nat
    <3>1. (d + d + 1) * p = (d + d) * p + 1 * p /\ (d + d) * p = d * p + d * p /\ 1 * p = p
      BY <1>1, Times
    <3>2. QED BY <1>1, <1>2, <2>1, <3>1
  <2>3. y = d * (p + p) /\ y \in Nat /\ b = y + p
    BY <1>1, <1>3, <1>4, <1>5, <2>2
  <2>4. Aligned(y, l + 1)
    BY <1>1, <2>3 DEF Aligned
  <2>5. y <= x /\ x < y + 2^(l + 1)
    BY <1>1, <2>3
  <2>6. y = BlockOf(i, l + 1)
    BY <2>3, <2>4, <2>5, BlockOfIs DEF x
  <2>7. QED BY <2>3, <2>6 DEF b, y, p
<1>6. CASE c % 2 # 1
  <2>1. PICK d \in Nat : c = d + d
    <3>1. c \div 2 \in Nat /\ c = (c \div 2) + (c \div 2)
      BY <1>6
    <3>2. QED BY <3>1
  <2>2. b = d * p + d * p /\ d * (p + p) = d * p + d * p /\ d * p \in Nat
    <3>1. (d + d) * p = d * p + d * p
      BY <1>1, Times
    <3>2. QED BY <1>1, <1>2, <2>1, <3>1
  <2>3. b = d * (p + p) /\ y = b + p
    BY <1>1, <1>3, <1>4, <1>6, <2>2
  <2>4. Aligned(b, l + 1)
    BY <1>1, <2>3 DEF Aligned
  <2>5. b <= x /\ x < b + 2^(l + 1)
    BY <1>1
  <2>6. b = BlockOf(i, l + 1)
    BY <1>1, <2>4, <2>5, BlockOfIs DEF x
  <2>7. QED BY <1>1, <2>3, <2>6 DEF b, y, p
<1>7. QED BY <1>5, <1>6

LEMMA AlignedMod ==
  ASSUME NEW n \in Nat, NEW l \in Nat
  PROVE  n % 2^l = 0 <=> Aligned(n, l)
<1> DEFINE p == 2^l  q == n \div p  r == n % p
<1>1. p \in Nat /\ p >= 1
  BY PowerIs
<1> HIDE DEF p
<1>2. q \in Nat /\ r \in Nat /\ r < p /\ n = p * q + r /\ p * q = q * p /\ q * p \in Nat
  BY <1>1
<1> HIDE DEF q, r
<1>3. r = 0 => Aligned(n, l)
  BY <1>2 DEF Aligned, p
<1>4. ASSUME NEW c \in Nat, n = c * p
      PROVE  r = 0
  <2>1. ~(q * p < c * p)
    <3>1. q * p < c * p => q * p + p <= c * p
      BY <1>1, <1>2, Multiples
    <3>2. QED BY <1>1, <1>2, <1>4, <3>1
  <2>2. QED BY <1>2, <1>4, <2>1
<1>5. QED BY <1>3, <1>4 DEF Aligned, p, r

\* pg_addr_maxlvl and pg_pagecnt_maxlvl: a block of the segment's first partition
\* is the largest that its address and the segment allow.
LEMMA BlockLvlIs ==
  ASSUME NEW i \in Reserved .. NumPages - 1
  PROVE  /\ BlockLvl(i) \in Lvls /\ Fits(i, BlockLvl(i))
         /\ \A l \in Lvls : l > BlockLvl(i) /\ Aligned(FirstPage + i, l) => i + 2^l > NumPages
<1> DEFINE S == {l \in Lvls : (FirstPage + i) % 2^l = 0}  a == pg_addr_maxlvl(i)
<1>1. /\ MaxLvl \in Nat /\ NumPages \in Nat /\ FirstPage \in Nat /\ Reserved \in Nat
      /\ i \in Nat /\ FirstPage + i \in Nat /\ i < NumPages /\ Reserved <= i
      /\ \A l \in Lvls : l \in Nat
  BY PgAssumption DEF Lvls
<1>2. \A l \in Lvls : l \in S <=> Aligned(FirstPage + i, l)
  BY <1>1, AlignedMod
<1>3. 0 \in Lvls /\ 0 \in S
  BY <1>1, <1>2, AlignedNat DEF Lvls
<1>4. S \in SUBSET (0 .. MaxLvl)
  BY DEF Lvls
<1>5. a = Max(S)
  BY DEF pg_addr_maxlvl
<1> HIDE DEF S, a
<1>6. a \in S /\ \A l \in S : l <= a
  BY <1>1, <1>3, <1>4, <1>5, MaxOf
<1>7. a \in Lvls /\ a \in Nat /\ Aligned(FirstPage + i, a) /\ \A l \in Lvls : Aligned(FirstPage + i, l) => l <= a
  BY <1>1, <1>2, <1>4, <1>6 DEF Lvls
<1>8. CASE i + 2^a <= NumPages
  <2>1. BlockLvl(i) = a
    BY <1>8 DEF BlockLvl, a
  <2>2. \A l \in Lvls : ~(l > a /\ Aligned(FirstPage + i, l))
    BY <1>1, <1>7
  <2>3. QED BY <1>1, <1>7, <1>8, <2>1, <2>2 DEF Fits
<1>9. CASE ~(i + 2^a <= NumPages)
  <2> DEFINE n == NumPages - i  G == {l \in 0 .. a : 2^l <= n}  g == Max(G)
             H == {0} \cup {l \in Lvls : (n \div 2^l) % 2 = 1}
  <2>1. n \in Nat /\ n >= 1 /\ n < 2^a /\ 2^a \in Nat
    BY <1>1, <1>7, <1>9, PowerIs
  <2>2. BlockLvl(i) = Min({a, Max(H)})
    BY <1>9 DEF BlockLvl, a, pg_pagecnt_maxlvl
  <2> HIDE DEF n
  <2>3. 0 \in G
    BY <1>7, <2>1
  <2>4. g \in 0 .. a /\ 2^g <= n /\ \A l \in G : l <= g
    <3>1. G \in SUBSET (0 .. a)
      OBVIOUS
    <3>2. g \in G /\ \A l \in G : l <= g
      <4> HIDE DEF G
      <4>1. QED BY <1>7, <2>3, <3>1, MaxOf
    <3> HIDE DEF g
    <3>3. QED BY <3>2
  <2> HIDE DEF g
  <2>5. g < a /\ g + 1 \in 0 .. a /\ g \in Nat
    BY <1>7, <2>1, <2>4
  <2>6. 2^g \in Nat /\ 2^(g + 1) = 2^g + 2^g
    BY <2>5, PowerIs, PowerNext
  <2>7. 2^(g + 1) > n
    <3>1. g + 1 \notin G
      BY <2>4, <2>5
    <3>2. QED BY <2>1, <2>5, <2>6, <3>1
  <2> HIDE DEF G
  <2>8. g \in Lvls /\ g \in H
    <3>1. g \in Lvls
      BY <1>1, <1>7, <2>5 DEF Lvls
    <3>2. n \div 2^g = 1
      <4> DEFINE p == 2^g
      <4>1. p \in Nat /\ p <= n /\ n < p + p /\ n \in Nat
        BY <2>1, <2>4, <2>6, <2>7
      <4> HIDE DEF p
      <4>2. n \div p = 1
        BY <4>1
      <4>3. QED BY <4>2 DEF p
    <3>3. QED BY <3>1, <3>2
  <2>9. ASSUME NEW l \in Lvls, l > g
        PROVE  2^l > n /\ l \notin H
    <3>1. l \in Nat /\ g + 1 <= l
      BY <1>1, <2>5, <2>9
    <3>2. 2^(g + 1) <= 2^l /\ 2^l \in Nat
      BY <2>5, <3>1, PowerGrows, PowerIs
    <3>3. 2^l > n
      BY <2>1, <2>6, <2>7, <3>2
    <3>4. n \div 2^l = 0
      <4> DEFINE p == 2^l
      <4>1. p \in Nat /\ n < p /\ n \in Nat
        BY <2>1, <3>2, <3>3
      <4> HIDE DEF p
      <4>2. n \div p = 0
        BY <4>1
      <4>3. QED BY <4>2 DEF p
    <3>5. l # 0
      BY <2>5, <2>9
    <3>6. QED BY <3>3, <3>4, <3>5
  <2>10. Max(H) = g
    <3>1. H \in SUBSET (0 .. MaxLvl)
      BY <1>1 DEF Lvls
    <3> HIDE DEF H
    <3>2. Max(H) \in H /\ \A l \in H : l <= Max(H)
      BY <1>1, <2>8, <3>1, MaxOf
    <3>3. Max(H) \in Lvls /\ g <= Max(H)
      BY <2>8, <3>1, <3>2 DEF Lvls
    <3>4. ~(Max(H) > g)
      BY <2>9, <3>2, <3>3
    <3>5. QED BY <1>1, <2>5, <3>3, <3>4
  <2>11. BlockLvl(i) = g
    <3>1. {a, g} \in SUBSET Nat
      BY <1>7, <2>5
    <3>2. Min({a, g}) \in {a, g} /\ Min({a, g}) <= g
      BY <3>1, MinOf
    <3>3. BlockLvl(i) = Min({a, g})
      <4> HIDE DEF H
      <4>1. QED BY <2>2, <2>10
    <3>4. QED BY <1>7, <2>5, <3>2, <3>3
  <2>12. Aligned(FirstPage + i, g)
    BY <1>1, <1>7, <2>5, AlignedNat
  <2>13. i + 2^g <= NumPages
    BY <1>1, <2>4, <2>6 DEF n
  <2>14. \A l \in Lvls : l > g => i + 2^l > NumPages
    <3> SUFFICES ASSUME NEW l \in Lvls, l > g
                 PROVE  i + 2^l > NumPages
      OBVIOUS
    <3>1. 2^l > n /\ 2^l \in Nat
      BY <1>1, <2>9, PowerIs
    <3>2. QED BY <1>1, <3>1 DEF n
  <2>15. QED BY <1>1, <2>8, <2>11, <2>12, <2>13, <2>14 DEF Fits
<1>10. QED BY <1>8, <1>9

\* pg_init_free_lists_add_range: from the first page that is not reserved each
\* block starts where the one before ends.
LEMMA StartIs ==
  \A i \in 0 .. NumPages :
    IsBlockStart[i] <=> \/ i = Reserved
                        \/ \E j \in Reserved .. i - 1 : IsBlockStart[j] /\ j + 2^BlockLvl(j) = i
<1> DEFINE D == 0 .. NumPages
           Closed(C) == /\ Reserved \in C
                        /\ \A i \in D : \A j \in Reserved .. i - 1 :
                             j \in C /\ j + 2^BlockLvl(j) = i => i \in C
           T == {i \in D : \A C \in SUBSET D : Closed(C) => i \in C}
           Starts(f) == [i \in D |-> \/ i = Reserved
                                     \/ \E j \in Reserved .. i - 1 : f[j] /\ j + 2^BlockLvl(j) = i]
<1>1. Reserved \in D /\ NumPages \in Nat
  BY PgAssumption
<1>2. Closed(T)
  BY <1>1
<1>3. ASSUME NEW i \in T, i # Reserved, \A j \in Reserved .. i - 1 : ~(j \in T /\ j + 2^BlockLvl(j) = i)
      PROVE  FALSE
  <2> DEFINE C == T \ {i}
  <2>1. C \in SUBSET D
    OBVIOUS
  <2>2. Closed(C)
    BY <1>2, <1>3
  <2> HIDE DEF Closed, C
  <2>3. i \in C
    BY <2>1, <2>2
  <2>4. QED BY <2>3 DEF C
<1>4. \A i \in D : i \in T <=> \/ i = Reserved
                               \/ \E j \in Reserved .. i - 1 : j \in T /\ j + 2^BlockLvl(j) = i
  BY <1>2, <1>3
<1> HIDE DEF T
<1> DEFINE g == [i \in D |-> i \in T]
<1>5. \A i \in D : \A j \in Reserved .. i - 1 : j \in D
  BY <1>1
<1>6. g = Starts(g)
  <2> DEFINE Rule(f, i) == \/ i = Reserved
                           \/ \E j \in Reserved .. i - 1 : f[j] /\ j + 2^BlockLvl(j) = i
  <2>1. \A i \in D : g[i] = (i \in T)
    OBVIOUS
  <2>2. ASSUME NEW i \in D
        PROVE  (i \in T) = Rule(g, i)
    <3>1. \A j \in Reserved .. i - 1 : g[j] = (j \in T)
      BY <1>5, <2>1
    <3> HIDE DEF g, D
    <3>2. i \in T <=> Rule(g, i)
      BY <1>4, <3>1, Zenon
    <3>3. CASE i \in T
      <4>1. (i \in T) = TRUE
        BY <3>3
      <4>2. Rule(g, i) = TRUE
        BY <3>2, <3>3, Zenon
      <4> HIDE DEF Rule
      <4>3. QED BY <4>1, <4>2
    <3>4. CASE ~(i \in T)
      <4>1. (i \in T) = FALSE
        BY <3>4
      <4>2. Rule(g, i) = FALSE
        BY <3>2, <3>4, Zenon
      <4> HIDE DEF Rule
      <4>3. QED BY <4>1, <4>2
    <3>5. QED BY <3>3, <3>4
  <2> HIDE DEF Rule
  <2>3. g = [i \in D |-> Rule(g, i)]
    <3>1. [i \in D |-> i \in T] = [i \in D |-> Rule(g, i)]
      <4> HIDE DEF g
      <4>1. QED BY <2>2, Zenon
    <3>2. QED BY <3>1, Zenon
  <2>4. QED BY <2>3, Zenon DEF Rule
<1>7. IsBlockStart = Starts(IsBlockStart)
  <2>1. IsBlockStart = CHOOSE f : f = Starts(f)
    BY DEF IsBlockStart
  <2> HIDE DEF Starts, g
  <2>2. \E f : f = Starts(f)
    BY <1>6
  <2>3. QED BY <2>1, <2>2
<1>8. QED BY <1>7, Zenon

LEMMA PagesInOrder ==
  ASSUME NEW S \in SUBSET Pages
  PROVE  InAddressOrder(S) \in PgLists /\ Range(InAddressOrder(S)) = S
<1> DEFINE f == InAddressOrder(S)
<1>1. NumPages \in Nat /\ S \in SUBSET Nat
  BY PgAssumption DEF Pages
<1>2. IsFiniteSet(S)
  <2>1. IsFiniteSet(Pages)
    BY <1>1, FS_Interval DEF Pages
  <2>2. QED BY <2>1, FS_Subset
<1>3. f \in Seq(S) /\ IsInjective(f) /\ Range(f) = S
  BY <1>1, <1>2, InAddressOrderIs
<1> HIDE DEF f
<1>4. f \in Seq(Pages)
  BY <1>3
<1>5. f \in PgLists
  BY <1>3, <1>4 DEF PgLists
<1>6. QED BY <1>3, <1>5 DEF f

\* Where a block of the segment's first partition starts.
Start(i) == i \in Reserved .. NumPages - 1 /\ IsBlockStart[i]

LEMMA StartsCover ==
  \A i \in Reserved .. NumPages - 1 : \E j \in Nat : Start(j) /\ j <= i /\ i < j + 2^BlockLvl(j)
<1> DEFINE Known(i) == \E j \in Nat : Start(j) /\ j <= i /\ i < j + 2^BlockLvl(j)
           T == {k \in Nat : Reserved + k < NumPages /\ ~Known(Reserved + k)}
<1>1. Reserved \in Nat /\ NumPages \in Nat
  BY PgAssumption
<1>2. ASSUME NEW i \in Nat, Start(i)
      PROVE  Known(i) /\ BlockLvl(i) \in Nat /\ 2^BlockLvl(i) \in Nat /\ i + 2^BlockLvl(i) <= NumPages
  <2>1. BlockLvl(i) \in Lvls /\ i + 2^BlockLvl(i) <= NumPages
    BY <1>2, BlockLvlIs DEF Start, Fits
  <2>2. BlockLvl(i) \in Nat
    BY <2>1, PgAssumption DEF Lvls
  <2>3. 2^BlockLvl(i) \in Nat /\ 2^BlockLvl(i) >= 1
    BY <2>2, PowerIs
  <2>4. QED BY <1>2, <2>1, <2>2, <2>3
<1>3. ASSUME NEW k \in T
      PROVE  k - 1 \in T
  <2>1. k \in Nat /\ Reserved + k < NumPages /\ ~Known(Reserved + k) /\ Reserved + k \in Nat
    BY <1>1
  <2> HIDE DEF Known
  <2>2. k # 0
    <3>1. Start(Reserved) /\ Reserved \in 0 .. NumPages
      BY <1>1, PgAssumption, StartIs DEF Start
    <3>2. QED BY <1>1, <1>2, <2>1, <3>1
  <2>3. k - 1 \in Nat /\ Reserved + (k - 1) < NumPages /\ Reserved + (k - 1) \in Nat
    BY <1>1, <2>1, <2>2
  <2>4. ASSUME Known(Reserved + (k - 1))
        PROVE  FALSE
    <3>1. PICK j \in Nat : Start(j) /\ j <= Reserved + (k - 1) /\ Reserved + (k - 1) < j + 2^BlockLvl(j)
      BY <2>4 DEF Known
    <3>2. 2^BlockLvl(j) \in Nat
      BY <1>2, <3>1
    <3>3. ~(Reserved + k < j + 2^BlockLvl(j))
      BY <1>1, <2>1, <3>1 DEF Known
    <3>4. j + 2^BlockLvl(j) = Reserved + k /\ j \in Reserved .. (Reserved + k) - 1
      BY <1>1, <2>1, <2>3, <3>1, <3>2, <3>3 DEF Start
    <3>5. IsBlockStart[Reserved + k]
      <4>1. Reserved + k \in 0 .. NumPages
        BY <1>1, <2>1
      <4>2. IsBlockStart[j]
        BY <3>1 DEF Start
      <4>3. QED BY <3>4, <4>1, <4>2, StartIs
    <3>6. Start(Reserved + k)
      BY <1>1, <2>1, <3>5 DEF Start
    <3>7. QED BY <1>2, <2>1, <3>6
  <2>5. QED BY <2>3, <2>4
<1>4. T = {}
  <2>1. T \in SUBSET Nat
    OBVIOUS
  <2> HIDE DEF T
  <2>2. QED BY <1>3, <2>1, Descent
<1>5. ASSUME NEW i \in Reserved .. NumPages - 1
      PROVE  Known(i)
  <2>1. i - Reserved \in Nat /\ Reserved + (i - Reserved) = i /\ i < NumPages
    BY <1>1
  <2> HIDE DEF Known
  <2>2. QED BY <1>4, <2>1
<1>6. QED BY <1>5

LEMMA StartsApart ==
  ASSUME NEW i \in Nat, NEW j \in Nat, Start(i), Start(j), i < j
  PROVE  i + 2^BlockLvl(i) <= j
<1> DEFINE T == {k \in Nat : Start(k) /\ \E h \in Nat : Start(h) /\ h < k /\ h + 2^BlockLvl(h) > k}
<1>1. Reserved \in Nat /\ NumPages \in Nat
  BY PgAssumption
<1>2. ASSUME NEW k \in Nat, Start(k)
      PROVE  2^BlockLvl(k) \in Nat /\ 2^BlockLvl(k) >= 1
  <2>1. BlockLvl(k) \in Lvls
    BY <1>2, BlockLvlIs DEF Start
  <2>2. BlockLvl(k) \in Nat
    BY <2>1, PgAssumption DEF Lvls
  <2>3. QED BY <2>2, PowerIs
<1>3. ASSUME NEW k \in T
      PROVE  \E m \in T : m < k
  <2>1. k \in Nat /\ Start(k)
    OBVIOUS
  <2>2. PICK h \in Nat : Start(h) /\ h < k /\ h + 2^BlockLvl(h) > k
    OBVIOUS
  <2>3. k # Reserved /\ k \in 0 .. NumPages
    BY <1>1, <2>1, <2>2 DEF Start
  <2>4. PICK m \in Reserved .. k - 1 : IsBlockStart[m] /\ m + 2^BlockLvl(m) = k
    BY <2>1, <2>3, StartIs DEF Start
  <2>5. m \in Nat /\ Start(m) /\ m < k
    BY <1>1, <2>1, <2>3, <2>4 DEF Start
  <2>6. CASE h < m
    BY <1>2, <2>2, <2>4, <2>5, <2>6
  <2>7. CASE m < h
    <3>1. m + 2^BlockLvl(m) > h
      BY <2>2, <2>4
    <3>2. h \in T
      BY <2>2, <2>5, <2>7, <3>1
    <3>3. QED BY <2>2, <3>2
  <2>8. h # m
    BY <1>2, <2>2, <2>4
  <2>9. QED BY <2>2, <2>5, <2>6, <2>7, <2>8
<1>4. T = {}
  <2>1. T \in SUBSET Nat
    OBVIOUS
  <2> HIDE DEF T
  <2>2. ASSUME T # {}
        PROVE  FALSE
    <3>1. PICK x \in T : \A y \in T : x <= y
      BY <2>1, <2>2, SmallestOf
    <3>2. PICK m \in T : m < x
      BY <1>3
    <3>3. x <= m /\ x \in Nat /\ m \in Nat
      BY <2>1, <3>1
    <3>4. QED BY <3>2, <3>3
  <2>3. QED BY <2>2
<1>5. ~(i + 2^BlockLvl(i) > j)
  BY <1>4
<1>6. 2^BlockLvl(i) \in Nat
  BY <1>2
<1>7. QED BY <1>5, <1>6

\* Whatever the segment has room for lies in one block of the partition.
LEMMA StartsHold ==
  ASSUME NEW d \in Nat, NEW l \in Lvls, Fits(d, l)
  PROVE  \E i \in Nat : Start(i) /\ i <= d /\ d + 2^l <= i + 2^BlockLvl(i) /\ l <= BlockLvl(i)
<1>1. /\ Reserved \in Nat /\ NumPages \in Nat /\ FirstPage \in Nat /\ MaxLvl \in Nat
      /\ l \in Nat /\ 2^l \in Nat /\ 2^l >= 1 /\ l <= MaxLvl
  BY PgAssumption, PowerIs DEF Lvls
<1>2. Aligned(FirstPage + d, l) /\ Reserved <= d /\ d + 2^l <= NumPages
  BY DEF Fits
<1>3. d \in Reserved .. NumPages - 1
  BY <1>1, <1>2
<1>4. PICK i \in Nat : Start(i) /\ i <= d /\ d < i + 2^BlockLvl(i)
  BY <1>3, StartsCover
<1> DEFINE b == BlockLvl(i)
<1>5. /\ i \in Reserved .. NumPages - 1 /\ b \in Lvls /\ Aligned(FirstPage + i, b)
      /\ \A k \in Lvls : k > b /\ Aligned(FirstPage + i, k) => i + 2^k > NumPages
  BY <1>4, BlockLvlIs DEF Start, Fits
<1>6. b \in Nat /\ 2^b \in Nat /\ FirstPage + i \in Nat /\ FirstPage + d \in Nat /\ b <= MaxLvl
  BY <1>1, <1>5, PowerIs DEF Lvls
<1> HIDE DEF b
<1>7. CASE l <= b
  <2>1. \/ FirstPage + i <= FirstPage + d /\ (FirstPage + d) + 2^l <= (FirstPage + i) + 2^b
        \/ (FirstPage + d) + 2^l <= FirstPage + i \/ (FirstPage + i) + 2^b <= FirstPage + d
    BY <1>1, <1>2, <1>5, <1>6, <1>7, Nested
  <2>2. d + 2^l <= i + 2^b
    BY <1>1, <1>4, <1>6, <2>1 DEF b
  <2>3. QED BY <1>4, <1>7, <2>2 DEF b
<1>8. CASE b < l
  <2>1. \/ FirstPage + d <= FirstPage + i /\ (FirstPage + i) + 2^b <= (FirstPage + d) + 2^l
        \/ (FirstPage + i) + 2^b <= FirstPage + d \/ (FirstPage + d) + 2^l <= FirstPage + i
    BY <1>1, <1>2, <1>5, <1>6, <1>8, Nested
  <2>2. i = d
    BY <1>1, <1>4, <1>6, <2>1 DEF b
  <2>3. d + 2^l > NumPages
    BY <1>2, <1>5, <1>8, <2>2
  <2>4. QED BY <1>1, <1>2, <2>3
<1>9. QED BY <1>1, <1>6, <1>7, <1>8

-----------------------------------------------------------------------------
(* The invariant.                                                          *)

LEMMA PgParams ==
  /\ MaxLvl \in Nat /\ NumPages \in Nat /\ FirstPage \in Nat /\ Reserved \in Nat /\ Reserved < NumPages
  /\ \A d \in Pages : d \in Nat /\ d < NumPages /\ FirstPage + d \in Nat
  /\ \A d \in Nat : d < NumPages => d \in Pages
  /\ \A l \in Lvls : l \in Nat /\ l <= MaxLvl /\ 2^l \in Nat /\ 2^l >= 1
  /\ \A l \in Lvls : l + 1 \in Lvls => 2^(l + 1) = 2^l + 2^l
  /\ \A l \in Nat : l <= MaxLvl => l \in Lvls
<1>1. /\ MaxLvl \in Nat /\ NumPages \in Nat /\ FirstPage \in Nat /\ Reserved \in Nat /\ Reserved < NumPages
      /\ \A d \in Pages : d \in Nat /\ d < NumPages /\ FirstPage + d \in Nat
      /\ \A d \in Nat : d < NumPages => d \in Pages
  BY PgAssumption DEF Pages
<1>2. \A l \in Lvls : l \in Nat /\ l <= MaxLvl
  BY <1>1 DEF Lvls
<1>3. \A l \in Lvls : 2^l \in Nat /\ 2^l >= 1 /\ 2^(l + 1) = 2^l + 2^l
  BY <1>2, PowerIs, PowerNext
<1>4. \A l \in Nat : l <= MaxLvl => l \in Lvls
  BY <1>1 DEF Lvls
<1>5. QED BY <1>1, <1>2, <1>3, <1>4

LEMMA ListOfPages ==
  ASSUME NEW s \in PgLists
  PROVE  /\ s \in Seq(Pages) /\ Len(s) \in Nat /\ DOMAIN s = 1 .. Len(s)
         /\ \A k \in 1 .. Len(s) : s[k] \in Pages /\ s[k] \in Range(s)
         /\ \A d \in Range(s) : d \in Pages /\ \E k \in 1 .. Len(s) : s[k] = d
         /\ \A j, k \in 1 .. Len(s) : s[j] = s[k] => j = k
<1>1. s \in Seq(Pages) /\ IsInjective(s) /\ DOMAIN s = 1 .. Len(s) /\ Len(s) \in Nat
  BY DEF PgLists
<1>2. /\ \A k \in 1 .. Len(s) : s[k] \in Pages /\ s[k] \in Range(s)
      /\ \A d \in Range(s) : d \in Pages /\ \E k \in 1 .. Len(s) : s[k] = d
  BY <1>1 DEF Range
<1>3. \A j, k \in 1 .. Len(s) : s[j] = s[k] => j = k
  BY <1>1 DEF IsInjective
<1>4. QED BY <1>1, <1>2, <1>3

\* The first partition.
LEMMA InitBlocks ==
  ASSUME PgMgrInit
  PROVE  /\ \A l \in Lvls : free_lists[l] \in PgLists
         /\ \A d \in Pages, l \in Lvls : IsBlock(d, l) <=> Start(d) /\ BlockLvl(d) = l
         /\ \A d \in Pages, l \in Lvls : IsFree(d, l) <=> Start(d) /\ BlockLvl(d) = l
<1> DEFINE S(l) == {i \in Reserved .. NumPages - 1 : IsBlockStart[i] /\ BlockLvl(i) = l}
<1>1. Held = {}
  BY DEF PgMgrInit, Held
<1>2. \A l \in Lvls : free_lists[l] = InAddressOrder(S(l))
  BY DEF PgMgrInit, pg_init_free_lists
<1>3. \A l \in Lvls : S(l) \in SUBSET Pages
  BY PgParams DEF Pages
<1>4. ASSUME NEW l \in Lvls
      PROVE  free_lists[l] \in PgLists /\ Range(free_lists[l]) = S(l)
  <2> HIDE DEF S
  <2>1. QED BY <1>2, <1>3, PagesInOrder
<1>5. \A d \in Pages, l \in Lvls : d \in S(l) <=> Start(d) /\ BlockLvl(d) = l
  BY DEF Start
<1> HIDE DEF S
<1>6. QED BY <1>1, <1>4, <1>5 DEF IsBlock, IsFree

LEMMA PgInitInv == PgMgrInit => PgInv
<1> SUFFICES ASSUME PgMgrInit
             PROVE  PgInv
  OBVIOUS
<1>1. /\ \A l \in Lvls : free_lists[l] \in PgLists
      /\ \A d \in Pages, l \in Lvls : IsBlock(d, l) <=> Start(d) /\ BlockLvl(d) = l
      /\ \A d \in Pages, l \in Lvls : IsFree(d, l) <=> Start(d) /\ BlockLvl(d) = l
  BY InitBlocks
<1>2. /\ free_lists = [l \in Lvls |-> pg_init_free_lists(l)] /\ used = 0 .. Reserved - 1
      /\ lvl = [i \in Pages |-> 0] /\ stacks = {} /\ kept = {} /\ corrupt = FALSE /\ Held = {}
  BY DEF PgMgrInit, Held
<1>3. PgTypes
  <2>1. free_lists \in [Lvls -> PgLists]
    BY <1>1, <1>2
  <2>2. 0 \in Lvls /\ 0 .. Reserved - 1 \subseteq Pages
    BY PgParams DEF Pages, Lvls
  <2>3. QED BY <1>2, <2>1, <2>2 DEF PgTypes
<1>4. \A d \in Nat : Start(d) => d \in Pages /\ d \in Reserved .. NumPages - 1 /\ BlockLvl(d) \in Lvls
                                /\ Fits(d, BlockLvl(d)) /\ 2^BlockLvl(d) \in Nat
  BY PgParams, BlockLvlIs DEF Start
<1>5. BlocksSound
  <2>1. \A d \in Pages, l \in Lvls : IsBlock(d, l) => Fits(d, l)
    BY <1>1, <1>4, PgParams
  <2>2. ASSUME NEW d \in Pages, NEW e \in Pages, NEW l \in Lvls, NEW m \in Lvls, IsBlock(d, l), IsBlock(e, m)
        PROVE  (d = e /\ l = m) \/ d + 2^l <= e \/ e + 2^m <= d
    <3>1. Start(d) /\ BlockLvl(d) = l /\ Start(e) /\ BlockLvl(e) = m /\ d \in Nat /\ e \in Nat
      BY <1>1, <2>2, PgParams
    <3>2. d < e => d + 2^l <= e
      BY <3>1, StartsApart
    <3>3. e < d => e + 2^m <= d
      BY <3>1, StartsApart
    <3>4. QED BY <3>1, <3>2, <3>3
  <2>3. ASSUME NEW i \in Reserved .. NumPages - 1
        PROVE  \E d \in Pages, l \in Lvls : IsBlock(d, l) /\ i \in Span(d, l)
    <3>1. PICK j \in Nat : Start(j) /\ j <= i /\ i < j + 2^BlockLvl(j)
      BY StartsCover
    <3>2. j \in Pages /\ BlockLvl(j) \in Lvls /\ IsBlock(j, BlockLvl(j))
      BY <1>1, <1>4, <3>1
    <3>3. i \in Span(j, BlockLvl(j))
      <4>1. i \in Nat /\ 2^BlockLvl(j) \in Nat
        BY <1>4, <3>1, PgParams
      <4>2. QED BY <3>1, <4>1 DEF Span
    <3>4. QED BY <3>2, <3>3
  <2>4. QED BY <1>2, <2>1, <2>2, <2>3 DEF BlocksSound
<1>6. HoldersApart
  BY <1>2 DEF HoldersApart
<1>7. ASSUME NEW d \in Pages, NEW l \in Lvls, Fits(d, l)
      PROVE  ~Divided(d, l)
  <2>1. PICK i \in Nat : Start(i) /\ i <= d /\ d + 2^l <= i + 2^BlockLvl(i)
    BY <1>7, StartsHold, PgParams
  <2>2. i \in Pages /\ BlockLvl(i) \in Lvls /\ IsBlock(i, BlockLvl(i))
    BY <1>1, <1>4, <2>1
  <2>3. QED BY <2>1, <2>2 DEF Divided
<1>8. HalvesMarked
  BY <1>7 DEF HalvesMarked
<1>9. TailMarked
  <2> SUFFICES ASSUME NEW d \in Pages, NEW y \in Pages, NEW l \in Lvls, l + 1 \in Lvls, CutOff(d, l, y)
               PROVE  \E m \in Lvls : m < l /\ IsFree(y, m) /\ y + 2^(m + 1) > NumPages
    BY <1>7 DEF TailMarked, CutOff
  <2>1. /\ Fits(d, l) /\ Aligned(FirstPage + d, l + 1) /\ y = d + 2^l /\ y + 2^l > NumPages
        /\ d \in Nat /\ y \in Nat /\ l \in Nat /\ y < NumPages /\ 2^l \in Nat /\ 2^(l + 1) = 2^l + 2^l
        /\ FirstPage + d \in Nat /\ NumPages \in Nat /\ FirstPage \in Nat
    BY PgParams DEF CutOff
  <2>2. PICK i \in Nat : Start(i) /\ i <= d /\ d + 2^l <= i + 2^BlockLvl(i) /\ l <= BlockLvl(i)
    BY <2>1, StartsHold
  <2> DEFINE b == BlockLvl(i)
  <2>3. b \in Lvls /\ Fits(i, b) /\ b \in Nat /\ 2^b \in Nat /\ FirstPage + i \in Nat /\ Aligned(FirstPage + i, b)
        /\ i + 2^b <= NumPages /\ i \in Reserved .. NumPages - 1
    BY <1>4, <2>2, PgParams DEF Fits
  <2> HIDE DEF b
  <2>4. b = l
    <3> SUFFICES ASSUME l + 1 <= b
                 PROVE  FALSE
      BY <2>1, <2>2, <2>3 DEF b
    <3>1. \/ FirstPage + i <= FirstPage + d /\ (FirstPage + d) + 2^(l + 1) <= (FirstPage + i) + 2^b
          \/ (FirstPage + d) + 2^(l + 1) <= FirstPage + i \/ (FirstPage + i) + 2^b <= FirstPage + d
      BY <2>1, <2>3, Nested
    <3>2. 2^l >= 1 /\ d + 2^l <= i + 2^b
      BY <2>2, PgParams DEF b
    <3>3. d + 2^(l + 1) <= i + 2^b
      BY <2>1, <2>2, <2>3, <3>1, <3>2
    <3>4. QED BY <2>1, <2>3, <3>3
  <2>5. i = d
    BY <2>1, <2>2, <2>3, <2>4 DEF b
  <2>6. i \in Reserved .. y - 1 /\ IsBlockStart[i] /\ i + 2^BlockLvl(i) = y
    <3>1. i + 2^BlockLvl(i) = y /\ Reserved <= i /\ i \in Nat /\ 2^l >= 1 /\ Reserved \in Nat /\ i \in Int
      BY <2>1, <2>3, <2>4, <2>5, PgParams DEF b
    <3>2. i <= y - 1
      BY <2>1, <2>5, <3>1
    <3>3. IsBlockStart[i]
      BY <2>2 DEF Start
    <3>4. QED BY <2>1, <3>1, <3>2, <3>3
  <2>7. Start(y)
    <3>1. y \in 0 .. NumPages /\ y \in Reserved .. NumPages - 1
      BY <2>1, <2>6, PgParams
    <3>2. QED BY <2>6, <3>1, StartIs DEF Start
  <2> DEFINE m == BlockLvl(y)
  <2>8. /\ m \in Lvls /\ m \in Nat /\ 2^m \in Nat /\ y + 2^m <= NumPages /\ IsFree(y, m)
        /\ \A k \in Lvls : k > m /\ Aligned(FirstPage + y, k) => y + 2^k > NumPages
    BY <1>1, <1>4, <2>1, <2>7, BlockLvlIs, PgParams DEF Fits, Start
  <2> HIDE DEF m
  <2>9. m < l
    <3>1. l <= m => 2^l <= 2^m
      BY <2>1, <2>8, PowerGrows
    <3>2. QED BY <2>1, <2>8, <3>1
  <2>10. Aligned(FirstPage + y, m + 1)
    <3>1. Aligned((FirstPage + d) + 2^l, l)
      BY <2>1, Halves
    <3>2. (FirstPage + d) + 2^l = FirstPage + y /\ FirstPage + y \in Nat /\ m + 1 \in 0 .. l
      BY <2>1, <2>8, <2>9
    <3>3. QED BY <2>1, <3>1, <3>2, AlignedNat
  <2>11. m + 1 \in Lvls
    BY <2>1, <2>8, <2>9, PgParams
  <2>12. y + 2^(m + 1) > NumPages
    BY <2>8, <2>10, <2>11
  <2>13. QED BY <2>8, <2>9, <2>12
<1>10. QED BY <1>3, <1>5, <1>6, <1>8, <1>9 DEF PgInv

-----------------------------------------------------------------------------
(* The free lists.                                                         *)

LEMMA ListTailIs ==
  ASSUME NEW s \in PgLists, s # <<>>
  PROVE  /\ Head(s) \in Pages /\ Head(s) \in Range(s)
         /\ Tail(s) \in PgLists /\ Range(Tail(s)) = Range(s) \ {Head(s)}
<1> DEFINE n == Len(s)  t == Tail(s)  h == Head(s)
<1>1. /\ s \in Seq(Pages) /\ n \in Nat /\ DOMAIN s = 1 .. n
      /\ \A k \in 1 .. n : s[k] \in Pages /\ s[k] \in Range(s)
      /\ \A d \in Range(s) : d \in Pages /\ \E k \in 1 .. n : s[k] = d
      /\ \A j, k \in 1 .. n : s[j] = s[k] => j = k
  BY ListOfPages
<1>2. n >= 1
  BY <1>1, EmptySeq
<1>3. h = s[1]
  BY <1>1
<1>4. t \in Seq(Pages) /\ Len(t) = n - 1 /\ \A k \in 1 .. n - 1 : t[k] = s[k + 1]
  <2>1. t \in Seq(Pages) /\ Len(t) = n - 1 /\ \A k \in 1 .. Len(t) : t[k] = s[k + 1]
    BY <1>1, HeadTailProperties
  <2> HIDE DEF t
  <2>2. QED BY <2>1
<1> HIDE DEF t, n, h
<1>5. DOMAIN t = 1 .. n - 1 /\ \A k \in 1 .. n - 1 : k + 1 \in 1 .. n /\ k + 1 # 1
  BY <1>1, <1>2, <1>4
<1>6. t \in PgLists
  <2>1. \A j, k \in 1 .. n - 1 : t[j] = t[k] => j = k
    <3> SUFFICES ASSUME NEW j \in 1 .. n - 1, NEW k \in 1 .. n - 1, t[j] = t[k]
                 PROVE  j = k
      OBVIOUS
    <3>1. j + 1 = k + 1
      BY <1>1, <1>4, <1>5
    <3>2. QED BY <3>1
  <2>2. QED BY <1>4, <1>5, <2>1 DEF PgLists, IsInjective
<1>7. Range(t) \subseteq Range(s) \ {h}
  <2> SUFFICES ASSUME NEW k \in 1 .. n - 1
               PROVE  t[k] \in Range(s) \ {h}
    BY <1>5 DEF Range
  <2>1. t[k] = s[k + 1] /\ s[k + 1] \in Range(s)
    BY <1>1, <1>4, <1>5
  <2>2. s[k + 1] # s[1]
    BY <1>1, <1>2, <1>5
  <2>3. QED BY <1>3, <2>1, <2>2
<1>8. ASSUME NEW d \in Range(s) \ {h}
      PROVE  d \in Range(t)
  <2>1. PICK k \in 1 .. n : s[k] = d
    BY <1>1
  <2>2. k - 1 \in 1 .. n - 1 /\ (k - 1) + 1 = k
    BY <1>1, <1>3, <1>8, <2>1
  <2>3. t[k - 1] = d
    BY <1>4, <2>1, <2>2
  <2>4. QED BY <1>5, <2>2, <2>3 DEF Range
<1>9. h \in Pages /\ h \in Range(s)
  BY <1>1, <1>2, <1>3
<1>10. QED BY <1>6, <1>7, <1>8, <1>9 DEF t, h

LEMMA ListAppendIs ==
  ASSUME NEW s \in PgLists, NEW d \in Pages, d \notin Range(s)
  PROVE  Append(s, d) \in PgLists /\ Range(Append(s, d)) = Range(s) \cup {d}
<1> DEFINE n == Len(s)  t == Append(s, d)
<1>1. /\ s \in Seq(Pages) /\ n \in Nat /\ DOMAIN s = 1 .. n
      /\ \A k \in 1 .. n : s[k] \in Pages /\ s[k] \in Range(s)
      /\ \A e \in Range(s) : e \in Pages /\ \E k \in 1 .. n : s[k] = e
      /\ \A j, k \in 1 .. n : s[j] = s[k] => j = k
  BY ListOfPages
<1>2. t \in Seq(Pages) /\ Len(t) = n + 1 /\ (\A k \in 1 .. n : t[k] = s[k]) /\ t[n + 1] = d
  BY <1>1, AppendProperties
<1> HIDE DEF t, n
<1>3. DOMAIN t = 1 .. n + 1 /\ \A k \in 1 .. n + 1 : k \in 1 .. n \/ k = n + 1
  BY <1>1, <1>2
<1>4. \A k \in 1 .. n : t[k] # d
  BY <1>1, <1>2
<1>5. t \in PgLists
  <2>1. \A j, k \in 1 .. n + 1 : t[j] = t[k] => j = k
    BY <1>1, <1>2, <1>3, <1>4
  <2>2. QED BY <1>2, <1>3, <2>1 DEF PgLists, IsInjective
<1>6. Range(t) \subseteq Range(s) \cup {d}
  BY <1>1, <1>2, <1>3 DEF Range
<1>7. ASSUME NEW e \in Range(s) \cup {d}
      PROVE  e \in Range(t)
  <2>1. \E k \in 1 .. n + 1 : t[k] = e
    <3>1. CASE e = d
      <4>1. n + 1 \in 1 .. n + 1
        BY <1>1
      <4>2. QED BY <1>2, <3>1, <4>1
    <3>2. CASE e # d
      <4>1. PICK k \in 1 .. n : s[k] = e
        BY <1>1, <1>7, <3>2
      <4>2. k \in 1 .. n + 1 /\ t[k] = e
        BY <1>1, <1>2, <4>1
      <4>3. QED BY <4>2
    <3>3. QED BY <3>1, <3>2
  <2>2. QED BY <1>3, <2>1 DEF Range
<1>8. QED BY <1>5, <1>6, <1>7 DEF t

LEMMA ListWithout ==
  ASSUME NEW s \in PgLists, NEW d \in Range(s)
  PROVE  /\ Contains(s, d)
         /\ RemoveFirst(s, d) \in PgLists /\ Range(RemoveFirst(s, d)) = Range(s) \ {d}
<1> DEFINE n == Len(s)  I == {i \in 1 .. n : s[i] = d}  p == Min(I)
           u == RemoveAt(s, p)  old(k) == IF k < p THEN k ELSE k + 1
<1>1. /\ s \in Seq(Pages) /\ n \in Nat /\ DOMAIN s = 1 .. n
      /\ \A k \in 1 .. n : s[k] \in Pages /\ s[k] \in Range(s)
      /\ \A e \in Range(s) : e \in Pages /\ \E k \in 1 .. n : s[k] = e
      /\ \A j, k \in 1 .. n : s[j] = s[k] => j = k
  BY ListOfPages
<1>2. I # {} /\ I \in SUBSET Nat
  BY <1>1
<1>3. p \in 1 .. n /\ s[p] = d
  <2> HIDE DEF I
  <2>1. p \in I
    BY <1>2, MinOf
  <2> HIDE DEF p
  <2>2. QED BY <2>1 DEF I
<1>4. RemoveFirst(s, d) = u /\ Contains(s, d)
  BY <1>2 DEF RemoveFirst, SelectInSeq, Contains
<1> HIDE DEF p, I
<1>5. /\ u \in Seq(Pages) /\ Len(u) = n - 1
      /\ \A k \in 1 .. n - 1 : u[k] = s[old(k)]
  <2>1. s \in Seq(Pages) /\ p \in 1 .. Len(s)
    BY <1>1, <1>3
  <2> HIDE DEF u, old, n
  <2>2. /\ RemoveAt(s, p) \in Seq(Pages) /\ Len(RemoveAt(s, p)) = Len(s) - 1
        /\ \A k \in 1 .. Len(s) - 1 : RemoveAt(s, p)[k] = s[IF k < p THEN k ELSE k + 1]
    BY <2>1, RemoveAtIs
  <2>3. QED BY <2>2 DEF u, old, n
<1>6. /\ \A k \in 1 .. n - 1 : old(k) \in 1 .. n /\ old(k) # p
      /\ \A j, k \in 1 .. n - 1 : old(j) = old(k) => j = k
  BY <1>1, <1>3
<1>7. ASSUME NEW k \in 1 .. n, k # p
      PROVE  \E j \in 1 .. n - 1 : old(j) = k
  <2>1. CASE k < p
    <3>1. k \in 1 .. n - 1
      BY <1>1, <1>3, <2>1
    <3>2. QED BY <2>1, <3>1
  <2>2. CASE k > p
    <3>1. k - 1 \in 1 .. n - 1 /\ ~(k - 1 < p) /\ (k - 1) + 1 = k
      BY <1>1, <1>3, <2>2
    <3>2. QED BY <3>1
  <2>3. QED BY <1>1, <1>3, <1>7, <2>1, <2>2
<1> HIDE DEF u, old
<1>8. DOMAIN u = 1 .. n - 1
  BY <1>1, <1>3, <1>5
<1>9. u \in PgLists
  <2>1. ASSUME NEW j \in 1 .. n - 1, NEW k \in 1 .. n - 1, u[j] = u[k]
        PROVE  j = k
    <3>1. s[old(j)] = s[old(k)] /\ old(j) \in 1 .. n /\ old(k) \in 1 .. n
      BY <1>5, <1>6, <2>1
    <3>2. old(j) = old(k)
      BY <1>1, <3>1
    <3>3. QED BY <1>6, <3>2
  <2>2. QED BY <1>5, <1>8, <2>1 DEF PgLists, IsInjective
<1>10. Range(u) \subseteq Range(s) \ {d}
  <2> SUFFICES ASSUME NEW k \in 1 .. n - 1
               PROVE  u[k] \in Range(s) \ {d}
    BY <1>8 DEF Range
  <2>1. u[k] = s[old(k)] /\ old(k) \in 1 .. n /\ old(k) # p
    BY <1>5, <1>6
  <2>2. QED BY <1>1, <1>3, <2>1
<1>11. ASSUME NEW e \in Range(s) \ {d}
       PROVE  e \in Range(u)
  <2>1. PICK k \in 1 .. n : s[k] = e
    BY <1>1
  <2>2. PICK j \in 1 .. n - 1 : old(j) = k
    BY <1>3, <1>7, <1>11, <2>1
  <2>3. u[j] = e
    BY <1>5, <2>1, <2>2
  <2>4. QED BY <1>8, <2>2, <2>3 DEF Range
<1>12. QED BY <1>4, <1>9, <1>10, <1>11

-----------------------------------------------------------------------------
(* pg_alloc_page.                                                          *)

\* What is left of the block of level q at d, split down to level p.
Part(d, p, q, e, m) == (e = d /\ m = p) \/ (m \in p .. q - 1 /\ e = d + 2^m)

LEMMA PartsAre ==
  ASSUME NEW d \in Pages, NEW p \in Lvls, NEW q \in Lvls, p <= q, Fits(d, q)
  PROVE  /\ \A e \in Int, m \in Lvls : Part(d, p, q, e, m) =>
              e \in Pages /\ Fits(e, m) /\ d <= e /\ e + 2^m <= d + 2^q
         /\ \A e, f \in Pages, m, k \in Lvls :
              Part(d, p, q, e, m) /\ Part(d, p, q, f, k) =>
                (e = f /\ m = k) \/ e + 2^m <= f \/ f + 2^k <= e
         /\ \A i \in Span(d, q) : \E e \in Pages, m \in Lvls : Part(d, p, q, e, m) /\ i \in Span(e, m)
<1>1. /\ p \in Nat /\ q \in Nat /\ q <= MaxLvl /\ d \in Nat /\ FirstPage + d \in Nat /\ NumPages \in Nat
      /\ FirstPage \in Nat /\ Reserved \in Nat
      /\ 2^p \in Nat /\ 2^p >= 1 /\ 2^q \in Nat /\ 2^q >= 1
  BY PgParams
<1>2. Aligned(FirstPage + d, q) /\ Reserved <= d /\ d + 2^q <= NumPages
  BY DEF Fits
<1>3. ASSUME NEW m \in p .. q - 1
      PROVE  /\ m \in Nat /\ m \in Lvls /\ m + 1 \in Lvls /\ m + 1 \in Nat /\ m + 1 <= q
             /\ 2^m \in Nat /\ 2^m >= 1 /\ 2^(m + 1) = 2^m + 2^m
  <2>1. m \in Nat /\ m \in Lvls /\ m + 1 \in Lvls /\ m + 1 \in Nat /\ m + 1 <= q
    BY <1>1, PgParams
  <2>2. QED BY <2>1, PgParams
<1>4. ASSUME NEW m \in p .. q - 1
      PROVE  d + 2^m \in Pages /\ Fits(d + 2^m, m) /\ (d + 2^m) + 2^m <= d + 2^q
  <2>1. 2^(m + 1) <= 2^q
    BY <1>1, <1>3, PowerGrows
  <2>2. Aligned((FirstPage + d) + 2^m, m) /\ (FirstPage + d) + 2^m = FirstPage + (d + 2^m)
    <3>1. m \in 0 .. q
      BY <1>1, <1>3
    <3>2. Aligned(FirstPage + d, m)
      BY <1>1, <1>2, <3>1, AlignedNat
    <3>3. QED BY <1>1, <1>3, <3>2, AlignedNat
  <2>3. d + 2^m \in Nat /\ d + 2^m < NumPages /\ (d + 2^m) + 2^m <= d + 2^q
    BY <1>1, <1>2, <1>3, <2>1
  <2>4. d + 2^m \in Pages
    BY <2>3, PgParams
  <2>5. QED BY <1>1, <1>2, <1>3, <2>2, <2>3, <2>4 DEF Fits
<1>5. Fits(d, p) /\ d + 2^p <= d + 2^q
  <2>1. p \in 0 .. q /\ 2^p <= 2^q
    BY <1>1, PowerGrows
  <2>2. Aligned(FirstPage + d, p)
    BY <1>1, <1>2, <2>1, AlignedNat
  <2>3. QED BY <1>1, <1>2, <2>1, <2>2 DEF Fits
<1>6. ASSUME NEW e \in Int, NEW m \in Lvls, Part(d, p, q, e, m)
      PROVE  e \in Pages /\ Fits(e, m) /\ d <= e /\ e + 2^m <= d + 2^q
  <2>1. CASE e = d /\ m = p
    BY <1>1, <1>5, <2>1
  <2>2. CASE m \in p .. q - 1 /\ e = d + 2^m
    BY <1>1, <1>3, <1>4, <2>2
  <2>3. QED BY <1>6, <2>1, <2>2 DEF Part
<1>7. ASSUME NEW m \in p .. q - 1, NEW k \in p .. q - 1, m < k
      PROVE  (d + 2^m) + 2^m <= d + 2^k
  <2>1. m + 1 <= k /\ k \in Nat
    BY <1>3, <1>7
  <2>2. 2^(m + 1) <= 2^k /\ 2^k \in Nat
    BY <1>3, <2>1, PowerGrows
  <2>3. QED BY <1>1, <1>3, <2>2
<1>8. ASSUME NEW m \in p .. q - 1
      PROVE  d + 2^p <= d + 2^m
  <2>1. 2^p <= 2^m
    BY <1>1, <1>3, PowerGrows
  <2>2. QED BY <1>1, <1>3, <2>1
<1>9. ASSUME NEW e \in Pages, NEW f \in Pages, NEW m \in Lvls, NEW k \in Lvls,
             Part(d, p, q, e, m), Part(d, p, q, f, k)
      PROVE  (e = f /\ m = k) \/ e + 2^m <= f \/ f + 2^k <= e
  <2>1. CASE e = d /\ m = p
    BY <1>8, <1>9, <2>1 DEF Part
  <2>2. CASE f = d /\ k = p
    BY <1>8, <1>9, <2>2 DEF Part
  <2>3. CASE m \in p .. q - 1 /\ e = d + 2^m /\ k \in p .. q - 1 /\ f = d + 2^k
    <3>1. m < k \/ k < m \/ m = k
      BY <1>3, <2>3
    <3>2. QED BY <1>7, <2>3, <3>1
  <2>4. QED BY <1>9, <2>1, <2>2, <2>3 DEF Part
<1>10. ASSUME NEW i \in Span(d, q)
       PROVE  \E e \in Pages, m \in Lvls : Part(d, p, q, e, m) /\ i \in Span(e, m)
  <2> DEFINE S == {m \in p .. q : i < d + 2^m}  m == Min(S)
  <2>1. i \in Int /\ d <= i /\ i < d + 2^q
    BY <1>1 DEF Span
  <2>2. q \in S /\ S \in SUBSET Nat
    BY <1>1, <2>1
  <2>3. m \in S /\ \A k \in S : m <= k
    <3> HIDE DEF S
    <3>1. QED BY <2>2, MinOf
  <2>4. m \in p .. q /\ i < d + 2^m
    <3> HIDE DEF m
    <3>1. QED BY <2>3
  <2> HIDE DEF m
  <2>5. CASE m = p
    <3>1. Part(d, p, q, d, p) /\ i \in Span(d, p)
      BY <1>1, <2>1, <2>4, <2>5 DEF Part, Span
    <3>2. QED BY <3>1
  <2>6. CASE m # p
    <3>1. m - 1 \in p .. q - 1 /\ (m - 1) + 1 = m /\ m - 1 \in p .. q
      BY <1>1, <2>4, <2>6
    <3>2. m - 1 \notin S
      BY <2>3, <2>4, <3>1
    <3>3. d + 2^(m - 1) <= i /\ 2^m = 2^(m - 1) + 2^(m - 1) /\ 2^(m - 1) \in Nat
      BY <1>1, <1>3, <2>1, <3>1, <3>2
    <3>4. i \in Span(d + 2^(m - 1), m - 1)
      BY <1>1, <2>1, <2>4, <3>3 DEF Span
    <3>5. Part(d, p, q, d + 2^(m - 1), m - 1)
      BY <3>1 DEF Part
    <3>6. d + 2^(m - 1) \in Pages /\ m - 1 \in Lvls
      BY <1>3, <1>4, <3>1
    <3>7. QED BY <3>4, <3>5, <3>6
  <2>7. QED BY <2>5, <2>6
<1>11. QED BY <1>6, <1>9, <1>10

\* The block of level q at d is split down to level p.
Splits(p, q, d) ==
  /\ free_lists[q] # <<>> /\ \A k \in p .. q - 1 : free_lists[k] = <<>>
  /\ d = Head(free_lists[q])
  /\ free_lists' = [k \in Lvls |->
       IF k = q THEN Tail(free_lists[q])
       ELSE IF k \in p .. q - 1 THEN Append(free_lists[k], d + 2^k)
       ELSE free_lists[k]]
  /\ used' = (used \ {d + 2^k : k \in p .. q - 1}) \cup {d}
  /\ lvl' = [lvl EXCEPT ![d] = p]
  /\ UNCHANGED corrupt

LEMMA AllocSplits ==
  ASSUME NEW p \in Lvls, NEW d, pg_alloc_page(p, d)
  PROVE  \E q \in Lvls : p <= q /\ Splits(p, q, d)
<1>1. PICK q \in p .. MaxLvl : Splits(p, q, d)
  BY DEF pg_alloc_page, Splits
<1>2. q \in Lvls /\ p <= q
  BY PgParams DEF Lvls
<1>3. QED BY <1>1, <1>2

\* What is free after it.
LEMMA AllocLists ==
  ASSUME PgTypes, BlocksSound, NEW p \in Lvls, NEW q \in Lvls, NEW d, p <= q, Splits(p, q, d)
  PROVE  /\ free_lists' \in [Lvls -> PgLists]
         /\ d \in Pages /\ IsFree(d, q)
         /\ \A e \in Pages, m \in p .. q - 1 : ~IsFree(e, m)
         /\ \A e \in Pages, m \in Lvls :
              IsFree(e, m)' <=> \/ IsFree(e, m) /\ ~(e = d /\ m = q)
                                \/ m \in p .. q - 1 /\ e = d + 2^m
<1>1. /\ \A l \in Lvls : free_lists[l] \in PgLists
      /\ free_lists[q] # <<>> /\ \A k \in p .. q - 1 : free_lists[k] = <<>>
      /\ d = Head(free_lists[q])
      /\ free_lists' = [k \in Lvls |->
           IF k = q THEN Tail(free_lists[q])
           ELSE IF k \in p .. q - 1 THEN Append(free_lists[k], d + 2^k)
           ELSE free_lists[k]]
  BY DEF PgTypes, Splits
<1>2. p \in Nat /\ q \in Nat /\ ~(q \in p .. q - 1)
  BY PgParams
<1>3. /\ d \in Pages /\ d \in Range(free_lists[q])
      /\ Tail(free_lists[q]) \in PgLists /\ Range(Tail(free_lists[q])) = Range(free_lists[q]) \ {d}
  BY <1>1, ListTailIs
<1>4. IsFree(d, q)
  BY <1>3 DEF IsFree
<1>5. Fits(d, q)
  BY <1>3, <1>4 DEF BlocksSound, IsBlock
<1>6. ASSUME NEW m \in p .. q - 1
      PROVE  m \in Lvls /\ d + 2^m \in Pages
  <2>1. m \in Lvls
    BY <1>2, PgParams
  <2>2. d + 2^m \in Int
    BY <1>3, <2>1, PgParams
  <2>3. Part(d, p, q, d + 2^m, m)
    BY DEF Part
  <2>4. QED BY <1>3, <1>5, <2>1, <2>2, <2>3, PartsAre
<1>7. ASSUME NEW m \in Lvls, free_lists[m] = <<>>
      PROVE  Range(free_lists[m]) = {}
  <2>1. free_lists[m] \in PgLists /\ Len(free_lists[m]) = 0
    BY <1>1, <1>7
  <2>2. \A e \in Range(free_lists[m]) : \E k \in 1 .. Len(free_lists[m]) : TRUE
    BY <2>1, ListOfPages
  <2>3. QED BY <2>1, <2>2
<1>8. ASSUME NEW m \in Lvls
      PROVE  /\ free_lists'[m] \in PgLists
             /\ \A e \in Pages : e \in Range(free_lists'[m]) <=>
                  \/ e \in Range(free_lists[m]) /\ ~(e = d /\ m = q)
                  \/ m \in p .. q - 1 /\ e = d + 2^m
  <2>1. CASE m = q
    <3>1. free_lists'[m] = Tail(free_lists[q])
      BY <1>1, <2>1
    <3>2. QED BY <1>2, <1>3, <2>1, <3>1
  <2>2. CASE m # q /\ m \in p .. q - 1
    <3>1. free_lists'[m] = Append(free_lists[m], d + 2^m)
      BY <1>1, <2>2
    <3>2. Range(free_lists[m]) = {}
      BY <1>1, <1>7, <2>2
    <3>3. free_lists[m] \in PgLists /\ d + 2^m \in Pages
      BY <1>1, <1>6, <2>2
    <3> DEFINE s == free_lists[m]  y == d + 2^m
    <3>4. Append(s, y) \in PgLists /\ Range(Append(s, y)) = Range(s) \cup {y}
      <4> HIDE DEF s, y
      <4>1. QED BY <3>2, <3>3, ListAppendIs DEF s, y
    <3>5. QED BY <2>2, <3>1, <3>2, <3>4
  <2>3. CASE m # q /\ ~(m \in p .. q - 1)
    <3>1. free_lists'[m] = free_lists[m]
      BY <1>1, <2>3
    <3>2. QED BY <1>1, <2>3, <3>1
  <2>4. QED BY <2>1, <2>2, <2>3
<1>9. free_lists' \in [Lvls -> PgLists]
  BY <1>1, <1>8
<1>10. \A e \in Pages, m \in p .. q - 1 : ~IsFree(e, m)
  BY <1>1, <1>6, <1>7 DEF IsFree
<1>11. QED BY <1>3, <1>4, <1>8, <1>9, <1>10 DEF IsFree

\* What becomes a block.
LEMMA AllocBlocks ==
  ASSUME PgTypes, BlocksSound, NEW p \in Lvls, NEW q \in Lvls, NEW d, p <= q, Splits(p, q, d),
         stacks' \cup kept' = stacks \cup kept \cup {d}
  PROVE  /\ d \notin Held
         /\ \A e \in Pages, m \in Lvls :
              IsBlock(e, m)' <=> (IsBlock(e, m) /\ ~(e = d /\ m = q)) \/ Part(d, p, q, e, m)
<1>1. /\ d \in Pages /\ IsFree(d, q)
      /\ \A e \in Pages, m \in Lvls :
           IsFree(e, m)' <=> \/ IsFree(e, m) /\ ~(e = d /\ m = q)
                             \/ m \in p .. q - 1 /\ e = d + 2^m
  BY AllocLists
<1>2. d \notin Held
  BY <1>1 DEF BlocksSound
<1>3. Held' = Held \cup {d} /\ Held \subseteq Pages
  BY DEF Held, PgTypes
<1>4. lvl'[d] = p /\ \A e \in Pages : e # d => lvl'[e] = lvl[e]
  BY <1>1 DEF Splits, PgTypes
<1>5. \A m \in Lvls : IsBlock(d, m) => m = q
  <2> SUFFICES ASSUME NEW m \in Lvls, IsBlock(d, m)
               PROVE  m = q
    OBVIOUS
  <2>1. (d = d /\ m = q) \/ d + 2^m <= d \/ d + 2^q <= d
    BY <1>1 DEF BlocksSound, IsBlock
  <2>2. QED BY <1>1, <2>1, PgParams
<1>6. \A m \in p .. q - 1 : d # d + 2^m
  <2> SUFFICES ASSUME NEW m \in p .. q - 1
               PROVE  d # d + 2^m
    OBVIOUS
  <2>1. m \in Lvls
    BY PgParams
  <2>2. QED BY <1>1, <2>1, PgParams
<1>7. ASSUME NEW e \in Pages, NEW m \in Lvls
      PROVE  IsBlock(e, m)' <=> (IsBlock(e, m) /\ ~(e = d /\ m = q)) \/ Part(d, p, q, e, m)
  <2>1. IsBlock(e, m)' <=> IsFree(e, m)' \/ (e \in Held' /\ lvl'[e] = m)
    BY DEF IsBlock
  <2>2. CASE e = d
    BY <1>1, <1>3, <1>4, <1>5, <1>6, <2>1, <2>2 DEF IsBlock, Part
  <2>3. CASE e # d
    <3>1. (e \in Held' /\ lvl'[e] = m) <=> (e \in Held /\ lvl[e] = m)
      BY <1>3, <1>4, <2>3
    <3>2. QED BY <1>1, <2>1, <2>3, <3>1 DEF IsBlock, Part
  <2>4. QED BY <2>2, <2>3
<1>8. QED BY <1>2, <1>7

LEMMA AllocSound ==
  ASSUME PgTypes, BlocksSound, NEW p \in Lvls, NEW q \in Lvls, NEW d, p <= q, Splits(p, q, d),
         stacks' \cup kept' = stacks \cup kept \cup {d}
  PROVE  BlocksSound'
<1>1. /\ d \in Pages /\ IsFree(d, q) /\ IsBlock(d, q)
      /\ \A e \in Pages, m \in Lvls :
           IsFree(e, m)' <=> \/ IsFree(e, m) /\ ~(e = d /\ m = q)
                             \/ m \in p .. q - 1 /\ e = d + 2^m
  BY AllocLists DEF IsBlock
<1>2. /\ d \notin Held
      /\ \A e \in Pages, m \in Lvls :
           IsBlock(e, m)' <=> (IsBlock(e, m) /\ ~(e = d /\ m = q)) \/ Part(d, p, q, e, m)
  BY AllocBlocks
<1>3. Fits(d, q) /\ p \in Nat /\ q \in Nat /\ d \in Nat
  BY <1>1, PgParams DEF BlocksSound
<1>4. /\ \A e \in Pages, m \in Lvls : Part(d, p, q, e, m) => Fits(e, m) /\ d <= e /\ e + 2^m <= d + 2^q
      /\ \A e, f \in Pages, m, k \in Lvls :
           Part(d, p, q, e, m) /\ Part(d, p, q, f, k) => (e = f /\ m = k) \/ e + 2^m <= f \/ f + 2^k <= e
      /\ \A i \in Span(d, q) : \E e \in Pages, m \in Lvls : Part(d, p, q, e, m) /\ i \in Span(e, m)
  <2>1. \A e \in Pages : e \in Int
    BY PgParams
  <2>2. \A e \in Int, m \in Lvls : Part(d, p, q, e, m) => Fits(e, m) /\ d <= e /\ e + 2^m <= d + 2^q
    BY <1>1, <1>3, PartsAre
  <2>3. /\ \A e, f \in Pages, m, k \in Lvls :
             Part(d, p, q, e, m) /\ Part(d, p, q, f, k) => (e = f /\ m = k) \/ e + 2^m <= f \/ f + 2^k <= e
        /\ \A i \in Span(d, q) : \E e \in Pages, m \in Lvls : Part(d, p, q, e, m) /\ i \in Span(e, m)
    BY <1>1, <1>3, PartsAre
  <2>4. QED BY <2>1, <2>2, <2>3
<1>5. Held' = Held \cup {d} /\ Held \subseteq Pages /\ lvl \in [Pages -> Lvls]
  BY DEF Held, PgTypes
<1>6. ASSUME NEW e \in Pages, NEW m \in Lvls, IsBlock(e, m)'
      PROVE  Fits(e, m)
  BY <1>2, <1>4, <1>6 DEF BlocksSound
<1>7. ASSUME NEW e \in Pages, NEW f \in Pages, NEW m \in Lvls, NEW k \in Lvls,
             IsBlock(e, m), ~(e = d /\ m = q), Part(d, p, q, f, k)
      PROVE  e + 2^m <= f \/ f + 2^k <= e
  <2>1. e + 2^m <= d \/ d + 2^q <= e
    BY <1>1, <1>7 DEF BlocksSound
  <2>2. d <= f /\ f + 2^k <= d + 2^q
    BY <1>4, <1>7
  <2>3. QED BY <1>3, <2>1, <2>2, PgParams
<1>8. ASSUME NEW e \in Pages, NEW f \in Pages, NEW m \in Lvls, NEW k \in Lvls, IsBlock(e, m)', IsBlock(f, k)'
      PROVE  (e = f /\ m = k) \/ e + 2^m <= f \/ f + 2^k <= e
  <2>1. CASE Part(d, p, q, e, m) /\ Part(d, p, q, f, k)
    BY <1>4, <2>1
  <2>2. CASE Part(d, p, q, e, m) /\ ~Part(d, p, q, f, k)
    BY <1>2, <1>7, <1>8, <2>2
  <2>3. CASE ~Part(d, p, q, e, m) /\ Part(d, p, q, f, k)
    BY <1>2, <1>7, <1>8, <2>3
  <2>4. CASE ~Part(d, p, q, e, m) /\ ~Part(d, p, q, f, k)
    BY <1>2, <1>8, <2>4 DEF BlocksSound
  <2>5. QED BY <2>1, <2>2, <2>3, <2>4
<1>9. ASSUME NEW i \in Reserved .. NumPages - 1
      PROVE  \E e \in Pages, m \in Lvls : IsBlock(e, m)' /\ i \in Span(e, m)
  <2>1. PICK e \in Pages, m \in Lvls : IsBlock(e, m) /\ i \in Span(e, m)
    BY DEF BlocksSound
  <2>2. CASE e = d /\ m = q
    BY <1>2, <1>4, <2>1, <2>2
  <2>3. CASE ~(e = d /\ m = q)
    BY <1>2, <2>1, <2>3
  <2>4. QED BY <2>2, <2>3
<1>10. ASSUME NEW e \in Held', NEW l \in Lvls
       PROVE  ~IsFree(e, l)'
  <2> SUFFICES ASSUME IsFree(e, l)'
               PROVE  FALSE
    OBVIOUS
  <2>1. e \in Pages
    BY <1>1, <1>5
  <2>2. CASE l \in p .. q - 1 /\ e = d + 2^l
    <3>1. Part(d, p, q, e, l) /\ 2^l \in Nat /\ 2^l >= 1
      BY <2>2, PgParams DEF Part
    <3>2. e # d
      BY <1>3, <2>2, <3>1
    <3>3. IsBlock(e, lvl[e]) /\ lvl[e] \in Lvls
      BY <1>5, <2>1, <3>2 DEF IsBlock
    <3>4. e + 2^lvl[e] <= e \/ e + 2^l <= e
      BY <1>7, <2>1, <3>1, <3>2, <3>3
    <3> DEFINE n == lvl[e]
    <3>5. 2^n \in Nat /\ 2^n >= 1 /\ e \in Nat
      BY <2>1, <3>3, PgParams
    <3> HIDE DEF n
    <3>6. e + 2^n <= e \/ e + 2^l <= e
      BY <3>4 DEF n
    <3>7. QED BY <3>1, <3>5, <3>6
  <2>3. CASE IsFree(e, l) /\ ~(e = d /\ l = q)
    <3>1. e = d
      BY <1>5, <2>3 DEF BlocksSound
    <3>2. d + 2^l <= d \/ d + 2^q <= d
      BY <1>1, <2>3, <3>1 DEF BlocksSound, IsBlock
    <3>3. QED BY <1>3, <3>2, PgParams
  <2>4. QED BY <1>1, <2>1, <2>2, <2>3
<1>11. QED BY <1>6, <1>8, <1>9, <1>10 DEF BlocksSound

\* A block of level l at x that the step divides is a part of the block that it splits.
LEMMA AllocDivides ==
  ASSUME PgTypes, BlocksSound, NEW p \in Lvls, NEW q \in Lvls, NEW d, p <= q, Splits(p, q, d),
         stacks' \cup kept' = stacks \cup kept \cup {d},
         NEW x \in Pages, NEW l \in Lvls, Divided(x, l)'
  PROVE  \/ Divided(x, l)
         \/ /\ d <= x /\ x + 2^l <= d + 2^q
            /\ \A e \in Pages, m \in Lvls : Part(d, p, q, e, m) => ~(e <= x /\ x + 2^l <= e + 2^m)
<1>1. \A e \in Pages, m \in Lvls :
        IsBlock(e, m)' <=> (IsBlock(e, m) /\ ~(e = d /\ m = q)) \/ Part(d, p, q, e, m)
  BY AllocBlocks
<1>2. \A e \in Pages, m \in Lvls : IsBlock(e, m)' => ~(e <= x /\ x + 2^l <= e + 2^m)
  BY DEF Divided
<1>3. CASE d <= x /\ x + 2^l <= d + 2^q
  BY <1>1, <1>2, <1>3
<1>4. CASE ~(d <= x /\ x + 2^l <= d + 2^q)
  <2>1. Divided(x, l)
    BY <1>1, <1>2, <1>4 DEF Divided
  <2>2. QED BY <2>1
<1>5. QED BY <1>3, <1>4

LEMMA AllocHalves ==
  ASSUME PgInv, NEW p \in Lvls, NEW q \in Lvls, NEW d, p <= q, Splits(p, q, d),
         stacks' \cup kept' = stacks \cup kept \cup {d}
  PROVE  HalvesMarked'
<1> USE DEF PgInv
<1>1. /\ d \in Pages /\ IsFree(d, q) /\ Fits(d, q)
      /\ \A e \in Pages, m \in Lvls :
           IsFree(e, m)' <=> \/ IsFree(e, m) /\ ~(e = d /\ m = q)
                             \/ m \in p .. q - 1 /\ e = d + 2^m
  BY AllocLists DEF IsBlock, BlocksSound
<1>2. used' = (used \ {d + 2^k : k \in p .. q - 1}) \cup {d}
  BY DEF Splits
<1>3. /\ p \in Nat /\ q \in Nat /\ d \in Nat /\ FirstPage + d \in Nat /\ FirstPage \in Nat /\ 2^q \in Nat
      /\ Aligned(FirstPage + d, q) /\ NumPages \in Nat
  BY <1>1, PgParams DEF Fits
<1> SUFFICES ASSUME NEW x \in Pages, NEW l \in Lvls, l + 1 \in Lvls, Fits(x, l + 1), Divided(x, l + 1)'
             PROVE  /\ x \notin used' => IsFree(x, l)'
                    /\ x + 2^l \notin used' => IsFree(x + 2^l, l)'
  BY DEF HalvesMarked, Fits
<1>4. /\ x \in Nat /\ l \in Nat /\ 2^l \in Nat /\ 2^l >= 1 /\ 2^(l + 1) = 2^l + 2^l /\ FirstPage + x \in Nat
      /\ Aligned(FirstPage + x, l + 1) /\ x + 2^(l + 1) <= NumPages
  BY PgParams DEF Fits
<1>5. /\ Aligned(FirstPage + x, l) /\ Aligned(FirstPage + (x + 2^l), l)
      /\ x + 2^l \in Pages /\ FirstPage + (x + 2^l) \in Nat
  <2>1. (FirstPage + x) + 2^l = FirstPage + (x + 2^l) /\ x + 2^l \in Nat /\ x + 2^l < NumPages
    BY <1>3, <1>4
  <2>2. Aligned(FirstPage + x, l) /\ Aligned((FirstPage + x) + 2^l, l)
    BY <1>4, Halves
  <2>3. QED BY <1>3, <2>1, <2>2, PgParams
<1>6. \/ Divided(x, l + 1)
      \/ /\ d <= x /\ x + 2^(l + 1) <= d + 2^q
         /\ \A e \in Pages, m \in Lvls : Part(d, p, q, e, m) => ~(e <= x /\ x + 2^(l + 1) <= e + 2^m)
  BY AllocDivides
<1>7. CASE Divided(x, l + 1)
  <2>1. ASSUME NEW h \in Pages, h = x \/ h = x + 2^l, h \notin used'
        PROVE  IsFree(h, l)'
    <3>1. CASE h \notin used
      <4>1. IsFree(h, l)
        BY <1>7, <2>1, <3>1 DEF HalvesMarked
      <4>2. h # d
        BY <1>2, <2>1
      <4>3. QED BY <1>1, <4>1, <4>2
    <3>2. CASE h \in used
      <4>1. PICK k \in p .. q - 1 : h = d + 2^k
        BY <1>2, <2>1, <3>2
      <4>2. k \in Lvls /\ k + 1 \in Lvls /\ k \in Nat /\ k < q /\ 2^k \in Nat /\ 2^k >= 1
        BY <1>3, PgParams
      <4>3. d < h /\ h < d + 2^q
        <5>1. 2^(k + 1) = 2^k + 2^k /\ 2^(k + 1) <= 2^q
          BY <1>3, <4>2, PowerGrows, PgParams
        <5>2. QED BY <1>3, <4>1, <4>2, <5>1
      <4>4. Aligned(FirstPage + h, l) /\ FirstPage + h \in Nat /\ h \in Nat
        BY <1>3, <1>4, <1>5, <2>1
      <4>5. l < q
        <5> SUFFICES ASSUME q <= l
                     PROVE  FALSE
          BY <1>3, <1>4
        <5>1. \/ FirstPage + h <= FirstPage + d \/ (FirstPage + d) + 2^q <= FirstPage + h
              \/ (FirstPage + h) + 2^l <= FirstPage + d
          BY <1>3, <1>4, <4>4, Nested
        <5>2. QED BY <1>3, <1>4, <4>3, <4>4, <5>1
      <4>6. \/ FirstPage + d <= FirstPage + x /\ (FirstPage + x) + 2^(l + 1) <= (FirstPage + d) + 2^q
            \/ (FirstPage + x) + 2^(l + 1) <= FirstPage + d \/ (FirstPage + d) + 2^q <= FirstPage + x
        <5>1. l + 1 \in Nat /\ l + 1 <= q
          BY <1>3, <1>4, <4>5
        <5>2. QED BY <1>3, <1>4, <5>1, Nested
      <4>7. d <= x /\ x + 2^(l + 1) <= d + 2^q
        <5>1. x <= h /\ h < x + 2^(l + 1)
          BY <1>4, <2>1
        <5>2. QED BY <1>3, <1>4, <4>3, <4>4, <4>6, <5>1
      <4>8. QED BY <1>1, <1>7, <4>7 DEF Divided, IsBlock
    <3>3. QED BY <3>1, <3>2
  <2>2. QED BY <1>5, <2>1
<1>8. CASE /\ d <= x /\ x + 2^(l + 1) <= d + 2^q
           /\ \A e \in Pages, m \in Lvls : Part(d, p, q, e, m) => ~(e <= x /\ x + 2^(l + 1) <= e + 2^m)
  <2>1. l < q
    <3>1. q <= l => 2^q <= 2^l
      BY <1>3, <1>4, PowerGrows
    <3>2. QED BY <1>3, <1>4, <1>8, <3>1
  <2>2. PICK e \in Pages, m \in Lvls : Part(d, p, q, e, m) /\ x \in Span(e, m)
    <3>1. x \in Span(d, q)
      BY <1>3, <1>4, <1>8 DEF Span
    <3>2. p <= q
      OBVIOUS
    <3>3. QED BY <1>1, <3>1, <3>2, PartsAre
  <2>3. /\ e \in Nat /\ m \in Nat /\ 2^m \in Nat /\ 2^m >= 1 /\ FirstPage + e \in Nat
        /\ Aligned(FirstPage + e, m) /\ e <= x /\ x < e + 2^m
    <3>1. Fits(e, m)
      <4>1. e \in Int /\ p <= q
        BY PgParams
      <4>2. QED BY <1>1, <2>2, <4>1, PartsAre
    <3>2. e \in Nat /\ m \in Nat /\ 2^m \in Nat /\ 2^m >= 1 /\ FirstPage + e \in Nat
      BY PgParams
    <3>3. QED BY <1>4, <2>2, <3>1, <3>2 DEF Fits, Span
  <2>4. m <= l
    <3> SUFFICES ASSUME l + 1 <= m
                 PROVE  FALSE
      BY <1>4, <2>3
    <3>1. \/ FirstPage + e <= FirstPage + x /\ (FirstPage + x) + 2^(l + 1) <= (FirstPage + e) + 2^m
          \/ (FirstPage + x) + 2^(l + 1) <= FirstPage + e \/ (FirstPage + e) + 2^m <= FirstPage + x
      BY <1>4, <2>3, Nested
    <3>2. e <= x /\ x + 2^(l + 1) <= e + 2^m
      BY <1>3, <1>4, <2>3, <3>1
    <3>3. QED BY <1>8, <2>2, <3>2
  <2>5. e = x
    <3>1. \/ FirstPage + x <= FirstPage + e
          \/ (FirstPage + e) + 2^m <= FirstPage + x \/ (FirstPage + x) + 2^(l + 1) <= FirstPage + e
      <4>1. m <= l + 1 /\ l + 1 \in Nat
        BY <1>4, <2>3, <2>4
      <4>2. QED BY <1>4, <2>3, <4>1, Nested
    <3>2. QED BY <1>3, <1>4, <2>3, <3>1
  <2>6. e = d /\ m = p
    <3> SUFFICES ASSUME m \in p .. q - 1, e = d + 2^m
                 PROVE  FALSE
      BY <2>2 DEF Part
    <3>1. m + 1 \in 0 .. q /\ l + 1 > m /\ l + 1 \in Nat
      BY <1>3, <1>4, <2>3, <2>4
    <3>2. Aligned(FirstPage + d, m + 1)
      BY <1>3, <3>1, AlignedNat
    <3>3. ~Aligned((FirstPage + d) + 2^m, l + 1)
      BY <1>3, <2>3, <3>1, <3>2, Halves
    <3>4. (FirstPage + d) + 2^m = FirstPage + x
      BY <1>3, <2>3, <2>5
    <3>5. QED BY <1>4, <3>3, <3>4
  <2>7. l \in p .. q - 1
    BY <1>3, <1>4, <2>1, <2>4, <2>6
  <2>8. IsFree(d + 2^l, l)'
    BY <1>1, <1>5, <2>5, <2>6, <2>7
  <2>9. x \in used'
    BY <1>2, <2>5, <2>6
  <2>10. QED BY <2>5, <2>6, <2>8, <2>9
<1>9. QED BY <1>6, <1>7, <1>8

LEMMA AllocTail ==
  ASSUME PgInv, NEW p \in Lvls, NEW q \in Lvls, NEW d, p <= q, Splits(p, q, d),
         stacks' \cup kept' = stacks \cup kept \cup {d},
         kept' = kept \cup {d} \/ (p = 0 /\ kept' = kept)
  PROVE  TailMarked'
<1> USE DEF PgInv
<1>1. /\ d \in Pages /\ IsFree(d, q) /\ Fits(d, q)
      /\ \A e \in Pages, m \in p .. q - 1 : ~IsFree(e, m)
      /\ \A e \in Pages, m \in Lvls :
           IsFree(e, m)' <=> \/ IsFree(e, m) /\ ~(e = d /\ m = q)
                             \/ m \in p .. q - 1 /\ e = d + 2^m
  BY AllocLists DEF IsBlock, BlocksSound
<1>2. used' = (used \ {d + 2^k : k \in p .. q - 1}) \cup {d}
  BY DEF Splits
<1>3. /\ p \in Nat /\ q \in Nat /\ d \in Nat /\ FirstPage + d \in Nat /\ FirstPage \in Nat /\ 2^q \in Nat
      /\ Aligned(FirstPage + d, q) /\ d + 2^q <= NumPages /\ NumPages \in Nat
  BY <1>1, PgParams DEF Fits
<1> SUFFICES ASSUME NEW x \in Pages, NEW y \in Pages, NEW l \in Lvls, l + 1 \in Lvls, CutOff(x, l, y), y \notin used'
             PROVE  /\ \E m \in Lvls : m < l /\ IsFree(y, m)' /\ y + 2^(m + 1) > NumPages
                    /\ Divided(x, l)' => \E k \in kept' : k \in Span(x, l)
  BY DEF TailMarked, CutOff, Fits, Span
<1>4. /\ x \in Nat /\ y \in Nat /\ l \in Nat /\ 2^l \in Nat /\ 2^l >= 1 /\ 2^(l + 1) = 2^l + 2^l
      /\ FirstPage + x \in Nat /\ FirstPage + y \in Nat
      /\ Aligned(FirstPage + x, l + 1) /\ Aligned(FirstPage + x, l)
      /\ y = x + 2^l /\ y + 2^l > NumPages /\ x + 2^l <= NumPages
  BY PgParams DEF CutOff, Fits
<1>5. y # d
  BY <1>2
<1>6. y \notin used
  <2> SUFFICES ASSUME y \in used
               PROVE  FALSE
    OBVIOUS
  <2>1. PICK k \in p .. q - 1 : y = d + 2^k
    BY <1>2
  <2>2. k \in Lvls /\ k + 1 \in Lvls /\ k \in Nat /\ k + 1 \in 0 .. q /\ 2^k \in Nat
    BY <1>3, PgParams
  <2>3. y + 2^k <= NumPages
    <3>1. 2^(k + 1) = 2^k + 2^k /\ 2^(k + 1) <= 2^q
      BY <1>3, <2>2, PowerGrows, PgParams
    <3>2. QED BY <1>3, <2>1, <2>2, <3>1
  <2>4. k < l
    <3>1. l <= k => 2^l <= 2^k
      BY <1>4, <2>2, PowerGrows
    <3>2. QED BY <1>3, <1>4, <2>2, <2>3, <3>1
  <2>5. ~Aligned((FirstPage + d) + 2^k, l)
    <3>1. Aligned(FirstPage + d, k + 1)
      BY <1>3, <2>2, AlignedNat
    <3>2. QED BY <1>3, <1>4, <2>2, <2>4, <3>1, Halves
  <2>6. Aligned((FirstPage + x) + 2^l, l)
    BY <1>4, Halves
  <2>7. (FirstPage + d) + 2^k = (FirstPage + x) + 2^l
    BY <1>3, <1>4, <2>1, <2>2
  <2>8. QED BY <2>5, <2>6, <2>7
<1>7. PICK m \in Lvls : m < l /\ IsFree(y, m) /\ y + 2^(m + 1) > NumPages
  BY <1>6 DEF TailMarked
<1>8. IsFree(y, m)'
  BY <1>1, <1>5, <1>7
<1>9. ASSUME Divided(x, l)'
      PROVE  \E k \in kept' : k \in Span(x, l)
  <2>1. \/ Divided(x, l)
        \/ /\ d <= x /\ x + 2^l <= d + 2^q
           /\ \A e \in Pages, k \in Lvls : Part(d, p, q, e, k) => ~(e <= x /\ x + 2^l <= e + 2^k)
    BY <1>9, AllocDivides
  <2>2. CASE Divided(x, l)
    <3>1. \E k \in kept : k \in Span(x, l)
      BY <1>6, <2>2 DEF TailMarked
    <3>2. kept \subseteq kept'
      OBVIOUS
    <3>3. QED BY <3>1, <3>2
  <2>3. CASE /\ d <= x /\ x + 2^l <= d + 2^q
             /\ \A e \in Pages, k \in Lvls : Part(d, p, q, e, k) => ~(e <= x /\ x + 2^l <= e + 2^k)
    <3>1. l <= q
      <4>1. q < l => 2^(q + 1) <= 2^l /\ 2^(q + 1) = 2^q + 2^q
        BY <1>3, <1>4, PowerGrows, PowerNext
      <4>2. 2^q >= 1
        BY PgParams
      <4>3. QED BY <1>3, <1>4, <2>3, <4>1, <4>2
    <3>2. l = q
      <4> SUFFICES ASSUME l + 1 <= q
                   PROVE  FALSE
        BY <1>3, <1>4, <3>1
      <4>1. \/ FirstPage + d <= FirstPage + x /\ (FirstPage + x) + 2^(l + 1) <= (FirstPage + d) + 2^q
            \/ (FirstPage + x) + 2^(l + 1) <= FirstPage + d \/ (FirstPage + d) + 2^q <= FirstPage + x
        BY <1>3, <1>4, Nested
      <4>2. x + 2^(l + 1) <= d + 2^q
        BY <1>3, <1>4, <2>3, <4>1
      <4>3. QED BY <1>3, <1>4, <4>2
    <3>3. x = d
      BY <1>3, <1>4, <2>3, <3>2
    <3>4. p # q
      <4>1. Part(d, q, q, d, q)
        BY DEF Part
      <4>2. d <= d /\ d + 2^q <= d + 2^q
        BY <1>3
      <4>3. QED BY <1>1, <2>3, <3>2, <3>3, <4>1, <4>2
    <3>5. p # 0
      <4>1. p = 0 => m \in p .. q - 1
        BY <1>3, <1>4, <1>7, <3>2, PgParams
      <4>2. QED BY <1>1, <1>7, <4>1
    <3>6. d \in kept' /\ d \in Span(x, l)
      <4>1. d \in kept'
        BY <3>5
      <4>2. QED BY <1>3, <1>4, <3>3, <4>1 DEF Span
    <3>7. QED BY <3>6
  <2>4. QED BY <2>1, <2>2, <2>3
<1>10. QED BY <1>7, <1>8, <1>9

LEMMA AllocInv ==
  ASSUME PgInv, NEW p \in Lvls, NEW d, pg_alloc_page(p, d),
         \/ p = 0 /\ stacks' = stacks \cup {d} /\ kept' = kept
         \/ stacks' = stacks /\ kept' = kept \cup {d}
  PROVE  PgInv'
<1>1. PICK q \in Lvls : p <= q /\ Splits(p, q, d)
  BY AllocSplits
<1>2. stacks' \cup kept' = stacks \cup kept \cup {d}
  OBVIOUS
<1>3. /\ free_lists' \in [Lvls -> PgLists] /\ d \in Pages /\ IsFree(d, q)
  BY <1>1, AllocLists DEF PgInv
<1>4. d \notin Held
  BY <1>1, <1>2, AllocBlocks DEF PgInv
<1>5. /\ used' = (used \ {d + 2^k : k \in p .. q - 1}) \cup {d}
      /\ lvl' = [lvl EXCEPT ![d] = p] /\ corrupt' = corrupt
  BY <1>1 DEF Splits
<1>6. PgTypes'
  BY <1>3, <1>5 DEF PgInv, PgTypes
<1>7. HoldersApart'
  <2>1. stacks' \cap kept' = {}
    BY <1>4 DEF PgInv, HoldersApart, Held
  <2>2. \A e \in stacks' : lvl'[e] = 0
    BY <1>3, <1>4, <1>5 DEF PgInv, PgTypes, HoldersApart, Held
  <2>3. ASSUME NEW i \in 0 .. Reserved - 1
        PROVE  i \in used'
    <3>1. i \in used
      BY DEF PgInv, HoldersApart
    <3>2. Reserved <= d /\ d \in Nat
      BY <1>3, PgParams DEF PgInv, BlocksSound, IsBlock, Fits
    <3>3. \A k \in p .. q - 1 : k \in Lvls
      BY PgParams
    <3>4. \A k \in p .. q - 1 : d + 2^k # i
      BY <3>2, <3>3, PgParams
    <3>5. QED BY <1>5, <3>1, <3>4
  <2>4. QED BY <2>1, <2>2, <2>3 DEF HoldersApart
<1>8. BlocksSound'
  BY <1>1, <1>2, AllocSound DEF PgInv
<1>9. HalvesMarked'
  BY <1>1, <1>2, AllocHalves
<1>10. TailMarked'
  BY <1>1, <1>2, AllocTail
<1>11. QED BY <1>6, <1>7, <1>8, <1>9, <1>10 DEF PgInv

-----------------------------------------------------------------------------
(* pg_free_page.                                                           *)

\* The block of level l that page x lies in and its buddy, as indices.
FirstOf(x, l)  == BlockOf(x, l) - FirstPage
BuddyIdx(x, l) == BuddyPage(x, l) - FirstPage

Top(x) == Min({l \in 0 .. MaxLvl : ~Merges(x, l)})

LEMMA TopIs ==
  ASSUME NEW x
  PROVE  Top(x) \in Lvls /\ \A l \in 0 .. Top(x) - 1 : Merges(x, l)
<1> DEFINE S == {l \in 0 .. MaxLvl : ~Merges(x, l)}  t == Min(S)
<1>1. MaxLvl \in Nat
  BY PgParams
<1>2. MaxLvl \in S /\ S \in SUBSET Nat
  BY <1>1 DEF Merges
<1>3. t \in S /\ \A l \in S : t <= l
  <2> HIDE DEF S
  <2>1. QED BY <1>2, MinOf
<1>4. t \in 0 .. MaxLvl
  <2> HIDE DEF t
  <2>1. QED BY <1>3
<1>5. t = Top(x)
  BY DEF Top
<1> HIDE DEF t
<1>6. ASSUME NEW l \in 0 .. t - 1
      PROVE  Merges(x, l)
  <2>1. l \in 0 .. MaxLvl /\ ~(t <= l)
    BY <1>1, <1>4
  <2>2. QED BY <1>3, <2>1
<1>7. QED BY <1>4, <1>5, <1>6 DEF Lvls

LEMMA HalvesOf ==
  ASSUME NEW x \in Pages, NEW l \in Lvls
  PROVE  /\ FirstOf(x, l) \in Int /\ BuddyIdx(x, l) \in Int
         /\ FirstOf(x, l) <= x /\ x < FirstOf(x, l) + 2^l
         /\ Aligned(FirstPage + FirstOf(x, l), l) /\ FirstPage + FirstOf(x, l) \in Nat
         /\ l + 1 \in Lvls =>
              /\ Aligned(FirstPage + FirstOf(x, l + 1), l + 1) /\ FirstPage + FirstOf(x, l + 1) \in Nat
              /\ \/ FirstOf(x, l + 1) = FirstOf(x, l) /\ BuddyIdx(x, l) = FirstOf(x, l) + 2^l
                 \/ FirstOf(x, l + 1) = BuddyIdx(x, l) /\ FirstOf(x, l) = BuddyIdx(x, l) + 2^l
<1>1. x \in Nat /\ l \in Nat /\ FirstPage \in Nat /\ 2^l \in Nat
  BY PgParams
<1> DEFINE b == BlockOf(x, l)  y == BuddyPage(x, l)  c == BlockOf(x, l + 1)
<1>2. b \in Nat /\ Aligned(b, l) /\ b <= FirstPage + x /\ FirstPage + x < b + 2^l
  BY <1>1, BlockOfIs
<1>3. y \in Nat /\ ((c = b /\ y = b + 2^l) \/ (c = y /\ b = y + 2^l))
  BY <1>1, BuddyIs
<1>4. l + 1 \in Lvls => c \in Nat /\ Aligned(c, l + 1)
  BY <1>1, BlockOfIs, PgParams
<1>5. FirstOf(x, l) = b - FirstPage /\ BuddyIdx(x, l) = y - FirstPage /\ FirstOf(x, l + 1) = c - FirstPage
  BY DEF FirstOf, BuddyIdx
<1> HIDE DEF b, y, c
<1>6. FirstPage + FirstOf(x, l) = b
  BY <1>1, <1>2, <1>5
<1>7. l + 1 \in Lvls => FirstPage + FirstOf(x, l + 1) = c
  BY <1>1, <1>4, <1>5
<1>8. QED BY <1>1, <1>2, <1>3, <1>4, <1>5, <1>6, <1>7

\* The block of level l at the freed page is whole: its pages are the freed one
\* and those of the free buddies below.
Merged(x, l) ==
  /\ FirstOf(x, l) \in Pages /\ Fits(FirstOf(x, l), l)
  /\ \A k \in 0 .. l - 1 : BuddyIdx(x, k) \in Pages /\ IsFree(BuddyIdx(x, k), k)
  /\ \A i \in Span(FirstOf(x, l), l) : i = x \/ \E k \in 0 .. l - 1 : i \in Span(BuddyIdx(x, k), k)

LEMMA StackIs ==
  ASSUME PgInv, NEW x \in stacks
  PROVE  /\ x \in Pages /\ x \in Held /\ x \notin kept /\ lvl[x] = 0 /\ 0 \in Lvls /\ IsBlock(x, 0)
         /\ Reserved <= x /\ x < NumPages
<1>1. x \in Pages /\ x \in Held /\ x \notin kept /\ lvl[x] = 0 /\ 0 \in Lvls
  BY PgParams DEF PgInv, PgTypes, HoldersApart, Held, Lvls
<1>2. IsBlock(x, 0)
  BY <1>1 DEF IsBlock
<1>3. QED BY <1>1, <1>2, PgParams DEF PgInv, BlocksSound, Fits

\* Two blocks that share a page are one.
LEMMA SharedPage ==
  ASSUME PgInv, NEW e \in Pages, NEW f \in Pages, NEW m \in Lvls, NEW k \in Lvls, IsBlock(e, m), IsBlock(f, k),
         NEW i \in Int, i \in Span(e, m), i \in Span(f, k)
  PROVE  e = f /\ m = k
<1>1. (e = f /\ m = k) \/ e + 2^m <= f \/ f + 2^k <= e
  BY DEF PgInv, BlocksSound
<1>2. e \in Nat /\ f \in Nat /\ 2^m \in Nat /\ 2^k \in Nat
  BY PgParams
<1>3. e <= i /\ i < e + 2^m /\ f <= i /\ i < f + 2^k
  BY <1>2 DEF Span
<1>4. QED BY <1>1, <1>2, <1>3

LEMMA MergedBlocks ==
  ASSUME PgInv, NEW x \in stacks, NEW l \in Lvls, Merged(x, l),
         NEW e \in Pages, NEW m \in Lvls, IsBlock(e, m),
         NEW i \in Int, i \in Span(e, m), i \in Span(FirstOf(x, l), l)
  PROVE  (e = x /\ m = 0) \/ (m \in 0 .. l - 1 /\ e = BuddyIdx(x, m))
<1>1. x \in Pages /\ 0 \in Lvls /\ IsBlock(x, 0)
  BY StackIs
<1>2. CASE i = x
  <2>1. x \in Span(x, 0)
    <3>1. x \in Nat /\ 2^0 \in Nat /\ 2^0 >= 1
      BY <1>1, PgParams
    <3>2. QED BY <3>1 DEF Span
  <2>2. QED BY <1>1, <1>2, <2>1, SharedPage
<1>3. ASSUME NEW k \in 0 .. l - 1, i \in Span(BuddyIdx(x, k), k)
      PROVE  m = k /\ e = BuddyIdx(x, k)
  <2>1. k \in Lvls
    BY PgParams
  <2>2. BuddyIdx(x, k) \in Pages /\ IsBlock(BuddyIdx(x, k), k)
    BY <1>3 DEF Merged, IsBlock
  <2>3. QED BY <1>3, <2>1, <2>2, SharedPage
<1>4. i = x \/ \E k \in 0 .. l - 1 : i \in Span(BuddyIdx(x, k), k)
  BY DEF Merged
<1>5. QED BY <1>2, <1>3, <1>4

LEMMA MergedHolders ==
  ASSUME PgInv, NEW x \in stacks, NEW l \in Lvls, Merged(x, l), NEW e \in Held, e \in Span(FirstOf(x, l), l)
  PROVE  e = x
<1>1. e \in Pages /\ lvl[e] \in Lvls /\ IsBlock(e, lvl[e])
  BY DEF PgInv, PgTypes, Held, IsBlock
<1> DEFINE n == lvl[e]
<1>2. n \in Lvls /\ e \in Int /\ e \in Span(e, n)
  <2>1. e \in Nat /\ 2^n \in Nat /\ 2^n >= 1
    BY <1>1, PgParams
  <2> HIDE DEF n
  <2>2. e \in Span(e, n)
    BY <2>1 DEF Span
  <2>3. QED BY <1>1, <2>1, <2>2 DEF n
<1>3. IsBlock(e, n)
  BY <1>1
<1> HIDE DEF n
<1>4. (e = x /\ n = 0) \/ (n \in 0 .. l - 1 /\ e = BuddyIdx(x, n))
  BY <1>1, <1>2, <1>3, MergedBlocks
<1>5. \A k \in 0 .. l - 1 : e = BuddyIdx(x, k) => IsFree(e, k) /\ k \in Lvls
  BY PgParams DEF Merged
<1>6. \A k \in Lvls : ~IsFree(e, k)
  BY DEF PgInv, BlocksSound
<1>7. QED BY <1>4, <1>5, <1>6

\* Before it is freed, no block holds it.
LEMMA MergedDivided ==
  ASSUME PgInv, NEW x \in stacks, NEW l \in Lvls, l # 0
  PROVE  Divided(FirstOf(x, l), l)
<1>1. x \in Pages /\ 0 \in Lvls /\ IsBlock(x, 0)
  BY StackIs
<1> DEFINE b == FirstOf(x, l)
<1>2. b \in Int /\ b <= x /\ x < b + 2^l /\ x \in Nat /\ 2^l \in Nat /\ 2^l >= 2 /\ 2^0 = 1
  <2>1. b \in Int /\ b <= x /\ x < b + 2^l
    BY <1>1, HalvesOf
  <2>2. l \in Nat /\ 1 <= l /\ 2^l \in Nat
    BY PgParams
  <2>3. 2^1 <= 2^l /\ 2^1 = 2 /\ 2^0 = 1
    <3>1. 2^0 = 1
      OBVIOUS
    <3>2. 2^(0 + 1) = 2^0 + 2^0 /\ 0 + 1 = 1
      BY PowerNext
    <3>3. 2^1 <= 2^l
      BY <2>2, PowerGrows
    <3>4. QED BY <3>1, <3>2, <3>3
  <2> HIDE DEF b
  <2>4. QED BY <1>1, <2>1, <2>2, <2>3, PgParams
<1> HIDE DEF b
<1>3. ASSUME NEW e \in Pages, NEW m \in Lvls, IsBlock(e, m), e <= b, b + 2^l <= e + 2^m
      PROVE  FALSE
  <2>1. e \in Nat /\ 2^m \in Nat
    BY PgParams
  <2>2. x \in Span(e, m) /\ x \in Span(x, 0)
    BY <1>2, <1>3, <2>1 DEF Span
  <2>3. e = x /\ m = 0
    BY <1>1, <1>2, <1>3, <2>2, SharedPage
  <2>4. QED BY <1>2, <1>3, <2>3
<1>4. QED BY <1>3 DEF Divided, b

LEMMA MergeStep ==
  ASSUME PgInv, NEW x \in stacks, NEW l \in Lvls, Merged(x, l), Merges(x, l)
  PROVE  Merged(x, l + 1)
<1> DEFINE b == FirstOf(x, l)  y == BuddyIdx(x, l)  c == FirstOf(x, l + 1)
<1>1. l \in Nat /\ l + 1 \in Lvls /\ 2^l \in Nat /\ 2^l >= 1 /\ 2^(l + 1) = 2^l + 2^l /\ l + 1 # 0
      /\ FirstPage \in Nat /\ NumPages \in Nat /\ Reserved \in Nat /\ 0 .. Reserved - 1 \subseteq used
  <2>1. l \in Nat /\ l < MaxLvl /\ MaxLvl \in Nat
    BY PgParams DEF Merges
  <2>2. l + 1 \in Lvls
    BY <2>1, PgParams
  <2>3. QED BY <2>1, <2>2, PgParams DEF PgInv, HoldersApart
<1>2. /\ b \in Int /\ y \in Int /\ b <= x /\ x < b + 2^l
      /\ Aligned(FirstPage + c, l + 1) /\ FirstPage + c \in Nat
      /\ (c = b /\ y = b + 2^l) \/ (c = y /\ b = y + 2^l)
  BY <1>1, StackIs, HalvesOf
<1>3. 0 <= y /\ y < NumPages /\ y \notin used
  <2>1. InSegment(BuddyPage(x, l)) /\ y \notin used
    BY DEF Merges, BuddyIdx
  <2>2. BuddyPage(x, l) \in Int
    BY StackIs, PgParams, BuddyIs
  <2>3. QED BY <1>1, <2>1, <2>2 DEF InSegment, BuddyIdx
<1>4. /\ b \in Pages /\ Fits(b, l) /\ b \in Nat /\ Reserved <= b /\ b + 2^l <= NumPages
      /\ \A k \in 0 .. l - 1 : BuddyIdx(x, k) \in Pages /\ IsFree(BuddyIdx(x, k), k)
      /\ \A i \in Span(b, l) : i = x \/ \E k \in 0 .. l - 1 : i \in Span(BuddyIdx(x, k), k)
  BY PgParams DEF Merged, Fits
<1>5. Divided(c, l + 1)
  BY <1>1, MergedDivided
<1> HIDE DEF b, y, c
<1>6. Reserved <= y
  <2>1. y \notin 0 .. Reserved - 1
    BY <1>1, <1>3
  <2>2. QED BY <1>1, <1>2, <1>3, <2>1
<1>7. y \in Pages /\ c \in Pages /\ c \in Int /\ Reserved <= c
  <2>1. y \in Pages
    BY <1>2, <1>3, PgParams
  <2>2. QED BY <1>2, <1>4, <1>6, <2>1
<1>8. c + 2^(l + 1) <= NumPages
  <2> SUFFICES ASSUME c + 2^(l + 1) > NumPages
               PROVE  FALSE
    BY <1>1, <1>7
  <2>1. c = b /\ y = b + 2^l /\ y + 2^l > NumPages
    BY <1>1, <1>2, <1>4
  <2>2. CutOff(b, l, y)
    BY <1>2, <1>4, <2>1 DEF CutOff
  <2>3. /\ \E m \in Lvls : m < l
        /\ Divided(b, l) => \E k \in kept : k \in Span(b, l)
    BY <1>1, <1>3, <1>4, <1>7, <2>2 DEF PgInv, TailMarked
  <2>4. l # 0
    BY <2>3, PgParams
  <2>5. Divided(b, l)
    BY <2>4, MergedDivided DEF b
  <2>6. PICK k \in kept : k \in Span(b, l)
    BY <2>3, <2>5
  <2>7. k = x
    BY <2>6, MergedHolders DEF Held, b
  <2>8. QED BY <2>7, StackIs
<1>9. Fits(c, l + 1)
  BY <1>2, <1>7, <1>8 DEF Fits
<1>10. IsFree(y, l)
  <2>1. /\ c \notin used => IsFree(c, l)
        /\ c + 2^l \notin used => IsFree(c + 2^l, l)
    BY <1>1, <1>5, <1>7, <1>9 DEF PgInv, HalvesMarked
  <2>2. QED BY <1>2, <1>3, <2>1
<1>11. ASSUME NEW k \in 0 .. (l + 1) - 1
       PROVE  BuddyIdx(x, k) \in Pages /\ IsFree(BuddyIdx(x, k), k)
  <2>1. k = l \/ k \in 0 .. l - 1
    BY <1>1
  <2>2. QED BY <1>4, <1>7, <1>10, <2>1 DEF y
<1>12. ASSUME NEW i \in Span(c, l + 1)
       PROVE  i = x \/ \E k \in 0 .. (l + 1) - 1 : i \in Span(BuddyIdx(x, k), k)
  <2>1. i \in Int /\ c <= i /\ i < c + 2^(l + 1)
    BY <1>1, <1>7 DEF Span
  <2>2. i \in Span(b, l) \/ i \in Span(y, l)
    BY <1>1, <1>2, <2>1 DEF Span
  <2>3. l \in 0 .. (l + 1) - 1 /\ \A k \in 0 .. l - 1 : k \in 0 .. (l + 1) - 1
    BY <1>1
  <2>4. QED BY <1>4, <2>2, <2>3 DEF y
<1>13. QED BY <1>7, <1>9, <1>11, <1>12 DEF Merged, c

LEMMA MergedAll ==
  ASSUME PgInv, NEW x \in stacks
  PROVE  \A l \in 0 .. Top(x) : l \in Lvls /\ Merged(x, l)
<1> DEFINE T == {l \in Nat : l <= Top(x) /\ ~Merged(x, l)}
<1>1. Top(x) \in Nat /\ Top(x) <= MaxLvl /\ MaxLvl \in Nat
  BY TopIs, PgParams
<1>2. \A l \in Nat : l <= Top(x) => l \in Lvls
  BY <1>1, PgParams
<1>3. Merged(x, 0)
  <2>1. x \in Pages /\ x \in Nat /\ IsBlock(x, 0) /\ 0 \in Lvls /\ FirstPage \in Nat
    BY StackIs, PgParams
  <2>2. Fits(x, 0)
    BY <2>1 DEF PgInv, BlocksSound
  <2>3. FirstOf(x, 0) = x
    <3>1. FirstOf(x, 0) \in Int /\ FirstOf(x, 0) <= x /\ x < FirstOf(x, 0) + 2^0
      BY <2>1, HalvesOf
    <3>2. 2^0 = 1
      OBVIOUS
    <3>3. QED BY <2>1, <3>1, <3>2
  <2>4. \A i \in Span(x, 0) : i = x
    <3>1. 2^0 = 1
      OBVIOUS
    <3>2. QED BY <2>1, <3>1 DEF Span
  <2>5. QED BY <2>1, <2>2, <2>3, <2>4 DEF Merged
<1>4. ASSUME NEW k \in T
      PROVE  k - 1 \in T
  <2>1. k \in Nat /\ k <= Top(x) /\ ~Merged(x, k) /\ k # 0
    BY <1>3
  <2>2. k - 1 \in Nat /\ k - 1 <= Top(x) /\ k - 1 \in 0 .. Top(x) - 1 /\ (k - 1) + 1 = k
    BY <1>1, <2>1
  <2>3. Merges(x, k - 1) /\ k - 1 \in Lvls
    BY <1>2, <2>2, TopIs
  <2>4. Merged(x, k - 1) => Merged(x, (k - 1) + 1)
    BY <2>3, MergeStep
  <2>5. QED BY <2>1, <2>2, <2>4
<1>5. T = {}
  <2>1. T \in SUBSET Nat
    OBVIOUS
  <2> HIDE DEF T
  <2>2. QED BY <1>4, <2>1, Descent
<1>6. QED BY <1>1, <1>2, <1>5

\* The blocks that merge lie in the block that they become.
LEMMA MergedInside ==
  ASSUME PgInv, NEW x \in stacks, NEW t \in Lvls, NEW k \in Nat, k < t, Merged(x, t)
  PROVE  /\ FirstOf(x, t) <= FirstOf(x, k + 1) /\ FirstOf(x, k + 1) + 2^(k + 1) <= FirstOf(x, t) + 2^t
         /\ FirstOf(x, t) <= BuddyIdx(x, k) /\ BuddyIdx(x, k) + 2^k <= FirstOf(x, t) + 2^t
<1>1. /\ t \in Nat /\ k \in Lvls /\ k + 1 \in Lvls /\ k + 1 \in Nat /\ k + 1 <= t
      /\ 2^k \in Nat /\ 2^(k + 1) = 2^k + 2^k /\ 2^t \in Nat /\ FirstPage \in Nat
  <2>1. t \in Nat /\ t <= MaxLvl /\ MaxLvl \in Nat
    BY PgParams
  <2>2. k \in Lvls /\ k + 1 \in Lvls /\ k + 1 \in Nat /\ k + 1 <= t
    BY <2>1, PgParams
  <2>3. QED BY <2>1, <2>2, PgParams
<1> DEFINE b == FirstOf(x, t)  c == FirstOf(x, k + 1)  y == BuddyIdx(x, k)
<1>2. b \in Int /\ b <= x /\ x < b + 2^t /\ Aligned(FirstPage + b, t) /\ FirstPage + b \in Nat
  BY <1>1, StackIs, HalvesOf
<1>3. c \in Int /\ c <= x /\ x < c + 2^(k + 1) /\ Aligned(FirstPage + c, k + 1) /\ FirstPage + c \in Nat
  BY <1>1, StackIs, HalvesOf
<1>4. y \in Int /\ (c = y \/ y = c + 2^k)
  <2>1. /\ FirstOf(x, k) \in Int /\ y \in Int
        /\ (c = FirstOf(x, k) /\ y = FirstOf(x, k) + 2^k) \/ (c = y /\ FirstOf(x, k) = y + 2^k)
    BY <1>1, StackIs, HalvesOf
  <2> HIDE DEF c, y
  <2>2. QED BY <2>1
<1> HIDE DEF b, c, y
<1>5. \/ FirstPage + b <= FirstPage + c /\ (FirstPage + c) + 2^(k + 1) <= (FirstPage + b) + 2^t
      \/ (FirstPage + c) + 2^(k + 1) <= FirstPage + b \/ (FirstPage + b) + 2^t <= FirstPage + c
  BY <1>1, <1>2, <1>3, Nested
<1>6. x \in Nat /\ 2^(k + 1) \in Nat
  BY <1>1, StackIs, PgParams
<1>7. b <= c /\ c + 2^(k + 1) <= b + 2^t
  BY <1>1, <1>2, <1>3, <1>5, <1>6
<1>8. b <= y /\ y + 2^k <= b + 2^t
  BY <1>1, <1>2, <1>3, <1>4, <1>7
<1>9. QED BY <1>7, <1>8 DEF b, c, y

\* What pg_free_page does to a stack.
LEMMA FreePage ==
  ASSUME PgInv, NEW x \in stacks, pg_free_page(x)
  PROVE  /\ corrupt' = (\E l \in 0 .. Top(x) - 1 : ~Contains(free_lists[l], BuddyIdx(x, l)))
         /\ free_lists' = [l \in Lvls |->
              IF l \in 0 .. Top(x) - 1 THEN RemoveFirst(free_lists[l], BuddyIdx(x, l))
              ELSE IF l = Top(x) THEN Append(free_lists[l], FirstOf(x, l))
              ELSE free_lists[l]]
         /\ used' = used /\ lvl' = lvl
<1>1. lvl[x] = 0
  BY StackIs
<1>2. Min({l \in lvl[x] .. MaxLvl : ~Merges(x, l)}) = Top(x)
  BY <1>1 DEF Top
<1> DEFINE t == Top(x)
<1> HIDE DEF t
<1>3. /\ corrupt' = (\E l \in 0 .. t - 1 : ~Contains(free_lists[l], BuddyIdx(x, l)))
      /\ free_lists' = [l \in Lvls |->
           IF l \in 0 .. t - 1 THEN RemoveFirst(free_lists[l], BuddyIdx(x, l))
           ELSE IF l = t THEN Append(free_lists[l], FirstOf(x, l))
           ELSE free_lists[l]]
      /\ used' = used /\ lvl' = lvl
  BY <1>1, <1>2 DEF pg_free_page, BuddyIdx, FirstOf, t
<1>4. QED BY <1>3 DEF t

\* A block that the step merges: the freed page, or a buddy.
Gone(x, e, m) == (e = x /\ m = 0) \/ (m \in 0 .. Top(x) - 1 /\ e = BuddyIdx(x, m))

LEMMA FreeLists ==
  ASSUME PgInv, NEW x \in stacks, pg_free_page(x)
  PROVE  /\ free_lists' \in [Lvls -> PgLists] /\ corrupt' = FALSE
         /\ \A e \in Pages, m \in Lvls :
              IsFree(e, m)' <=> \/ IsFree(e, m) /\ ~(m \in 0 .. Top(x) - 1 /\ e = BuddyIdx(x, m))
                                \/ m = Top(x) /\ e = FirstOf(x, m)
<1> DEFINE t == Top(x)
<1>1. t \in Lvls /\ t \in Nat /\ \A l \in 0 .. t : l \in Lvls /\ Merged(x, l)
  BY TopIs, MergedAll, PgParams
<1>2. /\ corrupt' = (\E l \in 0 .. t - 1 : ~Contains(free_lists[l], BuddyIdx(x, l)))
      /\ free_lists' = [l \in Lvls |->
           IF l \in 0 .. t - 1 THEN RemoveFirst(free_lists[l], BuddyIdx(x, l))
           ELSE IF l = t THEN Append(free_lists[l], FirstOf(x, l))
           ELSE free_lists[l]]
  BY FreePage
<1> HIDE DEF t
<1>3. /\ FirstOf(x, t) \in Pages
      /\ \A k \in 0 .. t - 1 : BuddyIdx(x, k) \in Pages /\ IsFree(BuddyIdx(x, k), k) /\ k \in Lvls
  <2>1. Merged(x, t) /\ \A k \in 0 .. t - 1 : k \in 0 .. t
    BY <1>1
  <2>2. QED BY <1>1, <2>1 DEF Merged
<1>4. \A l \in Lvls : free_lists[l] \in PgLists
  BY DEF PgInv, PgTypes
<1>5. ~IsFree(FirstOf(x, t), t)
  <2> DEFINE b == FirstOf(x, t)
  <2>1. b \in Int /\ b <= x /\ x < b + 2^t /\ x \in Int /\ 2^t \in Nat
    BY <1>1, StackIs, HalvesOf, PgParams
  <2>2. b \in Span(b, t) /\ x \in Span(b, t) /\ x \in Span(x, 0)
    <3>1. 2^0 = 1
      OBVIOUS
    <3> HIDE DEF b
    <3>2. QED BY <2>1, <3>1 DEF Span
  <2>3. ASSUME IsFree(b, t)
        PROVE  FALSE
    <3>1. IsBlock(b, t) /\ b \in Pages
      BY <1>3, <2>3 DEF IsBlock
    <3>2. x \in Pages /\ 0 \in Lvls /\ IsBlock(x, 0) /\ x \in Held
      BY StackIs
    <3> HIDE DEF b
    <3>3. b = x
      BY <1>1, <2>1, <2>2, <3>1, <3>2, SharedPage
    <3>4. QED BY <1>1, <2>3, <3>2, <3>3 DEF PgInv, BlocksSound
  <2>4. QED BY <2>3
<1>6. ASSUME NEW m \in Lvls
      PROVE  /\ free_lists'[m] \in PgLists
             /\ \A e \in Pages : e \in Range(free_lists'[m]) <=>
                  \/ e \in Range(free_lists[m]) /\ ~(m \in 0 .. t - 1 /\ e = BuddyIdx(x, m))
                  \/ m = t /\ e = FirstOf(x, m)
  <2> DEFINE s == free_lists[m]  y == BuddyIdx(x, m)  b == FirstOf(x, m)
  <2>1. CASE m \in 0 .. t - 1
    <3>1. free_lists'[m] = RemoveFirst(s, y) /\ m # t
      BY <1>1, <1>2, <2>1
    <3>2. s \in PgLists /\ y \in Range(s)
      BY <1>3, <1>4, <2>1 DEF IsFree
    <3> HIDE DEF s, y, b
    <3>3. RemoveFirst(s, y) \in PgLists /\ Range(RemoveFirst(s, y)) = Range(s) \ {y}
      BY <3>2, ListWithout
    <3>4. QED BY <2>1, <3>1, <3>3 DEF s, y
  <2>2. CASE m = t
    <3>1. free_lists'[m] = Append(s, b) /\ ~(m \in 0 .. t - 1)
      BY <1>1, <1>2, <2>2
    <3>2. s \in PgLists /\ b \notin Range(s) /\ b \in Pages
      BY <1>3, <1>4, <1>5, <2>2 DEF IsFree
    <3> HIDE DEF s, y, b
    <3>3. Append(s, b) \in PgLists /\ Range(Append(s, b)) = Range(s) \cup {b}
      BY <3>2, ListAppendIs
    <3>4. QED BY <2>2, <3>1, <3>3 DEF s, b
  <2>3. CASE m # t /\ ~(m \in 0 .. t - 1)
    BY <1>2, <1>4, <2>3
  <2>4. QED BY <2>1, <2>2, <2>3
<1>7. free_lists' \in [Lvls -> PgLists]
  BY <1>2, <1>6
<1>8. corrupt' = FALSE
  <2>1. ASSUME NEW l \in 0 .. t - 1
        PROVE  Contains(free_lists[l], BuddyIdx(x, l))
    <3>1. free_lists[l] \in PgLists /\ BuddyIdx(x, l) \in Range(free_lists[l])
      BY <1>3, <1>4 DEF IsFree
    <3>2. QED BY <3>1, ListWithout
  <2>2. QED BY <1>2, <2>1
<1>9. \A e \in Pages, m \in Lvls :
        IsFree(e, m)' <=> \/ IsFree(e, m) /\ ~(m \in 0 .. t - 1 /\ e = BuddyIdx(x, m))
                          \/ m = t /\ e = FirstOf(x, m)
  BY <1>6 DEF IsFree
<1>10. QED BY <1>7, <1>8, <1>9 DEF t

LEMMA FreeBlocks ==
  ASSUME PgInv, NEW x \in stacks, pg_free_page(x), stacks' = stacks \ {x}, kept' = kept
  PROVE  \A e \in Pages, m \in Lvls :
           IsBlock(e, m)' <=> (IsBlock(e, m) /\ ~Gone(x, e, m)) \/ (m = Top(x) /\ e = FirstOf(x, m))
<1> DEFINE t == Top(x)
<1>1. \A e \in Pages, m \in Lvls :
        IsFree(e, m)' <=> \/ IsFree(e, m) /\ ~(m \in 0 .. t - 1 /\ e = BuddyIdx(x, m))
                          \/ m = t /\ e = FirstOf(x, m)
  BY FreeLists
<1>2. x \in Pages /\ x \in Held /\ x \notin kept /\ lvl[x] = 0
  BY StackIs
<1>3. Held' = Held \ {x} /\ lvl' = lvl
  BY <1>2, FreePage DEF Held
<1>4. \A e \in Held, m \in Lvls : ~IsFree(e, m)
  BY DEF PgInv, BlocksSound
<1>5. \A k \in 0 .. t - 1 : IsFree(BuddyIdx(x, k), k)
  <2>1. t \in Nat /\ t \in Lvls
    BY TopIs, PgParams
  <2>2. t \in 0 .. t
    BY <2>1
  <2>3. Merged(x, t)
    BY <2>2, MergedAll
  <2>4. QED BY <2>3 DEF Merged
<1> HIDE DEF t
<1>6. ASSUME NEW e \in Pages, NEW m \in Lvls
      PROVE  IsBlock(e, m)' <=> (IsBlock(e, m) /\ ~((e = x /\ m = 0) \/ (m \in 0 .. t - 1 /\ e = BuddyIdx(x, m))))
                                 \/ (m = t /\ e = FirstOf(x, m))
  <2>1. IsBlock(e, m)' <=> IsFree(e, m)' \/ (e \in Held' /\ lvl'[e] = m)
    BY DEF IsBlock
  <2>2. IsBlock(e, m) <=> IsFree(e, m) \/ (e \in Held /\ lvl[e] = m)
    BY DEF IsBlock
  <2>3. CASE e = x
    <3>1. ~IsFree(e, m)
      BY <1>2, <1>4, <2>3
    <3>2. IsBlock(e, m)' <=> m = t /\ e = FirstOf(x, m)
      BY <1>1, <1>3, <2>1, <2>3, <3>1
    <3>3. IsBlock(e, m) => m = 0
      BY <1>2, <2>2, <2>3, <3>1
    <3>4. QED BY <2>3, <3>2, <3>3
  <2>4. CASE e # x /\ e \in Held
    <3>1. ~IsFree(e, m)
      BY <1>4, <2>4
    <3>2. ~(m \in 0 .. t - 1 /\ e = BuddyIdx(x, m))
      BY <1>5, <3>1
    <3>3. QED BY <1>1, <1>3, <2>1, <2>2, <2>4, <3>1, <3>2
  <2>5. CASE e # x /\ e \notin Held
    BY <1>1, <1>3, <2>1, <2>2, <2>5
  <2>6. QED BY <2>3, <2>4, <2>5
<1>7. QED BY <1>6 DEF Gone, t

LEMMA FreeSound ==
  ASSUME PgInv, NEW x \in stacks, pg_free_page(x), stacks' = stacks \ {x}, kept' = kept
  PROVE  BlocksSound'
<1> DEFINE t == Top(x)  b == FirstOf(x, t)
<1>1. /\ t \in Lvls /\ t \in Nat /\ Merged(x, t) /\ 2^t \in Nat /\ 2^t >= 1
      /\ b \in Pages /\ b \in Nat /\ Fits(b, t) /\ b <= x /\ x < b + 2^t /\ x \in Nat
      /\ \A k \in 0 .. t - 1 : BuddyIdx(x, k) \in Pages /\ IsFree(BuddyIdx(x, k), k) /\ k \in Lvls
  <2>1. t \in Lvls /\ t \in Nat
    BY TopIs, PgParams
  <2>2. t \in 0 .. t
    BY <2>1
  <2>3. Merged(x, t)
    BY <2>2, MergedAll
  <2>4. b <= x /\ x < b + 2^t
    BY <2>1, StackIs, HalvesOf
  <2> HIDE DEF t
  <2>5. \A k \in 0 .. t - 1 : k \in Lvls
    BY <2>1, PgParams
  <2>6. QED BY <2>1, <2>3, <2>4, <2>5, StackIs, PgParams DEF Merged
<1>2. \A e \in Pages, m \in Lvls :
        IsBlock(e, m)' <=> (IsBlock(e, m) /\ ~Gone(x, e, m)) \/ (m = t /\ e = FirstOf(x, m))
  BY FreeBlocks
<1>3. \A e \in Pages, m \in Lvls : Gone(x, e, m) <=> (e = x /\ m = 0) \/ (m \in 0 .. t - 1 /\ e = BuddyIdx(x, m))
  BY DEF Gone
<1>4. \A e \in Pages, m \in Lvls :
        IsFree(e, m)' <=> \/ IsFree(e, m) /\ ~(m \in 0 .. t - 1 /\ e = BuddyIdx(x, m))
                          \/ m = t /\ e = FirstOf(x, m)
  BY FreeLists
<1>5. Held' = Held \ {x} /\ lvl' = lvl /\ x \in Held
  BY StackIs, FreePage DEF Held
<1>6. b = FirstOf(x, t)
  OBVIOUS
<1> HIDE DEF t, b
<1>7. ASSUME NEW e \in Pages, NEW m \in Lvls, IsBlock(e, m)'
      PROVE  Fits(e, m)
  BY <1>1, <1>2, <1>6, <1>7 DEF PgInv, BlocksSound
\* What does not merge is apart from the block that the rest become.
<1>8. ASSUME NEW e \in Pages, NEW m \in Lvls, IsBlock(e, m), ~Gone(x, e, m)
      PROVE  e + 2^m <= b \/ b + 2^t <= e
  <2> SUFFICES ASSUME ~(e + 2^m <= b), ~(b + 2^t <= e)
               PROVE  FALSE
    OBVIOUS
  <2>1. e \in Nat /\ 2^m \in Nat /\ 2^m >= 1
    BY PgParams
  <2>2. PICK i \in Int : i \in Span(e, m) /\ i \in Span(b, t)
    <3>1. CASE e <= b
      <4>1. b \in Span(e, m) /\ b \in Span(b, t) /\ b \in Int
        BY <1>1, <2>1, <3>1 DEF Span
      <4>2. QED BY <4>1
    <3>2. CASE b < e
      <4>1. e \in Span(e, m) /\ e \in Span(b, t) /\ e \in Int
        BY <1>1, <2>1, <3>2 DEF Span
      <4>2. QED BY <4>1
    <3>3. QED BY <1>1, <2>1, <3>1, <3>2
  <2>3. (e = x /\ m = 0) \/ (m \in 0 .. t - 1 /\ e = BuddyIdx(x, m))
    BY <1>1, <1>6, <1>8, <2>2, MergedBlocks
  <2>4. QED BY <1>3, <1>8, <2>3
<1>9. ASSUME NEW e \in Pages, NEW f \in Pages, NEW m \in Lvls, NEW k \in Lvls, IsBlock(e, m)', IsBlock(f, k)'
      PROVE  (e = f /\ m = k) \/ e + 2^m <= f \/ f + 2^k <= e
  <2>1. (IsBlock(e, m) /\ ~Gone(x, e, m)) \/ (m = t /\ e = b)
    BY <1>2, <1>6, <1>9
  <2>2. (IsBlock(f, k) /\ ~Gone(x, f, k)) \/ (k = t /\ f = b)
    BY <1>2, <1>6, <1>9
  <2>3. CASE m = t /\ e = b
    BY <1>8, <2>2, <2>3
  <2>4. CASE k = t /\ f = b
    BY <1>8, <2>1, <2>4
  <2>5. CASE IsBlock(e, m) /\ IsBlock(f, k)
    BY <2>5 DEF PgInv, BlocksSound
  <2>6. QED BY <2>1, <2>2, <2>3, <2>4, <2>5
<1>10. ASSUME NEW e \in Pages, NEW m \in Lvls, Gone(x, e, m)
       PROVE  b <= e /\ e + 2^m <= b + 2^t
  <2>1. CASE e = x /\ m = 0
    <3>1. 2^0 = 1
      OBVIOUS
    <3>2. QED BY <1>1, <2>1, <3>1
  <2>2. CASE m \in 0 .. t - 1 /\ e = BuddyIdx(x, m)
    <3>1. m \in Nat /\ m < t
      BY <1>1, <2>2
    <3>2. QED BY <1>1, <1>6, <2>2, <3>1, MergedInside
  <2>3. QED BY <1>3, <1>10, <2>1, <2>2
<1>11. ASSUME NEW i \in Reserved .. NumPages - 1
       PROVE  \E e \in Pages, m \in Lvls : IsBlock(e, m)' /\ i \in Span(e, m)
  <2>1. PICK e \in Pages, m \in Lvls : IsBlock(e, m) /\ i \in Span(e, m)
    BY DEF PgInv, BlocksSound
  <2>2. CASE Gone(x, e, m)
    <3>1. b <= e /\ e + 2^m <= b + 2^t /\ e \in Nat /\ 2^m \in Nat
      BY <1>10, <2>2, PgParams
    <3>2. i \in Span(b, t)
      BY <1>1, <2>1, <3>1 DEF Span
    <3>3. PICK f \in Pages, k \in Lvls : f = b /\ k = t
      BY <1>1
    <3>4. IsBlock(f, k)'
      BY <1>2, <1>6, <3>3
    <3>5. QED BY <3>2, <3>3, <3>4
  <2>3. CASE ~Gone(x, e, m)
    BY <1>2, <2>1, <2>3
  <2>4. QED BY <2>2, <2>3
<1>12. ASSUME NEW e \in Held', NEW l \in Lvls
       PROVE  ~IsFree(e, l)'
  <2>1. e \in Held /\ e # x /\ e \in Pages /\ ~IsFree(e, l)
    BY <1>5 DEF PgInv, PgTypes, BlocksSound, Held
  <2>2. ~(l = t /\ e = FirstOf(x, l))
    <3> SUFFICES ASSUME e = b
                 PROVE  FALSE
      BY <1>6
    <3>1. e \in Span(b, t)
      BY <1>1 DEF Span
    <3>2. QED BY <1>1, <1>6, <2>1, <3>1, MergedHolders
  <2>3. QED BY <1>4, <2>1, <2>2
<1>13. QED BY <1>7, <1>9, <1>11, <1>12 DEF BlocksSound

\* The step divides nothing, and the block that merged is not divided.
LEMMA FreeDivides ==
  ASSUME PgInv, NEW x \in stacks, pg_free_page(x), stacks' = stacks \ {x}, kept' = kept,
         NEW d \in Pages, NEW l \in Lvls, Divided(d, l)'
  PROVE  /\ Divided(d, l)
         /\ ~(FirstOf(x, Top(x)) <= d /\ d + 2^l <= FirstOf(x, Top(x)) + 2^Top(x))
<1> DEFINE t == Top(x)  b == FirstOf(x, t)
<1>1. /\ t \in Lvls /\ t \in Nat /\ Merged(x, t) /\ 2^t \in Nat /\ b \in Pages /\ b \in Nat
      /\ b <= x /\ x < b + 2^t /\ x \in Nat
  <2>1. t \in Lvls /\ t \in Nat
    BY TopIs, PgParams
  <2>2. t \in 0 .. t
    BY <2>1
  <2>3. Merged(x, t)
    BY <2>2, MergedAll
  <2>4. b <= x /\ x < b + 2^t
    BY <2>1, StackIs, HalvesOf
  <2> HIDE DEF t
  <2>5. QED BY <2>1, <2>3, <2>4, StackIs, PgParams DEF Merged
<1>2. \A e \in Pages, m \in Lvls :
        IsBlock(e, m)' <=> (IsBlock(e, m) /\ ~Gone(x, e, m)) \/ (m = t /\ e = FirstOf(x, m))
  BY FreeBlocks
<1>3. \A e \in Pages, m \in Lvls : Gone(x, e, m) <=> (e = x /\ m = 0) \/ (m \in 0 .. t - 1 /\ e = BuddyIdx(x, m))
  BY DEF Gone
<1>4. b = FirstOf(x, t)
  OBVIOUS
<1> HIDE DEF t, b
<1>5. \A e \in Pages, m \in Lvls : IsBlock(e, m)' => ~(e <= d /\ d + 2^l <= e + 2^m)
  BY DEF Divided
<1>6. ~(b <= d /\ d + 2^l <= b + 2^t)
  BY <1>1, <1>2, <1>4, <1>5
<1>7. ASSUME NEW e \in Pages, NEW m \in Lvls, IsBlock(e, m), e <= d, d + 2^l <= e + 2^m
      PROVE  FALSE
  <2>1. Gone(x, e, m)
    BY <1>2, <1>5, <1>7
  <2>2. b <= e /\ e + 2^m <= b + 2^t
    <3>1. CASE e = x /\ m = 0
      <4>1. 2^0 = 1
        OBVIOUS
      <4>2. QED BY <1>1, <3>1, <4>1
    <3>2. CASE m \in 0 .. t - 1 /\ e = BuddyIdx(x, m)
      <4>1. m \in Nat /\ m < t
        BY <1>1, <3>2
      <4>2. QED BY <1>1, <1>4, <3>2, <4>1, MergedInside
    <3>3. QED BY <1>3, <2>1, <3>1, <3>2
  <2>3. d \in Nat /\ e \in Nat /\ 2^l \in Nat /\ 2^m \in Nat
    BY PgParams
  <2>4. QED BY <1>1, <1>6, <1>7, <2>2, <2>3
<1>8. QED BY <1>6, <1>7 DEF Divided, t, b

\* A buddy that merged is half of a block that lies in the one that it became.
LEMMA FreeBuddy ==
  ASSUME PgInv, NEW x \in stacks, NEW m \in 0 .. Top(x) - 1
  PROVE  \E c \in Pages :
           /\ m + 1 \in Lvls /\ Fits(c, m + 1)
           /\ BuddyIdx(x, m) = c \/ BuddyIdx(x, m) = c + 2^m
           /\ FirstOf(x, Top(x)) <= c /\ c + 2^(m + 1) <= FirstOf(x, Top(x)) + 2^Top(x)
<1> DEFINE t == Top(x)
<1>1. t \in Lvls /\ t \in Nat
  BY TopIs, PgParams
<1>2. m \in Nat /\ m < t /\ m + 1 \in 0 .. t /\ t \in 0 .. t /\ m \in 0 .. t
  BY <1>1
<1>3. m + 1 \in Lvls /\ Merged(x, m + 1) /\ Merged(x, t) /\ m \in Lvls
  BY <1>2, MergedAll
<1> DEFINE c == FirstOf(x, m + 1)
<1>4. c \in Pages /\ Fits(c, m + 1)
  BY <1>3 DEF Merged
<1>5. BuddyIdx(x, m) = c \/ BuddyIdx(x, m) = c + 2^m
  <2>1. /\ FirstOf(x, m) \in Int /\ BuddyIdx(x, m) \in Int
        /\ (c = FirstOf(x, m) /\ BuddyIdx(x, m) = FirstOf(x, m) + 2^m) \/ (c = BuddyIdx(x, m) /\ FirstOf(x, m) = BuddyIdx(x, m) + 2^m)
    BY <1>3, StackIs, HalvesOf
  <2> HIDE DEF c
  <2>2. QED BY <2>1
<1>6. FirstOf(x, t) <= c /\ c + 2^(m + 1) <= FirstOf(x, t) + 2^t
  BY <1>1, <1>2, <1>3, MergedInside
<1>7. QED BY <1>3, <1>4, <1>5, <1>6

LEMMA FreeHalves ==
  ASSUME PgInv, NEW x \in stacks, pg_free_page(x), stacks' = stacks \ {x}, kept' = kept
  PROVE  HalvesMarked'
<1> SUFFICES ASSUME NEW d \in Pages, NEW l \in Lvls, l + 1 \in Lvls, Fits(d, l + 1), Divided(d, l + 1)'
             PROVE  /\ d \notin used' => IsFree(d, l)'
                    /\ d + 2^l \notin used' => IsFree(d + 2^l, l)'
  BY DEF HalvesMarked, Fits
<1>1. /\ \A e \in Pages, m \in Lvls :
           IsFree(e, m)' <=> \/ IsFree(e, m) /\ ~(m \in 0 .. Top(x) - 1 /\ e = BuddyIdx(x, m))
                             \/ m = Top(x) /\ e = FirstOf(x, m)
      /\ used' = used
  BY FreeLists, FreePage
<1>2. /\ Divided(d, l + 1)
      /\ ~(FirstOf(x, Top(x)) <= d /\ d + 2^(l + 1) <= FirstOf(x, Top(x)) + 2^Top(x))
  BY FreeDivides
<1>3. /\ d \in Nat /\ l \in Nat /\ 2^l \in Nat /\ 2^l >= 1 /\ 2^(l + 1) = 2^l + 2^l /\ FirstPage + d \in Nat
      /\ FirstPage \in Nat /\ NumPages \in Nat
      /\ Aligned(FirstPage + d, l + 1) /\ d + 2^(l + 1) <= NumPages
  BY PgParams DEF Fits
<1>4. d + 2^l \in Pages
  <2>1. d + 2^l \in Nat /\ d + 2^l < NumPages
    BY <1>3
  <2>2. QED BY <2>1, PgParams
<1>5. ASSUME NEW h \in Pages, h = d \/ h = d + 2^l, h \notin used
      PROVE  IsFree(h, l)'
  <2>1. IsFree(h, l)
    BY <1>2, <1>5 DEF PgInv, HalvesMarked
  <2>2. ~(l \in 0 .. Top(x) - 1 /\ h = BuddyIdx(x, l))
    <3> SUFFICES ASSUME l \in 0 .. Top(x) - 1, h = BuddyIdx(x, l)
                 PROVE  FALSE
      OBVIOUS
    <3>1. PICK c \in Pages : /\ Fits(c, l + 1)
                             /\ h = c \/ h = c + 2^l
                             /\ FirstOf(x, Top(x)) <= c
                             /\ c + 2^(l + 1) <= FirstOf(x, Top(x)) + 2^Top(x)
      BY FreeBuddy
    <3>2. c \in Nat /\ Aligned(FirstPage + c, l + 1) /\ FirstPage + c \in Nat
      BY <3>1, PgParams DEF Fits
    <3>3. ~(c < d) /\ ~(d < c)
      <4>1. FirstPage + c < FirstPage + d => (FirstPage + c) + 2^(l + 1) <= FirstPage + d
        BY <1>3, <3>2, AlignedApart
      <4>2. FirstPage + d < FirstPage + c => (FirstPage + d) + 2^(l + 1) <= FirstPage + c
        BY <1>3, <3>2, AlignedApart
      <4>3. QED BY <1>3, <1>5, <3>1, <3>2, <4>1, <4>2
    <3>4. c = d
      BY <1>3, <3>2, <3>3
    <3>5. QED BY <1>2, <3>1, <3>4
  <2>3. QED BY <1>1, <2>1, <2>2
<1>6. QED BY <1>1, <1>4, <1>5

LEMMA FreeTail ==
  ASSUME PgInv, NEW x \in stacks, pg_free_page(x), stacks' = stacks \ {x}, kept' = kept
  PROVE  TailMarked'
<1> SUFFICES ASSUME NEW d \in Pages, NEW y \in Pages, NEW l \in Lvls, l + 1 \in Lvls, CutOff(d, l, y), y \notin used'
             PROVE  /\ \E m \in Lvls : m < l /\ IsFree(y, m)' /\ y + 2^(m + 1) > NumPages
                    /\ Divided(d, l)' => \E k \in kept' : k \in Span(d, l)
  BY DEF TailMarked, CutOff, Fits, Span
<1>1. /\ \A e \in Pages, m \in Lvls :
           IsFree(e, m)' <=> \/ IsFree(e, m) /\ ~(m \in 0 .. Top(x) - 1 /\ e = BuddyIdx(x, m))
                             \/ m = Top(x) /\ e = FirstOf(x, m)
      /\ used' = used
  BY FreeLists, FreePage
<1>2. /\ d \in Nat /\ y \in Nat /\ l \in Nat /\ 2^l \in Nat /\ FirstPage + d \in Nat /\ FirstPage + y \in Nat
      /\ FirstPage \in Nat /\ NumPages \in Nat
      /\ Aligned(FirstPage + d, l + 1) /\ y = d + 2^l
  BY PgParams DEF CutOff
<1>3. PICK m \in Lvls : m < l /\ IsFree(y, m) /\ y + 2^(m + 1) > NumPages
  BY <1>1 DEF PgInv, TailMarked
<1>4. ~(m \in 0 .. Top(x) - 1 /\ y = BuddyIdx(x, m))
  <2> SUFFICES ASSUME m \in 0 .. Top(x) - 1, y = BuddyIdx(x, m)
               PROVE  FALSE
    OBVIOUS
  <2>1. PICK c \in Pages : m + 1 \in Lvls /\ Fits(c, m + 1) /\ (y = c \/ y = c + 2^m)
    BY FreeBuddy
  <2>2. /\ c \in Nat /\ Aligned(FirstPage + c, m + 1) /\ FirstPage + c \in Nat /\ c + 2^(m + 1) <= NumPages
        /\ m \in Nat /\ 2^m \in Nat /\ 2^(m + 1) \in Nat
    BY <2>1, PgParams DEF Fits
  <2>3. CASE y = c
    BY <1>2, <1>3, <2>2, <2>3
  <2>4. CASE y = c + 2^m
    <3>1. ~Aligned((FirstPage + c) + 2^m, l)
      BY <1>2, <1>3, <2>2, Halves
    <3>2. Aligned((FirstPage + d) + 2^l, l)
      BY <1>2, Halves
    <3>3. (FirstPage + c) + 2^m = (FirstPage + d) + 2^l
      BY <1>2, <2>2, <2>4
    <3>4. QED BY <3>1, <3>2, <3>3
  <2>5. QED BY <2>1, <2>3, <2>4
<1>5. IsFree(y, m)'
  BY <1>1, <1>3, <1>4
<1>6. Divided(d, l)' => \E k \in kept' : k \in Span(d, l)
  <2> SUFFICES ASSUME Divided(d, l)'
               PROVE  \E k \in kept' : k \in Span(d, l)
    OBVIOUS
  <2>1. Divided(d, l)
    BY FreeDivides
  <2>2. \E k \in kept : k \in Span(d, l)
    BY <1>1, <2>1 DEF PgInv, TailMarked
  <2>3. QED BY <2>2
<1>7. QED BY <1>3, <1>5, <1>6

LEMMA FreeInv ==
  ASSUME PgInv, NEW x \in stacks, pg_free_page(x), stacks' = stacks \ {x}, kept' = kept
  PROVE  PgInv'
<1>1. free_lists' \in [Lvls -> PgLists] /\ corrupt' = FALSE /\ used' = used /\ lvl' = lvl
  BY FreeLists, FreePage
<1>2. PgTypes'
  BY <1>1 DEF PgInv, PgTypes
<1>3. HoldersApart'
  BY <1>1 DEF PgInv, HoldersApart
<1>4. BlocksSound' /\ HalvesMarked' /\ TailMarked'
  BY FreeSound, FreeHalves, FreeTail
<1>5. QED BY <1>2, <1>3, <1>4 DEF PgInv

-----------------------------------------------------------------------------
LEMMA PgNextInv == PgInv /\ [PgMgrNext]_pgvars => PgInv'
<1> SUFFICES ASSUME PgInv, [PgMgrNext]_pgvars
             PROVE  PgInv'
  OBVIOUS
<1>1. 0 \in Lvls
  BY PgParams DEF Lvls
<1>2. CASE AllocStack
  <2>1. PICK d \in Pages : pg_alloc_page(0, d) /\ stacks' = stacks \cup {d} /\ kept' = kept
    BY <1>2 DEF AllocStack
  <2>2. QED BY <1>1, <2>1, AllocInv
<1>3. CASE AllocKept
  <2>1. PICK p \in Lvls, d \in Pages : pg_alloc_page(p, d) /\ kept' = kept \cup {d} /\ stacks' = stacks
    BY <1>3 DEF AllocKept
  <2>2. QED BY <2>1, AllocInv
<1>4. CASE FreeStack
  <2>1. PICK d \in stacks : pg_free_page(d) /\ stacks' = stacks \ {d} /\ kept' = kept
    BY <1>4 DEF FreeStack
  <2>2. QED BY <2>1, FreeInv
<1>5. CASE UNCHANGED pgvars
  <2>1. /\ free_lists' = free_lists /\ used' = used /\ lvl' = lvl
        /\ stacks' = stacks /\ kept' = kept /\ corrupt' = corrupt
    BY <1>5 DEF pgvars
  <2>2. Held' = Held
    BY <2>1 DEF Held
  <2>3. \A d, l : IsFree(d, l)' <=> IsFree(d, l)
    BY <2>1 DEF IsFree
  <2>4. \A d, l : IsBlock(d, l)' <=> IsBlock(d, l)
    BY <2>1, <2>2, <2>3 DEF IsBlock
  <2>5. \A d, l : Divided(d, l)' <=> Divided(d, l)
    BY <2>4 DEF Divided
  <2>6. PgTypes' /\ HoldersApart'
    BY <2>1 DEF PgInv, PgTypes, HoldersApart
  <2>7. BlocksSound'
    BY <2>2, <2>3, <2>4 DEF PgInv, BlocksSound
  <2>8. HalvesMarked'
    BY <2>1, <2>3, <2>5 DEF PgInv, HalvesMarked
  <2>9. TailMarked'
    BY <2>1, <2>3, <2>5 DEF PgInv, TailMarked
  <2>10. QED BY <2>6, <2>7, <2>8, <2>9 DEF PgInv
<1>6. QED BY <1>2, <1>3, <1>4, <1>5 DEF PgMgrNext

LEMMA PgInvPartition == PgInv => BlocksPartition
<1> SUFFICES ASSUME PgInv
             PROVE  BlocksPartition
  OBVIOUS
<1>1. PgTypes /\ BlocksSound
  BY DEF PgInv
<1>2. PgTypeOK
  <2>1. PgLists \subseteq Seq(Pages)
    BY DEF PgLists
  <2>2. QED BY <1>1, <2>1 DEF PgTypes, PgTypeOK
<1>3. corrupt = FALSE
  BY <1>1 DEF PgTypes
<1>4. /\ \A l \in Lvls : free_lists[l] \in PgLists
      /\ Held \subseteq Pages /\ \A d \in Held : lvl[d] \in Lvls
  BY <1>1 DEF PgTypes, Held
<1> DEFINE Ofs(a) == (a[1] \in Held /\ a[2] = lvl[a[1]] /\ a[3] = 0)
                     \/ (a[3] \in DOMAIN free_lists[a[2]] /\ a[1] = free_lists[a[2]][a[3]])
<1>5. ASSUME NEW a \in Blocks
      PROVE  /\ a = <<a[1], a[2], a[3]>> /\ a[1] \in Pages /\ a[2] \in Lvls
             /\ Ofs(a) /\ IsBlock(a[1], a[2])
  <2>1. CASE \E d \in Held : a = <<d, lvl[d], 0>>
    <3>1. PICK d \in Held : a = <<d, lvl[d], 0>>
      BY <2>1
    <3>2. QED BY <1>4, <3>1 DEF IsBlock
  <2>2. CASE \E l \in Lvls : \E k \in DOMAIN free_lists[l] : a = <<free_lists[l][k], l, k>>
    <3>1. PICK l \in Lvls : \E k \in DOMAIN free_lists[l] : a = <<free_lists[l][k], l, k>>
      BY <2>2
    <3>2. PICK k \in DOMAIN free_lists[l] : a = <<free_lists[l][k], l, k>>
      BY <3>1
    <3> DEFINE s == free_lists[l]
    <3>3. s[k] \in Pages /\ s[k] \in Range(s)
      <4>1. s \in PgLists /\ k \in DOMAIN s
        BY <1>4
      <4> HIDE DEF s
      <4>2. QED BY <4>1, ListOfPages
    <3>4. a[1] = free_lists[l][k] /\ a[2] = l /\ a[3] = k /\ a = <<a[1], a[2], a[3]>>
      BY <3>2
    <3>5. QED BY <3>3, <3>4 DEF IsBlock, IsFree
  <2>3. QED BY <2>1, <2>2 DEF Blocks
<1>6. ASSUME NEW a \in Blocks, NEW b \in Blocks, a[1] = b[1], a[2] = b[2]
      PROVE  a = b
  <2>1. /\ a = <<a[1], a[2], a[3]>> /\ a[1] \in Pages /\ a[2] \in Lvls /\ Ofs(a)
        /\ b = <<b[1], b[2], b[3]>> /\ Ofs(b)
    BY <1>5
  <2> DEFINE d == a[1]  l == a[2]  j == a[3]  k == b[3]  s == free_lists[l]
  <2>2. s \in PgLists /\ l \in Lvls /\ d \in Pages
    BY <1>4, <2>1
  <2>3. (d \in Held /\ j = 0) \/ (j \in DOMAIN s /\ d = s[j])
    BY <2>1
  <2>4. (d \in Held /\ k = 0) \/ (k \in DOMAIN s /\ d = s[k])
    BY <1>6, <2>1
  <2>5. d \in Held => d \notin Range(s)
    BY <1>1, <2>2 DEF BlocksSound, IsFree
  <2> HIDE DEF d, l, j, k, s, Ofs
  <2>6. \A i \in DOMAIN s : s[i] \in Range(s)
    BY <2>2, ListOfPages
  <2>7. j = k
    <3>1. CASE d \in Held
      BY <2>3, <2>4, <2>5, <2>6, <3>1
    <3>2. CASE d \notin Held
      BY <2>2, <2>3, <2>4, <3>2, ListOfPages
    <3>3. QED BY <3>1, <3>2
  <2>8. QED BY <1>6, <2>1, <2>7 DEF j, k
<1> HIDE DEF Ofs
<1>7. ASSUME NEW a \in Blocks, NEW b \in Blocks, a # b
      PROVE  Span(a[1], a[2]) \cap Span(b[1], b[2]) = {}
  <2> DEFINE d == a[1]  l == a[2]  e == b[1]  m == b[2]
  <2>1. /\ d \in Pages /\ l \in Lvls /\ IsBlock(d, l) /\ e \in Pages /\ m \in Lvls /\ IsBlock(e, m)
        /\ ~(d = e /\ l = m)
    BY <1>5, <1>6, <1>7
  <2> HIDE DEF d, l, e, m
  <2>2. \A i \in Int : ~(i \in Span(d, l) /\ i \in Span(e, m))
    BY <2>1, SharedPage
  <2>3. Span(d, l) \subseteq Int
    BY <2>1, PgParams DEF Span
  <2>4. Span(d, l) \cap Span(e, m) = {}
    BY <2>2, <2>3
  <2>5. QED BY <2>4 DEF d, l, e, m
<1>8. ASSUME NEW i \in Reserved .. NumPages - 1
      PROVE  \E b \in Blocks : i \in Span(b[1], b[2])
  <2>1. PICK d \in Pages, l \in Lvls : IsBlock(d, l) /\ i \in Span(d, l)
    BY <1>1 DEF BlocksSound
  <2>2. CASE d \in Held /\ lvl[d] = l
    <3>1. <<d, lvl[d], 0>> \in Blocks
      BY <2>2 DEF Blocks
    <3>2. QED BY <2>1, <2>2, <3>1
  <2>3. CASE IsFree(d, l)
    <3> DEFINE s == free_lists[l]
    <3>1. PICK k \in DOMAIN s : s[k] = d
      <4>1. s \in PgLists /\ d \in Range(s)
        BY <1>4, <2>3 DEF IsFree
      <4> HIDE DEF s
      <4>2. QED BY <4>1, ListOfPages
    <3>2. <<free_lists[l][k], l, k>> \in Blocks
      BY <3>1 DEF Blocks
    <3>3. QED BY <2>1, <3>1, <3>2
  <2>4. QED BY <2>1, <2>2, <2>3 DEF IsBlock
<1>9. ASSUME NEW b \in Blocks, NEW i \in Span(b[1], b[2])
      PROVE  i \in Reserved .. NumPages - 1
  <2> DEFINE d == b[1]  l == b[2]
  <2>1. d \in Pages /\ l \in Lvls /\ IsBlock(d, l)
    BY <1>5
  <2>2. i \in Span(d, l)
    OBVIOUS
  <2> HIDE DEF d, l
  <2>3. Reserved <= d /\ d + 2^l <= NumPages /\ d \in Nat /\ 2^l \in Nat
    BY <1>1, <2>1, PgParams DEF BlocksSound, Fits
  <2>4. QED BY <2>2, <2>3, PgParams DEF Span
<1>10. UNION {Span(b[1], b[2]) : b \in Blocks} = Reserved .. NumPages - 1
  BY <1>8, <1>9
<1>11. QED BY <1>2, <1>3, <1>7, <1>10 DEF BlocksPartition

\* Whatever stacks are taken and given back and whatever blocks are kept, the
\* blocks of pg_alloc_page cover the segment and share no page, and pg_free_page
\* unlinks a buddy only from the free list that it is on.
THEOREM BlocksPartitionTheorem == PgMgrSpec => []BlocksPartition
<1>1. PgMgrInit => PgInv
  BY PgInitInv
<1>2. PgInv /\ [PgMgrNext]_pgvars => PgInv'
  BY PgNextInv
<1>3. PgInv => BlocksPartition
  BY PgInvPartition
<1>4. QED BY <1>1, <1>2, <1>3, PTL DEF PgMgrSpec
=============================================================================
