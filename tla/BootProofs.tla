----------------------------- MODULE BootProofs -----------------------------
(***************************************************************************)
(* Proofs about what happens before a program runs: what the kernel sets   *)
(* up once when it boots, and how the loader of a task places its image.   *)
(***************************************************************************)
EXTENDS PgInit, BootLayout, Loader, CommonLemmas

-----------------------------------------------------------------------------
(* pg_init in kernel/src/pgmgr.c: the metadata and the free pages of the   *)
(* allocator lie apart, for every layout of segments and all sizes.        *)

\* Rounding to whole pages.
LEMMA Rounded ==
  ASSUME NEW a \in Nat
  PROVE  Up(a) \in Nat /\ a <= Up(a) /\ Down(a) \in Nat /\ Down(a) <= a
<1> DEFINE p == PgCells  q == (a + p - 1) \div p  d == a \div p
<1>1. p \in Nat \ {0}
  BY PgInitAssumption
<1>2. q \in Nat /\ q * p + ((a + p - 1) % p) = a + p - 1 /\ (a + p - 1) % p \in 0 .. p - 1
  <2>1. a + p - 1 \in Nat
    BY <1>1
  <2> DEFINE n == a + p - 1
  <2> HIDE DEF n, p
  <2>2. n \div p \in Nat /\ n % p \in 0 .. p - 1 /\ n = (n \div p) * p + (n % p)
    <3>1. n \in Nat /\ p \in Nat \ {0}
      BY <1>1, <2>1 DEF n
    <3>2. n \div p \in Nat
      BY <3>1
    <3>3. n % p \in 0 .. p - 1
      BY <3>1
    <3>4. n = (n \div p) * p + (n % p)
      BY <3>1
    <3>5. QED BY <3>2, <3>3, <3>4
  <2>3. QED BY <2>2 DEF n
<1>3. d \in Nat /\ a = d * p + (a % p) /\ a % p \in 0 .. p - 1
  <2> HIDE DEF p
  <2>1. d \in Nat
    BY <1>1
  <2>2. a % p \in 0 .. p - 1
    BY <1>1
  <2>3. a = d * p + (a % p)
    BY <1>1
  <2>4. QED BY <2>1, <2>2, <2>3
<1>4. Up(a) = p * q /\ Down(a) = p * d
  BY DEF Up, Down
<1> HIDE DEF p, q, d
<1>5. p * q = q * p /\ p * d = d * p /\ q * p \in Nat /\ d * p \in Nat
  BY <1>1, <1>2, <1>3
<1>6. QED BY <1>1, <1>2, <1>3, <1>4, <1>5

\* One of the indices at which a size is smallest is the first.
LEMMA SmallestIs ==
  ASSUME NEW D \in SUBSET Nat, D # {}, NEW size, DOMAIN size = D, \A i \in D : size[i] \in Int,
         NEW lo \in Int, \A i \in D : lo <= size[i]
  PROVE  Smallest(size) \in D
<1> DEFINE V == {size[i] - lo : i \in D}
<1>1. V \in SUBSET Nat /\ V # {}
  <2>1. \A i \in D : size[i] - lo \in Nat
    OBVIOUS
  <2>2. QED BY <2>1
<1>2. PICK v \in V : \A w \in V : v <= w
  <2> HIDE DEF V
  <2>1. QED BY <1>1, SmallestOf
<1> DEFINE E == {i \in D : size[i] - lo = v}
<1>3. E \in SUBSET Nat /\ E # {}
  OBVIOUS
<1>4. PICK i \in E : \A j \in E : i <= j
  <2> HIDE DEF E, V
  <2>1. QED BY <1>3, SmallestOf
<1>5. \A j \in D : size[i] < size[j] \/ (size[i] = size[j] /\ i <= j)
  <2> TAKE j \in D
  <2>1. size[j] - lo \in V
    OBVIOUS
  <2>2. /\ v <= size[j] - lo /\ size[i] - lo = v /\ v \in Nat
        /\ size[i] \in Int /\ size[j] \in Int
    BY <1>1, <1>2, <2>1
  <2>3. CASE size[j] - lo = v
    <3>1. j \in E
      BY <2>3
    <3>2. i <= j
      BY <1>4, <3>1
    <3> HIDE DEF E, V
    <3>3. QED BY <2>2, <2>3, <3>2
  <2>4. CASE size[j] - lo # v
    <3> HIDE DEF E, V
    <3>1. QED BY <2>2, <2>4
  <2>5. QED BY <2>3, <2>4
<1>6. i \in D
  OBVIOUS
<1> HIDE DEF E, V
<1>7. QED BY <1>5, <1>6 DEF Smallest

\* Segments in a layout lie one after the other.
LEMMA LayoutIs ==
  ASSUME NEW l \in Layouts
  PROVE  /\ \A i \in 1 .. NSegs : l[i] \in [s : Nat, e : Nat, ro : BOOLEAN] /\ l[i].s < l[i].e
                                    /\ (l[i].s = 0 => l[i].ro)
         /\ \A i, j \in 1 .. NSegs : i < j => l[i].e <= l[j].s
<1>1. NSegs \in Nat \ {0} /\ Bounds \subseteq Nat
  BY PgInitAssumption
<1>2. /\ \A i \in 1 .. NSegs : l[i] \in [s : Nat, e : Nat, ro : BOOLEAN] /\ l[i].s < l[i].e
                                    /\ (l[i].s = 0 => l[i].ro)
      /\ \A i \in 1 .. NSegs - 1 : l[i].e <= l[i + 1].s
  BY <1>1 DEF Layouts
<1>3. ASSUME NEW i \in 1 .. NSegs, NEW j \in 1 .. NSegs, i < j
      PROVE  l[i].e <= l[j].s
  <2> DEFINE T == {d \in Nat : i + 1 + d <= NSegs /\ ~(l[i].e <= l[i + 1 + d].s)}
  <2>1. ASSUME NEW d \in T
        PROVE  d - 1 \in T
    <3>1. d \in Nat /\ i + 1 + d \in 1 .. NSegs /\ ~(l[i].e <= l[i + 1 + d].s)
      BY <1>1
    <3>2. d # 0
      <4>1. ASSUME d = 0 PROVE FALSE
        <5>1. i + 1 + d = i + 1 /\ i \in 1 .. NSegs - 1
          BY <1>1, <3>1, <4>1
        <5>2. QED BY <1>2, <3>1, <5>1
      <4>2. QED BY <4>1
    <3>3. /\ d - 1 \in Nat /\ i + d \in 1 .. NSegs - 1 /\ i + 1 + (d - 1) = i + d
          /\ (i + d) + 1 = i + 1 + d /\ i + d \in 1 .. NSegs
      BY <1>1, <3>1, <3>2
    <3>4. l[i + d].e <= l[i + 1 + d].s /\ l[i + d].s < l[i + d].e
      BY <1>2, <3>3
    <3>5. l[i].e \in Nat /\ l[i + d].s \in Nat /\ l[i + d].e \in Nat /\ l[i + 1 + d].s \in Nat
      BY <1>2, <3>1, <3>3
    <3>6. ~(l[i].e <= l[i + d].s)
      BY <3>1, <3>4, <3>5
    <3>7. i + d <= NSegs
      BY <3>3
    <3>8. QED BY <3>3, <3>6, <3>7
  <2>2. T = {}
    <3>1. T \in SUBSET Nat
      OBVIOUS
    <3> HIDE DEF T
    <3>2. QED BY <2>1, <3>1, Descent
  <2>3. j - (i + 1) \in Nat /\ i + 1 + (j - (i + 1)) = j /\ j <= NSegs
    BY <1>1, <1>3
  <2>4. QED BY <2>2, <2>3
<1>4. QED BY <1>2, <1>3

Segs == [s : Nat, e : Nat, ro : BOOLEAN]
Roots == [s : Nat, e : Nat, dsp : Nat]

InitTypes ==
  ini \in [at : {"trim", "mgr", "dsps", "up", "NULL"}, given : Layouts, segs : [1 .. NSegs -> Segs],
           roots : Seq(Roots), mgr : Nat, blank : Seq(Segs), free : SUBSET Nat,
           found : [addr : Nat, root : Nat]]

Whole(l) == [i \in 1 .. NSegs |-> [l[i] EXCEPT !.s = Up(@), !.e = Down(@)]]

SegOfRoot(i, k) == ini.segs[i].s = ini.roots[k].s /\ ini.segs[i].e = ini.roots[k].e

\* x .. x + l - 1 and y .. y + k - 1 have nothing in common.
Aside(x, l, y, k) == x + l <= y \/ y + k <= x

\* The roots are the segments with whole pages, each one once.
RootsAreSegments ==
  /\ ini.segs = Whole(ini.given)
  /\ \A k \in DOMAIN ini.roots :
       /\ ini.roots[k].s < ini.roots[k].e
       /\ \E i \in 1 .. NSegs : SegOfRoot(i, k)
  /\ \A i \in 1 .. NSegs : ini.segs[i].s < ini.segs[i].e => \E k \in DOMAIN ini.roots : SegOfRoot(i, k)
  /\ \A j, k \in DOMAIN ini.roots :
       j # k => ini.roots[j].e <= ini.roots[k].s \/ ini.roots[k].e <= ini.roots[j].s

\* What is left of a root's segment is its end.
BlankIsLeft ==
  /\ DOMAIN ini.blank = DOMAIN ini.roots
  /\ \A k \in DOMAIN ini.roots :
       /\ ini.roots[k].s <= ini.blank[k].s /\ ini.blank[k].s <= ini.roots[k].e
       /\ ini.blank[k].e = ini.roots[k].e
       /\ ~ini.blank[k].ro => /\ ini.roots[k].s > 0
                              /\ \E i \in 1 .. NSegs : ~ini.segs[i].ro /\ SegOfRoot(i, k)

\* An area in a writable root, before what is left of it.
Placed(x, l) ==
  \E b \in DOMAIN ini.roots : ~ini.blank[b].ro /\ ini.roots[b].s <= x /\ x + l <= ini.blank[b].s

Need(k) == PagesOf(ini.roots[k]) * DspCells

AreasPlaced ==
  /\ Placed(ini.mgr, MgrSize)
  /\ \A k \in DOMAIN ini.roots :
       ini.roots[k].dsp # 0 => /\ Placed(ini.roots[k].dsp, Need(k))
                               /\ Aside(ini.mgr, MgrSize, ini.roots[k].dsp, Need(k))
  /\ \A j, k \in DOMAIN ini.roots :
       j # k /\ ini.roots[j].dsp # 0 /\ ini.roots[k].dsp # 0 =>
         Aside(ini.roots[j].dsp, Need(j), ini.roots[k].dsp, Need(k))

AllPlaced ==
  /\ \A k \in DOMAIN ini.roots : ini.roots[k].dsp # 0
  /\ ini.free = UNION {FreeRange(k) : k \in 1 .. Len(ini.roots)}

InitInv ==
  /\ InitTypes
  /\ ini.at = "trim" => ini.segs = ini.given
  /\ ini.at # "trim" => RootsAreSegments
  /\ ini.at = "mgr" => \A k \in DOMAIN ini.roots : ini.roots[k].dsp = 0
  /\ ini.at \in {"dsps", "up"} => BlankIsLeft /\ AreasPlaced
  /\ ini.at = "up" => AllPlaced
  /\ ini.at # "up" => ini.found.addr = 0
  /\ FoundInOwnRoot

LEMMA SizesAre ==
  /\ PgCells \in Nat \ {0} /\ DspCells \in Nat \ {0} /\ MgrCells \in Nat \ {0} /\ RootCells \in Nat \ {0}
  /\ NSegs \in Nat \ {0}
BY PgInitAssumption

\* The segments with only whole pages are still one after the other.
LEMMA WholeIs ==
  ASSUME NEW l \in Layouts
  PROVE  /\ Whole(l) \in [1 .. NSegs -> Segs]
         /\ \A i \in 1 .. NSegs :
              /\ l[i].s <= Whole(l)[i].s /\ Whole(l)[i].e <= l[i].e /\ Whole(l)[i].ro = l[i].ro
              /\ l[i] \in Segs /\ (Whole(l)[i].s = 0 => l[i].ro)
         /\ \A i, j \in 1 .. NSegs : i < j => Whole(l)[i].e <= Whole(l)[j].s
<1>1. /\ \A i \in 1 .. NSegs : l[i] \in Segs /\ l[i].s < l[i].e /\ (l[i].s = 0 => l[i].ro)
      /\ \A i, j \in 1 .. NSegs : i < j => l[i].e <= l[j].s
  BY LayoutIs DEF Segs
<1>2. ASSUME NEW i \in 1 .. NSegs
      PROVE  /\ Whole(l)[i] \in Segs /\ Whole(l)[i].ro = l[i].ro
             /\ l[i].s <= Whole(l)[i].s /\ Whole(l)[i].e <= l[i].e
  <2>1. l[i].s \in Nat /\ l[i].e \in Nat /\ l[i] \in Segs
    BY <1>1 DEF Segs
  <2>2. Up(l[i].s) \in Nat /\ l[i].s <= Up(l[i].s) /\ Down(l[i].e) \in Nat /\ Down(l[i].e) <= l[i].e
    BY <2>1, Rounded
  <2>3. Whole(l)[i] = [l[i] EXCEPT !.s = Up(@), !.e = Down(@)]
    BY DEF Whole
  <2>4. Whole(l)[i].s = Up(l[i].s) /\ Whole(l)[i].e = Down(l[i].e) /\ Whole(l)[i].ro = l[i].ro /\ Whole(l)[i] \in Segs
    BY <2>1, <2>2, <2>3 DEF Segs
  <2>5. QED BY <2>2, <2>4
<1>3. Whole(l) \in [1 .. NSegs -> Segs]
  BY <1>2 DEF Whole
<1>4. ASSUME NEW i \in 1 .. NSegs
      PROVE  Whole(l)[i].s = 0 => l[i].ro
  BY <1>1, <1>2 DEF Segs
<1>5. ASSUME NEW i \in 1 .. NSegs, NEW j \in 1 .. NSegs, i < j
      PROVE  Whole(l)[i].e <= Whole(l)[j].s
  <2>1. Whole(l)[i].e <= l[i].e /\ l[i].e <= l[j].s /\ l[j].s <= Whole(l)[j].s
    BY <1>1, <1>2, <1>5
  <2>2. Whole(l)[i] \in Segs /\ Whole(l)[j] \in Segs /\ l[i] \in Segs /\ l[j] \in Segs
    BY <1>1, <1>2
  <2>3. QED BY <2>1, <2>2 DEF Segs
<1>6. QED BY <1>1, <1>2, <1>3, <1>4, <1>5

LEMMA InitStarts == PgInitInit => InitInv
<1> SUFFICES ASSUME PgInitInit
             PROVE  InitInv
  OBVIOUS
<1>1. PICK l \in Layouts :
        ini = [at |-> "trim", given |-> l, segs |-> l, roots |-> <<>>, mgr |-> 0,
               blank |-> <<>>, free |-> {}, found |-> [addr |-> 0, root |-> 0]]
  BY DEF PgInitInit
<1>2. l \in [1 .. NSegs -> Segs]
  BY PgInitAssumption DEF Layouts, Segs
<1>3. InitTypes
  BY <1>1, <1>2 DEF InitTypes
<1>4. FoundInOwnRoot
  BY <1>1 DEF FoundInOwnRoot
<1>5. QED BY <1>1, <1>3, <1>4 DEF InitInv

LEMMA TrimStep ==
  ASSUME InitInv, Trim
  PROVE  InitInv'
<1> DEFINE segs == Whole(ini.given)  F == {i \in 1 .. NSegs : segs[i].s < segs[i].e}  full == InAddressOrder(F)
           roots == [i \in 1 .. Len(full) |-> [s |-> segs[full[i]].s, e |-> segs[full[i]].e, dsp |-> 0]]
<1>1. ini.at = "trim" /\ ini.segs = ini.given /\ InitTypes /\ ini.found.addr = 0
  BY DEF Trim, InitInv
<1>2. ini.given \in Layouts
  BY <1>1 DEF InitTypes
<1>3. ini' = [ini EXCEPT !.at = "mgr", !.segs = segs, !.roots = roots]
  <2> DEFINE T == [i \in 1 .. NSegs |-> [ini.segs[i] EXCEPT !.s = Up(@), !.e = Down(@)]]
  <2>1. T = segs
    BY <1>1 DEF Whole
  <2>2. ini' = LET w == T
                   g == InAddressOrder({i \in 1 .. NSegs : w[i].s < w[i].e})
               IN  [ini EXCEPT !.at = "mgr", !.segs = w,
                               !.roots = [i \in 1 .. Len(g) |->
                                          [s |-> w[g[i]].s, e |-> w[g[i]].e, dsp |-> 0]]]
    BY DEF Trim
  <2> HIDE DEF T
  <2>3. QED BY <2>1, <2>2
<1>4. /\ segs \in [1 .. NSegs -> Segs]
      /\ \A i, j \in 1 .. NSegs : i < j => segs[i].e <= segs[j].s
  BY <1>2, WholeIs
<1> HIDE DEF segs
<1>5. full \in Seq(F) /\ IsInjective(full) /\ Range(full) = F
  <2>1. F \in SUBSET (1 .. NSegs)
    OBVIOUS
  <2> HIDE DEF F
  <2>2. IsFiniteSet(1 .. NSegs)
    <3>1. 1 \in Int /\ NSegs \in Int
      BY SizesAre
    <3>2. QED BY <3>1, FS_Interval
  <2>3. IsFiniteSet(F)
    BY <2>1, <2>2, FS_Subset
  <2>4. F \in SUBSET Nat
    BY <2>1
  <2>5. QED BY <2>3, <2>4, InAddressOrderIs
<1> HIDE DEF full
<1>6. PICK n \in Nat : Len(full) = n /\ DOMAIN full = 1 .. n /\ full \in [1 .. n -> F]
  <2> HIDE DEF F
  <2>1. QED BY <1>5
<1>7. \A i \in 1 .. n : /\ full[i] \in 1 .. NSegs /\ segs[full[i]].s \in Nat /\ segs[full[i]].e \in Nat
                        /\ segs[full[i]].s < segs[full[i]].e
  BY <1>4, <1>6 DEF Segs
<1>8. /\ roots \in [1 .. n -> Roots] /\ DOMAIN roots = 1 .. n
      /\ \A i \in 1 .. n : roots[i].s = segs[full[i]].s /\ roots[i].e = segs[full[i]].e /\ roots[i].dsp = 0
  <2>1. roots = [i \in 1 .. n |-> [s |-> segs[full[i]].s, e |-> segs[full[i]].e, dsp |-> 0]]
    BY <1>6
  <2> HIDE DEF roots
  <2>2. QED BY <1>7, <2>1 DEF Roots
<1> HIDE DEF roots
<1>9. roots \in Seq(Roots)
  BY <1>8
<1>10. /\ ini'.at = "mgr" /\ ini'.segs = segs /\ ini'.roots = roots /\ ini'.given = ini.given
       /\ ini'.found = ini.found /\ InitTypes'
  BY <1>1, <1>3, <1>4, <1>9 DEF InitTypes
<1>11. RootsAreSegments'
  <2>1. ini'.segs = Whole(ini'.given)
    BY <1>10 DEF segs
  <2>2. ASSUME NEW k \in 1 .. n
        PROVE  roots[k].s < roots[k].e /\ \E i \in 1 .. NSegs : segs[i].s = roots[k].s /\ segs[i].e = roots[k].e
    BY <1>7, <1>8
  <2>3. ASSUME NEW i \in 1 .. NSegs, segs[i].s < segs[i].e
        PROVE  \E k \in 1 .. n : segs[i].s = roots[k].s /\ segs[i].e = roots[k].e
    <3>1. i \in Range(full)
      BY <1>5, <2>3
    <3>2. PICK k \in 1 .. n : full[k] = i
      BY <1>6, <3>1 DEF Range
    <3>3. QED BY <1>8, <3>2
  <2>4. ASSUME NEW j \in 1 .. n, NEW k \in 1 .. n, j # k
        PROVE  roots[j].e <= roots[k].s \/ roots[k].e <= roots[j].s
    <3>1. full[j] # full[k]
      BY <1>5, <1>6, <2>4 DEF IsInjective
    <3>2. full[j] < full[k] \/ full[k] < full[j]
      BY <1>7, <3>1
    <3>3. segs[full[j]].e <= segs[full[k]].s \/ segs[full[k]].e <= segs[full[j]].s
      BY <1>4, <1>7, <3>2
    <3>4. QED BY <1>8, <3>3
  <2>5. \A i, k : SegOfRoot(i, k)' <=> segs[i].s = roots[k].s /\ segs[i].e = roots[k].e
    BY <1>10 DEF SegOfRoot
  <2>6. DOMAIN ini'.roots = 1 .. n /\ ini'.roots = roots /\ ini'.segs = segs
    BY <1>8, <1>10
  <2> HIDE DEF SegOfRoot
  <2>7. \A k \in 1 .. n : roots[k].s < roots[k].e /\ \E i \in 1 .. NSegs : SegOfRoot(i, k)'
    BY <2>2, <2>5
  <2>8. \A i \in 1 .. NSegs : segs[i].s < segs[i].e => \E k \in 1 .. n : SegOfRoot(i, k)'
    BY <2>3, <2>5
  <2>9. QED BY <2>1, <2>4, <2>6, <2>7, <2>8 DEF RootsAreSegments
<1>12. FoundInOwnRoot'
  BY <1>1, <1>10 DEF FoundInOwnRoot
<1>13. QED BY <1>1, <1>8, <1>10, <1>11, <1>12 DEF InitInv

LEMMA RootsAre ==
  ASSUME InitTypes
  PROVE  /\ Len(ini.roots) \in Nat /\ DOMAIN ini.roots = 1 .. Len(ini.roots)
         /\ \A k \in DOMAIN ini.roots : /\ ini.roots[k] \in Roots /\ ini.roots[k].dsp \in Nat
                                        /\ ini.roots[k].s \in Nat /\ ini.roots[k].e \in Nat
         /\ \A i \in 1 .. NSegs : ini.segs[i] \in Segs /\ ini.segs[i].s \in Nat /\ ini.segs[i].e \in Nat
         /\ MgrSize \in Nat \ {0}
         /\ ini.given \in Layouts /\ ini.mgr \in Nat
<1>1. /\ ini.roots \in Seq(Roots) /\ ini.segs \in [1 .. NSegs -> Segs] /\ ini.mgr \in Nat
      /\ ini.given \in Layouts
  BY DEF InitTypes
<1>2. /\ Len(ini.roots) \in Nat /\ DOMAIN ini.roots = 1 .. Len(ini.roots)
      /\ \A k \in DOMAIN ini.roots : ini.roots[k] \in Roots
  BY <1>1
<1>3. MgrSize \in Nat \ {0}
  <2> DEFINE n == Len(ini.roots)
  <2>1. n \in Nat
    BY <1>2
  <2>2. MgrSize = MgrCells + RootCells * n
    BY DEF MgrSize
  <2> HIDE DEF n
  <2>3. RootCells * n \in Nat
    BY <2>1, SizesAre
  <2>4. QED BY <2>2, <2>3, SizesAre
<1>4. QED BY <1>1, <1>2, <1>3 DEF Roots, Segs

\* Only its own segment holds a root.
LEMMA OwnSegment ==
  ASSUME InitTypes, RootsAreSegments, NEW k \in DOMAIN ini.roots, NEW i \in 1 .. NSegs, SegOfRoot(i, k)
  PROVE  (CHOOSE g \in Range(ini.segs) : g.s <= ini.roots[k].s /\ g.e >= ini.roots[k].e) = ini.segs[i]
<1>1. /\ ini.segs = Whole(ini.given) /\ ini.given \in Layouts /\ ini.segs \in [1 .. NSegs -> Segs]
      /\ ini.roots[k].s < ini.roots[k].e
  BY RootsAre DEF RootsAreSegments, InitTypes
<1>2. \A a, b \in 1 .. NSegs : a < b => ini.segs[a].e <= ini.segs[b].s
  BY <1>1, WholeIs
<1>3. /\ ini.segs[i].s = ini.roots[k].s /\ ini.segs[i].e = ini.roots[k].e
      /\ ini.roots[k].s \in Nat /\ ini.roots[k].e \in Nat
  BY RootsAre DEF SegOfRoot
<1>4. ini.segs[i] \in Range(ini.segs)
  BY <1>1 DEF Range
<1>5. ASSUME NEW g \in Range(ini.segs), g.s <= ini.roots[k].s, g.e >= ini.roots[k].e
      PROVE  g = ini.segs[i]
  <2>1. PICK j \in 1 .. NSegs : g = ini.segs[j]
    BY <1>1 DEF Range
  <2>2. g.s \in Nat /\ g.e \in Nat
    BY <1>1, <2>1 DEF Segs
  <2>3. ~(i < j)
    <3>1. i < j => ini.segs[i].e <= ini.segs[j].s
      BY <1>2
    <3>2. QED BY <1>1, <1>3, <1>5, <2>1, <2>2, <3>1
  <2>4. ~(j < i)
    <3>1. j < i => ini.segs[j].e <= ini.segs[i].s
      BY <1>2
    <3>2. QED BY <1>1, <1>3, <1>5, <2>1, <2>2, <3>1
  <2>5. i = j
    BY <2>3, <2>4, SizesAre
  <2>6. QED BY <2>1, <2>5
<1>6. ini.segs[i].s <= ini.roots[k].s /\ ini.segs[i].e >= ini.roots[k].e
  BY <1>3
<1>7. QED BY <1>4, <1>5, <1>6

LEMMA PlaceMgrStep ==
  ASSUME InitInv, PlaceMgr
  PROVE  InitInv'
<1> DEFINE n == Len(ini.roots)
           fits == {i \in 1 .. NSegs : ~ini.segs[i].ro /\ ini.segs[i].s + MgrSize <= ini.segs[i].e}
           size == [i \in fits |-> ini.segs[i].e - ini.segs[i].s]
           at == Smallest(size)
           mgr == ini.segs[at].s
           segOf(r) == CHOOSE g \in Range(ini.segs) : g.s <= r.s /\ g.e >= r.e
           blank == [i \in 1 .. n |->
                      LET r == ini.roots[i]
                      IN  [s |-> IF mgr \in Cut(r.s, r.e) THEN mgr + MgrSize ELSE r.s,
                           e |-> r.e, ro |-> segOf(r).ro]]
<1>1. /\ ini.at = "mgr" /\ InitTypes /\ RootsAreSegments /\ ini.found.addr = 0
      /\ \A k \in DOMAIN ini.roots : ini.roots[k].dsp = 0
  BY DEF PlaceMgr, InitInv
<1>2. ini' = IF fits = {} THEN [ini EXCEPT !.at = "NULL"]
             ELSE [ini EXCEPT !.at = "dsps", !.mgr = mgr, !.blank = blank]
  BY DEF PlaceMgr
<1>3. CASE fits = {}
  <2>1. ini' = [ini EXCEPT !.at = "NULL"]
    BY <1>2, <1>3
  <2>2. InitTypes'
    BY <1>1, <2>1 DEF InitTypes
  <2>3. /\ ini'.segs = ini.segs /\ ini'.roots = ini.roots /\ ini'.given = ini.given
        /\ ini'.found = ini.found /\ ini'.at = "NULL"
    BY <1>1, <2>1 DEF InitTypes
  <2>4. RootsAreSegments'
    BY <1>1, <2>3 DEF RootsAreSegments, SegOfRoot
  <2>5. FoundInOwnRoot'
    BY <2>3 DEF FoundInOwnRoot
  <2>6. QED BY <1>1, <2>2, <2>3, <2>4, <2>5 DEF InitInv
<1>4. CASE fits # {}
  <2>1. /\ n \in Nat /\ DOMAIN ini.roots = 1 .. n /\ MgrSize \in Nat \ {0}
        /\ \A k \in 1 .. n : /\ ini.roots[k] \in Roots
                             /\ ini.roots[k].s \in Nat /\ ini.roots[k].e \in Nat
        /\ \A i \in 1 .. NSegs : ini.segs[i] \in Segs /\ ini.segs[i].s \in Nat /\ ini.segs[i].e \in Nat
        /\ ini.given \in Layouts
    BY <1>1, RootsAre
  <2>2. at \in 1 .. NSegs /\ ~ini.segs[at].ro /\ mgr + MgrSize <= ini.segs[at].e /\ mgr \in Nat
    <3>1. fits \in SUBSET Nat /\ DOMAIN size = fits
      OBVIOUS
    <3>2. \A i \in fits : size[i] \in Int /\ 0 <= size[i]
      <4> TAKE i \in fits
      <4>1. /\ ini.segs[i].s \in Nat /\ ini.segs[i].e \in Nat /\ size[i] = ini.segs[i].e - ini.segs[i].s
            /\ ini.segs[i].s + MgrSize <= ini.segs[i].e
        BY <2>1
      <4> HIDE DEF size
      <4>2. QED BY <2>1, <4>1
    <3>3. at \in fits
      <4> HIDE DEF fits, size
      <4>1. QED BY <1>4, <3>1, <3>2, SmallestIs
    <3> HIDE DEF at
    <3>4. QED BY <2>1, <3>3
  <2> HIDE DEF at, size
  <2>3. PICK k0 \in 1 .. n : SegOfRoot(at, k0)
    <3>1. ini.segs[at].s < ini.segs[at].e
      BY <2>1, <2>2
    <3>2. QED BY <1>1, <2>1, <2>2, <3>1 DEF RootsAreSegments
  <2>4. ini.roots[k0].s = mgr /\ mgr + MgrSize <= ini.roots[k0].e
    BY <2>2, <2>3 DEF SegOfRoot
  <2> HIDE DEF fits, mgr
  <2>5. ASSUME NEW k \in 1 .. n
        PROVE  ini.roots[k].s < ini.roots[k].e /\ (mgr \in Cut(ini.roots[k].s, ini.roots[k].e) <=> k = k0)
    <3>1. ini.roots[k].s < ini.roots[k].e
      BY <1>1, <2>1 DEF RootsAreSegments
    <3>2. k # k0 => ini.roots[k].e <= ini.roots[k0].s \/ ini.roots[k0].e <= ini.roots[k].s
      BY <1>1, <2>1 DEF RootsAreSegments
    <3>3. mgr \in Cut(ini.roots[k].s, ini.roots[k].e) <=> ini.roots[k].s <= mgr /\ mgr < ini.roots[k].e
      BY <2>1, <2>2 DEF Cut
    <3>4. mgr < ini.roots[k0].e /\ mgr = ini.roots[k0].s
      BY <2>1, <2>2, <2>4
    <3>5. QED BY <2>1, <3>1, <3>2, <3>3, <3>4
  <2>6. ASSUME NEW k \in 1 .. n
        PROVE  \E i \in 1 .. NSegs : SegOfRoot(i, k) /\ segOf(ini.roots[k]) = ini.segs[i]
    <3>1. PICK i \in 1 .. NSegs : SegOfRoot(i, k)
      BY <1>1, <2>1 DEF RootsAreSegments
    <3>2. QED BY <1>1, <2>1, <3>1, OwnSegment
  <2>7. segOf(ini.roots[k0]) = ini.segs[at]
    BY <1>1, <2>1, <2>2, <2>3, OwnSegment
  <2> HIDE DEF segOf
  <2>8. ASSUME NEW k \in 1 .. n
        PROVE  /\ blank[k].s = IF k = k0 THEN mgr + MgrSize ELSE ini.roots[k].s
               /\ blank[k].e = ini.roots[k].e /\ blank[k].ro = segOf(ini.roots[k]).ro
               /\ ini.roots[k].s <= blank[k].s /\ blank[k].s <= ini.roots[k].e /\ blank[k] \in Segs
    <3>1. /\ blank[k].s = IF mgr \in Cut(ini.roots[k].s, ini.roots[k].e) THEN mgr + MgrSize ELSE ini.roots[k].s
          /\ blank[k].e = ini.roots[k].e /\ blank[k].ro = segOf(ini.roots[k]).ro
          /\ blank[k] = [s |-> blank[k].s, e |-> blank[k].e, ro |-> blank[k].ro]
      OBVIOUS
    <3> HIDE DEF blank
    <3>2. blank[k].s = IF k = k0 THEN mgr + MgrSize ELSE ini.roots[k].s
      BY <2>5, <3>1
    <3>3. ini.roots[k].s \in Nat /\ ini.roots[k].e \in Nat /\ ini.roots[k].s < ini.roots[k].e
      BY <2>1, <2>5
    <3>4. ini.roots[k].s <= blank[k].s /\ blank[k].s <= ini.roots[k].e /\ blank[k].s \in Nat
      <4>1. CASE k = k0
        BY <2>1, <2>2, <2>4, <3>2, <4>1
      <4>2. CASE k # k0
        BY <3>2, <3>3, <4>2
      <4>3. QED BY <4>1, <4>2
    <3>5. blank[k].ro \in BOOLEAN
      BY <2>1, <2>6, <3>1 DEF Segs
    <3>6. QED BY <2>1, <3>1, <3>2, <3>4, <3>5 DEF Segs
  <2>9. DOMAIN blank = 1 .. n /\ blank \in Seq(Segs)
    <3>1. DOMAIN blank = 1 .. n /\ blank \in [1 .. n -> Segs]
      <4>1. blank = [i \in 1 .. n |-> blank[i]]
        OBVIOUS
      <4> HIDE DEF blank
      <4>2. QED BY <2>8, <4>1
    <3> HIDE DEF blank
    <3>2. QED BY <2>1, <3>1
  <2>10. ini' = [ini EXCEPT !.at = "dsps", !.mgr = mgr, !.blank = blank]
    BY <1>2, <1>4
  <2> HIDE DEF blank
  <2>11. /\ ini'.at = "dsps" /\ ini'.mgr = mgr /\ ini'.blank = blank /\ ini'.roots = ini.roots
         /\ ini'.segs = ini.segs /\ ini'.given = ini.given /\ ini'.found = ini.found /\ InitTypes'
    BY <1>1, <2>2, <2>9, <2>10 DEF InitTypes
  <2>12. RootsAreSegments'
    BY <1>1, <2>11 DEF RootsAreSegments, SegOfRoot
  <2>13. BlankIsLeft'
    <3>1. ASSUME NEW k \in 1 .. n, ~blank[k].ro
          PROVE  ini.roots[k].s > 0 /\ \E i \in 1 .. NSegs : ~ini.segs[i].ro /\ SegOfRoot(i, k)
      <4>1. PICK i \in 1 .. NSegs : SegOfRoot(i, k) /\ segOf(ini.roots[k]) = ini.segs[i]
        BY <2>6
      <4>2. ~ini.segs[i].ro
        BY <2>8, <3>1, <4>1
      <4>3. ini.segs = Whole(ini.given)
        BY <1>1 DEF RootsAreSegments
      <4>4. ini.segs[i].s # 0
        BY <2>1, <4>2, <4>3, WholeIs
      <4>5. ini.segs[i].s = ini.roots[k].s
        BY <4>1 DEF SegOfRoot
      <4>6. QED BY <2>1, <4>1, <4>2, <4>4, <4>5
    <3>2. \A i, k : SegOfRoot(i, k)' <=> SegOfRoot(i, k)
      BY <2>11 DEF SegOfRoot
    <3>3. ini'.blank = blank /\ ini'.roots = ini.roots /\ ini'.segs = ini.segs
      BY <2>11
    <3> HIDE DEF SegOfRoot
    <3>4. QED BY <2>1, <2>8, <2>9, <3>1, <3>2, <3>3 DEF BlankIsLeft
  <2>14. AreasPlaced'
    <3>1. MgrSize' = MgrSize
      BY <2>11 DEF MgrSize
    <3>2. ~blank[k0].ro /\ ini.roots[k0].s <= mgr /\ mgr + MgrSize <= blank[k0].s
      BY <2>1, <2>2, <2>4, <2>7, <2>8
    <3>3. k0 \in DOMAIN ini'.roots /\ ini'.mgr = mgr /\ ini'.blank = blank /\ ini'.roots = ini.roots
      BY <2>1, <2>11
    <3>4. Placed(ini.mgr, MgrSize)'
      BY <3>1, <3>2, <3>3 DEF Placed
    <3>5. QED BY <1>1, <3>3, <3>4 DEF AreasPlaced
  <2>15. FoundInOwnRoot'
    BY <1>1, <2>11 DEF FoundInOwnRoot
  <2>16. QED BY <1>1, <2>11, <2>12, <2>13, <2>14, <2>15 DEF InitInv
<1>5. QED BY <1>3, <1>4

LEMMA NeedIs ==
  ASSUME InitTypes, RootsAreSegments, NEW k \in DOMAIN ini.roots
  PROVE  PagesOf(ini.roots[k]) \in Nat /\ Need(k) \in Nat
<1> DEFINE d == ini.roots[k].e - ini.roots[k].s  p == PgCells  c == DspCells
<1>1. d \in Nat /\ p \in Nat \ {0} /\ c \in Nat
  BY RootsAre, SizesAre DEF RootsAreSegments
<1>2. PagesOf(ini.roots[k]) = d \div p /\ Need(k) = (d \div p) * c
  BY DEF PagesOf, Need
<1> HIDE DEF d, p, c
<1>3. d \div p \in Nat
  BY <1>1
<1> DEFINE q == d \div p
<1> HIDE DEF q
<1>4. q \in Nat
  BY <1>3 DEF q
<1>5. q * c \in Nat
  BY <1>1, <1>4
<1>6. QED BY <1>2, <1>3, <1>5 DEF q

LEMMA NextRootIs ==
  ASSUME InitTypes, RootsAreSegments, BlankIsLeft, NEW j \in DOMAIN ini.roots, ini.roots[j].dsp = 0
  PROVE  NextRoot \in DOMAIN ini.roots /\ ini.roots[NextRoot].dsp = 0
<1> DEFINE n == Len(ini.roots)
           todo == {i \in 1 .. n : ini.roots[i].dsp = 0}
           rw == {i \in todo : ~ini.blank[i].ro}
           size == [i \in rw |-> PagesOf(ini.roots[i])]
<1>1. n \in Nat /\ DOMAIN ini.roots = 1 .. n
  BY RootsAre
<1>2. todo \in SUBSET Nat /\ todo # {} /\ rw \in SUBSET Nat /\ DOMAIN size = rw
  BY <1>1
<1>3. rw # {} => Smallest(size) \in rw
  <2>1. \A i \in rw : size[i] \in Int /\ 0 <= size[i]
    <3> TAKE i \in rw
    <3>1. i \in DOMAIN ini.roots /\ size[i] = PagesOf(ini.roots[i])
      BY <1>1
    <3> HIDE DEF size
    <3>2. QED BY <3>1, NeedIs
  <2>2. rw \in SUBSET Nat /\ DOMAIN size = rw
    BY <1>2
  <2> SUFFICES ASSUME rw # {}
               PROVE  Smallest(size) \in rw
    OBVIOUS
  <2> HIDE DEF size, rw
  <2>3. QED BY <2>1, <2>2, SmallestIs
<1>4. Min(todo) \in todo
  <2> HIDE DEF todo
  <2>1. QED BY <1>2, MinOf
<1>5. NextRoot = IF rw # {} THEN Smallest(size) ELSE Min(todo)
  BY DEF NextRoot
<1>6. rw \subseteq todo
  OBVIOUS
<1>7. NextRoot \in todo
  <2> HIDE DEF todo, rw, size
  <2>1. QED BY <1>3, <1>4, <1>5, <1>6
<1>8. QED BY <1>1, <1>7

LEMMA PlaceDspsStep ==
  ASSUME InitInv, PlaceDsps
  PROVE  InitInv'
<1> DEFINE n == Len(ini.roots)
<1>1. /\ ini.at = "dsps" /\ InitTypes /\ RootsAreSegments /\ BlankIsLeft /\ AreasPlaced /\ ini.found.addr = 0
      /\ \E i \in 1 .. n : ini.roots[i].dsp = 0
      /\ alloc_root(NextRoot)
  BY DEF PlaceDsps, InitInv
<1>2. /\ n \in Nat /\ DOMAIN ini.roots = 1 .. n /\ MgrSize \in Nat \ {0} /\ ini.mgr \in Nat
      /\ \A k \in 1 .. n : /\ ini.roots[k] \in Roots /\ ini.roots[k].dsp \in Nat
                           /\ ini.roots[k].s \in Nat /\ ini.roots[k].e \in Nat
  BY <1>1, RootsAre
<1>3. PICK i \in 1 .. n : ini.roots[i].dsp = 0 /\ alloc_root(i)
  <2>1. NextRoot \in 1 .. n /\ ini.roots[NextRoot].dsp = 0
    BY <1>1, <1>2, NextRootIs
  <2>2. QED BY <1>1, <2>1
<1> DEFINE need == Need(i)
           fits == {j \in 1 .. n : ~ini.blank[j].ro /\ (j = i \/ ini.roots[j].dsp # 0)
                                     /\ ini.blank[j].e - ini.blank[j].s >= need}
           size == [j \in fits |-> ini.blank[j].e - ini.blank[j].s]
           best == Smallest(size)
           x == ini.blank[best].s
<1>4. ini' = IF fits = {} THEN [ini EXCEPT !.at = "NULL"]
             ELSE [ini EXCEPT !.roots[i].dsp = x, !.blank[best].s = @ + need]
  BY <1>3 DEF alloc_root, Need
<1>5. \A k \in 1 .. n : Need(k) \in Nat
  BY <1>1, <1>2, NeedIs
<1>6. /\ DOMAIN ini.blank = 1 .. n /\ ini.blank \in [1 .. n -> Segs]
      /\ \A k \in 1 .. n : ini.blank[k] \in Segs /\ ini.blank[k].s \in Nat /\ ini.blank[k].e \in Nat
  <2>1. DOMAIN ini.blank = 1 .. n /\ ini.blank \in Seq(Segs)
    BY <1>1, <1>2 DEF BlankIsLeft, InitTypes
  <2>2. ini.blank \in [DOMAIN ini.blank -> Segs]
    BY <2>1
  <2>3. ini.blank \in [1 .. n -> Segs]
    <3> HIDE DEF n
    <3>1. QED BY <2>1, <2>2
  <2>4. QED BY <2>1, <2>3 DEF Segs
<1> HIDE DEF n
<1>7. CASE fits = {}
  <2>1. ini' = [ini EXCEPT !.at = "NULL"]
    BY <1>4, <1>7
  <2>2. InitTypes'
    BY <1>1, <2>1 DEF InitTypes
  <2>3. /\ ini'.segs = ini.segs /\ ini'.roots = ini.roots /\ ini'.given = ini.given
        /\ ini'.found = ini.found /\ ini'.at = "NULL"
    BY <1>1, <2>1 DEF InitTypes
  <2>4. RootsAreSegments'
    BY <1>1, <2>3 DEF RootsAreSegments, SegOfRoot
  <2>5. FoundInOwnRoot'
    BY <2>3 DEF FoundInOwnRoot
  <2>6. QED BY <1>1, <2>2, <2>3, <2>4, <2>5 DEF InitInv
<1>8. CASE fits # {}
  <2>1. best \in 1 .. n /\ ~ini.blank[best].ro /\ ini.blank[best].e - ini.blank[best].s >= need
    <3>1. fits \in SUBSET Nat /\ DOMAIN size = fits
      BY <1>2
    <3>2. \A j \in fits : size[j] \in Int /\ 0 <= size[j]
      <4> TAKE j \in fits
      <4>1. /\ ini.blank[j].s \in Nat /\ ini.blank[j].e \in Nat /\ size[j] = ini.blank[j].e - ini.blank[j].s
            /\ ini.blank[j].e - ini.blank[j].s >= need
        BY <1>6
      <4>2. need \in Nat
        BY <1>5
      <4> HIDE DEF size, need
      <4>3. QED BY <4>1, <4>2
    <3>3. best \in fits
      <4> HIDE DEF fits, size
      <4>1. QED BY <1>8, <3>1, <3>2, SmallestIs
    <3> HIDE DEF best
    <3>4. QED BY <3>3
  <2> HIDE DEF best, size
  <2>2. ini' = [ini EXCEPT !.roots[i].dsp = x, !.blank[best].s = @ + need]
    BY <1>4, <1>8
  <2>3. x \in Nat /\ need \in Nat /\ x + need <= ini.roots[best].e /\ x # 0 /\ ini.roots[best].s <= x
    <3>1. /\ ini.blank[best].e = ini.roots[best].e /\ ini.roots[best].s <= ini.blank[best].s
          /\ ini.roots[best].s > 0
      BY <1>1, <1>2, <2>1 DEF BlankIsLeft
    <3>2. /\ ini.blank[best].s \in Nat /\ ini.blank[best].e \in Nat /\ need \in Nat
          /\ ini.roots[best].s \in Nat /\ ini.roots[best].e \in Nat
      BY <1>2, <1>5, <1>6, <2>1
    <3> HIDE DEF need
    <3>3. QED BY <2>1, <3>1, <3>2
  <2>4. PICK y : y = x
    OBVIOUS
  <2>5. PICK l : l = need
    OBVIOUS
  <2>6. PICK best0 : best0 = best
    OBVIOUS
  <2>7. /\ y \in Nat /\ l \in Nat /\ l = Need(i) /\ y + l \in Nat /\ y # 0
        /\ best0 \in 1 .. n /\ ~ini.blank[best0].ro /\ y = ini.blank[best0].s
        /\ y + l <= ini.roots[best0].e /\ ini.roots[best0].s <= y
    <3>1. y \in Nat /\ l \in Nat /\ y # 0 /\ y + l <= ini.roots[best0].e /\ ini.roots[best0].s <= y
      BY <2>3, <2>4, <2>5, <2>6
    <3>2. l = Need(i) /\ best0 \in 1 .. n /\ ~ini.blank[best0].ro /\ y = ini.blank[best0].s
      BY <2>1, <2>4, <2>5, <2>6
    <3> HIDE DEF x, need
    <3>3. QED BY <3>1, <3>2
  <2> DEFINE roots == [ini.roots EXCEPT ![i].dsp = y]  blank == [ini.blank EXCEPT ![best0].s = y + l]
  <2>8. ini' = [ini EXCEPT !.roots = roots, !.blank = blank]
    <3> HIDE DEF need
    <3>1. [ini.blank EXCEPT ![best].s = @ + need] = blank
      BY <2>4, <2>5, <2>6
    <3>2. [ini.roots EXCEPT ![i].dsp = x] = roots
      BY <2>4
    <3> HIDE DEF roots, blank, x
    <3>3. QED BY <2>2, <3>1, <3>2
  <2> HIDE DEF x, need, fits
  <2>9. /\ roots \in Seq(Roots) /\ DOMAIN roots = 1 .. n /\ Len(roots) = n
        /\ \A k \in 1 .. n : /\ roots[k].s = ini.roots[k].s /\ roots[k].e = ini.roots[k].e
                             /\ roots[k].dsp = IF k = i THEN y ELSE ini.roots[k].dsp
    <3>1. ini.roots \in [1 .. n -> Roots]
      <4>1. ini.roots \in [DOMAIN ini.roots -> Roots]
        BY <1>1 DEF InitTypes
      <4>2. QED BY <1>2, <4>1
    <3>2. roots \in [1 .. n -> Roots]
      BY <2>7, <3>1 DEF Roots
    <3>3. \A k \in 1 .. n : /\ roots[k].s = ini.roots[k].s /\ roots[k].e = ini.roots[k].e
                            /\ roots[k].dsp = IF k = i THEN y ELSE ini.roots[k].dsp
      BY <3>1 DEF Roots
    <3> HIDE DEF roots
    <3>4. roots \in Seq(Roots) /\ DOMAIN roots = 1 .. n /\ Len(roots) = n
      BY <1>2, <3>2
    <3>5. QED BY <3>3, <3>4
  <2>10. /\ blank \in Seq(Segs) /\ DOMAIN blank = 1 .. n
         /\ \A k \in 1 .. n : /\ blank[k].ro = ini.blank[k].ro /\ blank[k].e = ini.blank[k].e
                              /\ blank[k].s = IF k = best0 THEN y + l ELSE ini.blank[k].s
    <3> DEFINE z == y + l
    <3> HIDE DEF z
    <3>1. blank = [ini.blank EXCEPT ![best0].s = z] /\ z \in Nat /\ ini.blank \in [1 .. n -> Segs]
      BY <1>6, <2>7 DEF z
    <3> HIDE DEF blank
    <3>2. blank \in [1 .. n -> Segs]
      BY <3>1 DEF Segs
    <3>3. \A k \in 1 .. n : /\ blank[k].ro = ini.blank[k].ro /\ blank[k].e = ini.blank[k].e
                            /\ blank[k].s = IF k = best0 THEN z ELSE ini.blank[k].s
      BY <3>1 DEF Segs
    <3>4. blank \in Seq(Segs) /\ DOMAIN blank = 1 .. n
      BY <1>2, <3>2
    <3>5. QED BY <3>3, <3>4 DEF z
  <2> HIDE DEF roots, blank
  <2>11. /\ ini'.at = "dsps" /\ ini'.roots = roots /\ ini'.blank = blank /\ ini'.segs = ini.segs
         /\ ini'.given = ini.given /\ ini'.mgr = ini.mgr /\ ini'.found = ini.found /\ InitTypes'
    BY <1>1, <2>8, <2>9, <2>10 DEF InitTypes
  <2>12. MgrSize' = MgrSize /\ \A k \in 1 .. n : Need(k)' = Need(k)
    <3>1. MgrSize' = MgrSize
      BY <2>9, <2>11 DEF MgrSize, n
    <3>2. \A k \in 1 .. n : Need(k)' = Need(k)
      BY <2>9, <2>11 DEF Need, PagesOf
    <3>3. QED BY <3>1, <3>2
  <2>13. \A a, k : k \in 1 .. n => (SegOfRoot(a, k)' <=> SegOfRoot(a, k))
    BY <2>9, <2>11 DEF SegOfRoot
  <2>14. RootsAreSegments'
    <3> HIDE DEF SegOfRoot
    <3>1. ini'.segs = Whole(ini'.given) /\ DOMAIN ini'.roots = 1 .. n
      BY <1>1, <2>9, <2>11 DEF RootsAreSegments
    <3>2. \A k \in 1 .. n : ini'.roots[k].s < ini'.roots[k].e /\ \E a \in 1 .. NSegs : SegOfRoot(a, k)'
      BY <1>1, <1>2, <2>9, <2>11, <2>13 DEF RootsAreSegments
    <3>3. \A a \in 1 .. NSegs : ini'.segs[a].s < ini'.segs[a].e => \E k \in 1 .. n : SegOfRoot(a, k)'
      BY <1>1, <1>2, <2>11, <2>13 DEF RootsAreSegments
    <3>4. \A j, k \in 1 .. n : j # k => ini'.roots[j].e <= ini'.roots[k].s \/ ini'.roots[k].e <= ini'.roots[j].s
      <4>1. \A j, k \in 1 .. n : j # k => ini.roots[j].e <= ini.roots[k].s \/ ini.roots[k].e <= ini.roots[j].s
        BY <1>1, <1>2 DEF RootsAreSegments
      <4>2. \A k \in 1 .. n : ini'.roots[k].s = ini.roots[k].s /\ ini'.roots[k].e = ini.roots[k].e
        BY <2>9, <2>11
      <4>3. QED BY <4>1, <4>2
    <3>5. QED BY <3>1, <3>2, <3>3, <3>4 DEF RootsAreSegments
  <2>15. \A k \in 1 .. n : /\ blank[k].s \in Nat /\ ini.blank[k].s <= blank[k].s
                           /\ blank[k].s <= ini.roots[k].e /\ ini.roots[k].s <= blank[k].s
    <3> TAKE k \in 1 .. n
    <3>1. ini.roots[k].s <= ini.blank[k].s /\ ini.blank[k].s <= ini.roots[k].e
      BY <1>1, <1>2 DEF BlankIsLeft
    <3>2. CASE k = best0
      <4>1. blank[k].s = y + l /\ ini.blank[k].s = y /\ ini.roots[k].s <= y /\ y + l <= ini.roots[k].e
        BY <2>7, <2>10, <3>2
      <4>2. ini.roots[k].s \in Nat /\ ini.roots[k].e \in Nat
        BY <1>2
      <4>3. QED BY <2>7, <4>1, <4>2
    <3>3. CASE k # best0
      <4>1. blank[k].s = ini.blank[k].s /\ ini.blank[k].s \in Nat
        BY <1>6, <2>10, <3>3
      <4>2. QED BY <3>1, <4>1
    <3>4. QED BY <3>2, <3>3
  <2>16. BlankIsLeft'
    <3> HIDE DEF SegOfRoot
    <3>1. ASSUME NEW k \in 1 .. n, ~blank[k].ro
          PROVE  roots[k].s > 0 /\ \E a \in 1 .. NSegs : ~ini.segs[a].ro /\ SegOfRoot(a, k)'
      <4>1. ini.roots[k].s > 0 /\ \E a \in 1 .. NSegs : ~ini.segs[a].ro /\ SegOfRoot(a, k)
        BY <1>1, <1>2, <2>10, <3>1 DEF BlankIsLeft
      <4>2. QED BY <2>9, <2>13, <4>1
    <3>2. ASSUME NEW k \in 1 .. n
          PROVE  blank[k].e = roots[k].e
      <4>1. ini.blank[k].e = ini.roots[k].e
        BY <1>1, <1>2 DEF BlankIsLeft
      <4>2. QED BY <2>9, <2>10, <4>1
    <3>3. \A k \in 1 .. n : roots[k].s <= blank[k].s /\ blank[k].s <= roots[k].e
      BY <2>9, <2>15
    <3>4. QED BY <2>9, <2>10, <2>11, <3>1, <3>2, <3>3 DEF BlankIsLeft
  <2>17. ASSUME NEW z \in Nat, NEW m \in Nat, Placed(z, m)
         PROVE  Placed(z, m)' /\ Aside(z, m, y, l)
    <3>1. PICK b \in 1 .. n : ~ini.blank[b].ro /\ ini.roots[b].s <= z /\ z + m <= ini.blank[b].s
      BY <1>2, <2>17 DEF Placed
    <3>2. z + m <= blank[b].s /\ ~blank[b].ro /\ roots[b].s <= z
      BY <1>6, <2>9, <2>10, <2>15, <3>1
    <3>3. Placed(z, m)'
      BY <2>9, <2>11, <3>2 DEF Placed
    <3>4. CASE b = best0
      BY <2>7, <3>1, <3>3, <3>4 DEF Aside
    <3>5. CASE b # best0
      <4>1. ini.roots[b].e <= ini.roots[best0].s \/ ini.roots[best0].e <= ini.roots[b].s
        BY <1>1, <1>2, <2>7, <3>5 DEF RootsAreSegments
      <4>2. ini.blank[b].s <= ini.roots[b].e
        BY <1>1, <1>2 DEF BlankIsLeft
      <4>3. /\ ini.roots[b].e \in Nat /\ ini.roots[b].s \in Nat /\ ini.blank[b].s \in Nat
            /\ ini.roots[best0].e \in Nat /\ ini.roots[best0].s \in Nat
        BY <1>2, <1>6, <2>7
      <4>4. QED BY <2>7, <3>1, <3>3, <4>1, <4>2, <4>3 DEF Aside
    <3>6. QED BY <3>4, <3>5
  <2>18. Placed(y, l)'
    <3>1. ~blank[best0].ro /\ roots[best0].s <= y /\ y + l <= blank[best0].s
      BY <2>7, <2>9, <2>10
    <3>2. QED BY <2>7, <2>9, <2>11, <3>1 DEF Placed
  <2>19. AreasPlaced'
    <3>1. Placed(ini.mgr, MgrSize)'
      <4>1. PICK z \in Nat, m \in Nat : z = ini.mgr /\ m = MgrSize
        BY <1>2
      <4>2. Placed(z, m)'
        BY <1>1, <2>17, <4>1 DEF AreasPlaced
      <4>3. ini'.mgr = z /\ MgrSize' = m
        BY <2>11, <2>12, <4>1
      <4>4. QED BY <4>2, <4>3 DEF Placed
    <3>2. \A k \in 1 .. n : Need(k) \in Nat /\ roots[k].dsp \in Nat
      BY <1>2, <1>5, <2>7, <2>9
    <3>3. ASSUME NEW k \in 1 .. n, roots[k].dsp # 0, k # i
          PROVE  /\ Placed(roots[k].dsp, Need(k)) /\ Aside(roots[k].dsp, Need(k), y, l)
                 /\ \A b \in 1 .. n : b # k /\ b # i /\ roots[b].dsp # 0
                                        => Aside(roots[k].dsp, Need(k), roots[b].dsp, Need(b))
                 /\ Aside(ini.mgr, MgrSize, roots[k].dsp, Need(k))
      <4>1. /\ roots[k].dsp = ini.roots[k].dsp /\ Need(k) \in Nat /\ roots[k].dsp \in Nat
            /\ \A b \in 1 .. n : b # i => roots[b].dsp = ini.roots[b].dsp
        BY <2>9, <3>2, <3>3
      <4>2. /\ Placed(roots[k].dsp, Need(k)) /\ Aside(ini.mgr, MgrSize, roots[k].dsp, Need(k))
            /\ \A b \in 1 .. n : b # k /\ b # i /\ roots[b].dsp # 0
                                   => Aside(roots[k].dsp, Need(k), roots[b].dsp, Need(b))
        <5> HIDE DEF Placed, Aside, Need
        <5>1. QED BY <1>1, <1>2, <3>3, <4>1 DEF AreasPlaced
      <4>3. Aside(roots[k].dsp, Need(k), y, l)
        BY <2>17, <4>1, <4>2
      <4>4. QED BY <4>2, <4>3
    <3>4. Aside(ini.mgr, MgrSize, y, l)
      BY <1>1, <1>2, <2>17 DEF AreasPlaced
    <3>5. roots[i].dsp = y /\ l = Need(i) /\ i \in 1 .. n
      BY <2>7, <2>9
    <3>6. ASSUME NEW k \in 1 .. n, roots[k].dsp # 0
          PROVE  /\ Placed(ini.roots[k].dsp, Need(k))'
                 /\ Aside(ini.mgr, MgrSize, ini.roots[k].dsp, Need(k))'
      <4>1. PICK z, m : z = roots[k].dsp /\ m = Need(k)
        OBVIOUS
      <4>2. ini'.roots[k].dsp = z /\ Need(k)' = m /\ ini'.mgr = ini.mgr /\ MgrSize' = MgrSize
        BY <2>11, <2>12, <4>1
      <4>3. Placed(z, m)' /\ Aside(ini.mgr, MgrSize, z, m)
        <5>1. CASE k = i
          BY <2>18, <3>4, <3>5, <4>1, <5>1
        <5>2. CASE k # i
          BY <2>17, <3>2, <3>3, <3>6, <4>1, <5>2
        <5>3. QED BY <5>1, <5>2
      <4>4. Placed(ini.roots[k].dsp, Need(k))'
        BY <4>2, <4>3 DEF Placed
      <4>5. Aside(ini.mgr, MgrSize, ini.roots[k].dsp, Need(k))'
        BY <4>2, <4>3 DEF Aside
      <4>6. QED BY <4>4, <4>5
    <3>7. ASSUME NEW j \in 1 .. n, NEW k \in 1 .. n, j # k, roots[j].dsp # 0, roots[k].dsp # 0
          PROVE  Aside(ini.roots[j].dsp, Need(j), ini.roots[k].dsp, Need(k))'
      <4>1. Aside(roots[j].dsp, Need(j), roots[k].dsp, Need(k))
        <5>1. CASE j # i /\ k # i
          BY <3>3, <3>7, <5>1
        <5>2. CASE k = i
          BY <3>3, <3>5, <3>7, <5>2
        <5>3. CASE j = i
          <6>1. Aside(roots[k].dsp, Need(k), roots[j].dsp, Need(j))
            BY <3>3, <3>5, <3>7, <5>3
          <6>2. QED BY <6>1 DEF Aside
        <5>4. QED BY <5>1, <5>2, <5>3
      <4>2. /\ ini'.roots[j].dsp = roots[j].dsp /\ ini'.roots[k].dsp = roots[k].dsp
            /\ Need(j)' = Need(j) /\ Need(k)' = Need(k)
        BY <2>11, <2>12
      <4>3. QED BY <4>1, <4>2 DEF Aside
    <3>8. DOMAIN ini'.roots = 1 .. n /\ ini'.roots = roots
      BY <2>9, <2>11
    <3> HIDE DEF Placed, Aside, Need
    <3>9. QED BY <3>1, <3>6, <3>7, <3>8 DEF AreasPlaced
  <2>20. FoundInOwnRoot'
    BY <1>1, <2>11 DEF FoundInOwnRoot
  <2>21. QED BY <1>1, <2>11, <2>14, <2>16, <2>19, <2>20 DEF InitInv
<1>9. QED BY <1>7, <1>8

LEMMA FreeListsStep ==
  ASSUME InitInv, FreeLists
  PROVE  InitInv'
<1> DEFINE n == Len(ini.roots)  free == UNION {FreeRange(k) : k \in 1 .. n}
<1>1. /\ ini.at = "dsps" /\ InitTypes /\ RootsAreSegments /\ BlankIsLeft /\ AreasPlaced /\ ini.found.addr = 0
      /\ \A k \in 1 .. n : ini.roots[k].dsp # 0
      /\ ini' = [ini EXCEPT !.at = "up", !.free = free]
  BY DEF FreeLists, InitInv
<1>2. n \in Nat /\ DOMAIN ini.roots = 1 .. n
  BY <1>1, RootsAre
<1>3. ASSUME NEW k \in 1 .. n
      PROVE  FreeRange(k) \subseteq Nat
  <2>1. /\ ini.roots[k].s \in Nat /\ ini.roots[k].e \in Nat /\ ini.blank[k].s \in Nat
    <3>1. ini.blank \in [DOMAIN ini.blank -> Segs] /\ k \in DOMAIN ini.blank
      BY <1>1, <1>2 DEF InitTypes, BlankIsLeft
    <3>2. QED BY <1>1, <1>2, <3>1, RootsAre DEF Segs
  <2>2. Up(ini.blank[k].s) \in Nat
    BY <2>1, Rounded
  <2>3. QED BY <2>1, <2>2 DEF FreeRange, Cut
<1>4. free \in SUBSET Nat
  <2> HIDE DEF n
  <2>1. QED BY <1>3
<1> HIDE DEF free
<1>5. /\ ini'.at = "up" /\ ini'.free = free /\ ini'.roots = ini.roots /\ ini'.blank = ini.blank
      /\ ini'.segs = ini.segs /\ ini'.given = ini.given /\ ini'.mgr = ini.mgr /\ ini'.found = ini.found
      /\ InitTypes'
  BY <1>1, <1>4 DEF InitTypes
<1>6. RootsAreSegments'
  <2>1. \A i, k : SegOfRoot(i, k)' <=> SegOfRoot(i, k)
    BY <1>5 DEF SegOfRoot
  <2>2. QED BY <1>1, <1>5, <2>1 DEF RootsAreSegments
<1>7. BlankIsLeft'
  BY <1>1, <1>5 DEF BlankIsLeft, SegOfRoot
<1>8. AreasPlaced'
  BY <1>1, <1>5 DEF AreasPlaced, Placed, Aside, Need, MgrSize, PagesOf
<1>9. AllPlaced'
  <2>1. free = UNION {FreeRange(k) : k \in 1 .. Len(ini.roots)}
    BY DEF free
  <2>2. \A k : FreeRange(k)' = FreeRange(k)
    BY <1>5 DEF FreeRange
  <2>3. QED BY <1>1, <1>2, <1>5, <2>1, <2>2 DEF AllPlaced
<1>10. FoundInOwnRoot'
  BY <1>1, <1>5 DEF FoundInOwnRoot
<1>11. QED BY <1>5, <1>6, <1>7, <1>8, <1>9, <1>10 DEF InitInv

\* A page on the free lists is in a root, after what is used of it.
LEMMA FreePageIs ==
  ASSUME InitInv, ini.at = "up", NEW a \in ini.free
  PROVE  \E k \in DOMAIN ini.roots :
           /\ ini.roots[k].s <= a /\ a < ini.roots[k].e /\ a \in Nat
           /\ ~RootUsedUp => ini.blank[k].s <= a
<1>1. /\ InitTypes /\ RootsAreSegments /\ BlankIsLeft
      /\ ini.free = UNION {FreeRange(k) : k \in 1 .. Len(ini.roots)}
  BY DEF InitInv, AllPlaced
<1>2. PICK k \in 1 .. Len(ini.roots) : a \in FreeRange(k)
  BY <1>1
<1>3. /\ ini.roots[k].s \in Nat /\ ini.roots[k].e \in Nat /\ k \in DOMAIN ini.roots
  BY <1>1, RootsAre
<1>4. ini.blank[k].s \in Nat /\ ini.roots[k].s <= ini.blank[k].s
  <2>1. ini.blank \in [DOMAIN ini.blank -> Segs] /\ k \in DOMAIN ini.blank
    BY <1>1, <1>3 DEF InitTypes, BlankIsLeft
  <2>2. QED BY <1>1, <1>3, <2>1 DEF Segs, BlankIsLeft
<1>5. Up(ini.blank[k].s) \in Nat /\ ini.blank[k].s <= Up(ini.blank[k].s)
  BY <1>4, Rounded
<1>6. CASE Up(ini.blank[k].s) = ini.roots[k].e
  <2>1. a \in Cut(ini.roots[k].s, ini.roots[k].e)
    BY <1>2, <1>6 DEF FreeRange
  <2>2. RootUsedUp
    BY <1>6 DEF RootUsedUp
  <2>3. QED BY <1>3, <2>1, <2>2 DEF Cut
<1>7. CASE Up(ini.blank[k].s) # ini.roots[k].e
  <2>1. a \in Cut(Up(ini.blank[k].s), ini.roots[k].e)
    BY <1>2, <1>7 DEF FreeRange
  <2>2. QED BY <1>3, <1>4, <1>5, <2>1 DEF Cut
<1>8. QED BY <1>6, <1>7

\* What n steps make of a state.
Orbits(n, S, s0, F) == {h \in [0 .. n -> S] : h[0] = s0 /\ \A k \in 1 .. n : h[k] = F[h[k - 1]]}

LEMMA Iterated ==
  ASSUME NEW n \in Nat, NEW S, NEW s0 \in S, NEW F \in [S -> S]
  PROVE  Orbits(n, S, s0, F) # {}
<1> DEFINE Is(m) == \E h \in [0 .. m -> S] : h[0] = s0 /\ \A k \in 1 .. m : h[k] = F[h[k - 1]]
           T == {m \in Nat : ~Is(m)}
<1>1. ASSUME NEW m \in T
      PROVE  m - 1 \in T
  <2>1. m \in Nat /\ ~Is(m)
    OBVIOUS
  <2>2. m # 0
    <3>1. ASSUME m = 0 PROVE FALSE
      <4> DEFINE h == [k \in 0 .. m |-> s0]
      <4>1. h \in [0 .. m -> S] /\ h[0] = s0 /\ \A k \in 1 .. m : h[k] = F[h[k - 1]]
        BY <3>1
      <4> HIDE DEF h
      <4>2. QED BY <2>1, <4>1
    <3>2. QED BY <3>1
  <2>3. m - 1 \in Nat
    BY <2>1, <2>2
  <2>4. ASSUME NEW g \in [0 .. m - 1 -> S], g[0] = s0, \A k \in 1 .. m - 1 : g[k] = F[g[k - 1]]
        PROVE  FALSE
    <3> DEFINE h == [k \in 0 .. m |-> IF k = m THEN F[g[m - 1]] ELSE g[k]]
    <3>1. g[m - 1] \in S
      BY <2>3, <2>4
    <3>2. /\ h \in [0 .. m -> S] /\ h[m] = F[g[m - 1]]
          /\ \A k \in 0 .. m - 1 : h[k] = g[k]
      BY <2>3, <2>4, <3>1
    <3> HIDE DEF h
    <3>3. h[0] = s0
      BY <2>3, <2>4, <3>2
    <3>4. ASSUME NEW k \in 1 .. m
          PROVE  h[k] = F[h[k - 1]]
      <4>1. CASE k = m
        BY <2>3, <3>2, <4>1
      <4>2. CASE k # m
        <5>1. k \in 1 .. m - 1 /\ k \in 0 .. m - 1 /\ k - 1 \in 0 .. m - 1
          BY <2>3, <4>2
        <5>2. g[k] = F[g[k - 1]]
          BY <2>4, <5>1
        <5>3. QED BY <3>2, <5>1, <5>2
      <4>3. QED BY <4>1, <4>2
    <3>5. QED BY <2>1, <3>2, <3>3, <3>4
  <2> HIDE DEF T
  <2>5. Is(m - 1) => FALSE
    BY <2>4
  <2> HIDE DEF Is
  <2>6. QED BY <2>3, <2>5 DEF T
<1>2. T = {}
  <2>1. T \in SUBSET Nat
    OBVIOUS
  <2> HIDE DEF T
  <2>2. QED BY <1>1, <2>1, Descent
<1>3. Is(n)
  BY <1>2
<1>4. QED BY <1>3 DEF Orbits

\* The search ends at some root, and the only root there is it finds.
LEMMA SearchIs ==
  ASSUME InitTypes, NEW a \in Nat
  PROVE  /\ Search(a) \in Nat /\ Search(a) > 0
         /\ Len(ini.roots) = 1 /\ ini.roots[1].s <= a /\ a < ini.roots[1].e => Search(a) = 1
<1> DEFINE n == Len(ini.roots)
           S == [l : Nat, r : Int, on : BOOLEAN]
           m(x) == (x.l + x.r) \div 2
           step(x) == IF ~x.on \/ x.l >= x.r THEN x
                      ELSE IF a < ini.roots[m(x) + 1].s THEN [x EXCEPT !.r = m(x) - 1]
                      ELSE IF a >= ini.roots[m(x) + 1].e THEN [x EXCEPT !.l = m(x) + 1]
                      ELSE [x EXCEPT !.on = FALSE]
           s0 == [l |-> 0, r |-> n, on |-> TRUE]
           IsRun(f) == f = [k \in 0 .. n |-> IF k = 0 THEN s0 ELSE step(f[k - 1])]
           run == CHOOSE f : IsRun(f)
<1>1. n \in Nat
  BY RootsAre
<1>2. Search(a) = run[n].l + 1
  BY DEF Search
<1>3. s0 \in S
  BY <1>1
<1>4. ASSUME NEW x \in S
      PROVE  step(x) \in S
  <2>1. x.l \in Nat /\ x.r \in Int /\ x.on \in BOOLEAN
    OBVIOUS
  <2>2. CASE ~x.on \/ x.l >= x.r
    BY <2>2
  <2>3. CASE ~(~x.on \/ x.l >= x.r)
    <3>1. m(x) \in Nat
      BY <2>1, <2>3
    <3> DEFINE c == m(x)
    <3> HIDE DEF c, m
    <3>2. c \in Nat
      BY <3>1 DEF c
    <3>3. /\ [x EXCEPT !.r = c - 1] \in S /\ [x EXCEPT !.l = c + 1] \in S /\ [x EXCEPT !.on = FALSE] \in S
      <4>1. c - 1 \in Int /\ c + 1 \in Nat
        BY <3>2
      <4> HIDE DEF step
      <4>2. [x EXCEPT !.r = c - 1] \in S
        BY <2>1, <4>1
      <4>3. [x EXCEPT !.l = c + 1] \in S
        BY <2>1, <4>1
      <4>4. [x EXCEPT !.on = FALSE] \in S
        BY <2>1
      <4>5. QED BY <4>2, <4>3, <4>4
    <3> HIDE DEF S
    <3>4. QED BY <2>3, <3>3 DEF c
  <2>4. QED BY <2>2, <2>3
<1> HIDE DEF step, S, s0
<1>5. \E f : IsRun(f)
  <2> DEFINE F == [x \in S |-> step(x)]
  <2>1. F \in [S -> S]
    BY <1>4
  <2>2. \A x \in S : F[x] = step(x)
    OBVIOUS
  <2> HIDE DEF F, n, IsRun, run
  <2>3. PICK h \in [0 .. n -> S] : h[0] = s0 /\ \A k \in 1 .. n : h[k] = F[h[k - 1]]
    <3>1. Orbits(n, S, s0, F) # {}
      BY <1>1, <1>3, <2>1, Iterated
    <3>2. QED BY <3>1 DEF Orbits
  <2>4. ASSUME NEW k \in 0 .. n
        PROVE  h[k] = IF k = 0 THEN s0 ELSE step(h[k - 1])
    <3>1. CASE k = 0
      BY <2>3, <3>1
    <3>2. CASE k # 0
      <4>1. k \in 1 .. n /\ k - 1 \in 0 .. n
        BY <1>1, <3>2
      <4>2. QED BY <2>2, <2>3, <3>2, <4>1
    <3>3. QED BY <3>1, <3>2
  <2>5. IsRun(h)
    <3>1. h = [k \in 0 .. n |-> h[k]]
      BY <2>3
    <3>2. h = [k \in 0 .. n |-> IF k = 0 THEN s0 ELSE step(h[k - 1])]
      BY <2>4, <3>1
    <3>3. QED BY <3>2 DEF IsRun, n
  <2>6. QED BY <2>5
<1>6. IsRun(run)
  <2> HIDE DEF IsRun
  <2>1. QED BY <1>5
<1> HIDE DEF run
<1>7. /\ run[0] = s0
      /\ \A k \in 0 .. n : k > 0 => run[k] = step(run[k - 1])
  <2> HIDE DEF n
  <2>1. \A k \in 0 .. n : run[k] = IF k = 0 THEN s0 ELSE step(run[k - 1])
    BY <1>6
  <2> HIDE DEF IsRun
  <2>2. QED BY <1>1, <2>1
<1> HIDE DEF n, IsRun
<1>8. \A k \in 0 .. n : run[k] \in S
  <2> DEFINE T == {k \in 0 .. n : run[k] \notin S}
  <2>1. ASSUME NEW k \in T
        PROVE  k - 1 \in T
    <3>1. k \in 0 .. n /\ run[k] \notin S
      OBVIOUS
    <3>2. k # 0
      BY <1>3, <1>7, <3>1
    <3>3. k - 1 \in 0 .. n /\ run[k] = step(run[k - 1])
      BY <1>1, <1>7, <3>1, <3>2
    <3>4. run[k - 1] \notin S
      BY <1>4, <3>1, <3>3
    <3>5. QED BY <3>3, <3>4
  <2>2. T = {}
    <3>1. T \in SUBSET Nat
      BY <1>1
    <3> HIDE DEF T
    <3>2. QED BY <2>1, <3>1, Descent
  <2>3. QED BY <2>2
<1>9. run[n].l \in Nat
  <2>1. run[n] \in S
    BY <1>1, <1>8
  <2>2. QED BY <2>1 DEF S
<1>10. ASSUME n = 1, ini.roots[1].s <= a, a < ini.roots[1].e
       PROVE  run[n].l = 0
  <2>1. run[1] = step(s0)
    <3>1. 1 \in 0 .. n /\ 1 > 0 /\ 1 - 1 = 0
      BY <1>10
    <3>2. QED BY <1>7, <3>1
  <2>2. s0.on /\ s0.l = 0 /\ s0.r = 1 /\ m(s0) = 0
    BY <1>10 DEF s0
  <2>3. ini.roots[1].s \in Nat /\ ini.roots[1].e \in Nat
    <3>1. 1 \in DOMAIN ini.roots
      BY <1>10, RootsAre DEF n
    <3>2. QED BY <3>1, RootsAre
  <2>4. step(s0) = [s0 EXCEPT !.on = FALSE]
    <3>1. m(s0) + 1 = 1 /\ ~(s0.l >= s0.r)
      BY <2>2
    <3>2. ~(a < ini.roots[1].s) /\ ~(a >= ini.roots[1].e)
      BY <1>10, <2>3
    <3> HIDE DEF m
    <3>3. QED BY <2>2, <3>1, <3>2 DEF step
  <2>5. step(s0).l = 0
    BY <2>4 DEF s0
  <2>6. QED BY <1>10, <2>1, <2>5
<1>11. Len(ini.roots) = n
  BY DEF n
<1>12. QED BY <1>2, <1>9, <1>10, <1>11

LEMMA FindRootStep ==
  ASSUME InitInv, FindRoot
  PROVE  InitInv'
<1>1. /\ ini.at = "up" /\ InitTypes /\ RootsAreSegments /\ BlankIsLeft /\ AreasPlaced /\ AllPlaced
  BY DEF FindRoot, InitInv
<1>2. PICK a \in ini.free :
        /\ a > 0
        /\ ini' = [ini EXCEPT !.found = [addr |-> a, root |-> IF InRoot(a, Search(a)) THEN Search(a) ELSE 0]]
  BY DEF FindRoot
<1> DEFINE root == IF InRoot(a, Search(a)) THEN Search(a) ELSE 0
<1>3. a \in Nat /\ Search(a) \in Nat /\ Search(a) > 0 /\ root \in Nat
  <2>1. a \in Nat
    BY <1>1 DEF InitTypes
  <2>2. QED BY <1>1, <2>1, SearchIs
<1> HIDE DEF root
<1>4. /\ ini' = [ini EXCEPT !.found = [addr |-> a, root |-> root]]
  BY <1>2 DEF root
<1>5. /\ ini'.at = "up" /\ ini'.free = ini.free /\ ini'.roots = ini.roots /\ ini'.blank = ini.blank
      /\ ini'.segs = ini.segs /\ ini'.given = ini.given /\ ini'.mgr = ini.mgr
      /\ ini'.found = [addr |-> a, root |-> root] /\ InitTypes'
  BY <1>1, <1>3, <1>4 DEF InitTypes
<1>6. RootsAreSegments'
  <2>1. \A i, k : SegOfRoot(i, k)' <=> SegOfRoot(i, k)
    BY <1>5 DEF SegOfRoot
  <2>2. QED BY <1>1, <1>5, <2>1 DEF RootsAreSegments
<1>7. BlankIsLeft'
  BY <1>1, <1>5 DEF BlankIsLeft, SegOfRoot
<1>8. AreasPlaced'
  BY <1>1, <1>5 DEF AreasPlaced, Placed, Aside, Need, MgrSize, PagesOf
<1>9. AllPlaced'
  BY <1>1, <1>5 DEF AllPlaced, FreeRange
<1>10. FoundInOwnRoot'
  <2>1. CASE InRoot(a, Search(a))
    <3>1. root = Search(a) /\ root > 0 /\ a \in Cut(ini.roots[root].s, ini.roots[root].e)
      BY <1>3, <2>1 DEF root, InRoot
    <3>2. QED BY <1>5, <3>1 DEF FoundInOwnRoot
  <2>2. CASE ~InRoot(a, Search(a))
    <3>1. PICK k \in DOMAIN ini.roots : ini.roots[k].s <= a /\ a < ini.roots[k].e
      BY <1>1, FreePageIs
    <3>2. Len(ini.roots) # 1
      <4>1. ASSUME Len(ini.roots) = 1
            PROVE  FALSE
        <5>1. k = 1 /\ ini.roots[1].s \in Nat /\ ini.roots[1].e \in Nat
          BY <1>1, <4>1, RootsAre
        <5>2. Search(a) = 1
          BY <1>1, <1>3, <3>1, <4>1, <5>1, SearchIs
        <5>3. a \in Cut(ini.roots[1].s, ini.roots[1].e)
          BY <1>3, <3>1, <5>1 DEF Cut
        <5>4. QED BY <2>2, <4>1, <5>2, <5>3 DEF InRoot
      <4>2. QED BY <4>1
    <3>3. Len(ini.roots) > 1
      <4>1. Len(ini.roots) \in Nat /\ k \in 1 .. Len(ini.roots)
        BY <1>1, <3>1, RootsAre
      <4>2. PICK c : c = Len(ini.roots)
        OBVIOUS
      <4>3. c \in Nat /\ c # 1 /\ k \in 1 .. c
        BY <3>2, <4>1, <4>2
      <4>4. c > 1
        BY <4>3
      <4>5. QED BY <4>2, <4>4
    <3>4. root = 0
      BY <2>2 DEF root
    <3>5. QED BY <1>5, <3>3, <3>4 DEF FoundInOwnRoot
  <2>3. QED BY <2>1, <2>2
<1>11. QED BY <1>5, <1>6, <1>7, <1>8, <1>9, <1>10 DEF InitInv

\* Where the areas begin and how long they are.
StartOf(i) == IF i = 1 THEN ini.mgr ELSE ini.roots[i - 1].dsp
LengthOf(i) == IF i = 1 THEN MgrSize ELSE Need(i - 1)

LEMMA AreasAre ==
  ASSUME InitInv, ini.at = "up"
  PROVE  /\ Len(Areas) = 1 + Len(ini.roots)
         /\ \A i \in 1 .. Len(Areas) :
              /\ StartOf(i) \in Nat /\ LengthOf(i) \in Nat /\ Placed(StartOf(i), LengthOf(i))
              /\ Areas[i] = Cut(StartOf(i), StartOf(i) + LengthOf(i))
              /\ \A j \in 1 .. Len(Areas) :
                   i < j => Aside(StartOf(i), LengthOf(i), StartOf(j), LengthOf(j))
<1> DEFINE n == Len(ini.roots)  first == Cut(ini.mgr, ini.mgr + MgrSize)
           rest == [i \in 1 .. n |-> Cut(ini.roots[i].dsp, ini.roots[i].dsp + PagesOf(ini.roots[i]) * DspCells)]
<1>1. /\ InitTypes /\ RootsAreSegments /\ AreasPlaced
      /\ \A k \in DOMAIN ini.roots : ini.roots[k].dsp # 0
  BY DEF InitInv, AllPlaced
<1>2. /\ n \in Nat /\ DOMAIN ini.roots = 1 .. n /\ MgrSize \in Nat \ {0} /\ ini.mgr \in Nat
      /\ \A k \in 1 .. n : ini.roots[k].dsp \in Nat /\ Need(k) \in Nat
  BY <1>1, RootsAre, NeedIs
<1>3. Areas = <<first>> \o rest
  BY DEF Areas
<1>4. \A k \in 1 .. n : rest[k] = Cut(ini.roots[k].dsp, ini.roots[k].dsp + Need(k))
  BY DEF Need
<1>5. DOMAIN rest = 1 .. n
  OBVIOUS
<1> HIDE DEF n, first, rest
<1>6. rest \in Seq({rest[k] : k \in 1 .. n}) /\ Len(rest) = n
  <2>1. rest \in [1 .. n -> {rest[k] : k \in 1 .. n}]
    <3>1. rest = [k \in DOMAIN rest |-> rest[k]]
      BY DEF rest
    <3>2. QED BY <1>5, <3>1
  <2>2. PICK V : V = {rest[k] : k \in 1 .. n}
    OBVIOUS
  <2>3. rest \in [1 .. n -> V]
    BY <2>1, <2>2
  <2>4. rest \in Seq(V) /\ Len(rest) = n
    BY <1>2, <2>3
  <2>5. QED BY <2>2, <2>4
<1>7. /\ Len(Areas) = 1 + n /\ Areas[1] = first
      /\ \A i \in 2 .. 1 + n : Areas[i] = rest[i - 1]
  <2> DEFINE V == {first} \cup {rest[k] : k \in 1 .. n}
  <2>1. <<first>> \in Seq(V) /\ rest \in Seq(V) /\ Len(<<first>>) = 1
    BY <1>6
  <2> HIDE DEF V
  <2>2. QED BY <1>2, <1>3, <1>6, <2>1
<1>8. ASSUME NEW i \in 1 .. 1 + n
      PROVE  /\ StartOf(i) \in Nat /\ LengthOf(i) \in Nat /\ Placed(StartOf(i), LengthOf(i))
             /\ Areas[i] = Cut(StartOf(i), StartOf(i) + LengthOf(i))
  <2>1. CASE i = 1
    <3>1. StartOf(i) = ini.mgr /\ LengthOf(i) = MgrSize
      BY <2>1 DEF StartOf, LengthOf
    <3>2. QED BY <1>1, <1>2, <1>7, <2>1, <3>1 DEF AreasPlaced, first
  <2>2. CASE i # 1
    <3>1. StartOf(i) = ini.roots[i - 1].dsp /\ LengthOf(i) = Need(i - 1)
      BY <2>2 DEF StartOf, LengthOf
    <3>2. i - 1 \in 1 .. n /\ i \in 2 .. 1 + n
      BY <1>2, <2>2
    <3> HIDE DEF Placed, Need
    <3>3. QED BY <1>1, <1>2, <1>4, <1>7, <3>1, <3>2 DEF AreasPlaced
  <2>3. QED BY <2>1, <2>2
<1>9. ASSUME NEW i \in 1 .. 1 + n, NEW j \in 1 .. 1 + n, i < j
      PROVE  Aside(StartOf(i), LengthOf(i), StartOf(j), LengthOf(j))
  <2>1. j \in 2 .. 1 + n /\ j - 1 \in 1 .. n /\ j # 1
    BY <1>2, <1>9
  <2>2. StartOf(j) = ini.roots[j - 1].dsp /\ LengthOf(j) = Need(j - 1)
    BY <2>1 DEF StartOf, LengthOf
  <2> HIDE DEF Aside, Need, MgrSize
  <2>3. CASE i = 1
    <3>1. StartOf(i) = ini.mgr /\ LengthOf(i) = MgrSize
      BY <2>3 DEF StartOf, LengthOf
    <3>2. Aside(ini.mgr, MgrSize, ini.roots[j - 1].dsp, Need(j - 1))
      BY <1>1, <1>2, <2>1 DEF AreasPlaced
    <3>3. QED BY <2>2, <3>1, <3>2
  <2>4. CASE i # 1
    <3>1. StartOf(i) = ini.roots[i - 1].dsp /\ LengthOf(i) = Need(i - 1)
      BY <2>4 DEF StartOf, LengthOf
    <3>2. i - 1 \in 1 .. n /\ i - 1 # j - 1
      BY <1>2, <1>9, <2>4
    <3>3. Aside(ini.roots[i - 1].dsp, Need(i - 1), ini.roots[j - 1].dsp, Need(j - 1))
      BY <1>1, <1>2, <2>1, <3>2 DEF AreasPlaced
    <3>4. QED BY <2>2, <3>1, <3>3
  <2>5. QED BY <2>3, <2>4
<1>10. Len(ini.roots) = n
  BY DEF n
<1>11. QED BY <1>2, <1>7, <1>8, <1>9, <1>10

LEMMA AreasApart ==
  ASSUME InitInv
  PROVE  MetadataApart
<1> SUFFICES ASSUME ini.at = "up"
             PROVE  MetadataApart
  BY DEF MetadataApart
<1> DEFINE n == Len(Areas)
<1>1. InitTypes /\ RootsAreSegments /\ BlankIsLeft
  BY DEF InitInv
<1>2. /\ \A k \in DOMAIN ini.roots : ini.roots[k].s \in Nat /\ ini.roots[k].e \in Nat /\ ini.blank[k].s \in Nat
      /\ \A i \in 1 .. NSegs : ini.given[i] \in Segs /\ ini.segs[i] \in Segs
      /\ ini.given \in Layouts
  <2>1. ini.blank \in [DOMAIN ini.blank -> Segs] /\ DOMAIN ini.blank = DOMAIN ini.roots
    BY <1>1 DEF InitTypes, BlankIsLeft
  <2>2. \A k \in DOMAIN ini.roots : ini.blank[k].s \in Nat
    BY <2>1 DEF Segs
  <2>3. QED BY <1>1, <2>2, RootsAre, WholeIs
<1>3. \A i \in 1 .. n : /\ StartOf(i) \in Nat /\ LengthOf(i) \in Nat
                        /\ Areas[i] = Cut(StartOf(i), StartOf(i) + LengthOf(i))
  BY AreasAre
<1> HIDE DEF n
<1>4. ASSUME NEW i \in 1 .. n, NEW j \in 1 .. n, i < j
      PROVE  Areas[i] \cap Areas[j] = {}
  <2>1. Aside(StartOf(i), LengthOf(i), StartOf(j), LengthOf(j))
    BY <1>4, AreasAre DEF n
  <2> DEFINE x == StartOf(i)  l == LengthOf(i)  y == StartOf(j)  m == LengthOf(j)
  <2>2. /\ x \in Nat /\ l \in Nat /\ y \in Nat /\ m \in Nat /\ Aside(x, l, y, m)
        /\ Areas[i] = Cut(x, x + l) /\ Areas[j] = Cut(y, y + m)
    BY <1>3, <2>1
  <2> HIDE DEF x, l, y, m
  <2>3. QED BY <2>2 DEF Aside, Cut
<1>5. ASSUME NEW i \in 1 .. n
      PROVE  /\ \E g \in Range(ini.given) : ~g.ro /\ Areas[i] \subseteq Cut(g.s, g.e)
             /\ ~RootUsedUp => Areas[i] \cap ini.free = {}
  <2> DEFINE x == StartOf(i)  l == LengthOf(i)
  <2>1. x \in Nat /\ l \in Nat /\ Placed(x, l) /\ Areas[i] = Cut(x, x + l)
    BY AreasAre DEF n
  <2> HIDE DEF x, l
  <2>2. PICK b \in DOMAIN ini.roots :
          ~ini.blank[b].ro /\ ini.roots[b].s <= x /\ x + l <= ini.blank[b].s
    BY <2>1 DEF Placed
  <2>3. ini.blank[b].s <= ini.roots[b].e
    BY <1>1 DEF BlankIsLeft
  <2>4. PICK s \in 1 .. NSegs : ~ini.segs[s].ro /\ SegOfRoot(s, b)
    BY <1>1, <2>2 DEF BlankIsLeft
  <2>5. /\ ini.given[s].s <= ini.roots[b].s /\ ini.roots[b].e <= ini.given[s].e /\ ~ini.given[s].ro
        /\ ini.given[s].s \in Nat /\ ini.given[s].e \in Nat
    <3>1. ini.segs = Whole(ini.given)
      BY <1>1 DEF RootsAreSegments
    <3>2. ini.segs[s].ro = ini.given[s].ro /\ ini.given[s].s <= ini.segs[s].s /\ ini.segs[s].e <= ini.given[s].e
      BY <1>2, <3>1, WholeIs
    <3>3. QED BY <1>2, <2>4, <3>2 DEF SegOfRoot, Segs
  <2>6. Areas[i] \subseteq Cut(ini.given[s].s, ini.given[s].e)
    <3>1. /\ ini.roots[b].s \in Nat /\ ini.roots[b].e \in Nat /\ ini.blank[b].s \in Nat
      BY <1>2
    <3>2. ini.given[s].s <= x /\ x + l <= ini.given[s].e
      BY <2>1, <2>2, <2>3, <2>5, <3>1
    <3>3. QED BY <2>1, <2>5, <3>2 DEF Cut
  <2>7. ini.given[s] \in Range(ini.given)
    <3>1. DOMAIN ini.given = 1 .. NSegs
      BY <1>2 DEF Layouts
    <3>2. QED BY <3>1 DEF Range
  <2>8. ASSUME ~RootUsedUp, NEW a \in ini.free, a \in Areas[i]
        PROVE  FALSE
    <3>1. PICK k \in DOMAIN ini.roots :
            ini.roots[k].s <= a /\ a < ini.roots[k].e /\ a \in Nat /\ ini.blank[k].s <= a
      BY <2>8, FreePageIs
    <3>2. x <= a /\ a < x + l
      BY <2>1, <2>8, <3>1 DEF Cut
    <3>3. CASE k = b
      BY <1>2, <2>1, <2>2, <3>1, <3>2, <3>3
    <3>4. CASE k # b
      <4>1. ini.roots[k].e <= ini.roots[b].s \/ ini.roots[b].e <= ini.roots[k].s
        BY <1>1, <3>4 DEF RootsAreSegments
      <4>2. /\ ini.roots[k].e \in Nat /\ ini.roots[k].s \in Nat /\ ini.roots[b].e \in Nat
            /\ ini.roots[b].s \in Nat /\ ini.blank[b].s \in Nat
        BY <1>2
      <4>3. QED BY <2>1, <2>2, <2>3, <3>1, <3>2, <4>1, <4>2
    <3>5. QED BY <3>3, <3>4
  <2>9. QED BY <2>5, <2>6, <2>7, <2>8
<1>6. QED BY <1>4, <1>5 DEF MetadataApart, n

\* What pg_init lays out lies in the segments it was given and nothing overlaps,
\* and pg_free_page finds a page in its own root or in none, for every layout of
\* segments and all sizes.
THEOREM PagesLaidOut == PgInitSpec => []RootsSound
<1>1. PgInitInit => InitInv
  BY InitStarts
<1>2. InitInv /\ [PgInitNext]_pginitvars => InitInv'
  <2> SUFFICES ASSUME InitInv, [PgInitNext]_pginitvars
               PROVE  InitInv'
    OBVIOUS
  <2>1. CASE Trim
    BY <2>1, TrimStep
  <2>2. CASE PlaceMgr
    BY <2>2, PlaceMgrStep
  <2>3. CASE PlaceDsps
    BY <2>3, PlaceDspsStep
  <2>4. CASE FreeLists
    BY <2>4, FreeListsStep
  <2>5. CASE FindRoot
    BY <2>5, FindRootStep
  <2>6. CASE UNCHANGED pginitvars
    <3>1. ini' = ini
      BY <2>6 DEF pginitvars
    <3>2. InitTypes' = InitTypes /\ RootsAreSegments' = RootsAreSegments /\ BlankIsLeft' = BlankIsLeft
      BY <3>1 DEF InitTypes, RootsAreSegments, SegOfRoot, BlankIsLeft
    <3>3. AreasPlaced' = AreasPlaced
      BY <3>1 DEF AreasPlaced, Placed, Aside, Need, MgrSize, PagesOf
    <3>4. AllPlaced' = AllPlaced
      BY <3>1 DEF AllPlaced, FreeRange
    <3>5. FoundInOwnRoot' = FoundInOwnRoot
      BY <3>1 DEF FoundInOwnRoot
    <3>6. QED BY <3>1, <3>2, <3>3, <3>4, <3>5 DEF InitInv
  <2>7. QED BY <2>1, <2>2, <2>3, <2>4, <2>5, <2>6 DEF PgInitNext
<1>3. InitInv => RootsSound
  BY AreasApart DEF InitInv, RootsSound
<1>4. QED BY <1>1, <1>2, <1>3, PTL DEF PgInitSpec

-----------------------------------------------------------------------------
(* kernel/src/mmu.c and slab_alloc_init in lib/libslab/slab.c: the two     *)
(* layouts, for every size.                                                *)

LEMMA MapSizes ==
  /\ Entries \in Nat \ {0} /\ Entries > 1 /\ NSlices \in Nat \ {0} /\ NSlices <= Entries
BY BootAssumption

\* An entry that maps the section at pa to itself.
Block(pa) == [to |-> RegionOf(pa), at |-> pa]

\* The tables when i entries of the second level's table have been made.
TablesAt(i) ==
  [t \in Tables |-> [e \in 0 .. Entries - 1 |->
     IF t = 0 THEN IF i > 0 /\ e = 0 THEN [to |-> "table", at |-> 1] ELSE NoEntry
     ELSE IF t = 1 THEN IF e < i - 1 THEN [to |-> "table", at |-> e + 2] ELSE NoEntry
     ELSE IF t <= i THEN Block(e + Entries * (t - 2)) ELSE NoEntry]]

LEMMA TablesAtIs ==
  ASSUME NEW i \in Nat, NEW t \in 0 .. NSlices + 1, NEW e \in 0 .. Entries - 1
  PROVE  /\ t = 0 => TablesAt(i)[t][e] = IF i > 0 /\ e = 0 THEN [to |-> "table", at |-> 1] ELSE NoEntry
         /\ t = 1 => TablesAt(i)[t][e] = IF e < i - 1 THEN [to |-> "table", at |-> e + 2] ELSE NoEntry
         /\ t # 0 /\ t # 1 =>
              TablesAt(i)[t][e] = IF t <= i THEN Block(e + Entries * (t - 2)) ELSE NoEntry
BY MapSizes DEF TablesAt, Tables

\* A table of blocks that begins and ends with a slice is full of them.
LEMMA FullTable ==
  ASSUME NEW tbls, NEW p, NEW s \in Nat, NEW l, s % Entries = 0, l = Entries - 1, ((s + Entries) - 1) % Entries = l
  PROVE  create_block_entry(tbls, p, s, s + Entries, s)
           = [tbls EXCEPT ![p] = [e \in 0 .. l |-> Block(s + e)]]
<1> DEFINE first == s % Entries  last == ((s + Entries) - 1) % Entries
           f == [e \in 0 .. Entries - 1 |-> IF e = first \/ e \in first .. last
                   THEN [to |-> RegionOf(s + (e - first)), at |-> s + (e - first)] ELSE tbls[p][e]]
           g == [e \in 0 .. l |-> Block(s + e)]
<1>1. create_block_entry(tbls, p, s, s + Entries, s) = [tbls EXCEPT ![p] = f]
  BY DEF create_block_entry
<1>2. first = 0 /\ last = l
  OBVIOUS
<1> HIDE DEF first, last
<1>3. ASSUME NEW e \in 0 .. l
      PROVE  f[e] = g[e]
  <2>1. e \in first .. last /\ s + (e - first) = s + e /\ e \in 0 .. Entries - 1
    BY <1>2, MapSizes
  <2>2. QED BY <2>1 DEF Block
<1>4. f = g
  BY <1>3
<1> HIDE DEF f, g
<1>5. create_block_entry(tbls, p, s, s + Entries, s) = [tbls EXCEPT ![p] = g]
  BY <1>1, <1>4
<1>6. QED BY <1>5 DEF g

MapInv == boot.at = "tables" => /\ boot.i \in 0 .. NSlices + 1
                                /\ boot \in [at : {"tables"}, i : Nat, tbl : {TablesAt(boot.i)}]

LEMMA MapStarts == BootInit => MapInv
<1> SUFFICES ASSUME BootInit, boot.at = "tables"
             PROVE  /\ boot.i \in 0 .. NSlices + 1
                    /\ boot \in [at : {"tables"}, i : Nat, tbl : {TablesAt(boot.i)}]
  BY DEF MapInv
<1>1. boot = [at |-> "tables", i |-> 0, tbl |-> [t \in Tables |-> [e \in 0 .. Entries - 1 |-> NoEntry]]]
  BY DEF BootInit
<1>2. [t \in Tables |-> [e \in 0 .. Entries - 1 |-> NoEntry]] = TablesAt(0)
  <2>1. PICK z \in Nat : z = 0
    OBVIOUS
  <2>2. ASSUME NEW t \in 0 .. NSlices + 1, NEW e \in 0 .. Entries - 1
        PROVE  TablesAt(z)[t][e] = NoEntry
    <3>1. ~(e < 0 - 1) /\ (t # 0 /\ t # 1 => ~(t <= 0)) /\ ~(0 > 0)
      BY MapSizes
    <3>2. QED BY <2>1, <3>1, TablesAtIs, MapSizes
  <2>3. QED BY <2>1, <2>2 DEF TablesAt, Tables
<1>3. QED BY <1>1, <1>2, MapSizes

LEMMA MapStep ==
  ASSUME MapInv, create_page_tables
  PROVE  MapInv'
<1> DEFINE i == boot.i
<1>1. /\ boot.at = "tables" /\ i \in 0 .. NSlices
      /\ boot \in [at : {"tables"}, i : Nat, tbl : {TablesAt(i)}]
  BY MapSizes DEF MapInv, create_page_tables
<1>2. PICK j \in 0 .. NSlices : j = i
  BY <1>1, MapSizes
<1>3. boot \in [at : {"tables"}, i : Nat, tbl : {TablesAt(j)}] /\ boot.i = j /\ boot.tbl = TablesAt(j)
  BY <1>1, <1>2, MapSizes
<1> HIDE DEF i
<1>4. SUFFICES boot'.i = j + 1 /\ boot' \in [at : {"tables"}, i : Nat, tbl : {TablesAt(j + 1)}]
  BY MapSizes DEF MapInv
<1>5. ASSUME NEW tbl, tbl = TablesAt(j + 1), boot' = [boot EXCEPT !.i = j + 1, !.tbl = tbl]
      PROVE  boot'.i = j + 1 /\ boot' \in [at : {"tables"}, i : Nat, tbl : {TablesAt(j + 1)}]
  <2>1. PICK k \in Nat : k = j + 1
    BY MapSizes
  <2>2. PICK T : T = TablesAt(j)
    OBVIOUS
  <2>3. boot \in [at : {"tables"}, i : Nat, tbl : {T}] /\ boot' = [boot EXCEPT !.i = k, !.tbl = tbl]
    BY <1>3, <1>5, <2>1, <2>2
  <2>4. boot'.i = k /\ boot' \in [at : {"tables"}, i : Nat, tbl : {tbl}]
    BY <2>3
  <2>5. QED BY <1>5, <2>1, <2>4
<1>6. CASE j = 0
  <2> DEFINE tbl == create_table_entry(boot.tbl, 0, 1, 0, Entries * Entries)
  <2>1. boot' = [boot EXCEPT !.i = j + 1, !.tbl = tbl]
    BY <1>2, <1>3, <1>6, MapSizes DEF create_page_tables
  <2>2. tbl = TablesAt(1)
    <3> DEFINE P == Entries * Entries
    <3>1. P \in Nat \ {0}
      BY MapSizes
    <3>2. (0 \div P) % Entries = 0
      <4> HIDE DEF P
      <4>1. 0 \div P = 0
        BY <3>1, MapSizes
      <4>2. 0 % Entries = 0
        BY MapSizes
      <4>3. QED BY <4>1, <4>2, MapSizes
    <3>3. tbl = [TablesAt(0) EXCEPT ![0][0] = [to |-> "table", at |-> 1]]
      <4>1. tbl = [boot.tbl EXCEPT ![0][(0 \div P) % Entries] = [to |-> "table", at |-> 1]]
        BY DEF create_table_entry
      <4> HIDE DEF tbl, P
      <4>2. QED BY <1>3, <1>6, <3>2, <4>1, MapSizes
    <3> HIDE DEF tbl, P
    <3>4. /\ tbl = [t \in 0 .. NSlices + 1 |-> [e \in 0 .. Entries - 1 |-> tbl[t][e]]]
          /\ \A t \in 0 .. NSlices + 1, e \in 0 .. Entries - 1 :
               tbl[t][e] = IF t = 0 /\ e = 0 THEN [to |-> "table", at |-> 1] ELSE TablesAt(0)[t][e]
      BY <3>3, MapSizes DEF TablesAt, Tables
    <3>5. ASSUME NEW t \in 0 .. NSlices + 1, NEW e \in 0 .. Entries - 1
          PROVE  tbl[t][e] = TablesAt(1)[t][e]
      <4>1. PICK z \in Nat, u \in Nat : z = 0 /\ u = 1
        OBVIOUS
      <4>2. tbl[t][e] = IF t = 0 /\ e = 0 THEN [to |-> "table", at |-> 1] ELSE TablesAt(z)[t][e]
        BY <3>4, <4>1, MapSizes
      <4>3. /\ ~(e < z - 1) /\ ~(e < u - 1) /\ (t # 0 /\ t # 1 => ~(t <= z) /\ ~(t <= u))
            /\ u > 0 /\ ~(z > 0)
        BY <4>1, MapSizes
      <4>4. TablesAt(z)[t][e] = NoEntry
        BY <4>3, TablesAtIs
      <4>5. TablesAt(u)[t][e] = IF t = 0 /\ e = 0 THEN [to |-> "table", at |-> 1] ELSE NoEntry
        <5>1. CASE t = 0
          BY <4>3, <5>1, TablesAtIs
        <5>2. CASE t = 1
          <6>1. TablesAt(u)[t][e] = NoEntry
            BY <4>3, <5>2, TablesAtIs
          <6>2. t # 0
            BY <5>2
          <6>3. QED BY <6>1, <6>2
        <5>3. CASE t # 0 /\ t # 1
          BY <4>3, <5>3, TablesAtIs
        <5>4. QED BY <5>1, <5>2, <5>3
      <4>6. QED BY <4>1, <4>2, <4>4, <4>5
    <3>6. QED BY <3>4, <3>5, MapSizes DEF TablesAt, Tables
  <2> HIDE DEF tbl
  <2>3. j + 1 = 1
    BY <1>6
  <2>4. tbl = TablesAt(j + 1)
    BY <2>2, <2>3
  <2>5. QED BY <1>5, <2>1, <2>4
<1>7. CASE j # 0
  <2> DEFINE offset == Entries * (j - 1)
             tbls == create_table_entry(boot.tbl, 1, j + 1, offset, Entries)
             tbl == create_block_entry(tbls, j + 1, offset, offset + Entries, offset)
  <2>1. boot' = [boot EXCEPT !.i = j + 1, !.tbl = tbl]
    BY <1>2, <1>3, <1>7, MapSizes DEF create_page_tables
  <2>2. j \in 1 .. NSlices /\ j - 1 \in 0 .. Entries - 1 /\ j - 1 \in Nat /\ Entries \in Nat \ {0} /\ offset \in Nat
    BY <1>7, MapSizes
  <2>3. (offset \div Entries) % Entries = j - 1 /\ offset % Entries = 0 /\ ((offset + Entries) - 1) % Entries = Entries - 1
    <3> DEFINE q == j - 1
    <3> HIDE DEF q
    <3>1. offset = q * Entries + 0 /\ (offset + Entries) - 1 = q * Entries + (Entries - 1) /\ q \in Nat /\ q = 0 * Entries + q /\ q \in 0 .. Entries - 1
      BY <2>2, MapSizes DEF q
    <3>2. (q * Entries + 0) \div Entries = q /\ (q * Entries + 0) % Entries = 0 /\ (q * Entries + (Entries - 1)) % Entries = Entries - 1 /\ (0 * Entries + q) % Entries = q
      <4>1. PICK p \in Nat \ {0} : p = Entries
        BY <2>2, MapSizes
      <4>2. q \in Nat /\ q \in 0 .. p - 1 /\ 0 \in 0 .. p - 1 /\ p - 1 \in 0 .. p - 1
        BY <2>2, <3>1, <4>1, MapSizes
      <4>3. (q * p + 0) \div p = q /\ (q * p + 0) % p = 0
        BY <4>2, QuotientIs
      <4>4. (q * p + (p - 1)) % p = p - 1
        BY <4>2, QuotientIs
      <4>5. (0 * p + q) % p = q
        BY <4>2, QuotientIs
      <4>6. QED BY <4>1, <4>3, <4>4, <4>5, MapSizes
    <3> HIDE DEF offset
    <3>3. QED BY <3>1, <3>2, MapSizes DEF q
  <2> HIDE DEF tbls
  <2>4. tbl = [tbls EXCEPT ![j + 1] = [e \in 0 .. Entries - 1 |-> Block(offset + e)]]
    <3>1. PICK l : l = Entries - 1
      OBVIOUS
    <3> HIDE DEF offset
    <3>2. offset % Entries = 0 /\ l = Entries - 1 /\ ((offset + Entries) - 1) % Entries = l /\ offset \in Nat
      BY <2>2, <2>3, <3>1, MapSizes
    <3>3. PICK p, w, u : p = j + 1 /\ w = offset /\ u = tbls
      OBVIOUS
    <3>4. create_block_entry(u, p, w, w + Entries, w) = [u EXCEPT ![p] = [e \in 0 .. l |-> Block(w + e)]]
      <4>1. w \in Nat /\ w % Entries = 0 /\ l = Entries - 1 /\ ((w + Entries) - 1) % Entries = l
        BY <3>2, <3>3
      <4>2. QED BY <4>1, FullTable
    <3>5. QED BY <3>1, <3>3, <3>4
  <2>5. tbls = [TablesAt(j) EXCEPT ![1][j - 1] = [to |-> "table", at |-> j + 1]]
    BY <1>3, <2>3, MapSizes DEF create_table_entry, tbls
  <2> HIDE DEF tbl
  <2>6. tbl = TablesAt(j + 1)
    <3>1. PICK w : w = offset
      OBVIOUS
    <3>2. \A t \in 0 .. NSlices + 1, e \in 0 .. Entries - 1 :
            tbls[t][e] = IF t = 1 /\ e = j - 1 THEN [to |-> "table", at |-> j + 1] ELSE TablesAt(j)[t][e]
      BY <2>2, <2>5, MapSizes DEF TablesAt, Tables
    <3>3. tbls = [t \in 0 .. NSlices + 1 |-> [e \in 0 .. Entries - 1 |-> tbls[t][e]]]
      BY <2>2, <2>5, MapSizes DEF TablesAt, Tables
    <3>4. \A t \in 0 .. NSlices + 1, e \in 0 .. Entries - 1 :
            tbl[t][e] = IF t = j + 1 THEN Block(offset + e) ELSE tbls[t][e]
      <4> HIDE DEF offset
      <4>1. QED BY <2>2, <2>4, <3>3, MapSizes DEF Tables
    <3>5. tbl = [t \in 0 .. NSlices + 1 |-> [e \in 0 .. Entries - 1 |-> tbl[t][e]]]
      <4> HIDE DEF offset
      <4>1. QED BY <2>2, <2>4, <3>3, MapSizes DEF Tables
    <3> HIDE DEF offset
    <3>6. ASSUME NEW t \in 0 .. NSlices + 1, NEW e \in 0 .. Entries - 1
          PROVE  tbl[t][e] = TablesAt(j + 1)[t][e]
      <4>1. t \in 0 .. NSlices + 1 /\ e \in Nat /\ j \in Nat /\ j + 1 \in Nat /\ j >= 1 /\ j + 1 > 1
        BY <2>2, MapSizes DEF Tables
      <4>2. CASE t = 0
        <5>1. tbl[t][e] = TablesAt(j)[t][e]
          BY <2>2, <3>2, <3>4, <4>1, <4>2, MapSizes
        <5>2. j > 0 /\ j + 1 > 0
          BY <4>1, MapSizes
        <5>3. TablesAt(j)[t][e] = IF e = 0 THEN [to |-> "table", at |-> 1] ELSE NoEntry
          BY <4>1, <4>2, <5>2, TablesAtIs, MapSizes
        <5>4. TablesAt(j + 1)[t][e] = IF e = 0 THEN [to |-> "table", at |-> 1] ELSE NoEntry
          <6>1. PICK k \in Nat : k = j + 1
            BY <4>1
          <6>2. k > 0
            BY <5>2, <6>1
          <6>3. TablesAt(k)[t][e] = IF e = 0 THEN [to |-> "table", at |-> 1] ELSE NoEntry
            BY <4>2, <6>2, TablesAtIs
          <6>4. QED BY <6>1, <6>3
        <5>5. QED BY <5>1, <5>3, <5>4
      <4>3. CASE t = 1
        <5>1. (e < (j + 1) - 1) <=> (e < j - 1 \/ e = j - 1)
          BY <4>1, MapSizes
        <5>2. e = j - 1 => e + 2 = j + 1
          BY <4>1, MapSizes
        <5>3. tbl[t][e] = tbls[t][e]
          BY <2>2, <3>4, <4>1, <4>3, MapSizes
        <5>4. TablesAt(j)[t][e] = IF e < j - 1 THEN [to |-> "table", at |-> e + 2] ELSE NoEntry
          BY <4>3, <4>1, TablesAtIs, MapSizes
        <5>5. TablesAt(j + 1)[t][e] = IF e < (j + 1) - 1 THEN [to |-> "table", at |-> e + 2] ELSE NoEntry
          BY <4>3, <4>1, TablesAtIs, MapSizes
        <5>6. QED BY <3>2, <4>3, <5>1, <5>2, <5>3, <5>4, <5>5, MapSizes
      <4>4. CASE t = j + 1
        <5>1. t - 2 = j - 1 /\ t <= j + 1 /\ t # 0 /\ t # 1
          BY <4>1, <4>4, MapSizes
        <5>2. TablesAt(j + 1)[t][e] = Block(e + Entries * (t - 2))
          BY <5>1, <4>1, TablesAtIs, MapSizes
        <5>3. e + Entries * (t - 2) = offset + e
          BY <2>2, <4>1, <5>1, MapSizes DEF offset
        <5>4. QED BY <3>4, <4>4, <5>2, <5>3, MapSizes
      <4>5. CASE t # 0 /\ t # 1 /\ t # j + 1
        <5>1. t <= j <=> t <= j + 1
          BY <4>1, <4>5, MapSizes
        <5>2. tbl[t][e] = TablesAt(j)[t][e]
          BY <2>2, <3>2, <3>4, <4>1, <4>5, MapSizes
        <5>3. TablesAt(j)[t][e] = IF t <= j THEN Block(e + Entries * (t - 2)) ELSE NoEntry
          BY <4>1, <4>5, TablesAtIs, MapSizes
        <5>4. TablesAt(j + 1)[t][e] = IF t <= j + 1 THEN Block(e + Entries * (t - 2)) ELSE NoEntry
          BY <4>1, <4>5, TablesAtIs, MapSizes
        <5>5. QED BY <5>1, <5>2, <5>3, <5>4
      <4>6. QED BY <4>2, <4>3, <4>4, <4>5, MapSizes
    <3>7. QED BY <3>5, <3>6, MapSizes DEF TablesAt, Tables
  <2>7. QED BY <1>5, <2>1, <2>6, MapSizes
<1>8. QED BY <1>6, <1>7, MapSizes

LEMMA MapExact ==
  ASSUME MapInv
  PROVE  MapsToItself
<1> SUFFICES ASSUME boot.at = "tables", boot.i > NSlices, NEW va \in 0 .. Entries * Entries * 2 - 1
             PROVE  Translate(va) = IF va < Entries * NSlices THEN [to |-> RegionOf(va), at |-> va] ELSE NoEntry
  BY DEF MapsToItself
<1> DEFINE p == Entries  q == va \div p  r == va % p  top == va \div (p * p)
<1>1. p \in Nat \ {0} /\ p > 1 /\ NSlices \in Nat \ {0} /\ NSlices <= p
  BY MapSizes
<1>2. PICK k \in Nat : k = NSlices + 1 /\ boot.tbl = TablesAt(k)
  <2>1. boot.i = NSlices + 1 /\ boot.tbl = TablesAt(boot.i) /\ NSlices + 1 \in Nat
    BY <1>1 DEF MapInv
  <2>2. QED BY <2>1
<1>3. /\ va \in Nat /\ p * p \in Nat \ {0} /\ va < (p * p) * 2 /\ p * NSlices \in Nat
      /\ p * NSlices <= p * p
  <2>1. p * p \in Nat \ {0} /\ p * NSlices \in Nat /\ p * NSlices <= p * p
    BY <1>1
  <2>2. Entries * Entries * 2 = (p * p) * 2
    BY <1>1
  <2> DEFINE s == p * p
  <2>3. s \in Nat /\ va \in 0 .. (s * 2 - 1)
    BY <2>1, <2>2
  <2> HIDE DEF s
  <2>4. va \in Nat /\ va < s * 2
    BY <2>3
  <2>5. QED BY <2>1, <2>4 DEF s
<1>4. q \in Nat /\ r \in 0 .. p - 1 /\ va = q * p + r
  <2> HIDE DEF p
  <2>1. p \in Nat \ {0} /\ va \in Int /\ va >= 0
    BY <1>1, <1>3
  <2>2. QED BY <2>1, Quotient
<1>5. top = IF va < p * p THEN 0 ELSE 1
  <2> DEFINE s == p * p
  <2>1. s \in Nat \ {0} /\ va \in Nat /\ va < s * 2
    BY <1>3
  <2> HIDE DEF s
  <2>2. CASE va < s
    <3>1. (0 * s + va) \div s = 0 /\ 0 * s + va = va
      <4>1. va \in 0 .. s - 1 /\ 0 * s + va = va
        BY <2>1, <2>2
      <4>2. QED BY <2>1, <4>1, QuotientIs
    <3>2. QED BY <2>2, <3>1 DEF s
  <2>3. CASE ~(va < s)
    <3>1. va - s \in 0 .. s - 1 /\ 1 * s + (va - s) = va
      BY <2>1, <2>3
    <3>2. (1 * s + (va - s)) \div s = 1
      BY <2>1, <3>1, QuotientIs
    <3>3. QED BY <2>3, <3>1, <3>2 DEF s
  <2>4. QED BY <2>2, <2>3
<1>6. 0 % p = 0 /\ 1 % p = 1
  <2> HIDE DEF p
  <2>1. 0 \in 0 .. p - 1 /\ 1 \in 0 .. p - 1 /\ 0 * p + 0 = 0 /\ 0 * p + 1 = 1
    BY <1>1
  <2>2. (0 * p + 0) % p = 0 /\ (0 * p + 1) % p = 1
    BY <1>1, <2>1, QuotientIs
  <2>3. QED BY <2>1, <2>2
<1>7. /\ TablesAt(k)[0][0] = [to |-> "table", at |-> 1] /\ TablesAt(k)[0][1] = NoEntry
      /\ [to |-> "table", at |-> 1] # NoEntry
  <2>1. PICK t \in 0 .. NSlices + 1, e \in 0 .. Entries - 1, f \in 0 .. Entries - 1 : t = 0 /\ e = 0 /\ f = 1
    BY <1>1
  <2>2. k > 0 /\ f # 0
    BY <1>1, <1>2, <2>1
  <2>3. TablesAt(k)[t][e] = [to |-> "table", at |-> 1] /\ TablesAt(k)[t][f] = NoEntry
    BY <2>1, <2>2, TablesAtIs
  <2>4. QED BY <2>1, <2>3 DEF NoEntry
<1> DEFINE first == boot.tbl[0][top % p]  mid == boot.tbl[first.at][q % p]
<1>8. Translate(va) = IF first = NoEntry THEN NoEntry
                      ELSE IF mid = NoEntry THEN NoEntry ELSE boot.tbl[mid.at][r]
  BY DEF Translate
<1>9. CASE va < p * p
  <2>1. first = [to |-> "table", at |-> 1] /\ first # NoEntry /\ first.at = 1
    BY <1>2, <1>5, <1>6, <1>7, <1>9
  <2>2. q \in 0 .. p - 1
    <3>1. ASSUME q >= p
          PROVE  FALSE
      <4> HIDE DEF p, q, r
      <4>1. q * p >= p * p
        BY <1>1, <1>4, <3>1
      <4>2. q * p \in Nat /\ p * p \in Nat
        BY <1>1, <1>4
      <4>3. QED BY <1>4, <1>9, <4>1, <4>2
    <3> HIDE DEF p, q
    <3>2. QED BY <1>1, <1>4, <3>1
  <2>3. q % p = q
    <3> HIDE DEF p, q
    <3>1. (0 * p + q) % p = q /\ 0 * p + q = q
      BY <1>1, <2>2, QuotientIs
    <3>2. QED BY <3>1
  <2>4. va < p * NSlices <=> q < NSlices
    <3> HIDE DEF p, q, r
    <3> DEFINE n == NSlices
    <3>1. n \in Nat
      BY <1>1
    <3> HIDE DEF n
    <3>2. ASSUME q < n
          PROVE  va < p * n
      <4>1. n - q - 1 \in Nat /\ n = q + 1 + (n - q - 1)
        BY <1>4, <3>1, <3>2
      <4>2. PICK d \in Nat : n = q + 1 + d
        BY <4>1
      <4>3. p * n = q * p + p + d * p /\ d * p \in Nat /\ q * p \in Nat
        BY <1>1, <1>4, <4>2
      <4>4. QED BY <1>1, <1>4, <4>3
    <3>3. ASSUME ~(q < n)
          PROVE  ~(va < p * n)
      <4>1. PICK d \in Nat : q = n + d
        <5>1. q - n \in Nat /\ q = n + (q - n)
          BY <1>4, <3>1, <3>3
        <5>2. QED BY <5>1
      <4>2. q * p = p * n + d * p /\ d * p \in Nat /\ p * n \in Nat
        BY <1>1, <3>1, <4>1
      <4>3. QED BY <1>1, <1>4, <4>2
    <3>4. QED BY <3>2, <3>3 DEF n
  <2>5. mid = IF q < NSlices THEN [to |-> "table", at |-> q + 2] ELSE NoEntry
    <3>1. PICK t \in 0 .. NSlices + 1, e \in 0 .. Entries - 1 : t = 1 /\ e = q
      BY <1>1, <2>2
    <3>2. TablesAt(k)[t][e] = IF e < k - 1 THEN [to |-> "table", at |-> e + 2] ELSE NoEntry
      BY <3>1, TablesAtIs
    <3>3. k - 1 = NSlices
      BY <1>1, <1>2
    <3>4. mid = TablesAt(k)[1][q]
      BY <1>2, <2>1, <2>3
    <3> HIDE DEF mid, first, q, p
    <3>5. QED BY <3>1, <3>2, <3>3, <3>4
  <2>6. CASE q < NSlices
    <3>1. mid = [to |-> "table", at |-> q + 2] /\ mid # NoEntry /\ mid.at = q + 2
      BY <2>5, <2>6 DEF NoEntry
    <3>2. PICK t \in 0 .. NSlices + 1, e \in 0 .. Entries - 1 : t = q + 2 /\ e = r /\ t # 0 /\ t # 1 /\ t <= k
      <4> HIDE DEF q, r
      <4>1. q + 2 \in 0 .. NSlices + 1 /\ q + 2 # 0 /\ q + 2 # 1 /\ q + 2 <= k /\ r \in 0 .. Entries - 1
        BY <1>1, <1>2, <1>4, <2>6
      <4>2. QED BY <4>1
    <3>3. TablesAt(k)[t][e] = Block(e + Entries * (t - 2))
      BY <3>2, TablesAtIs
    <3>4. e + Entries * (t - 2) = va
      <4> HIDE DEF q, r
      <4>1. t - 2 = q /\ Entries * q = q * p
        BY <1>1, <1>4, <3>2
      <4>2. q * p \in Nat /\ r \in Nat
        BY <1>1, <1>4
      <4> HIDE DEF p
      <4>3. QED BY <1>4, <3>2, <4>1, <4>2
    <3>5. boot.tbl[mid.at][r] = Block(va)
      BY <1>2, <3>1, <3>2, <3>3, <3>4
    <3> HIDE DEF first, mid
    <3>6. Translate(va) = Block(va)
      BY <1>8, <2>1, <3>1, <3>5
    <3>7. QED BY <2>4, <2>6, <3>6 DEF Block, p
  <2>7. CASE ~(q < NSlices)
    <3> HIDE DEF first, mid, q, r, top
    <3>1. Translate(va) = NoEntry
      BY <1>8, <2>1, <2>5, <2>7
    <3>2. QED BY <2>4, <2>7, <3>1
  <2>8. QED BY <2>6, <2>7
<1>10. CASE ~(va < p * p)
  <2>1. first = NoEntry
    BY <1>2, <1>5, <1>6, <1>7, <1>10
  <2>2. ~(va < p * NSlices)
    <3> DEFINE a == p * p  b == p * NSlices
    <3>1. a \in Nat /\ b \in Nat /\ b <= a /\ ~(va < a) /\ va \in Nat
      BY <1>3, <1>10
    <3> HIDE DEF a, b
    <3>2. ~(va < b)
      BY <3>1
    <3>3. QED BY <3>2 DEF b
  <2> HIDE DEF first, mid, r
  <2>3. QED BY <1>8, <2>1, <2>2
<1>11. QED BY <1>9, <1>10

-----------------------------------------------------------------------------
(* The layout of a slab (lib/libslab/slab.c).                              *)

LEMMA SlabSizes ==
  /\ SlabPgSz \in Nat \ {0} /\ SlabHdr \in Nat \ {0} /\ MinObjSz \in Nat \ {0} /\ ObjNMax \in Nat \ {0}
  /\ EndPadding \in Nat \ {0} /\ AlignSfts \subseteq Nat
BY BootAssumption

LEMMA UpToIs ==
  ASSUME NEW a \in Nat \ {0}, NEW n \in Nat
  PROVE  UpTo(n, a) \in Nat /\ n <= UpTo(n, a)
<1> DEFINE m == n + a - 1  q == m \div a
<1>1. m \in Nat
  OBVIOUS
<1>2. q \in Nat /\ m % a \in 0 .. a - 1 /\ m = q * a + (m % a)
  <2> HIDE DEF m
  <2>1. m \in Int /\ m >= 0
    BY <1>1
  <2>2. QED BY <2>1, Quotient
<1>3. UpTo(n, a) = a * q
  BY DEF UpTo
<1>4. m = n + a - 1
  OBVIOUS
<1> HIDE DEF m, q
<1>5. a * q = q * a /\ q * a \in Nat
  BY <1>2
<1>6. QED BY <1>2, <1>3, <1>4, <1>5

\* That a slab with n objects fits a page, whichever way it is put.
RoomFor(sz, align, n) == UpTo(SlabHdr + n, align) + n * sz + EndPadding <= SlabPgSz

LayInv ==
  boot.at # "tables" =>
    /\ boot \in [at : {"slab", "no room", "not allowed", "NULL", "created"}, obj_sz : Nat \ {0}, sft : AlignSfts,
                 obj_n : Nat, padding_base : Int, slab_alloc_n : Nat]
    /\ SlabLayoutTight

LEMMA FitsIsRoom ==
  ASSUME NEW sz \in Nat, NEW n \in Nat, sz = boot.obj_sz, boot.sft \in Nat
  PROVE  /\ Fits(n) <=> RoomFor(sz, 2 ^ boot.sft, n)
         /\ PaddingFor(n) = UpTo(SlabHdr + n, 2 ^ boot.sft) - (SlabHdr + n)
         /\ UpTo(SlabHdr + n, 2 ^ boot.sft) \in Nat /\ SlabHdr + n <= UpTo(SlabHdr + n, 2 ^ boot.sft)
<1> DEFINE a == 2 ^ boot.sft  u == UpTo(SlabHdr + n, a)
<1>1. a \in Nat \ {0}
  <2>1. 2 ^ boot.sft \in Nat /\ 2 ^ boot.sft >= 1
    BY PowerIs
  <2> HIDE DEF a
  <2>2. QED BY <2>1 DEF a
<1>2. SlabHdr + n \in Nat
  BY SlabSizes
<1> HIDE DEF a
<1>3. u \in Nat /\ SlabHdr + n <= u
  BY <1>1, <1>2, UpToIs
<1>4. PaddingFor(n) = u - (SlabHdr + n)
  BY DEF PaddingFor, a
<1>5. Fits(n) <=> SlabPgSz - SlabHdr - (1 + sz) * n >= PaddingFor(n) + EndPadding
  BY DEF Fits
<1>6. RoomFor(sz, a, n) <=> u + n * sz + EndPadding <= SlabPgSz
  BY DEF RoomFor
<1> DEFINE m == n * sz
<1>7. (1 + sz) * n = n + m /\ m \in Nat /\ n * sz = m
  OBVIOUS
<1> HIDE DEF u, m
<1>8. Fits(n) <=> RoomFor(sz, a, n)
  <2>1. Fits(n) <=> SlabPgSz - SlabHdr - (n + m) >= (u - (SlabHdr + n)) + EndPadding
    BY <1>4, <1>5, <1>7
  <2>2. RoomFor(sz, a, n) <=> u + m + EndPadding <= SlabPgSz
    BY <1>6, <1>7
  <2>3. QED BY <1>3, <1>7, <2>1, <2>2, SlabSizes
<1>9. QED BY <1>3, <1>4, <1>8 DEF a, u

\* No page has room for more objects than slab_alloc_init tries.
LEMMA NoMore ==
  ASSUME NEW sz \in Nat, NEW align \in Nat \ {0}, NEW n \in Nat, n > (SlabPgSz - SlabHdr) \div (1 + sz)
  PROVE  ~RoomFor(sz, align, n)
<1> DEFINE d == SlabPgSz - SlabHdr  p == 1 + sz  q == d \div p  r == d % p  u == UpTo(SlabHdr + n, align)  m == n * sz
<1>1. p \in Nat \ {0} /\ d \in Int
  BY SlabSizes
<1>2. q \in Int /\ r \in 0 .. p - 1 /\ d = q * p + r
  <2> HIDE DEF d, p
  <2>1. QED BY <1>1, Quotient
<1>3. u \in Nat /\ SlabHdr + n <= u
  <2>1. SlabHdr + n \in Nat
    BY SlabSizes
  <2>2. QED BY <2>1, UpToIs
<1>4. n * p = n + m /\ m \in Nat
  OBVIOUS
<1>5. n > q
  OBVIOUS
<1>6. RoomFor(sz, align, n) => u + m + EndPadding <= SlabPgSz
  BY DEF RoomFor
<1>7. d = SlabPgSz - SlabHdr
  OBVIOUS
<1> HIDE DEF d, p, q, r, u, m
<1>8. n * p >= q * p + p
  <2>1. PICK c \in Nat : n = q + 1 + c
    <3>1. n - (q + 1) \in Nat /\ n = q + 1 + (n - (q + 1))
      BY <1>2, <1>5
    <3>2. QED BY <3>1
  <2>2. n * p = q * p + p + c * p /\ c * p \in Nat /\ q * p \in Int
    BY <1>1, <1>2, <2>1
  <2>3. QED BY <1>1, <2>2
<1>9. q * p \in Int
  BY <1>1, <1>2
<1>10. QED BY <1>1, <1>2, <1>3, <1>4, <1>6, <1>7, <1>8, <1>9, SlabSizes

LEMMA SlabStep ==
  ASSUME LayInv, slab_create
  PROVE  LayInv'
<1> DEFINE sz == boot.obj_sz  align == 2 ^ boot.sft
           most == (SlabPgSz - SlabHdr) \div (1 + sz)
           tried == 1 .. IF most > ObjNMax THEN ObjNMax ELSE most
           fits == {n \in tried : Fits(n)}
           n == CHOOSE n \in fits : \A k \in fits : k <= n
<1>1. /\ boot.at = "slab" /\ sz \in Nat \ {0} /\ boot.sft \in AlignSfts /\ boot.sft \in Nat
      /\ boot \in [at : {"slab", "no room", "not allowed", "NULL", "created"}, obj_sz : Nat \ {0}, sft : AlignSfts,
                   obj_n : Nat, padding_base : Int, slab_alloc_n : Nat]
  BY SlabSizes DEF LayInv, slab_create
<1>2. align \in Nat \ {0}
  <2>1. 2 ^ boot.sft \in Nat /\ 2 ^ boot.sft >= 1
    BY <1>1, PowerIs
  <2> HIDE DEF align
  <2>2. QED BY <2>1 DEF align
<1>3. boot' = IF boot.slab_alloc_n >= SlabMgrCap THEN [boot EXCEPT !.at = "no room"]
              ELSE IF ~slab_create_allow THEN [boot EXCEPT !.at = "not allowed"]
              ELSE IF fits = {} THEN [boot EXCEPT !.at = "NULL", !.slab_alloc_n = @ + 1]
              ELSE [boot EXCEPT !.at = "created", !.slab_alloc_n = @ + 1,
                                !.obj_n = n, !.padding_base = PaddingFor(n) % ByteVals]
  BY DEF slab_create
<1>4. most \in Int /\ ObjNMax \in Nat \ {0}
  <2> DEFINE d == SlabPgSz - SlabHdr  p == 1 + sz
  <2>1. d \in Int
    BY SlabSizes
  <2>2. p \in Nat \ {0}
    <3>1. boot.obj_sz \in Nat
      BY <1>1
    <3>2. PICK z \in Nat : z = boot.obj_sz
      BY <3>1
    <3>3. 1 + z \in Nat \ {0}
      OBVIOUS
    <3>4. QED BY <3>2, <3>3
  <2> HIDE DEF d, p
  <2>3. d \div p \in Int
    BY <2>1, <2>2
  <2>4. QED BY <2>3, SlabSizes DEF d, p
<1>5. ASSUME NEW k \in Nat, k > 0, k <= ObjNMax, k \notin fits
      PROVE  ~RoomFor(sz, align, k)
  <2>1. CASE k <= most
    <3>1. k \in tried
      <4> HIDE DEF most
      <4>1. QED BY <1>4, <1>5, <2>1
    <3>2. ~Fits(k)
      BY <1>5, <3>1
    <3>3. QED BY <1>1, <3>2, FitsIsRoom
  <2>2. CASE ~(k <= most)
    <3>1. k > most
      <4> HIDE DEF most
      <4>1. QED BY <1>4, <2>2
    <3>2. QED BY <1>1, <1>2, <3>1, NoMore
  <2>3. QED BY <2>1, <2>2
<1>6. /\ boot.obj_sz \in Nat \ {0} /\ boot.obj_n \in Nat /\ boot.padding_base \in Int /\ boot.slab_alloc_n \in Nat
      /\ boot.slab_alloc_n + 1 \in Nat
  <2>1. boot.slab_alloc_n \in Nat
    BY <1>1
  <2>2. boot.slab_alloc_n + 1 \in Nat
    BY <2>1
  <2>3. QED BY <1>1, <2>1, <2>2
<1> DEFINE Shape == [at : {"slab", "no room", "not allowed", "NULL", "created"}, obj_sz : Nat \ {0}, sft : AlignSfts,
                     obj_n : Nat, padding_base : Int, slab_alloc_n : Nat]
<1>7. CASE fits = {} \/ boot.slab_alloc_n >= SlabMgrCap \/ ~slab_create_allow
  <2>1. /\ boot' \in Shape /\ boot'.at \in {"no room", "not allowed", "NULL"}
        /\ boot'.obj_sz = sz /\ boot'.sft = boot.sft /\ (boot'.at = "NULL" => fits = {})
    <3> HIDE DEF fits, n, most, tried
    <3>1. QED BY <1>1, <1>3, <1>6, <1>7
  <2>2. boot'.at = "NULL" => ~RoomFor(sz, align, 1)
    <3>1. 1 \in Nat /\ 1 > 0 /\ 1 <= ObjNMax
      BY <1>4
    <3>2. ASSUME fits = {} PROVE 1 \notin fits
      BY <3>2
    <3> HIDE DEF fits, align, sz
    <3>3. QED BY <1>5, <2>1, <3>1, <3>2
  <2>3. SlabLayoutTight'
    <3>1. boot'.at = "NULL" => ~(UpTo(SlabHdr + 1, 2 ^ boot'.sft) + 1 * boot'.obj_sz + EndPadding <= SlabPgSz)
      BY <2>1, <2>2 DEF RoomFor
    <3>2. QED BY <2>1, <3>1 DEF SlabLayoutTight, UpTo
  <2>4. QED BY <2>1, <2>3 DEF LayInv
<1>8. CASE ~(fits = {} \/ boot.slab_alloc_n >= SlabMgrCap \/ ~slab_create_allow)
  <2>1. fits \in SUBSET (0 .. ObjNMax) /\ fits # {}
    <3>1. tried \subseteq 0 .. ObjNMax
      <4> HIDE DEF most
      <4>1. QED BY <1>4
    <3> HIDE DEF tried
    <3>2. QED BY <1>8, <3>1
  <2>2. n \in fits /\ \A k \in fits : k <= n
    <3> HIDE DEF fits
    <3>1. Max(fits) \in fits /\ \A k \in fits : k <= Max(fits)
      BY <1>4, <2>1, MaxOf
    <3>2. QED BY <3>1
  <2>3. PICK m \in Nat : m = n
    BY <2>1, <2>2
  <2>4. m \in fits /\ \A k \in fits : k <= m
    BY <2>2, <2>3
  <2>5. m \in 1 .. ObjNMax /\ Fits(m)
    <3>1. m \in tried /\ Fits(m)
      BY <2>4
    <3>2. tried \subseteq 1 .. ObjNMax
      <4> HIDE DEF most
      <4>1. QED BY <1>4
    <3> HIDE DEF tried
    <3>3. QED BY <3>1, <3>2
  <2> DEFINE u == UpTo(SlabHdr + m, align)  pad == PaddingFor(m) % ByteVals
  <2>6. RoomFor(sz, align, m) /\ PaddingFor(m) = u - (SlabHdr + m) /\ u \in Nat /\ SlabHdr + m <= u
    BY <1>1, <2>5, FitsIsRoom
  <2>7. m < ObjNMax => ~RoomFor(sz, align, m + 1)
    <3> HIDE DEF fits, align, sz
    <3>1. HAVE m < ObjNMax
    <3>2. PICK k \in Nat : k = m + 1
      OBVIOUS
    <3>3. k > 0 /\ k <= ObjNMax /\ ~(k <= m)
      BY <1>4, <3>1, <3>2
    <3>4. k \notin fits
      BY <2>4, <3>3
    <3>5. QED BY <1>5, <3>2, <3>3, <3>4
  <2>8. boot' = [boot EXCEPT !.at = "created", !.slab_alloc_n = @ + 1, !.obj_n = m, !.padding_base = pad]
    <3> HIDE DEF fits, n, most, tried
    <3>1. QED BY <1>3, <1>8, <2>3
  <2>9. pad \in Int /\ pad <= u - (SlabHdr + m)
    <3> HIDE DEF u
    <3>1. PICK p \in Nat : p = PaddingFor(m) /\ p = u - (SlabHdr + m)
      <4>1. u - (SlabHdr + m) \in Nat
        BY <2>6, SlabSizes
      <4>2. QED BY <2>6, <4>1
    <3>2. ByteVals \in Nat \ {0} /\ p \in Int /\ p >= 0
      BY <3>1, BootAssumption
    <3> DEFINE q == p \div ByteVals  r == p % ByteVals  t == q * ByteVals
    <3>3. q \in Nat /\ r \in 0 .. ByteVals - 1 /\ p = t + r
      BY <3>2, Quotient
    <3>4. t \in Nat
      BY <3>2, <3>3
    <3>5. pad = r
      BY <3>1
    <3> HIDE DEF q, r, t, pad
    <3>6. QED BY <3>1, <3>2, <3>3, <3>4, <3>5
  <2>10. /\ boot' \in Shape /\ boot'.at = "created" /\ boot'.obj_sz = sz /\ boot'.sft = boot.sft
         /\ boot'.obj_n = m /\ boot'.padding_base = pad
    <3> HIDE DEF pad
    <3>1. QED BY <1>1, <1>6, <2>8, <2>9
  <2>11. ASSUME NEW rand \in 0 .. (EndPadding \div align) - 1
         PROVE  m + pad + rand * align + m * sz <= SlabPgSz
    <3> DEFINE q == EndPadding \div align  t == rand * align  w == m * sz
    <3>1. q \in Nat /\ EndPadding % align \in 0 .. align - 1 /\ EndPadding = q * align + (EndPadding % align)
      <4>1. EndPadding \in Int /\ EndPadding >= 0
        BY SlabSizes
      <4> HIDE DEF align
      <4>2. QED BY <1>2, <4>1, Quotient
    <3> HIDE DEF align, sz
    <3>2. rand \in Nat /\ rand <= q - 1
      <4> HIDE DEF q
      <4>1. rand \in 0 .. q - 1
        BY <2>11 DEF q
      <4>2. QED BY <3>1, <4>1
    <3>3. PICK c \in Nat : q = rand + 1 + c
      <4> HIDE DEF q
      <4>1. q - (rand + 1) \in Nat /\ q = rand + 1 + (q - (rand + 1))
        BY <3>1, <3>2
      <4>2. QED BY <4>1
    <3>4. q * align = t + align + c * align /\ t \in Nat /\ c * align \in Nat
      <4> HIDE DEF q
      <4>1. QED BY <1>2, <3>2, <3>3
    <3>5. t <= EndPadding
      <4> HIDE DEF q, t
      <4>1. PICK x \in Nat, y \in Nat : x = c * align /\ y = q * align
        BY <1>2, <3>1, <3>4
      <4>2. QED BY <1>2, <3>1, <3>4, <4>1, SlabSizes
    <3>6. u + w + EndPadding <= SlabPgSz
      BY <2>6 DEF RoomFor
    <3>7. w \in Nat
      <4>1. sz \in Nat
        BY <1>1 DEF sz
      <4>2. QED BY <4>1
    <3> HIDE DEF q, t, w, u, pad
    <3>8. m + pad + t + w <= SlabPgSz
      BY <2>3, <2>6, <2>9, <3>4, <3>5, <3>6, <3>7, SlabSizes
    <3>9. QED BY <3>8 DEF t, w
  <2>12. SlabLayoutTight'
    <3>1. UpTo(SlabHdr + m, 2 ^ boot'.sft) + m * boot'.obj_sz + EndPadding <= SlabPgSz
      BY <2>6, <2>10 DEF RoomFor
    <3>2. m < ObjNMax => ~(UpTo(SlabHdr + (m + 1), 2 ^ boot'.sft) + (m + 1) * boot'.obj_sz + EndPadding <= SlabPgSz)
      BY <2>7, <2>10 DEF RoomFor
    <3>3. \A rand \in 0 .. (EndPadding \div (2 ^ boot'.sft)) - 1 :
            m + boot'.padding_base + rand * (2 ^ boot'.sft) + m * boot'.obj_sz <= SlabPgSz
      BY <2>10, <2>11
    <3>4. m > 0
      BY <2>5
    <3> HIDE DEF pad
    <3>5. QED BY <2>10, <3>1, <3>2, <3>3, <3>4 DEF SlabLayoutTight, UpTo
  <2>13. QED BY <2>10, <2>12 DEF LayInv
<1>9. QED BY <1>7, <1>8

(* Both tables                                                             *)

LEMMA BootStarts ==
  BootInit => MapInv /\ LayInv
<1> SUFFICES ASSUME BootInit PROVE MapInv /\ LayInv
  OBVIOUS
<1>1. MapInv
  BY MapStarts
<1>2. LayInv
  <2>1. CASE boot.at = "tables"
    BY <2>1 DEF LayInv
  <2>2. CASE boot.at # "tables"
    <3>1. PICK sz \in 1 .. SlabPgSz, sft \in AlignSfts, n \in {0, SlabMgrCap} :
            boot = [at |-> "slab", obj_sz |-> sz, sft |-> sft, obj_n |-> 0, padding_base |-> 0, slab_alloc_n |-> n]
      BY <2>2 DEF BootInit
    <3>2. sz \in Nat \ {0} /\ n \in Nat
      <4>1. SlabMgrCap \in Nat /\ SlabPgSz \in Nat
        BY BootAssumption
      <4>2. QED BY <3>1, <4>1
    <3>3. boot.at = "slab" /\ boot \in [at : {"slab", "no room", "not allowed", "NULL", "created"}, obj_sz : Nat \ {0},
            sft : AlignSfts, obj_n : Nat, padding_base : Int, slab_alloc_n : Nat]
      BY <3>1, <3>2
    <3>4. SlabLayoutTight
      BY <3>3 DEF SlabLayoutTight
    <3>5. QED BY <3>3, <3>4 DEF LayInv
  <2>3. QED BY <2>1, <2>2
<1>3. QED BY <1>1, <1>2
LEMMA BootSteps ==
  ASSUME MapInv, LayInv, [BootNext]_bootvars
  PROVE  MapInv' /\ LayInv'
<1>1. CASE create_page_tables
  <2>1. MapInv'
    BY <1>1, MapStep
  <2>2. boot'.at = "tables"
    <3>1. boot.at = "tables" /\ boot \in [at : {"tables"}, i : Nat, tbl : {TablesAt(boot.i)}]
      BY <1>1 DEF MapInv, create_page_tables
    <3>2. PICK t \in {TablesAt(boot.i)}, i \in Nat : boot = [at |-> "tables", i |-> i, tbl |-> t]
      BY <3>1
    <3>3. boot.i = 0 => boot' = [boot EXCEPT !.i = 1, !.tbl = create_table_entry(@, 0, 1, 0, Entries * Entries)]
      BY <1>1 DEF create_page_tables
    <3>4. boot.i # 0 => \E a, b : boot' = [boot EXCEPT !.i = a, !.tbl = b]
      BY <1>1 DEF create_page_tables
    <3>5. QED BY <3>2, <3>3, <3>4
  <2>3. QED BY <2>1, <2>2 DEF LayInv
<1>2. CASE slab_create
  <2>1. LayInv'
    BY <1>2, SlabStep
  <2>2. boot'.at # "tables"
    <3>1. boot.at = "slab" /\ boot \in [at : {"slab", "no room", "not allowed", "NULL", "created"}, obj_sz : Nat \ {0},
            sft : AlignSfts, obj_n : Nat, padding_base : Int, slab_alloc_n : Nat]
      BY <1>2 DEF LayInv, slab_create
    <3>2. \/ boot' = [boot EXCEPT !.at = "no room"]
          \/ boot' = [boot EXCEPT !.at = "not allowed"]
          \/ boot' = [boot EXCEPT !.at = "NULL", !.slab_alloc_n = @ + 1]
          \/ \E a, b : boot' = [boot EXCEPT !.at = "created", !.slab_alloc_n = @ + 1, !.obj_n = a, !.padding_base = b]
      BY <1>2 DEF slab_create
    <3>3. QED BY <3>1, <3>2
  <2>3. QED BY <2>1, <2>2 DEF MapInv
<1>3. CASE UNCHANGED bootvars
  <2>1. boot' = boot
    BY <1>3 DEF bootvars
  <2>2. MapInv'
    BY <2>1 DEF MapInv
  <2>3. SlabLayoutTight <=> SlabLayoutTight'
    BY <2>1 DEF SlabLayoutTight
  <2>4. LayInv'
    BY <2>1, <2>3 DEF LayInv
  <2>5. QED BY <2>2, <2>4
<1>4. QED BY <1>1, <1>2, <1>3 DEF BootNext

\* Whatever the tables' size, the number of slices and the object, the identity
\* map translates every section to itself and no other address, and a slab holds
\* as many objects as a page has room for (create_page_tables, slab_alloc_init).
THEOREM LayoutsMade == BootSpec => []LayoutsExact
<1>1. MapInv /\ LayInv => LayoutsExact
  <2>1. MapInv => MapsToItself
    BY MapExact
  <2>2. LayInv => SlabLayoutTight
    BY DEF LayInv, SlabLayoutTight
  <2>3. QED BY <2>1, <2>2 DEF LayoutsExact
<1>2. BootSpec => [](MapInv /\ LayInv)
  <2>1. BootInit => MapInv /\ LayInv
    BY BootStarts
  <2>2. MapInv /\ LayInv /\ [BootNext]_bootvars => (MapInv /\ LayInv)'
    BY BootSteps
  <2>3. QED BY <2>1, <2>2, PTL DEF BootSpec
<1>3. QED BY <1>1, <1>2, PTL

-----------------------------------------------------------------------------
(* load_elf in loader/src: for every image whose parts have any size the   *)
(* largest block has room for, at any address and alignment.               *)

\* The parts of an image are numbers.
LEMMA ShapeIs ==
  ASSUME NEW s \in Shapes
  PROVE  /\ s.at \in 0 .. 2 * Align - 1 /\ s.text \in 1 .. MaxText /\ s.gap \in 0 .. MaxGap
         /\ s.data \in 0 .. MaxData /\ s.bss \in 0 .. MaxBss
         /\ s.at \in Nat /\ s.text \in Nat /\ s.gap \in Nat /\ s.data \in Nat /\ s.bss \in Nat /\ s.text > 0
<1>1. /\ s.at \in 0 .. 2 * Align - 1 /\ s.text \in 1 .. MaxText /\ s.gap \in 0 .. MaxGap
      /\ s.data \in 0 .. MaxData /\ s.bss \in 0 .. MaxBss
  BY DEF Shapes
<1>2. Align \in Nat /\ MaxText \in Nat /\ MaxGap \in Nat /\ MaxData \in Nat /\ MaxBss \in Nat
  BY LoaderAssumption
<1>3. QED BY <1>1, <1>2

\* Where the data of an image starts.
DataAt(s) == s.at + s.text + s.gap

\* The headers of an image: the two segments and the data.
LEMMA HeadersAre ==
  ASSUME NEW s \in Shapes, ld.elf = Image(s)
  PROVE  \E t, d, r :
           /\ PhdrsOfType({"LOAD"}) = {t, d} /\ PhdrsOfType({"LOAD", "GNU_RELRO"}) = {t, d, r}
           /\ t.vaddr = s.at /\ t.filesz = s.text /\ t.memsz = s.text /\ t.align = Align /\ t.offset = 0
           /\ d.vaddr = DataAt(s) /\ d.filesz = s.data /\ d.memsz = s.data + s.bss /\ d.align = Align
           /\ d.offset = s.text
           /\ r.vaddr = DataAt(s) /\ r.memsz = s.data /\ r.align = 1
<1> DEFINE v == DataAt(s)
           p == [type |-> "PHDR", offset |-> 0, vaddr |-> 0, filesz |-> 9, memsz |-> 9, align |-> 1]
           t == [type |-> "LOAD", offset |-> 0, vaddr |-> s.at, filesz |-> s.text, memsz |-> s.text,
                 align |-> Align]
           d == [type |-> "LOAD", offset |-> s.text, vaddr |-> v, filesz |-> s.data,
                 memsz |-> s.data + s.bss, align |-> Align]
           r == [type |-> "GNU_RELRO", offset |-> s.text, vaddr |-> v, filesz |-> s.data,
                 memsz |-> s.data, align |-> 1]
<1>1. ld.elf.p_hdr_arr = <<p, t, d, r>>
  BY DEF Image, PhdrsOf, DataAt
<1>2. p.type = "PHDR" /\ t.type = "LOAD" /\ d.type = "LOAD" /\ r.type = "GNU_RELRO"
  OBVIOUS
<1>3. /\ t.vaddr = s.at /\ t.filesz = s.text /\ t.memsz = s.text /\ t.align = Align /\ t.offset = 0
      /\ d.vaddr = v /\ d.filesz = s.data /\ d.memsz = s.data + s.bss /\ d.align = Align
      /\ d.offset = s.text
      /\ r.vaddr = v /\ r.memsz = s.data /\ r.align = 1
  OBVIOUS
<1> HIDE DEF p, t, d, r, v
<1>4. Range(<<p, t, d, r>>) = {p, t, d, r}
  BY DEF Range
<1>5. PhdrsOfType({"LOAD"}) = {t, d} /\ PhdrsOfType({"LOAD", "GNU_RELRO"}) = {t, d, r}
  BY <1>1, <1>2, <1>4 DEF PhdrsOfType
<1>6. QED BY <1>3, <1>5 DEF v

\* What the steps of the loader compute from the headers.
BaseOf(s) == s.at - (s.at % Align)

LEMMA BaseIs ==
  ASSUME NEW s \in Shapes
  PROVE  /\ BaseOf(s) \in Nat /\ BaseOf(s) <= s.at
         /\ DataAt(s) + s.data + s.bss - BaseOf(s) \in Nat
         /\ DataAt(s) + s.data + s.bss - BaseOf(s) <= ImageCells
         /\ DataAt(s) \in Nat
<1>1. Align \in Nat \ {0} /\ MaxText \in Nat /\ MaxGap \in Nat /\ MaxData \in Nat /\ MaxBss \in Nat
  BY LoaderAssumption
<1> DEFINE m == s.at % Align
<1>2. m \in 0 .. Align - 1 /\ m <= s.at
  <2>1. s.at \in Int /\ s.at >= 0
    BY ShapeIs
  <2> DEFINE q == s.at \div Align
  <2>2. q \in Nat /\ m \in 0 .. Align - 1 /\ s.at = q * Align + m
    BY <1>1, <2>1, Quotient
  <2>3. q * Align \in Nat
    BY <1>1, <2>2
  <2> HIDE DEF m, q
  <2>4. QED BY <1>1, <2>1, <2>2, <2>3
<1>3. BaseOf(s) = s.at - m
  BY DEF BaseOf
<1> HIDE DEF m
<1>4. BaseOf(s) \in Nat /\ BaseOf(s) <= s.at
  BY <1>1, <1>2, <1>3, ShapeIs
<1>5. DataAt(s) = s.at + s.text + s.gap /\ DataAt(s) \in Nat
  BY ShapeIs DEF DataAt
<1>6. QED BY <1>1, <1>2, <1>3, <1>4, <1>5, ShapeIs DEF ImageCells

LEMMA SizeIs ==
  ASSUME NEW s \in Shapes, ld.elf = Image(s)
  PROVE  LET hs == PhdrsOfType({"LOAD", "GNU_RELRO"})
             lo == Min({h.vaddr : h \in hs})
             al == Max({1} \cup {h.align : h \in hs})
         IN  lo - (lo % al) = BaseOf(s) /\ MemTop = DataAt(s) + s.data + s.bss
<1>1. PICK t, d, r :
           /\ PhdrsOfType({"LOAD"}) = {t, d} /\ PhdrsOfType({"LOAD", "GNU_RELRO"}) = {t, d, r}
           /\ t.vaddr = s.at /\ t.filesz = s.text /\ t.memsz = s.text /\ t.align = Align /\ t.offset = 0
           /\ d.vaddr = DataAt(s) /\ d.filesz = s.data /\ d.memsz = s.data + s.bss /\ d.align = Align
           /\ d.offset = s.text
           /\ r.vaddr = DataAt(s) /\ r.memsz = s.data /\ r.align = 1
  BY HeadersAre
<1> DEFINE hs == PhdrsOfType({"LOAD", "GNU_RELRO"})
           V == {h.vaddr : h \in hs}  A == {1} \cup {h.align : h \in hs}  T == {h.vaddr + h.memsz : h \in hs}
           v == DataAt(s)  top == v + s.data + s.bss
<1>2. /\ v = s.at + s.text + s.gap /\ v \in Nat /\ s.at \in Nat /\ s.text \in Nat /\ s.gap \in Nat
      /\ s.data \in Nat /\ s.bss \in Nat /\ Align \in Nat \ {0}
  BY BaseIs, ShapeIs, LoaderAssumption DEF DataAt
<1>3. V = {s.at, v} /\ A = {1, Align} /\ T = {s.at + s.text, v + (s.data + s.bss), v + s.data}
  <2>1. V = {t.vaddr, d.vaddr, r.vaddr}
    BY <1>1
  <2>2. A = {1, t.align, d.align, r.align}
    BY <1>1
  <2>3. T = {t.vaddr + t.memsz, d.vaddr + d.memsz, r.vaddr + r.memsz}
    BY <1>1
  <2> HIDE DEF V, A, T, v
  <2>4. V = {s.at, v}
    BY <1>1, <2>1 DEF v
  <2>5. A = {1, Align}
    BY <1>1, <2>2
  <2>6. T = {s.at + s.text, v + (s.data + s.bss), v + s.data}
    BY <1>1, <2>3 DEF v
  <2>7. QED BY <2>4, <2>5, <2>6
<1> HIDE DEF V, A, T, v, hs
<1>4. Min(V) = s.at
  <2>1. V \in SUBSET Nat /\ V # {} /\ s.at \in V
    BY <1>2, <1>3
  <2>2. Min(V) \in V /\ \A y \in V : Min(V) <= y
    BY <2>1, MinOf
  <2>3. QED BY <1>2, <1>3, <2>1, <2>2
<1>5. Max(A) = Align
  <2>1. A \in SUBSET (0 .. Align) /\ A # {} /\ Align \in A
    BY <1>2, <1>3
  <2>2. Max(A) \in A /\ \A y \in A : y <= Max(A)
    BY <1>2, <2>1, MaxOf
  <2>3. QED BY <1>2, <1>3, <2>1, <2>2
<1>6. Max(T) = top
  <2>1. top \in Nat /\ T \in SUBSET (0 .. top) /\ T # {} /\ top \in T
    BY <1>2, <1>3
  <2> HIDE DEF top
  <2>2. Max(T) \in T /\ \A y \in T : y <= Max(T)
    BY <2>1, MaxOf
  <2>3. PICK x \in T : x = Max(T) /\ \A y \in T : y <= x
    BY <2>2
  <2>4. x \in 0 .. top /\ top <= x
    BY <2>1, <2>3
  <2>5. QED BY <2>1, <2>3, <2>4
<1>7. MemTop = top
  BY <1>6 DEF MemTop, T, hs
<1>8. QED BY <1>4, <1>5, <1>7 DEF BaseOf, V, A, hs, v

\* The smallest block an image fits is one of those there are.
LEMMA BlockIs ==
  ASSUME NEW m \in Nat, m <= ImageCells
  PROVE  LET n == PageCells * 2 ^ Min({k \in 0 .. LargestLvl : m <= PageCells * 2 ^ k})
         IN  n \in Nat /\ m <= n
<1> DEFINE K == {k \in 0 .. LargestLvl : m <= PageCells * 2 ^ k}  l == Min(K)
<1>1. PageCells \in Nat /\ LargestLvl \in Nat /\ ImageCells <= PageCells * 2 ^ LargestLvl
  BY LoaderAssumption
<1>2. \A k \in Nat : 2 ^ k \in Nat /\ PageCells * 2 ^ k \in Nat
  <2> TAKE k \in Nat
  <2>1. PICK p \in Nat : p = 2 ^ k
    BY PowerIs
  <2>2. QED BY <1>1, <2>1
<1>3. ImageCells \in Int
  BY LoaderAssumption DEF ImageCells
<1>4. LargestLvl \in K
  <2>1. PICK p \in Nat : p = PageCells * 2 ^ LargestLvl
    BY <1>1, <1>2
  <2>2. m <= PageCells * 2 ^ LargestLvl
    BY <1>1, <1>3, <2>1
  <2>3. QED BY <1>1, <2>2
<1>5. K \in SUBSET Nat
  BY <1>1
<1>6. l \in K
  <2> HIDE DEF K
  <2>1. QED BY <1>4, <1>5, MinOf
<1>7. m <= PageCells * 2 ^ l /\ l \in Nat
  BY <1>5, <1>6
<1>8. QED BY <1>2, <1>7

-----------------------------------------------------------------------------
(* The inductive invariant.                                                *)

\* The memory of an image moved by o: after copying, clearing and relocating.
Copied(s, o, a) ==
  IF a \in s.at + o .. s.at + o + s.text - 1 THEN FileCell(a - (s.at + o))
  ELSE IF a \in DataAt(s) + o .. DataAt(s) + o + s.data - 1 THEN FileCell(s.text + a - (DataAt(s) + o))
  ELSE Stale
Cleared(s, o, a) ==
  IF a \in DataAt(s) + s.data + o .. DataAt(s) + s.data + o + s.bss - 1 THEN OwnWord(0) ELSE Copied(s, o, a)
Linked(s, o, a) ==
  IF s.data > 0 /\ a = DataAt(s) + o THEN OwnWord(s.at + o) ELSE Cleared(s, o, a)

\* The last PROGRAM argument names the program that is linked.
Asked ==
  LET given == {i \in DOMAIN ld.args : ld.args[i][1] = "PROGRAM"}
  IN  \E i \in given : ld.args[i][2] = "prog" /\ \A j \in given : j <= i

BssHeader(s) == [type |-> "NOBITS", addr |-> DataAt(s) + s.data, size |-> s.bss]

Mapped == {"copy", "bss", "relocate", "entry", "running"}

LoaderTypes ==
  ld \in [at : {"args", "reader", "exit", "size", "mmap"} \cup Mapped, args : ArgLists, shape : Shapes,
          elf : {NoElf} \cup {Image(s) : s \in Shapes}, bss : {<<>>} \cup {<<BssHeader(s)>> : s \in Shapes},
          base : Int, memsz : Int, target : Int, block : SUBSET Int, jumped : SUBSET Int,
          mem : [0 .. MaxAddr -> {Stale} \cup {FileCell(n) : n \in Int} \cup {OwnWord(n) : n \in Int}]]

Chosen ==
  /\ ld.at = "reader" => ld.elf = IF Asked THEN Image(ld.shape) ELSE NoElf
  /\ ld.at = "exit" => ~Asked
  /\ ld.at \in {"size", "mmap"} \cup Mapped =>
       /\ Asked /\ ld.elf = Image(ld.shape)
       /\ ld.bss = IF ld.shape.bss > 0 THEN <<BssHeader(ld.shape)>> ELSE <<>>

\* The image in its block.
InBlock ==
  /\ ld.at \in {"mmap"} \cup Mapped =>
       /\ ld.base = BaseOf(ld.shape)
       /\ ld.memsz = DataAt(ld.shape) + ld.shape.data + ld.shape.bss - BaseOf(ld.shape)
  /\ ld.at \in Mapped =>
       /\ ld.target \in {PageCells, 2 * PageCells}
       /\ \E n \in Nat : ld.memsz <= n /\ ld.block = ld.target .. ld.target + n - 1

Loaded ==
  LET s == ld.shape
  IN  \A a \in 0 .. MaxAddr :
        ld.mem[a] = CASE ld.at = "bss" -> Copied(s, Diff, a)
                      [] ld.at = "relocate" -> Cleared(s, Diff, a)
                      [] ld.at \in {"entry", "running"} -> Linked(s, Diff, a)
                      [] OTHER -> Stale

LoaderInv ==
  /\ LoaderTypes /\ Chosen /\ InBlock /\ Loaded
  /\ ld.jumped = IF ld.at = "running" THEN {ld.shape.at + Diff} ELSE {}

LEMMA LoaderStarts == LoaderInit => LoaderInv
<1> SUFFICES ASSUME LoaderInit PROVE LoaderInv
  OBVIOUS
<1>1. PICK args \in ArgLists, s \in Shapes :
        ld = [at |-> "args", args |-> args, shape |-> s, elf |-> NoElf, bss |-> <<>>,
              base |-> 0, memsz |-> 0, target |-> 0, block |-> {}, jumped |-> {},
              mem |-> [a \in 0 .. MaxAddr |-> Stale]]
  BY DEF LoaderInit
<1> DEFINE V == {Stale} \cup {FileCell(n) : n \in Int} \cup {OwnWord(n) : n \in Int}
           M == [a \in 0 .. MaxAddr |-> Stale]
<1>2. M \in [0 .. MaxAddr -> V] /\ \A a \in 0 .. MaxAddr : M[a] = Stale
  <2>1. Stale \in V
    OBVIOUS
  <2> HIDE DEF V
  <2>2. QED BY <2>1
<1> HIDE DEF M
<1>3. ld.at = "args" /\ ld.jumped = {} /\ ld.mem = M
  BY <1>1 DEF M
<1>4. LoaderTypes
  <2> HIDE DEF V
  <2>1. ld = [at |-> "args", args |-> args, shape |-> s, elf |-> NoElf, bss |-> <<>>,
              base |-> 0, memsz |-> 0, target |-> 0, block |-> {}, jumped |-> {}, mem |-> M]
    BY <1>1 DEF M
  <2>2. QED BY <1>2, <2>1 DEF LoaderTypes, V
<1>5. QED BY <1>2, <1>3, <1>4 DEF LoaderInv, Chosen, InBlock, Loaded, Mapped

\* What the steps before the first write leave alone.
LEMMA BeforeWrites ==
  ASSUME LoaderInv, LoaderTypes', ld.at \in {"args", "reader", "size", "mmap"}, ld'.mem = ld.mem, ld'.jumped = ld.jumped,
         ld'.at \in {"reader", "exit", "size", "mmap", "copy"}
  PROVE  /\ Loaded'
         /\ ld'.jumped = IF ld'.at = "running" THEN {ld'.shape.at + Diff'} ELSE {}
<1>1. \A a \in 0 .. MaxAddr : ld.mem[a] = Stale
  BY DEF LoaderInv, Loaded
<1>2. ld'.jumped = {}
  BY DEF LoaderInv
<1>3. QED BY <1>1, <1>2 DEF Loaded

LEMMA ArgsStep ==
  ASSUME LoaderInv, resolve_args
  PROVE  LoaderInv'
<1> DEFINE programs == {i \in DOMAIN ld.args : ld.args[i][1] = "PROGRAM"}
           elf == IF programs = {} THEN NoElf ELSE resolve_elf_start(ld.args[Max(programs)][2])
<1>1. ld.at = "args" /\ ld' = [ld EXCEPT !.at = "reader", !.elf = elf]
  BY DEF resolve_args
<1>2. elf = IF Asked THEN Image(ld.shape) ELSE NoElf
  <2>1. DOMAIN ld.args \in SUBSET (0 .. 2)
    <3>1. ld.args \in ArgLists
      BY DEF LoaderInv, LoaderTypes
    <3>2. \A x \in ArgLists : DOMAIN x \in SUBSET (0 .. 2)
      BY DEF ArgLists
    <3>3. QED BY <3>1, <3>2
  <2>2. CASE programs = {}
    BY <2>2 DEF Asked
  <2>3. CASE programs # {}
    <3>1. programs \in SUBSET (0 .. 2)
      BY <2>1
    <3>2. Max(programs) \in programs /\ \A j \in programs : j <= Max(programs)
      <4> HIDE DEF programs
      <4>1. QED BY <2>3, <3>1, MaxOf
    <3>3. PICK m \in programs : m = Max(programs) /\ \A j \in programs : j <= m
      BY <3>2
    <3>4. Asked <=> ld.args[m][2] = "prog"
      <4>1. \A i \in programs : (\A j \in programs : j <= i) => i = m
        <5> HIDE DEF programs
        <5>1. QED BY <3>1, <3>3
      <4>2. Asked <=> \E i \in programs : ld.args[i][2] = "prog" /\ \A j \in programs : j <= i
        BY DEF Asked
      <4> HIDE DEF programs
      <4>3. QED BY <3>3, <4>1, <4>2
    <3>5. elf = resolve_elf_start(ld.args[m][2])
      BY <2>3, <3>3
    <3> HIDE DEF programs, elf
    <3>6. QED BY <3>4, <3>5 DEF resolve_elf_start
  <2>4. QED BY <2>2, <2>3
<1> HIDE DEF elf, programs
<1>3. /\ LoaderTypes' /\ ld'.at = "reader" /\ ld'.elf = elf /\ ld'.args = ld.args /\ ld'.shape = ld.shape
      /\ ld'.mem = ld.mem /\ ld'.jumped = ld.jumped
  <2>1. LoaderTypes /\ elf \in {NoElf} \cup {Image(s) : s \in Shapes}
    <3>1. LoaderTypes /\ ld.shape \in Shapes
      BY DEF LoaderInv, LoaderTypes
    <3>2. QED BY <1>2, <3>1
  <2>2. QED BY <1>1, <2>1 DEF LoaderTypes
<1>4. Asked' = Asked
  BY <1>3 DEF Asked
<1>5. Chosen' /\ InBlock'
  BY <1>2, <1>3, <1>4 DEF Chosen, InBlock, Mapped
<1>6. QED BY <1>1, <1>3, <1>5, BeforeWrites DEF LoaderInv

\* Sequences of one element put together.
LEMMA Joined ==
  ASSUME NEW t, NEW b, NEW d
  PROVE  /\ <<t>> \o <<b>> \o <<d>> = <<t, b, d>> /\ <<t>> \o <<>> \o <<d>> = <<t, d>>
         /\ <<t>> \o <<d>> = <<t, d>> /\ <<>> \o <<d>> = <<d>>
<1> DEFINE S == {t, b, d}
<1>1. /\ <<t>> \in Seq(S) /\ <<b>> \in Seq(S) /\ <<d>> \in Seq(S) /\ <<>> \in Seq(S)
      /\ <<t, b>> \in Seq(S) /\ <<t, d>> \in Seq(S) /\ <<t, b, d>> \in Seq(S)
  OBVIOUS
<1> HIDE DEF S
<1>2. ASSUME NEW x \in Seq(S), NEW y \in Seq(S), NEW z \in Seq(S), Len(z) = Len(x) + Len(y),
             \A i \in 1 .. Len(x) + Len(y) : z[i] = IF i <= Len(x) THEN x[i] ELSE y[i - Len(x)]
      PROVE  x \o y = z
  <2>1. /\ x \o y \in Seq(S) /\ Len(x \o y) = Len(x) + Len(y)
        /\ \A i \in 1 .. Len(x) + Len(y) : (x \o y)[i] = IF i <= Len(x) THEN x[i] ELSE y[i - Len(x)]
    BY ConcatProperties
  <2> DEFINE w == x \o y
  <2> HIDE DEF w
  <2>2. w \in Seq(S) /\ Len(w) = Len(z) /\ \A i \in 1 .. Len(w) : w[i] = z[i]
    BY <1>2, <2>1 DEF w
  <2>3. w = z
    BY <2>2, SeqEqual
  <2>4. QED BY <2>3 DEF w
<1>3. <<t>> \o <<b>> = <<t, b>> /\ <<t>> \o <<>> = <<t>> /\ <<t>> \o <<d>> = <<t, d>>
  <2>1. <<t>> \o <<b>> = <<t, b>>
    <3>1. \A i \in 1 .. Len(<<t>>) + Len(<<b>>) :
             <<t, b>>[i] = IF i <= Len(<<t>>) THEN <<t>>[i] ELSE <<b>>[i - Len(<<t>>)]
      OBVIOUS
    <3>2. Len(<<t, b>>) = Len(<<t>>) + Len(<<b>>)
      OBVIOUS
    <3>3. QED BY <1>1, <1>2, <3>1, <3>2
  <2>2. <<t>> \o <<>> = <<t>>
    BY <1>1, ConcatEmptySeq
  <2>3. <<t>> \o <<d>> = <<t, d>>
    <3>1. \A i \in 1 .. Len(<<t>>) + Len(<<d>>) :
             <<t, d>>[i] = IF i <= Len(<<t>>) THEN <<t>>[i] ELSE <<d>>[i - Len(<<t>>)]
      OBVIOUS
    <3>2. Len(<<t, d>>) = Len(<<t>>) + Len(<<d>>)
      OBVIOUS
    <3>3. QED BY <1>1, <1>2, <3>1, <3>2
  <2>4. QED BY <2>1, <2>2, <2>3
<1>4. <<t, b>> \o <<d>> = <<t, b, d>>
  <2>1. \A i \in 1 .. Len(<<t, b>>) + Len(<<d>>) :
           <<t, b, d>>[i] = IF i <= Len(<<t, b>>) THEN <<t, b>>[i] ELSE <<d>>[i - Len(<<t, b>>)]
    OBVIOUS
  <2>2. Len(<<t, b, d>>) = Len(<<t, b>>) + Len(<<d>>)
    OBVIOUS
  <2>3. QED BY <1>1, <1>2, <2>1, <2>2
<1>5. <<>> \o <<d>> = <<d>>
  BY <1>1, ConcatEmptySeq
<1>6. QED BY <1>3, <1>4, <1>5

LEMMA BssIs ==
  ASSUME NEW s \in Shapes
  PROVE  BssOf(Image(s).s_hdr_arr) = IF s.bss > 0 THEN <<BssHeader(s)>> ELSE <<>>
<1> DEFINE v == DataAt(s)
           t == [type |-> "PROGBITS", addr |-> s.at, size |-> s.text]
           b == [type |-> "NOBITS", addr |-> v + s.data, size |-> s.bss]
           d == [type |-> "DYNAMIC", addr |-> v, size |-> s.data]
           hs == Image(s).s_hdr_arr  N == {i \in DOMAIN hs : hs[i].type = "NOBITS"}
<1>1. t.type = "PROGBITS" /\ b.type = "NOBITS" /\ d.type = "DYNAMIC" /\ b = BssHeader(s)
  BY DEF BssHeader
<1>2. hs = <<t>> \o (IF s.bss > 0 THEN <<b>> ELSE <<>>) \o <<d>>
  BY DEF Image, ShdrsOf, DataAt
<1>3. BssOf(hs) = IF N = {} THEN <<>> ELSE <<hs[Max(N)]>>
  BY DEF BssOf
<1> HIDE DEF t, b, d, hs
<1>4. CASE s.bss > 0
  <2>1. hs = <<t, b, d>>
    <3>1. hs = <<t>> \o <<b>> \o <<d>>
      BY <1>2, <1>4
    <3>2. <<t>> \o <<b>> \o <<d>> = <<t, b, d>>
      BY Joined
    <3>3. QED BY <3>1, <3>2
  <2>2. N = {2} /\ hs[2] = b
    BY <1>1, <2>1
  <2>3. Max(N) = 2
    <3>1. N \in SUBSET (0 .. 2) /\ N # {}
      BY <2>2
    <3> HIDE DEF N
    <3>2. Max(N) \in N
      BY <3>1, MaxOf
    <3>3. QED BY <2>2, <3>2
  <2> HIDE DEF N
  <2>4. QED BY <1>1, <1>3, <1>4, <2>2, <2>3 DEF hs
<1>5. CASE ~(s.bss > 0)
  <2>1. hs = <<t, d>>
    <3>1. hs = <<t>> \o <<>> \o <<d>>
      BY <1>2, <1>5
    <3>2. <<t>> \o <<>> \o <<d>> = <<t, d>>
      BY Joined
    <3>3. QED BY <3>1, <3>2
  <2>2. N = {}
    BY <1>1, <2>1
  <2>3. QED BY <1>3, <1>5, <2>2 DEF hs
<1>6. QED BY <1>4, <1>5

LEMMA ReaderStep ==
  ASSUME LoaderInv, elf_reader_ctr
  PROVE  LoaderInv'
<1>1. ld.at = "reader" /\ ld.shape \in Shapes /\ LoaderTypes
  BY DEF LoaderInv, LoaderTypes, elf_reader_ctr
<1>2. ld.elf = IF Asked THEN Image(ld.shape) ELSE NoElf
  BY <1>1 DEF LoaderInv, Chosen
<1>3. ld.elf.ident <=> Asked
  BY <1>2 DEF Image, NoElf
<1> DEFINE bss == IF ld.shape.bss > 0 THEN <<BssHeader(ld.shape)>> ELSE <<>>
<1>4. ld' = IF Asked THEN [ld EXCEPT !.at = "size", !.bss = bss] ELSE [ld EXCEPT !.at = "exit"]
  BY <1>1, <1>2, <1>3, BssIs DEF elf_reader_ctr
<1>5. bss \in {<<>>} \cup {<<BssHeader(s)>> : s \in Shapes}
  BY <1>1
<1> HIDE DEF bss
<1>6. /\ LoaderTypes' /\ ld'.args = ld.args /\ ld'.shape = ld.shape /\ ld'.elf = ld.elf
      /\ ld'.mem = ld.mem /\ ld'.jumped = ld.jumped
      /\ (Asked => ld'.at = "size" /\ ld'.bss = bss) /\ (~Asked => ld'.at = "exit")
  <2>1. CASE Asked
    BY <1>1, <1>4, <1>5, <2>1 DEF LoaderTypes
  <2>2. CASE ~Asked
    BY <1>1, <1>4, <1>5, <2>2 DEF LoaderTypes
  <2>3. QED BY <2>1, <2>2
<1>7. Asked' = Asked
  BY <1>6 DEF Asked
<1>8. Chosen' /\ InBlock'
  <2>1. CASE Asked
    BY <1>2, <1>6, <1>7, <2>1 DEF Chosen, InBlock, Mapped, bss
  <2>2. CASE ~Asked
    BY <1>2, <1>6, <1>7, <2>2 DEF Chosen, InBlock, Mapped
  <2>3. QED BY <2>1, <2>2
<1>9. QED BY <1>1, <1>6, <1>8, BeforeWrites DEF LoaderInv

LEMMA SizeStep ==
  ASSUME LoaderInv, calc_mem_size
  PROVE  LoaderInv'
<1> DEFINE s == ld.shape  size == DataAt(s) + s.data + s.bss - BaseOf(s)
<1>1. ld.at = "size" /\ s \in Shapes /\ LoaderTypes
  BY DEF LoaderInv, LoaderTypes, calc_mem_size
<1>2. ld.elf = Image(s)
  BY <1>1 DEF LoaderInv, Chosen
<1>3. ld' = [ld EXCEPT !.at = "mmap", !.base = BaseOf(s), !.memsz = size]
  <2>1. PICK b, m : /\ ld' = [ld EXCEPT !.at = "mmap", !.base = b, !.memsz = m - b]
                    /\ b = BaseOf(s) /\ m = DataAt(s) + s.data + s.bss
    BY <1>1, <1>2, SizeIs DEF calc_mem_size
  <2>2. m - b = size
    <3>1. BaseOf(s) \in Nat /\ DataAt(s) \in Nat /\ s.data \in Nat /\ s.bss \in Nat
      BY <1>1, BaseIs, ShapeIs
    <3> HIDE DEF s
    <3>2. QED BY <2>1, <3>1
  <2>3. QED BY <2>1, <2>2
<1>4. BaseOf(s) \in Int /\ size \in Int
  BY <1>1, BaseIs
<1> HIDE DEF size, s
<1>5. /\ LoaderTypes' /\ ld'.at = "mmap" /\ ld'.base = BaseOf(s) /\ ld'.memsz = size /\ ld'.args = ld.args
      /\ ld'.shape = ld.shape /\ ld'.elf = ld.elf /\ ld'.bss = ld.bss
      /\ ld'.mem = ld.mem /\ ld'.jumped = ld.jumped
  BY <1>1, <1>3, <1>4 DEF LoaderTypes
<1>6. Asked' = Asked
  BY <1>5 DEF Asked
<1>7. Chosen'
  BY <1>1, <1>5, <1>6 DEF LoaderInv, Chosen, Mapped
<1>8. InBlock'
  BY <1>5 DEF InBlock, Mapped, size, s
<1>9. QED BY <1>1, <1>5, <1>7, <1>8, BeforeWrites DEF LoaderInv

LEMMA MmapStep ==
  ASSUME LoaderInv, ke_mmap, ~MmapFails
  PROVE  LoaderInv'
<1> DEFINE s == ld.shape
           n == PageCells * 2 ^ Min({k \in 0 .. LargestLvl : ld.memsz <= PageCells * 2 ^ k})
<1>1. ld.at = "mmap" /\ s \in Shapes /\ LoaderTypes /\ PageCells \in Nat
  BY LoaderAssumption DEF LoaderInv, LoaderTypes, ke_mmap
<1>2. ld.memsz \in Nat /\ ld.memsz <= ImageCells
  <2>1. ld.memsz = DataAt(s) + s.data + s.bss - BaseOf(s)
    BY <1>1 DEF LoaderInv, InBlock
  <2>2. QED BY <1>1, <2>1, BaseIs
<1>3. n \in Nat /\ ld.memsz <= n
  <2>1. PICK m \in Nat : m = ld.memsz /\ m <= ImageCells
    BY <1>2
  <2>2. QED BY <2>1, BlockIs
<1>4. PICK t \in {PageCells, 2 * PageCells} :
        ld' = [ld EXCEPT !.at = "copy", !.target = t, !.block = t .. t + n - 1]
  BY DEF ke_mmap
<1>5. t \in Int /\ t .. t + n - 1 \in SUBSET Int
  BY <1>1, <1>4
<1> DEFINE block == t .. t + n - 1
<1>6. ld' = [ld EXCEPT !.at = "copy", !.target = t, !.block = block]
  BY <1>4
<1> HIDE DEF n, block, s
<1>7. /\ LoaderTypes' /\ ld'.at = "copy" /\ ld'.base = ld.base /\ ld'.memsz = ld.memsz /\ ld'.args = ld.args
      /\ ld'.shape = ld.shape /\ ld'.elf = ld.elf /\ ld'.bss = ld.bss /\ ld'.target = t /\ ld'.block = block
      /\ ld'.mem = ld.mem /\ ld'.jumped = ld.jumped
  <2>1. block \in SUBSET Int
    BY <1>5 DEF block
  <2>2. QED BY <1>1, <1>5, <1>6, <2>1 DEF LoaderTypes, Mapped
<1>8. Asked' = Asked
  BY <1>7 DEF Asked
<1>9. Chosen'
  BY <1>1, <1>7, <1>8 DEF LoaderInv, Chosen
<1>10. InBlock'
  <2>1. /\ ld.base = BaseOf(ld.shape)
        /\ ld.memsz = DataAt(ld.shape) + ld.shape.data + ld.shape.bss - BaseOf(ld.shape)
    BY <1>1 DEF LoaderInv, InBlock
  <2>2. \E k \in Nat : ld'.memsz <= k /\ ld'.block = ld'.target .. ld'.target + k - 1
    BY <1>3, <1>7 DEF block
  <2>3. QED BY <1>4, <1>7, <2>1, <2>2 DEF InBlock
<1>11. QED BY <1>1, <1>7, <1>9, <1>10, BeforeWrites DEF LoaderInv

\* Where an image lies in memory.
LEMMA MovedIs ==
  ASSUME LoaderInv, ld.at \in Mapped
  PROVE  LET s == ld.shape
         IN  /\ s \in Shapes /\ Diff \in Int /\ s.at + Diff \in Nat /\ DataAt(s) + Diff \in Nat
             /\ s.at + Diff >= ld.target /\ DataAt(s) + Diff = s.at + Diff + s.text + s.gap
             /\ DataAt(s) + Diff + s.data + s.bss <= ld.target + ld.memsz
             /\ ld.target + ld.memsz <= MaxAddr
             /\ \A a \in Int : a >= ld.target /\ a < ld.target + ld.memsz => a \in 0 .. MaxAddr /\ a \in ld.block
<1> DEFINE s == ld.shape
<1>1. /\ s \in Shapes /\ ld.base = BaseOf(s) /\ ld.memsz = DataAt(s) + s.data + s.bss - BaseOf(s)
      /\ ld.target \in {PageCells, 2 * PageCells}
  BY DEF LoaderInv, LoaderTypes, InBlock
<1>2. PICK n \in Nat : ld.memsz <= n /\ ld.block = ld.target .. ld.target + n - 1
  BY DEF LoaderInv, InBlock
<1>3. PageCells \in Nat /\ ImageCells \in Nat
  BY LoaderAssumption DEF ImageCells
<1>4. Diff = ld.target - BaseOf(s)
  BY <1>1 DEF Diff
<1>5. PICK t \in Nat : t = ld.target /\ t <= 2 * PageCells
  BY <1>1, <1>3
<1>6. PICK m \in Nat : m = ld.memsz /\ m <= ImageCells
  BY <1>1, BaseIs
<1>7. PICK b \in Nat : b = BaseOf(s) /\ b <= s.at
  BY <1>1, BaseIs
<1>8. /\ s.at \in Nat /\ s.text \in Nat /\ s.gap \in Nat /\ s.data \in Nat /\ s.bss \in Nat
      /\ DataAt(s) = s.at + s.text + s.gap
  BY <1>1, ShapeIs DEF DataAt
<1>9. m = DataAt(s) + s.data + s.bss - b
  BY <1>1, <1>6, <1>7
<1>10. Diff = t - b
  BY <1>4, <1>5, <1>7
<1> HIDE DEF s
<1>11. t + m <= MaxAddr
  BY <1>3, <1>5, <1>6 DEF MaxAddr
<1>12. /\ Diff \in Int /\ s.at + Diff \in Nat /\ DataAt(s) + Diff \in Nat
       /\ s.at + Diff >= t /\ DataAt(s) + Diff = s.at + Diff + s.text + s.gap
       /\ DataAt(s) + Diff + s.data + s.bss <= t + m
  BY <1>7, <1>8, <1>9, <1>10
<1>13. \A a \in Int : a >= t /\ a < t + m => a \in 0 .. MaxAddr /\ a \in ld.block
  <2>1. MaxAddr \in Nat
    BY <1>3 DEF MaxAddr
  <2>2. ASSUME NEW a \in Int, a >= t, a < t + m
        PROVE  a \in 0 .. MaxAddr
    BY <1>5, <1>6, <1>11, <2>1, <2>2
  <2>3. ASSUME NEW a \in Int, a >= t, a < t + m
        PROVE  a \in ld.block
    <3>1. a \in t .. t + n - 1
      BY <1>2, <1>5, <1>6, <2>3
    <3>2. QED BY <1>2, <1>5, <3>1
  <2>4. QED BY <2>2, <2>3
<1>14. ld.target + ld.memsz = t + m /\ ld.target = t
  BY <1>5, <1>6
<1>15. QED
  <2> HIDE DEF Diff
  <2>1. QED BY <1>1, <1>11, <1>12, <1>13, <1>14 DEF s

\* What the steps that write to the block leave alone.
LEMMA Rewritten ==
  ASSUME LoaderInv, ld.at \in Mapped, LoaderTypes', ld'.at \in Mapped, ld'.base = ld.base, ld'.memsz = ld.memsz,
         ld'.args = ld.args, ld'.shape = ld.shape, ld'.elf = ld.elf, ld'.bss = ld.bss, ld'.target = ld.target,
         ld'.block = ld.block
  PROVE  Chosen' /\ InBlock' /\ Diff' = Diff
<1>1. Chosen /\ InBlock
  BY DEF LoaderInv
<1>2. Asked' = Asked
  BY DEF Asked
<1>3. Chosen'
  <2>1. Asked /\ ld.elf = Image(ld.shape) /\ ld.bss = IF ld.shape.bss > 0 THEN <<BssHeader(ld.shape)>> ELSE <<>>
    BY <1>1 DEF Chosen
  <2>2. QED BY <1>2, <2>1 DEF Chosen, Mapped
<1>4. InBlock'
  BY <1>1 DEF InBlock
<1>5. Diff' = Diff
  BY DEF Diff
<1>6. QED BY <1>3, <1>4, <1>5

LEMMA CopyStep ==
  ASSUME LoaderInv, memcpy_prog_hdr
  PROVE  LoaderInv'
<1> DEFINE s == ld.shape  o == Diff
           loads == PhdrsOfType({"LOAD"})
           In(a, h) == a \in h.vaddr + o .. h.vaddr + o + h.filesz - 1
           From(a) == LET h == CHOOSE h \in loads : In(a, h) IN FileCell(h.offset + a - (h.vaddr + o))
           W == {b \in DOMAIN ld.mem : \E h \in loads : In(b, h)}
           f == [a \in W |-> From(a)]
           V == {Stale} \cup {FileCell(k) : k \in Int} \cup {OwnWord(k) : k \in Int}
           m == [a \in 0 .. MaxAddr |-> Copied(s, o, a)]
<1>1. /\ ld.at = "copy" /\ s \in Shapes /\ LoaderTypes /\ ld.elf = Image(s) /\ DOMAIN ld.mem = 0 .. MaxAddr
      /\ \A a \in 0 .. MaxAddr : ld.mem[a] = Stale
      /\ ld' = [ld EXCEPT !.at = "bss", !.mem = Written(f)]
  BY DEF LoaderInv, LoaderTypes, Chosen, Loaded, Mapped, memcpy_prog_hdr
<1>2. /\ o \in Int /\ s.at + o \in Nat /\ DataAt(s) + o \in Nat /\ DataAt(s) + o = s.at + o + s.text + s.gap
      /\ s.text \in Nat /\ s.gap \in Nat /\ s.data \in Nat /\ s.at \in Nat /\ DataAt(s) \in Nat
  BY <1>1, MovedIs, ShapeIs, BaseIs DEF Mapped
<1>3. PICK t, d :
        /\ loads = {t, d} /\ t.vaddr = s.at /\ t.filesz = s.text /\ t.offset = 0
        /\ d.vaddr = DataAt(s) /\ d.filesz = s.data /\ d.offset = s.text
  BY <1>1, HeadersAre
<1>4. ASSUME NEW a \in 0 .. MaxAddr
      PROVE  Written(f)[a] = Copied(s, o, a) /\ Copied(s, o, a) \in V
  <2>1. a \in Int
    <3>1. MaxAddr \in Int
      BY LoaderAssumption DEF MaxAddr, ImageCells
    <3>2. QED BY <3>1
  <2>2. In(a, t) <=> a \in s.at + o .. s.at + o + s.text - 1
    BY <1>3
  <2>3. In(a, d) <=> a \in DataAt(s) + o .. DataAt(s) + o + s.data - 1
    BY <1>3
  <2>4. Written(f)[a] = IF a \in W THEN f[a] ELSE Stale
    <3> HIDE DEF W
    <3>1. QED BY <1>1 DEF Written
  <2>5. a \in W <=> In(a, t) \/ In(a, d)
    <3> HIDE DEF In
    <3>1. QED BY <1>1, <1>3
  <2>6. ~(In(a, t) /\ In(a, d))
    <3> HIDE DEF In, s, o
    <3>1. QED BY <1>2, <2>1, <2>2, <2>3
  <2>7. a \in W => f[a] = From(a)
    <3> HIDE DEF From, W
    <3>1. QED OBVIOUS
  <2>8. CASE In(a, t)
    <3>1. (CHOOSE h \in loads : In(a, h)) = t
      <4> HIDE DEF In, loads
      <4>1. QED BY <1>3, <2>6, <2>8
    <3>2. From(a) = FileCell(0 + a - (s.at + o))
      <4> HIDE DEF In, loads
      <4>1. QED BY <1>3, <3>1
    <3>3. 0 + a - (s.at + o) = a - (s.at + o) /\ a - (s.at + o) \in Int
      <4> HIDE DEF s, o
      <4>1. QED BY <1>2, <2>1
    <3>4. Copied(s, o, a) = FileCell(a - (s.at + o))
      BY <2>2, <2>8 DEF Copied
    <3> HIDE DEF In, W, f, From, s, o
    <3>5. QED BY <2>4, <2>5, <2>7, <2>8, <3>2, <3>3, <3>4
  <2>9. CASE In(a, d)
    <3>1. (CHOOSE h \in loads : In(a, h)) = d
      <4> HIDE DEF In, loads
      <4>1. QED BY <1>3, <2>6, <2>9
    <3>2. From(a) = FileCell(s.text + a - (DataAt(s) + o))
      <4> HIDE DEF In, loads
      <4>1. QED BY <1>3, <3>1
    <3>3. s.text + a - (DataAt(s) + o) \in Int
      <4> HIDE DEF s, o
      <4>1. QED BY <1>2, <2>1
    <3>4. Copied(s, o, a) = FileCell(s.text + a - (DataAt(s) + o))
      BY <2>2, <2>3, <2>6, <2>9 DEF Copied
    <3> HIDE DEF In, W, f, From, s, o
    <3>5. QED BY <2>4, <2>5, <2>7, <2>9, <3>2, <3>3, <3>4
  <2>10. CASE ~In(a, t) /\ ~In(a, d)
    <3>1. Copied(s, o, a) = Stale
      BY <2>2, <2>3, <2>10 DEF Copied
    <3> HIDE DEF In, W, f, From, s, o
    <3>2. QED BY <2>4, <2>5, <2>10, <3>1
  <2>11. QED BY <2>8, <2>9, <2>10
<1>5. Written(f) = m /\ m \in [0 .. MaxAddr -> V]
  <2>1. Written(f) = [a \in 0 .. MaxAddr |-> Written(f)[a]]
    <3> HIDE DEF f
    <3>1. QED BY <1>1 DEF Written
  <2> HIDE DEF f, V, s, o
  <2>2. QED BY <1>4, <2>1
<1> HIDE DEF f, m, s, o
<1>6. ld' = [ld EXCEPT !.at = "bss", !.mem = m]
  BY <1>1, <1>5
<1> HIDE DEF V
<1>7. /\ LoaderTypes' /\ ld'.at = "bss" /\ ld'.base = ld.base /\ ld'.memsz = ld.memsz /\ ld'.args = ld.args
      /\ ld'.shape = ld.shape /\ ld'.elf = ld.elf /\ ld'.bss = ld.bss /\ ld'.target = ld.target
      /\ ld'.block = ld.block /\ ld'.mem = m /\ ld'.jumped = ld.jumped
  <2>1. ld'.at = "bss" /\ ld'.mem = m
    BY <1>1, <1>6 DEF LoaderTypes
  <2>2. /\ ld'.base = ld.base /\ ld'.memsz = ld.memsz /\ ld'.args = ld.args /\ ld'.shape = ld.shape
        /\ ld'.elf = ld.elf /\ ld'.bss = ld.bss /\ ld'.target = ld.target /\ ld'.block = ld.block
        /\ ld'.jumped = ld.jumped
    BY <1>1, <1>6 DEF LoaderTypes
  <2>3. LoaderTypes'
    BY <1>1, <1>5, <1>6 DEF LoaderTypes, Mapped, V
  <2>4. QED BY <2>1, <2>2, <2>3
<1>8. Chosen' /\ InBlock' /\ Diff' = Diff
  BY <1>1, <1>7, Rewritten DEF Mapped
<1>9. Loaded'
  <2>1. \A a \in 0 .. MaxAddr : ld'.mem[a] = Copied(ld'.shape, Diff', a)
    BY <1>7, <1>8 DEF m, s, o
  <2>2. QED BY <1>7, <2>1 DEF Loaded
<1>10. ld'.jumped = {}
  BY <1>1, <1>7 DEF LoaderInv
<1>11. QED BY <1>7, <1>8, <1>9, <1>10 DEF LoaderInv

LEMMA ClearStep ==
  ASSUME LoaderInv, clear_bss
  PROVE  LoaderInv'
<1> DEFINE s == ld.shape  o == Diff
           V == {Stale} \cup {FileCell(k) : k \in Int} \cup {OwnWord(k) : k \in Int}
           m == [a \in 0 .. MaxAddr |-> Cleared(s, o, a)]
<1>1. /\ ld.at = "bss" /\ s \in Shapes /\ LoaderTypes /\ DOMAIN ld.mem = 0 .. MaxAddr
      /\ ld.mem \in [0 .. MaxAddr -> V]
      /\ ld.bss = IF s.bss > 0 THEN <<BssHeader(s)>> ELSE <<>>
      /\ \A a \in 0 .. MaxAddr : ld.mem[a] = Copied(s, o, a)
  BY DEF LoaderInv, LoaderTypes, Chosen, Loaded, Mapped, clear_bss
<1>2. o \in Int /\ DataAt(s) + o \in Nat /\ s.data \in Nat /\ s.bss \in Nat /\ DataAt(s) \in Nat
  BY <1>1, MovedIs, ShapeIs, BaseIs DEF Mapped
<1>3. PICK M : /\ ld' = [ld EXCEPT !.at = "relocate", !.mem = M]
               /\ M = IF ld.bss = <<>> THEN ld.mem
                      ELSE LET to == ld.bss[1].addr + o
                           IN  Written([a \in to .. to + ld.bss[1].size - 1 |-> OwnWord(0)])
  BY DEF clear_bss
<1>4. M = m /\ m \in [0 .. MaxAddr -> V]
  <2>1. CASE s.bss > 0
    <3> DEFINE to == DataAt(s) + s.data + o  f == [a \in to .. to + s.bss - 1 |-> OwnWord(0)]
    <3>1. ld.bss # <<>> /\ ld.bss[1].addr = DataAt(s) + s.data /\ ld.bss[1].size = s.bss
      <4>1. ld.bss = <<BssHeader(s)>>
        BY <1>1, <2>1
      <4>2. BssHeader(s).addr = DataAt(s) + s.data /\ BssHeader(s).size = s.bss
        BY DEF BssHeader
      <4>3. QED BY <4>1, <4>2
    <3>2. M = Written(f)
      BY <1>3, <3>1
    <3>3. ASSUME NEW a \in 0 .. MaxAddr
          PROVE  Written(f)[a] = Cleared(s, o, a) /\ Cleared(s, o, a) \in V
      <4>1. ld.mem[a] \in V /\ OwnWord(0) \in V
        <5>1. OwnWord(0) \in V
          OBVIOUS
        <5> HIDE DEF V
        <5>2. QED BY <1>1, <5>1
      <4>2. Written(f)[a] = IF a \in to .. to + s.bss - 1 THEN OwnWord(0) ELSE ld.mem[a]
        BY <1>1 DEF Written
      <4>3. Cleared(s, o, a) = IF a \in to .. to + s.bss - 1 THEN OwnWord(0) ELSE Copied(s, o, a)
        BY DEF Cleared
      <4> HIDE DEF V, f, to, s, o
      <4>4. QED BY <1>1, <4>1, <4>2, <4>3
    <3>4. Written(f) = [a \in 0 .. MaxAddr |-> Written(f)[a]]
      <4> HIDE DEF f
      <4>1. QED BY <1>1 DEF Written
    <3> HIDE DEF f, V, s, o
    <3>5. QED BY <3>2, <3>3, <3>4
  <2>2. CASE ~(s.bss > 0)
    <3>1. M = ld.mem
      BY <1>1, <1>3, <2>2
    <3>2. ASSUME NEW a \in 0 .. MaxAddr
          PROVE  Cleared(s, o, a) = ld.mem[a]
      <4>1. a \notin DataAt(s) + s.data + o .. DataAt(s) + s.data + o + s.bss - 1
        <5> HIDE DEF s, o
        <5>1. s.bss = 0
          BY <1>2, <2>2
        <5>2. QED BY <1>2, <5>1
      <4>2. QED BY <1>1, <4>1 DEF Cleared
    <3> HIDE DEF V, s, o
    <3>3. ld.mem = [a \in 0 .. MaxAddr |-> ld.mem[a]]
      BY <1>1
    <3>4. QED BY <1>1, <3>1, <3>2, <3>3
  <2>3. QED BY <2>1, <2>2
<1> HIDE DEF m, s, o
<1>5. /\ LoaderTypes' /\ ld'.at = "relocate" /\ ld'.base = ld.base /\ ld'.memsz = ld.memsz /\ ld'.args = ld.args
      /\ ld'.shape = ld.shape /\ ld'.elf = ld.elf /\ ld'.bss = ld.bss /\ ld'.target = ld.target
      /\ ld'.block = ld.block /\ ld'.mem = m /\ ld'.jumped = ld.jumped
  BY <1>1, <1>3, <1>4 DEF LoaderTypes, Mapped
<1>6. Chosen' /\ InBlock' /\ Diff' = Diff
  BY <1>1, <1>5, Rewritten DEF Mapped
<1>7. Loaded'
  <2>1. \A a \in 0 .. MaxAddr : ld'.mem[a] = Cleared(ld'.shape, Diff', a)
    BY <1>5, <1>6 DEF m, s, o
  <2>2. QED BY <1>5, <2>1 DEF Loaded
<1>8. ld'.jumped = {}
  BY <1>1, <1>5 DEF LoaderInv
<1>9. QED BY <1>5, <1>6, <1>7, <1>8 DEF LoaderInv

\* The relocations the loader applies.
LEMMA RelocationsAre ==
  ASSUME NEW s \in Shapes, ld.elf = Image(s)
  PROVE  LET rs == {r \in Range(ld.elf.rela_arr) : r.type = "RELATIV"}
         IN  IF s.data > 0 THEN \E r : rs = {r} /\ r.offset = DataAt(s) /\ r.addend = s.at ELSE rs = {}
<1> DEFINE x == [type |-> "RELATIV", offset |-> DataAt(s), addend |-> s.at]
           y == [type |-> "OTHER", offset |-> s.at, addend |-> 0]
           rela == ld.elf.rela_arr
<1>1. x.type = "RELATIV" /\ x.offset = DataAt(s) /\ x.addend = s.at /\ y.type = "OTHER"
  OBVIOUS
<1>2. rela = (IF s.data > 0 THEN <<x>> ELSE <<>>) \o <<y>>
  BY DEF Image, RelasOf, DataAt
<1> HIDE DEF x, y, rela
<1>3. CASE s.data > 0
  <2>1. <<x>> \o <<y>> = <<x, y>>
    BY Joined
  <2>2. rela = <<x, y>>
    BY <1>2, <1>3, <2>1
  <2>3. Range(rela) = {x, y}
    BY <2>2 DEF Range
  <2>4. QED BY <1>1, <1>3, <2>3 DEF rela
<1>4. CASE ~(s.data > 0)
  <2>1. <<>> \o <<y>> = <<y>>
    BY Joined
  <2>2. rela = <<y>>
    BY <1>2, <1>4, <2>1
  <2>3. Range(rela) = {y}
    BY <2>2 DEF Range
  <2>4. QED BY <1>1, <1>4, <2>3 DEF rela
<1>5. QED BY <1>3, <1>4

LEMMA RelocateStep ==
  ASSUME LoaderInv, apply_relocations
  PROVE  LoaderInv'
<1> DEFINE s == ld.shape  o == Diff
           rs == {r \in Range(ld.elf.rela_arr) : r.type = "RELATIV"}
           f == [a \in {r.offset + o : r \in rs} |-> OwnWord((CHOOSE r \in rs : r.offset + o = a).addend + o)]
           V == {Stale} \cup {FileCell(k) : k \in Int} \cup {OwnWord(k) : k \in Int}
           m == [a \in 0 .. MaxAddr |-> Linked(s, o, a)]
<1>1. /\ ld.at = "relocate" /\ s \in Shapes /\ LoaderTypes /\ ld.elf = Image(s) /\ DOMAIN ld.mem = 0 .. MaxAddr
      /\ ld.mem \in [0 .. MaxAddr -> V]
      /\ \A a \in 0 .. MaxAddr : ld.mem[a] = Cleared(s, o, a)
      /\ ld' = [ld EXCEPT !.at = "entry", !.mem = Written(f)]
  BY DEF LoaderInv, LoaderTypes, Chosen, Loaded, Mapped, apply_relocations
<1>2. o \in Int /\ s.at + o \in Int
  BY <1>1, MovedIs DEF Mapped
<1>3. ASSUME NEW a \in 0 .. MaxAddr
      PROVE  Written(f)[a] = Linked(s, o, a) /\ Linked(s, o, a) \in V
  <2>1. ld.mem[a] \in V /\ OwnWord(s.at + o) \in V
    BY <1>1, <1>2
  <2>2. Written(f)[a] = IF a \in DOMAIN f THEN f[a] ELSE ld.mem[a]
    <3> HIDE DEF f
    <3>1. QED BY <1>1 DEF Written
  <2>3. CASE s.data > 0
    <3>1. PICK r : rs = {r} /\ r.offset = DataAt(s) /\ r.addend = s.at
      BY <1>1, <2>3, RelocationsAre
    <3>2. DOMAIN f = {r.offset + o}
      <4>1. DOMAIN f = {x.offset + o : x \in rs}
        OBVIOUS
      <4> HIDE DEF rs, f
      <4>2. QED BY <3>1, <4>1
    <3>3. a \in DOMAIN f => f[a] = OwnWord(s.at + o)
      <4>1. a \in DOMAIN f => f[a] = OwnWord((CHOOSE x \in rs : x.offset + o = a).addend + o)
        OBVIOUS
      <4> HIDE DEF rs, f
      <4>2. a \in DOMAIN f => (CHOOSE x \in rs : x.offset + o = a) = r
        BY <3>1, <3>2
      <4>3. QED BY <3>1, <4>1, <4>2
    <3> HIDE DEF f, rs, V, s, o
    <3>4. QED BY <1>1, <2>1, <2>2, <2>3, <3>1, <3>2, <3>3 DEF Linked
  <2>4. CASE ~(s.data > 0)
    <3>1. rs = {}
      BY <1>1, <2>4, RelocationsAre
    <3>2. DOMAIN f = {}
      <4>1. DOMAIN f = {x.offset + o : x \in rs}
        OBVIOUS
      <4> HIDE DEF rs, f
      <4>2. QED BY <3>1, <4>1
    <3> HIDE DEF f, rs, V, s, o
    <3>3. QED BY <1>1, <2>1, <2>2, <2>4, <3>2 DEF Linked
  <2>5. QED BY <2>3, <2>4
<1>4. Written(f) = m /\ m \in [0 .. MaxAddr -> V]
  <2>1. Written(f) = [a \in 0 .. MaxAddr |-> Written(f)[a]]
    <3> HIDE DEF f
    <3>1. QED BY <1>1 DEF Written
  <2> HIDE DEF f, V, s, o
  <2>2. QED BY <1>3, <2>1
<1> HIDE DEF f, m, s, o
<1>5. /\ LoaderTypes' /\ ld'.at = "entry" /\ ld'.base = ld.base /\ ld'.memsz = ld.memsz /\ ld'.args = ld.args
      /\ ld'.shape = ld.shape /\ ld'.elf = ld.elf /\ ld'.bss = ld.bss /\ ld'.target = ld.target
      /\ ld'.block = ld.block /\ ld'.mem = m /\ ld'.jumped = ld.jumped
  BY <1>1, <1>4 DEF LoaderTypes, Mapped
<1>6. Chosen' /\ InBlock' /\ Diff' = Diff
  BY <1>1, <1>5, Rewritten DEF Mapped
<1>7. Loaded'
  <2>1. \A a \in 0 .. MaxAddr : ld'.mem[a] = Linked(ld'.shape, Diff', a)
    BY <1>5, <1>6 DEF m, s, o
  <2>2. QED BY <1>5, <2>1 DEF Loaded
<1>8. ld'.jumped = {}
  BY <1>1, <1>5 DEF LoaderInv
<1>9. QED BY <1>5, <1>6, <1>7, <1>8 DEF LoaderInv

LEMMA EnterStep ==
  ASSUME LoaderInv, EnterProgram
  PROVE  LoaderInv'
<1> DEFINE s == ld.shape  o == Diff
<1>1. /\ ld.at = "entry" /\ s \in Shapes /\ LoaderTypes /\ ld.elf = Image(s)
      /\ \A a \in 0 .. MaxAddr : ld.mem[a] = Linked(s, o, a)
      /\ ld' = [ld EXCEPT !.at = "running", !.jumped = {ld.elf.entry + Diff}]
  BY DEF LoaderInv, LoaderTypes, Chosen, Loaded, Mapped, EnterProgram
<1>2. ld.elf.entry = s.at
  BY <1>1 DEF Image
<1> DEFINE entry == s.at + o
<1>3. {entry} \in SUBSET Int
  <2>1. entry \in Nat
    BY <1>1, MovedIs DEF Mapped
  <2> HIDE DEF entry
  <2>2. QED BY <2>1
<1>4. ld' = [ld EXCEPT !.at = "running", !.jumped = {entry}]
  BY <1>1, <1>2
<1> HIDE DEF entry, s, o
<1>5. /\ LoaderTypes' /\ ld'.at = "running" /\ ld'.base = ld.base /\ ld'.memsz = ld.memsz /\ ld'.args = ld.args
      /\ ld'.shape = ld.shape /\ ld'.elf = ld.elf /\ ld'.bss = ld.bss /\ ld'.target = ld.target
      /\ ld'.block = ld.block /\ ld'.mem = ld.mem /\ ld'.jumped = {entry}
  <2>1. ld'.at = "running" /\ ld'.jumped = {entry}
    BY <1>1, <1>4 DEF LoaderTypes
  <2>2. /\ ld'.base = ld.base /\ ld'.memsz = ld.memsz /\ ld'.args = ld.args /\ ld'.shape = ld.shape
        /\ ld'.elf = ld.elf /\ ld'.bss = ld.bss /\ ld'.target = ld.target /\ ld'.block = ld.block
        /\ ld'.mem = ld.mem
    BY <1>1, <1>4 DEF LoaderTypes
  <2>3. LoaderTypes'
    BY <1>1, <1>3, <1>4 DEF LoaderTypes, Mapped
  <2>4. QED BY <2>1, <2>2, <2>3
<1>6. Chosen' /\ InBlock' /\ Diff' = Diff
  BY <1>1, <1>5, Rewritten DEF Mapped
<1>7. Loaded'
  <2>1. \A a \in 0 .. MaxAddr : ld'.mem[a] = Linked(ld'.shape, Diff', a)
    BY <1>1, <1>5, <1>6 DEF s, o
  <2>2. QED BY <1>5, <2>1 DEF Loaded
<1>8. ld'.jumped = {ld'.shape.at + Diff'}
  BY <1>5, <1>6 DEF entry, s, o
<1>9. QED BY <1>5, <1>6, <1>7, <1>8 DEF LoaderInv

LEMMA LoaderSteps ==
  ASSUME LoaderInv, [LoaderNext]_loadervars, ~MmapFails
  PROVE  LoaderInv'
<1>1. CASE resolve_args
  BY <1>1, ArgsStep
<1>2. CASE elf_reader_ctr
  BY <1>2, ReaderStep
<1>3. CASE calc_mem_size
  BY <1>3, SizeStep
<1>4. CASE ke_mmap
  BY <1>4, MmapStep
<1>5. CASE memcpy_prog_hdr
  BY <1>5, CopyStep
<1>6. CASE clear_bss
  BY <1>6, ClearStep
<1>7. CASE apply_relocations
  BY <1>7, RelocateStep
<1>8. CASE EnterProgram
  BY <1>8, EnterStep
<1>9. CASE UNCHANGED loadervars
  <2>1. ld' = ld
    BY <1>9 DEF loadervars
  <2>2. LoaderTypes'
    BY <2>1 DEF LoaderInv, LoaderTypes
  <2>3. Chosen' /\ InBlock'
    <3>1. Asked' = Asked
      BY <2>1 DEF Asked
    <3>2. QED BY <2>1, <3>1 DEF LoaderInv, Chosen, InBlock
  <2>4. Diff' = Diff
    BY <2>1 DEF Diff
  <2>5. Loaded'
    BY <2>1, <2>4 DEF LoaderInv, Loaded
  <2>6. QED BY <2>1, <2>2, <2>3, <2>4, <2>5 DEF LoaderInv
<1>10. QED BY <1>1, <1>2, <1>3, <1>4, <1>5, <1>6, <1>7, <1>8, <1>9 DEF LoaderNext

-----------------------------------------------------------------------------
(* What it implies.                                                        *)

LEMMA WritesAre ==
  ASSUME LoaderInv
  PROVE  WritesInsideBlock
<1> DEFINE s == ld.shape  o == Diff
<1>1. SUFFICES ASSUME NEW a \in DOMAIN ld.mem, ld.mem[a] # Stale
               PROVE  a \in ld.block
  BY DEF WritesInsideBlock
<1>2. a \in 0 .. MaxAddr /\ a \in Int
  <2>1. MaxAddr \in Int
    BY LoaderAssumption DEF MaxAddr, ImageCells
  <2>2. QED BY <1>1, <2>1 DEF LoaderInv, LoaderTypes
<1>3. ld.at \in Mapped
  BY <1>1, <1>2 DEF LoaderInv, Loaded, Mapped
<1>4. /\ s \in Shapes /\ o \in Int /\ s.at + o \in Nat /\ DataAt(s) + o \in Nat
      /\ s.at + o >= ld.target /\ DataAt(s) + o = s.at + o + s.text + s.gap
      /\ DataAt(s) + o + s.data + s.bss <= ld.target + ld.memsz
      /\ (a >= ld.target /\ a < ld.target + ld.memsz => a \in ld.block)
  BY <1>2, <1>3, MovedIs
<1>5. /\ s.text \in Nat /\ s.gap \in Nat /\ s.data \in Nat /\ s.bss \in Nat /\ s.at \in Nat /\ DataAt(s) \in Nat
      /\ s.text > 0
  BY <1>4, ShapeIs, BaseIs
<1>6. ld.target \in Int /\ ld.memsz \in Int
  BY DEF LoaderInv, LoaderTypes
<1>7. Linked(s, o, a) # Stale \/ Cleared(s, o, a) # Stale \/ Copied(s, o, a) # Stale
  BY <1>1, <1>2 DEF LoaderInv, Loaded
<1>8. \/ a \in s.at + o .. s.at + o + s.text - 1
      \/ a \in DataAt(s) + o .. DataAt(s) + o + s.data - 1
      \/ a \in DataAt(s) + s.data + o .. DataAt(s) + s.data + o + s.bss - 1
      \/ s.data > 0 /\ a = DataAt(s) + o
  BY <1>7 DEF Linked, Cleared, Copied
<1> HIDE DEF s, o
<1>9. a >= s.at + o /\ a < DataAt(s) + o + s.data + s.bss
  BY <1>2, <1>4, <1>5, <1>8
<1>10. QED BY <1>2, <1>4, <1>5, <1>6, <1>9

LEMMA LaidOut ==
  ASSUME LoaderInv
  PROVE  ProgramAsLinked
<1> DEFINE s == ld.shape  o == Diff  e == s.at + o  v == s.at + s.text + s.gap + o
<1>1. SUFFICES ASSUME NEW entry \in ld.jumped
               PROVE  /\ entry \in ld.block /\ ld.mem[entry] = FileCell(0)
                      /\ \A i \in 0 .. s.text - 1 : ld.mem[entry + i] = FileCell(i)
                      /\ \A i \in 0 .. s.data - 1 :
                           ld.mem[v + i] = IF i = 0 THEN OwnWord(entry) ELSE FileCell(s.text + i)
                      /\ \A i \in 0 .. s.bss - 1 : ld.mem[v + s.data + i] = OwnWord(0)
  BY DEF ProgramAsLinked
<1>2. ld.at = "running" /\ entry = e /\ \A a \in 0 .. MaxAddr : ld.mem[a] = Linked(s, o, a)
  BY <1>1 DEF LoaderInv, Loaded
<1>3. /\ s \in Shapes /\ o \in Int /\ e \in Nat /\ DataAt(s) + o \in Nat
      /\ e >= ld.target /\ DataAt(s) + o = e + s.text + s.gap
      /\ DataAt(s) + o + s.data + s.bss <= ld.target + ld.memsz
      /\ \A a \in Int : a >= ld.target /\ a < ld.target + ld.memsz => a \in 0 .. MaxAddr /\ a \in ld.block
  BY <1>2, MovedIs DEF Mapped
<1>4. /\ s.text \in Nat /\ s.gap \in Nat /\ s.data \in Nat /\ s.bss \in Nat /\ s.at \in Nat /\ DataAt(s) \in Nat
      /\ s.text > 0 /\ DataAt(s) = s.at + s.text + s.gap
  BY <1>3, ShapeIs, BaseIs DEF DataAt
<1>5. ld.target \in Int /\ ld.memsz \in Int
  BY DEF LoaderInv, LoaderTypes
<1>6. v = DataAt(s) + o /\ v \in Int
  BY <1>3, <1>4
<1>7. \A a \in Int : a >= e /\ a < v + s.data + s.bss => ld.mem[a] = Linked(s, o, a) /\ a \in ld.block
  <2> HIDE DEF s, o, e, v
  <2>1. QED BY <1>2, <1>3, <1>4, <1>5, <1>6
<1>8. ASSUME NEW i \in 0 .. s.text - 1
      PROVE  ld.mem[entry + i] = FileCell(i) /\ entry + i \in ld.block
  <2> DEFINE a == entry + i
  <2>1. a \in Int /\ a >= e /\ a < v /\ a \in s.at + o .. s.at + o + s.text - 1 /\ a - (s.at + o) = i
        /\ a # DataAt(s) + o /\ a \notin DataAt(s) + s.data + o .. DataAt(s) + s.data + o + s.bss - 1
    BY <1>2, <1>3, <1>4, <1>6, <1>8
  <2>2. Linked(s, o, a) = FileCell(i)
    BY <2>1 DEF Linked, Cleared, Copied
  <2> HIDE DEF a, s, o, e, v
  <2>3. a < v + s.data + s.bss
    BY <1>4, <1>6, <2>1
  <2>4. QED BY <1>7, <2>1, <2>2, <2>3 DEF a
<1>9. ASSUME NEW i \in 0 .. s.data - 1
      PROVE  ld.mem[v + i] = IF i = 0 THEN OwnWord(entry) ELSE FileCell(s.text + i)
  <2> DEFINE a == v + i
  <2>1. /\ a \in Int /\ a >= e /\ a < v + s.data + s.bss /\ s.data > 0
        /\ a \in DataAt(s) + o .. DataAt(s) + o + s.data - 1 /\ s.text + a - (DataAt(s) + o) = s.text + i
        /\ (a = DataAt(s) + o <=> i = 0) /\ a \notin s.at + o .. s.at + o + s.text - 1
        /\ a \notin DataAt(s) + s.data + o .. DataAt(s) + s.data + o + s.bss - 1
    BY <1>2, <1>3, <1>4, <1>6, <1>9
  <2>2. Linked(s, o, a) = IF i = 0 THEN OwnWord(entry) ELSE FileCell(s.text + i)
    BY <1>2, <2>1 DEF Linked, Cleared, Copied
  <2> HIDE DEF a, s, o, e, v
  <2>3. QED BY <1>7, <2>1, <2>2 DEF a
<1>10. ASSUME NEW i \in 0 .. s.bss - 1
       PROVE  ld.mem[v + s.data + i] = OwnWord(0)
  <2> DEFINE a == v + s.data + i
  <2>1. /\ a \in Int /\ a >= e /\ a < v + s.data + s.bss
        /\ a \in DataAt(s) + s.data + o .. DataAt(s) + s.data + o + s.bss - 1 /\ ~(s.data > 0 /\ a = DataAt(s) + o)
    BY <1>2, <1>3, <1>4, <1>6, <1>10
  <2>2. Linked(s, o, a) = OwnWord(0)
    BY <2>1 DEF Linked, Cleared
  <2> HIDE DEF a, s, o, e, v
  <2>3. QED BY <1>7, <2>1, <2>2 DEF a
<1>11. 0 \in 0 .. s.text - 1 /\ entry + 0 = entry
  BY <1>2, <1>3, <1>4
<1>12. ld.mem[entry] = FileCell(0) /\ entry \in ld.block
  <2> HIDE DEF s, o, e, v
  <2>1. QED BY <1>8, <1>11
<1>13. QED BY <1>8, <1>9, <1>10, <1>12

\* As long as there is a block left, a program starts only as the linker laid it
\* out, moved as a whole, for every size of its parts, alignment and block; the
\* loader writes only inside the block, and starts what the last PROGRAM argument
\* names (load_elf).
THEOREM ProgramsLoaded == ~MmapFails /\ LoaderSpec => []ImageAsLinked
<1>1. LoaderInv => ImageAsLinked
  <2>1. LoaderInv => StartsNamedProgram
    BY DEF LoaderInv, Chosen, Mapped, StartsNamedProgram, Asked
  <2>2. QED BY <2>1, WritesAre, LaidOut DEF ImageAsLinked
<1>2. ASSUME ~MmapFails PROVE LoaderSpec => []ImageAsLinked
  <2>1. LoaderInit => LoaderInv
    BY LoaderStarts
  <2>2. LoaderInv /\ [LoaderNext]_loadervars => LoaderInv'
    BY <1>2, LoaderSteps
  <2>3. QED BY <1>1, <2>1, <2>2, PTL DEF LoaderSpec
<1>3. QED BY <1>2
=============================================================================
