------------------------------- MODULE PgInit -------------------------------
(***************************************************************************)
(* How the page allocator starts (pg_init in kernel/src/pgmgr.c): segments *)
(* of memory are cut to whole pages and become roots; the manager and an   *)
(* array of page descriptors for each root are placed at the start of some *)
(* of them; the pages left over go to the free lists.  Then the binary     *)
(* search by which pg_free_page finds the root of an address.              *)
(*                                                                         *)
(* Addresses count small cells.  The trimmed-off ends of segments, which   *)
(* pg_init collects and never uses, are left out.                          *)
(***************************************************************************)
EXTENDS Integers, Sequences, SequencesExt, FiniteSets, FiniteSetsExt, AddressOrder

CONSTANTS
  PgCells,       \* cells of a page (PG_SZ)
  DspCells,      \* sizeof(struct PgDsp)
  MgrCells,      \* sizeof(struct PgMgr)
  RootCells,     \* sizeof(struct PgRoot)
  NSegs,         \* segments handed to pg_init (k_bootstrap_pgmgr: 2)
  Bounds         \* where a segment may begin or end

ASSUME PgInitAssumption ==
  /\ {PgCells, DspCells, MgrCells, RootCells, NSegs} \subseteq Nat \ {0}
  /\ Bounds \subseteq Nat

VARIABLES ini    \* see PgInitInit

pginitvars == <<ini>>

Up(a) == PgCells * ((a + PgCells - 1) \div PgCells)
Down(a) == PgCells * (a \div PgCells)
Cut(s, e) == s .. e - 1

\* "All segs are non-overlapping, and sorted ascendingly."  Address 0 is only
\* part of a segment that may not hold descriptors.
Layouts ==
  {l \in [1 .. NSegs -> [s : Bounds, e : Bounds, ro : BOOLEAN]] :
     /\ \A i \in 1 .. NSegs : l[i].s < l[i].e /\ (l[i].s = 0 => l[i].ro)
     /\ \A i \in 1 .. NSegs - 1 : l[i].e <= l[i + 1].s}

\* roots: [s, e, dsp: where its descriptors are, 0 for none]; blank: what is
\* not used yet of each root's segment; free: the pages on the free lists.
PgInitInit ==
  \E l \in Layouts :
    ini = [at |-> "trim", given |-> l, segs |-> l, roots |-> <<>>, mgr |-> 0,
           blank |-> <<>>, free |-> {}, found |-> [addr |-> 0, root |-> 0]]

\* pg_init_trimx and pg_init_rootx: whole pages only, and a root for each segment
\* that has any.
Trim ==
  LET segs == [i \in 1 .. NSegs |-> [ini.segs[i] EXCEPT !.s = Up(@), !.e = Down(@)]]
      full == InAddressOrder({i \in 1 .. NSegs : segs[i].s < segs[i].e})
  IN  /\ ini.at = "trim"
      /\ ini' = [ini EXCEPT !.at = "mgr", !.segs = segs,
                            !.roots = [i \in 1 .. Len(full) |->
                                       [s |-> segs[full[i]].s, e |-> segs[full[i]].e, dsp |-> 0]]]

MgrSize == MgrCells + RootCells * Len(ini.roots)

\* The first index at which the function size is smallest.
Smallest(size) ==
  CHOOSE i \in DOMAIN size :
    \A j \in DOMAIN size : size[i] < size[j] \/ (size[i] = size[j] /\ i <= j)

\* pg_init_pgmgr_addr: the smallest writable segment that holds the manager;
\* pg_init_blankspace: from there on each root has its segment, without it.
PlaceMgr ==
  LET fits == {i \in 1 .. NSegs : ~ini.segs[i].ro /\ ini.segs[i].s + MgrSize <= ini.segs[i].e}
      mgr == ini.segs[Smallest([i \in fits |-> ini.segs[i].e - ini.segs[i].s])].s
      segOf(r) == CHOOSE g \in Range(ini.segs) : g.s <= r.s /\ g.e >= r.e
  IN  /\ ini.at = "mgr"
      /\ ini' = IF fits = {} THEN [ini EXCEPT !.at = "NULL"]
                ELSE [ini EXCEPT !.at = "dsps", !.mgr = mgr,
                        !.blank = [i \in 1 .. Len(ini.roots) |->
                          LET r == ini.roots[i]
                          IN  [s |-> IF mgr \in Cut(r.s, r.e) THEN mgr + MgrSize ELSE r.s,
                               e |-> r.e, ro |-> segOf(r).ro]]]

PagesOf(r) == (r.e - r.s) \div PgCells

\* pg_init_pgdsps_next_root: the smallest writable root without descriptors, and
\* the others after them.
NextRoot ==
  LET todo == {i \in 1 .. Len(ini.roots) : ini.roots[i].dsp = 0}
      rw == {i \in todo : ~ini.blank[i].ro}
  IN  IF rw # {} THEN Smallest([i \in rw |-> PagesOf(ini.roots[i])]) ELSE Min(todo)

\* Mutant of alloc_root: the space a root's descriptors take is not cut off.
Mutalloc_root(i) ==
  LET need == PagesOf(ini.roots[i]) * DspCells
      fits == {j \in 1 .. Len(ini.roots) :
                 ~ini.blank[j].ro /\ (j = i \/ ini.roots[j].dsp # 0) /\ ini.blank[j].e - ini.blank[j].s >= need}
      best == Smallest([j \in fits |-> ini.blank[j].e - ini.blank[j].s])
  IN  ini' = IF fits = {} THEN [ini EXCEPT !.at = "NULL"]
             ELSE [ini EXCEPT !.roots[i].dsp = ini.blank[best].s]

\* pg_init_pgdsps_alloc_root: descriptors go to the smallest blank space that
\* holds them, among the roots that have theirs and the root itself.
alloc_root(i) ==
  LET need == PagesOf(ini.roots[i]) * DspCells
      fits == {j \in 1 .. Len(ini.roots) :
                 ~ini.blank[j].ro /\ (j = i \/ ini.roots[j].dsp # 0) /\ ini.blank[j].e - ini.blank[j].s >= need}
      best == Smallest([j \in fits |-> ini.blank[j].e - ini.blank[j].s])
  IN  ini' = IF fits = {} THEN [ini EXCEPT !.at = "NULL"]
             ELSE [ini EXCEPT !.roots[i].dsp = ini.blank[best].s, !.blank[best].s = @ + need]

PlaceDsps ==
  /\ ini.at = "dsps" /\ \E i \in 1 .. Len(ini.roots) : ini.roots[i].dsp = 0
  /\ alloc_root(NextRoot)

\* pg_init_free_lists_per_root: start_idx and end_idx are those of the pages at
\* the two ends of the blank space, and stay at 0 and num_pages when there is no
\* such page.
FreeRange(i) ==
  LET r == ini.roots[i]
      first == Up(ini.blank[i].s)
  IN  Cut(IF first = r.e THEN r.s ELSE first, r.e)

FreeLists ==
  /\ ini.at = "dsps" /\ \A i \in 1 .. Len(ini.roots) : ini.roots[i].dsp # 0
  /\ ini' = [ini EXCEPT !.at = "up", !.free = UNION {FreeRange(i) : i \in 1 .. Len(ini.roots)}]

\* The binary search of pg_free_page: roots[l], whether the loop ends by l >= r
\* or by finding the address in roots[m].
Search(addr) ==
  LET run[k \in 0 .. Len(ini.roots)] ==
        IF k = 0 THEN [l |-> 0, r |-> Len(ini.roots), on |-> TRUE]
        ELSE LET x == run[k - 1]
                 m == (x.l + x.r) \div 2
             IN  IF ~x.on \/ x.l >= x.r THEN x
                 ELSE IF addr < ini.roots[m + 1].s THEN [x EXCEPT !.r = m - 1]
                 ELSE IF addr >= ini.roots[m + 1].e THEN [x EXCEPT !.l = m + 1]
                 ELSE [x EXCEPT !.on = FALSE]
  IN  run[Len(ini.roots)].l + 1

InRoot(a, i) == i <= Len(ini.roots) /\ a \in Cut(ini.roots[i].s, ini.roots[i].e)   \* addr_in_segment

\* pg_free_page finds the root of a page it was given; it returns at once if the
\* page is not in the root the search ends at (found.root = 0).
FindRoot ==
  /\ ini.at = "up" /\ ini.found.addr = 0
  /\ \E a \in ini.free :
       /\ a % PgCells = 0 /\ a > 0
       /\ ini' = [ini EXCEPT !.found = [addr |-> a, root |-> IF InRoot(a, Search(a)) THEN Search(a) ELSE 0]]

PgInitNext == Trim \/ PlaceMgr \/ PlaceDsps \/ FreeLists \/ FindRoot

PgInitSpec == PgInitInit /\ [][PgInitNext]_pginitvars

-----------------------------------------------------------------------------
(* Properties                                                              *)

\* What the allocator keeps for itself.
Areas ==
  <<Cut(ini.mgr, ini.mgr + MgrSize)>>
    \o [i \in 1 .. Len(ini.roots) |->
         Cut(ini.roots[i].dsp, ini.roots[i].dsp + PagesOf(ini.roots[i]) * DspCells)]

\* The metadata reach into the last page of a root.
RootUsedUp == \E i \in 1 .. Len(ini.roots) : Up(ini.blank[i].s) = ini.roots[i].e

\* The manager and the descriptor arrays lie apart from one another, in
\* segments that may hold them, and no page on the free lists holds a cell of
\* them, unless they reach into the last page of a root (pg_init).
MetadataApart ==
  ini.at = "up" =>
    /\ \A i, j \in 1 .. Len(Areas) : i < j => Areas[i] \cap Areas[j] = {}
    /\ \A i \in 1 .. Len(Areas) :
         \E g \in Range(ini.given) : ~g.ro /\ Areas[i] \subseteq Cut(g.s, g.e)
    /\ ~RootUsedUp => \A i \in 1 .. Len(Areas) : Areas[i] \cap ini.free = {}

\* A page that is not found in its root is found in none, and with one root, as
\* the kernel boots with, it is always found (pg_free_page).
FoundInOwnRoot ==
  (ini.at = "up" /\ ini.found.addr > 0) =>
    \/ ini.found.root = 0 /\ Len(ini.roots) > 1
    \/ ini.found.root > 0
         /\ ini.found.addr \in Cut(ini.roots[ini.found.root].s, ini.roots[ini.found.root].e)

\* What the allocator has laid out when it is up, and the search through it.
RootsSound == MetadataApart /\ FoundInOwnRoot

\* "Deallocates the allocation made for `ptr`": pg_free_page finds the root of
\* every page the allocator can hand out.
FreeFindsRoot == ini.found.addr > 0 => ini.found.root > 0
=============================================================================
