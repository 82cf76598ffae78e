-------------------------------- MODULE Slab --------------------------------
(***************************************************************************)
(* The slab allocator of task descriptors (lib/libslab/slab.c): pages cut  *)
(* into ObjN objects of one size, a free list of indices inside each page, *)
(* and two lists of pages: alloc->slabs, the pages with room first and the *)
(* full ones last, and alloc->empty_slabs.                                 *)
(*                                                                         *)
(* A page is laid out in units of arbitrary size: the header, one unit for *)
(* each entry of the free list, the objects.                               *)
(***************************************************************************)
EXTENDS Integers, Sequences, SequencesExt, FiniteSets

CONSTANTS
  SlabPages,   \* the pages func_alloc_page can return
  ObjN,        \* alloc->obj_n (256 for task descriptors)
  ObjSz,       \* alloc->obj_sz
  HdrSize,     \* the offset of free_list in a slab
  Paddings     \* the values of padding_base + rand * padding_align

Idx == 0..ObjN - 1

ASSUME SlabAssumption ==
  /\ ObjN \in Nat \ {0} /\ ObjSz \in Nat \ {0} /\ HdrSize \in Nat
  /\ Paddings \subseteq Nat

VARIABLES
  slabs,        \* alloc->slabs, a list of pages
  empty_slabs,  \* alloc->empty_slabs
  slab,         \* the struct Slab at the start of each page
  live          \* for each page the objects handed out and not freed

slabvars == <<slabs, empty_slabs, slab, live>>

-----------------------------------------------------------------------------

\* slab_slab_init: every object is free, in the order of the indices; the
\* last entry of the list points to itself.
slab_slab_init(padding) ==
  [used_cnt   |-> 0,
   first_free |-> 0,
   free_list  |-> [i \in Idx |-> IF i < ObjN - 1 THEN i + 1 ELSE i],
   data       |-> ObjN + padding]

NoSlab == [slab_slab_init(0) EXCEPT !.first_free = -1]

\* slab_slab_alloc hands out first_free, unless the slab looks full.
HasObject(sl) == sl.used_cnt < ObjN /\ sl.first_free # -1

\* Mutant of slab_slab_alloc: the end of the list is not looked for.
MutNoEndTest(sl) ==
  IF HasObject(sl)
    THEN [sl EXCEPT !.used_cnt = @ + 1, !.first_free = sl.free_list[@]]
    ELSE sl

slab_slab_alloc(sl) ==
  IF HasObject(sl)
    THEN [sl EXCEPT !.used_cnt = @ + 1,
                    !.first_free = IF sl.free_list[@] = @ THEN -1
                                   ELSE sl.free_list[@]]
    ELSE sl

slab_slab_free(sl, i) ==
  [sl EXCEPT !.used_cnt = @ - 1,
             !.free_list[i] = IF sl.first_free = -1 THEN i ELSE sl.first_free,
             !.first_free = i]

SlabInit ==
  /\ slabs = <<>>
  /\ empty_slabs = <<>>
  /\ slab = [s \in SlabPages |-> NoSlab]
  /\ live = [s \in SlabPages |-> {}]

-----------------------------------------------------------------------------
\* Only the first slab is asked for room.
FrontHasRoom == slabs # <<>> /\ slab[Head(slabs)].used_cnt # ObjN

\* slab_alloc, once s with content sl is the head of the list l: an object
\* is taken and a slab that is now full moves to the end.
TakeFrom(s, sl, l) ==
  LET taken == slab_slab_alloc(sl)
  IN  /\ slab' = [slab EXCEPT ![s] = taken]
      /\ slabs' = IF taken.used_cnt = ObjN THEN Append(Tail(l), s) ELSE l
      /\ live' = [live EXCEPT ![s] = IF HasObject(sl) THEN @ \cup {sl.first_free}
                                     ELSE @]

AllocFront ==
  /\ FrontHasRoom
  /\ TakeFrom(Head(slabs), slab[Head(slabs)], slabs)
  /\ UNCHANGED empty_slabs

AllocEmpty ==
  /\ ~FrontHasRoom
  /\ empty_slabs # <<>>
  /\ empty_slabs' = Tail(empty_slabs)
  /\ TakeFrom(Head(empty_slabs), slab[Head(empty_slabs)],
              <<Head(empty_slabs)>> \o slabs)

\* A page pg_alloc_page has not handed out before; without one the caller
\* gets NULL and nothing changes.
AllocPage ==
  /\ ~FrontHasRoom
  /\ empty_slabs = <<>>
  /\ \E s \in SlabPages \ (Range(slabs) \cup Range(empty_slabs)), p \in Paddings :
       TakeFrom(s, slab_slab_init(p), <<s>> \o slabs)
  /\ UNCHANGED empty_slabs

slab_alloc == AllocFront \/ AllocEmpty \/ AllocPage

\* DL_DELETE2: a page leaves the list it is on.
Unlinked(l, s) == RemoveAt(l, CHOOSE k \in DOMAIN l : l[k] = s)

\* Mutant of slab_free: a slab that is no longer full stays in its place.
MutNotToFront(s, i) ==
  /\ i \in live[s]
  /\ live' = [live EXCEPT ![s] = @ \ {i}]
  /\ slab' = [slab EXCEPT ![s] = slab_slab_free(@, i)]
  /\ IF slab'[s].used_cnt = 0
       THEN /\ slabs' = Unlinked(slabs, s)
            /\ empty_slabs' = <<s>> \o empty_slabs
       ELSE UNCHANGED <<slabs, empty_slabs>>

\* slab_free of object i of the page s: an empty slab leaves for the list of
\* empty ones, any other comes to the front.
slab_free(s, i) ==
  /\ i \in live[s]
  /\ live' = [live EXCEPT ![s] = @ \ {i}]
  /\ slab' = [slab EXCEPT ![s] = slab_slab_free(@, i)]
  /\ IF slab'[s].used_cnt = 0
       THEN /\ slabs' = Unlinked(slabs, s)
            /\ empty_slabs' = <<s>> \o empty_slabs
       ELSE /\ slabs' = IF s = Head(slabs) THEN slabs ELSE <<s>> \o Unlinked(slabs, s)
            /\ UNCHANGED empty_slabs

-----------------------------------------------------------------------------
\* The entries of the free list that lie in object i.
Covered(s, i) ==
  {k \in Idx : HdrSize + k \in slab[s].data + i * ObjSz .. slab[s].data + (i + 1) * ObjSz - 1}

\* The owner of an object writes what it likes to all of it.
WriteObject(s, i) ==
  /\ i \in live[s]
  /\ \E bytes \in [Covered(s, i) -> Idx] :
       slab' = [slab EXCEPT ![s].free_list =
                  [k \in Idx |-> IF k \in Covered(s, i) THEN bytes[k] ELSE @[k]]]
  /\ UNCHANGED <<slabs, empty_slabs, live>>

SlabNext ==
  \/ slab_alloc
  \/ \E s \in SlabPages : \E i \in Idx : slab_free(s, i) \/ WriteObject(s, i)

SlabSpec == SlabInit /\ [][SlabNext]_slabvars

-----------------------------------------------------------------------------
\* Types: the free list of a slab never leads to an index outside the slab.
SlabTypeOK ==
  /\ slabs \in Seq(SlabPages) /\ empty_slabs \in Seq(SlabPages)
  /\ slab \in [SlabPages -> [used_cnt : 0..ObjN, first_free : Idx \cup {-1},
                             free_list : [Idx -> Idx], data : Nat]]
  /\ live \in [SlabPages -> SUBSET Idx]

\* The first n entries of the free list of sl.
Chain(sl, n) ==
  LET c[k \in 1..n] == IF k = 1 THEN sl.first_free ELSE sl.free_list[c[k - 1]]
  IN  c

\* The free list of a page, followed to the entry that points to itself,
\* visits exactly the objects that are not handed out: no object is given to
\* two owners and none is lost, whatever the owners write to their objects.
FreeListIsFreeObjects ==
  \A s \in Range(slabs) \cup Range(empty_slabs) :
    LET n == ObjN - Cardinality(live[s])
        c == Chain(slab[s], n)
    IN  /\ slab[s].used_cnt = Cardinality(live[s])
        /\ IF n = 0 THEN slab[s].first_free = -1
           ELSE /\ {c[k] : k \in 1..n} = Idx \ live[s]
                /\ slab[s].free_list[c[n]] = c[n]

\* "first half is with room, second half is full": slab_alloc looks at the
\* first slab only, so none with room may lie behind a full one; and
\* DL_DELETE2 in slab_free needs the slab of a live object to be on slabs.
RoomBeforeFull ==
  /\ \A a, b \in DOMAIN slabs :
       a < b /\ slab[slabs[a]].used_cnt = ObjN => slab[slabs[b]].used_cnt = ObjN
  /\ \A s \in SlabPages : live[s] # {} <=> s \in Range(slabs)
  /\ IsInjective(slabs \o empty_slabs)

\* A new page is asked for only when every object of every page is in use: the
\* lists are in the order that slab_alloc's look at the first slab needs.
PageOnlyWhenFull ==
  /\ [](SlabTypeOK /\ RoomBeforeFull)
  /\ [][\A s \in Range(slabs') :
       s \notin Range(slabs) \cup Range(empty_slabs)
         => \A r \in Range(slabs) \cup Range(empty_slabs) : live[r] = Idx]_slabvars
=============================================================================
