------------------------------- MODULE PgMgr -------------------------------
(***************************************************************************)
(* The kernel's page allocator (kernel/src/pgmgr.c): a buddy allocator     *)
(* over one segment of pages, with a descriptor for each page and a free   *)
(* list for each block size.  k_main boots with one usable segment whose   *)
(* first pages hold the descriptors themselves.                            *)
(*                                                                         *)
(* The program asks for single pages as task stacks, which k_exit_handler  *)
(* gives back, and for blocks of any size (ke_mmap, slabs, the slab        *)
(* manager) that nobody ever gives back.                                   *)
(***************************************************************************)
EXTENDS Naturals, Sequences, SequencesExt, FiniteSets, FiniteSetsExt, AddressOrder

CONSTANTS
  MaxLvl,     \* PGMGR_MAXLVL (9): the largest block has 2^MaxLvl pages
  NumPages,   \* pages of the segment (992)
  FirstPage,  \* start_addr of the segment, as a page number (1024)
  Reserved    \* the pages from the start of the segment that are in use (1)

Lvls  == 0..MaxLvl
Pages == 0..NumPages - 1     \* indices of the PgDsp array root->root

ASSUME PgAssumption ==
  /\ {MaxLvl, NumPages, FirstPage, Reserved} \subseteq Nat
  /\ Reserved < NumPages

VARIABLES
  free_lists,  \* for each level the sequence of the first pages of blocks
  used,        \* the pages with PGDSP_USED in their flags
  lvl,         \* PgDsp.lvl
  stacks,      \* the pages returned to k_tmgr_get_free_task, not yet freed
  kept,        \* the blocks returned to the other callers
  corrupt      \* a descriptor was unlinked from a list it is not on

pgvars == <<free_lists, used, lvl, stacks, kept, corrupt>>

-----------------------------------------------------------------------------
\* pg_addr_maxlvl: the largest block that may start at page i.
pg_addr_maxlvl(i) == Max({l \in Lvls : (FirstPage + i) % 2^l = 0})

\* pg_pagecnt_maxlvl: the highest bit of n among the bits 1..MaxLvl, or 0.
pg_pagecnt_maxlvl(n) == Max({0} \cup {l \in Lvls : (n \div 2^l) % 2 = 1})

\* pg_init_free_lists_add_range: the blocks that fit their address come
\* first; from the first that does not, what is left is cut by its size.
BlockLvl(i) ==
  LET a == pg_addr_maxlvl(i)
  IN  IF i + 2^a <= NumPages THEN a ELSE Min({a, pg_pagecnt_maxlvl(NumPages - i)})

IsBlockStart[i \in 0..NumPages] ==
  \/ i = Reserved
  \/ \E j \in Reserved..i - 1 : IsBlockStart[j] /\ j + 2^BlockLvl(j) = i

pg_init_free_lists(l) ==
  InAddressOrder({i \in Reserved..NumPages - 1 : IsBlockStart[i] /\ BlockLvl(i) = l})

PgMgrInit ==
  /\ free_lists = [l \in Lvls |-> pg_init_free_lists(l)]
  /\ used = 0..Reserved - 1
  /\ lvl = [i \in Pages |-> 0]
  /\ stacks = {}
  /\ kept = {}
  /\ corrupt = FALSE

-----------------------------------------------------------------------------

\* pg_alloc_page: the smallest block that is large enough is split down to
\* level p; the upper halves go to the free lists.  d is what it returns.
\* With no such block it returns NULL and nothing changes.
pg_alloc_page(p, d) ==
  /\ ~corrupt
  /\ \E q \in p..MaxLvl :
       /\ free_lists[q] # <<>> /\ \A k \in p..q - 1 : free_lists[k] = <<>>
       /\ d = Head(free_lists[q])
       /\ free_lists' = [k \in Lvls |->
            IF k = q THEN Tail(free_lists[q])
            ELSE IF k \in p..q - 1 THEN Append(free_lists[k], d + 2^k)
            ELSE free_lists[k]]
       /\ used' = (used \ {d + 2^k : k \in p..q - 1}) \cup {d}
       /\ lvl' = [lvl EXCEPT ![d] = p]
       /\ UNCHANGED corrupt

\* The first page of the block of level l that page i lies in.  It may lie
\* before the segment.
BlockOf(i, l) == 2^l * ((FirstPage + i) \div 2^l)

\* The buddy of that block, as a page number and as an index.
BuddyPage(i, l) ==
  LET b == BlockOf(i, l)
  IN  IF (b \div 2^l) % 2 = 1 THEN b - 2^l ELSE b + 2^l

InSegment(n) == FirstPage <= n /\ n < FirstPage + NumPages   \* addr_in_segment

\* One iteration of the loop of pg_free_page goes on to the next level.  Its
\* first test, of the address bit below the level, never ends the loop: dsp is
\* the start of a block of that level.
Merges(i, l) ==
  /\ l < MaxLvl
  /\ InSegment(BuddyPage(i, l))
  /\ BuddyPage(i, l) - FirstPage \notin used

\* Mutant of pg_free_page: the buddies stay on their lists.
MutBuddyStays(d) ==
  LET top == Min({l \in lvl[d]..MaxLvl : ~Merges(d, l)})
  IN  /\ ~corrupt
      /\ free_lists' = [free_lists EXCEPT ![top] = Append(@, BlockOf(d, top) - FirstPage)]
      /\ UNCHANGED <<used, lvl, corrupt>>

\* pg_free_page: the block merges with its buddy while that one's first page
\* is not marked used, and the result goes to the end of its free list.
\* PGDSP_USED of the freed page itself stays set.
pg_free_page(d) ==
  LET top == Min({l \in lvl[d]..MaxLvl : ~Merges(d, l)})
      buddy(l) == BuddyPage(d, l) - FirstPage
  IN  /\ ~corrupt
      /\ corrupt' = (\E l \in lvl[d]..top - 1 : ~Contains(free_lists[l], buddy(l)))
      /\ free_lists' = [l \in Lvls |->
           IF l \in lvl[d]..top - 1 THEN RemoveFirst(free_lists[l], buddy(l))
           ELSE IF l = top THEN Append(free_lists[l], BlockOf(d, l) - FirstPage)
           ELSE free_lists[l]]
      /\ UNCHANGED <<used, lvl>>

-----------------------------------------------------------------------------
\* k_tmgr_get_free_task takes a stack, k_tmgr_destroy_task gives it back.
AllocStack ==
  \E d \in Pages : /\ pg_alloc_page(0, d)
                   /\ stacks' = stacks \cup {d}
                   /\ UNCHANGED kept

FreeStack ==
  \E d \in stacks : /\ pg_free_page(d)
                    /\ stacks' = stacks \ {d}
                    /\ UNCHANGED kept

\* k_mmap_handler, slab_kernel_func_alloc_page, the slab manager.
AllocKept ==
  \E p \in Lvls, d \in Pages : /\ pg_alloc_page(p, d)
                               /\ kept' = kept \cup {d}
                               /\ UNCHANGED stacks

PgMgrNext == AllocStack \/ FreeStack \/ AllocKept

PgMgrSpec == PgMgrInit /\ [][PgMgrNext]_pgvars

-----------------------------------------------------------------------------
\* Types: the blocks pg_init cuts the segment into, and those split and merged
\* later, start at pages of the segment.
PgTypeOK ==
  /\ free_lists \in [Lvls -> Seq(Pages)]
  /\ used \subseteq Pages
  /\ lvl \in [Pages -> Lvls]
  /\ stacks \subseteq Pages /\ kept \subseteq Pages
  /\ corrupt \in BOOLEAN

Span(d, l) == d..d + 2^l - 1

Held == stacks \cup kept

\* The blocks the allocator knows: <<first page, level, place in its list>>,
\* place 0 for a block somebody holds.
Blocks ==
  {<<d, lvl[d], 0>> : d \in Held}
    \cup UNION {{<<free_lists[l][k], l, k>> : k \in DOMAIN free_lists[l]} : l \in Lvls}

\* No page belongs to two blocks, and none is lost: the free blocks and the
\* blocks handed out cover the segment exactly, so no two callers of
\* pg_alloc_page share a page.  DL_DELETE2 in pg_free_page only unlinks a
\* buddy from the list it is on, though the flag of its first page alone is read.
BlocksPartition ==
  /\ PgTypeOK /\ ~corrupt
  /\ \A a, b \in Blocks : a # b => Span(a[1], a[2]) \cap Span(b[1], b[2]) = {}
  /\ UNION {Span(b[1], b[2]) : b \in Blocks} = Reserved..NumPages - 1

\* "If that buddy is free, remove buddy from free_list, combine": no two
\* buddies are on the free list of the same level.
FreeBuddiesCombine ==
  \A l \in 0..MaxLvl - 1 : \A a, b \in DOMAIN free_lists[l] :
    FirstPage + free_lists[l][b] # BuddyPage(free_lists[l][a], l)
=============================================================================
