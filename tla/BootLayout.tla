----------------------------- MODULE BootLayout -----------------------------
(***************************************************************************)
(* Two tables the kernel computes once when it boots: the identity map of  *)
(* the MMU (kernel/src/mmu.c) and the layout of a slab (slab_create and    *)
(* slab_alloc_init in lib/libslab/slab.c).                                 *)
(*                                                                         *)
(* An address of the identity map counts sections, the memory one entry of *)
(* a last-level table maps.                                                *)
(***************************************************************************)
EXTENDS Integers, FiniteSets

CONSTANTS
  Entries,       \* ENTIRES_PER_TABLE (512)
  NSlices,       \* slices of Entries sections that are mapped (4)
  DataBase,      \* DATA_BASE in sections (1)
  DeviceBase,    \* DEVICE_BASE in sections (2016)
  SlabPgSz,      \* PG_SZ
  SlabHdr,       \* sizeof(struct Slab)
  MinObjSz,      \* the least size slab_create_allow takes (16)
  SlabMgrCap,    \* SLABMGR_CAP (64)
  ObjNMax,       \* SLAB_OBJ_N_MAX (256)
  EndPadding,    \* SLAB_END_PADDING_MIN (64)
  ByteVals,      \* values of a byte (256)
  AlignSfts      \* logarithms of the alignments asked for

ASSUME BootAssumption ==
  /\ {Entries, NSlices, SlabPgSz, SlabHdr, MinObjSz, SlabMgrCap, ObjNMax, EndPadding,
      ByteVals} \subseteq Nat \ {0}
  /\ Entries > 1 /\ NSlices <= Entries
  /\ {DataBase, DeviceBase} \subseteq Nat /\ DataBase <= DeviceBase
  /\ AlignSfts \subseteq Nat

VARIABLES boot    \* see BootInit

bootvars == <<boot>>

NoEntry == [to |-> "fault", at |-> 0]

\* ID_MAP_TBL_SZ: one table of each of the first two levels and one per slice.
Tables == 0 .. NSlices + 1

\* create_page_tables has cleared the tables and makes i entries of the second
\* level's table; or slab_create is asked for objects, after it has made
\* slab_alloc_n allocators.
BootInit ==
  \/ boot = [at |-> "tables", i |-> 0, tbl |-> [t \in Tables |-> [e \in 0 .. Entries - 1 |-> NoEntry]]]
  \/ \E sz \in 1 .. SlabPgSz, sft \in AlignSfts, n \in {0, SlabMgrCap} :
       boot = [at |-> "slab", obj_sz |-> sz, sft |-> sft, obj_n |-> 0, padding_base |-> 0,
               slab_alloc_n |-> n]

-----------------------------------------------------------------------------
(* The identity map                                                        *)

\* What a last-level entry for the section at pa allows.
RegionOf(pa) == IF pa >= DeviceBase THEN "device" ELSE IF pa < DataBase THEN "code" ELSE "data"

\* The entry of tbl for va, where an entry maps size sections.
create_table_entry(tbls, tbl, tbl_next, va, size) ==
  [tbls EXCEPT ![tbl][(va \div size) % Entries] = [to |-> "table", at |-> tbl_next]]

\* Mutant of create_block_entry: the end is not the last section but the next.
Mutcreate_block_entry(tbls, pmd, vstart, vend, pa) ==
  LET first == vstart % Entries
      last == vend % Entries
  IN  [tbls EXCEPT ![pmd] = [e \in 0 .. Entries - 1 |->
        IF e = first \/ e \in first .. last
          THEN [to |-> RegionOf(pa + e - first), at |-> pa + e - first] ELSE @[e]]]

\* The entries from that of vstart to that of the section before vend, at least
\* one.
create_block_entry(tbls, pmd, vstart, vend, pa) ==
  LET first == vstart % Entries
      last == (vend - 1) % Entries
  IN  [tbls EXCEPT ![pmd] = [e \in 0 .. Entries - 1 |->
        IF e = first \/ e \in first .. last
          THEN [to |-> RegionOf(pa + e - first), at |-> pa + e - first] ELSE @[e]]]

\* The top table's one entry, then for each slice an entry of table 1 and a
\* table of its own.
create_page_tables ==
  /\ boot.at = "tables" /\ boot.i <= NSlices
  /\ IF boot.i = 0
       THEN boot' = [boot EXCEPT !.i = 1, !.tbl = create_table_entry(@, 0, 1, 0, Entries * Entries)]
       ELSE LET offset == Entries * (boot.i - 1)
                tbls == create_table_entry(boot.tbl, 1, boot.i + 1, offset, Entries)
            IN  boot' = [boot EXCEPT !.i = @ + 1,
                           !.tbl = create_block_entry(tbls, boot.i + 1, offset, offset + Entries, offset)]

-----------------------------------------------------------------------------
(* The layout of a slab                                                    *)

UpTo(n, align) == align * ((n + align - 1) \div align)

\* The padding that aligns what follows a header and a free list of n.
PaddingFor(n) == UpTo(SlabHdr + n, 2 ^ boot.sft) - (SlabHdr + n)

Fits(n) == SlabPgSz - SlabHdr - (1 + boot.obj_sz) * n >= PaddingFor(n) + EndPadding

slab_create_allow == boot.obj_sz >= MinObjSz /\ boot.obj_sz < SlabPgSz \div 2

\* slab_alloc_init: the first number that fits, from the largest there is room
\* for downwards, its padding kept in a byte.  An allocator that cannot be laid
\* out keeps its place.
slab_create ==
  LET most == (SlabPgSz - SlabHdr) \div (1 + boot.obj_sz)
      tried == 1 .. IF most > ObjNMax THEN ObjNMax ELSE most
      fits == {n \in tried : Fits(n)}
      n == CHOOSE n \in fits : \A k \in fits : k <= n
  IN  /\ boot.at = "slab"
      /\ boot' = IF boot.slab_alloc_n >= SlabMgrCap THEN [boot EXCEPT !.at = "no room"]
                 ELSE IF ~slab_create_allow THEN [boot EXCEPT !.at = "not allowed"]
                 ELSE IF fits = {} THEN [boot EXCEPT !.at = "NULL", !.slab_alloc_n = @ + 1]
                 ELSE [boot EXCEPT !.at = "created", !.slab_alloc_n = @ + 1,
                                   !.obj_n = n, !.padding_base = PaddingFor(n) % ByteVals]

BootNext == create_page_tables \/ slab_create

BootSpec == BootInit /\ [][BootNext]_bootvars

-----------------------------------------------------------------------------
(* Properties                                                              *)

\* The walk of the MMU: three levels, the last for one section.
Translate(va) ==
  LET top == boot.tbl[0][(va \div (Entries * Entries)) % Entries]
      mid == boot.tbl[top.at][(va \div Entries) % Entries]
  IN  IF top = NoEntry THEN NoEntry
      ELSE IF mid = NoEntry THEN NoEntry ELSE boot.tbl[mid.at][va % Entries]

\* Once the tables are made every section of the slices translates to itself,
\* with the permissions of the region it lies in, and no other address of the
\* first two levels translates at all: the kernel goes on at the same address
\* when the MMU is on (create_page_tables).
MapsToItself ==
  (boot.at = "tables" /\ boot.i > NSlices) =>
    \A va \in 0 .. Entries * Entries * 2 - 1 :
      Translate(va) = IF va < Entries * NSlices THEN [to |-> RegionOf(va), at |-> va] ELSE NoEntry

\* A slab has the greatest number of objects, up to its limit, for which header,
\* free list, aligned objects and the end padding share a page; an allowed size
\* is given up only if not even one object fits.  The objects stay inside the
\* page for each random padding slab_slab_init may add (slab_alloc_init).
SlabLayoutTight ==
  LET align == 2 ^ boot.sft
      Room(n) == UpTo(SlabHdr + n, align) + n * boot.obj_sz + EndPadding <= SlabPgSz
      n == boot.obj_n
  IN  /\ boot.at = "created" =>
           /\ n > 0 /\ Room(n) /\ (n < ObjNMax => ~Room(n + 1))
           /\ \A rand \in 0 .. (EndPadding \div align) - 1 :
                n + boot.padding_base + rand * align + n * boot.obj_sz <= SlabPgSz
      /\ boot.at = "NULL" => ~Room(1)

\* Both tables are what the kernel goes on to rely on.
LayoutsExact == MapsToItself /\ SlabLayoutTight
=============================================================================
