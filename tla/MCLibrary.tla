----------------------------- MODULE MCLibrary ------------------------------
(***************************************************************************)
(* The kernel's data structures, allocators, timer and encoder driver, the *)
(* base library and the loader, one at a time: the initial state chooses   *)
(* which of them runs, and the others stay at rest.  The state space is    *)
(* the sum of theirs, not the product.                                     *)
(***************************************************************************)
EXTENDS ReadyHeap, RbTree, UtList, RingBuf, HashTable, BaseLib, Printf, PgMgr, PgInit, Slab,
        KernelTime, Loader, Encoder, BootLayout

VARIABLES which

Parts == {"heap", "rbtree", "utlist", "ring", "hashtable", "baselib", "printf", "pgmgr", "pginit",
          "slab", "time", "loader", "encoder", "boot"}

allvars == <<heapvars, rbvars, utvars, ringvars, ht, libvars, printfvars, pgvars, pginitvars, slabvars,
             timevars, loadervars, encvars, boot, which>>

\* What printf is asked for, and where the parts with many initial states rest.
Widths == {-3, 0, 2, 5}
Precs == {-1, 0, 3}
PrintfRest ==
  [d |-> [kind |-> "char", spec |-> "s", value |-> 1, flags |-> {}, width |-> 0, prec |-> 0,
          hasPrec |-> FALSE],
   room |-> 0, at |-> "format", text |-> <<>>, buf |-> <<>>]
LibRest == [fn |-> "sqrt", a |-> 0, b |-> 0, n |-> 0, at |-> "call", res |-> <<>>]
PgInitRest ==
  LET l == [i \in 1 .. NSegs |-> [s |-> 12 * i, e |-> 12 * i + 2, ro |-> TRUE]]
  IN  [at |-> "trim", given |-> l, segs |-> l, roots |-> <<>>, mgr |-> 0,
       blank |-> <<>>, free |-> {}, found |-> [addr |-> 0, root |-> 0]]
BootRest == [at |-> "slab", obj_sz |-> 1, sft |-> 0, obj_n |-> 0, padding_base |-> 0, slab_alloc_n |-> 0]
LoaderRest ==
  [at |-> "args", args |-> <<>>, shape |-> [at |-> Align, text |-> 1, gap |-> 0, data |-> 0, bss |-> 0],
   elf |-> NoElf, bss |-> <<>>, base |-> 0, memsz |-> 0, target |-> 0, block |-> {}, jumped |-> {},
   mem |-> [a \in 0 .. MaxAddr |-> Stale]]

LibraryInit ==
  /\ which \in Parts
  /\ HeapInit /\ RbInit /\ RB_INIT /\ HT_INIT /\ PgMgrInit /\ SlabInit
  /\ UtInit /\ (which # "utlist" => family = "LL")
  /\ TimeInit /\ (which # "time" => now = 0)
  /\ IF which = "baselib" THEN LibInit ELSE lib = LibRest
  /\ IF which = "printf" THEN PrintfInit ELSE pr = PrintfRest
  /\ IF which = "pginit" THEN PgInitInit ELSE ini = PgInitRest
  /\ IF which = "loader" THEN LoaderInit ELSE ld = LoaderRest
  /\ IF which = "boot" THEN BootInit ELSE boot = BootRest
  /\ EncoderInit /\ (which # "encoder" => pins = [p \in {"a", "b"} |-> 0])

\* A step of one part: the others keep their variables.
HeapStep == which = "heap" /\ HeapNext
              /\ UNCHANGED <<rbvars, utvars, ringvars, ht, lib, pr, pgvars, ini, slabvars, timevars, ld, encvars, boot>>
RbStep == which = "rbtree" /\ RbNext
              /\ UNCHANGED <<heapvars, utvars, ringvars, ht, lib, pr, pgvars, ini, slabvars, timevars, ld, encvars, boot>>
UtStep == which = "utlist" /\ UtNext
              /\ UNCHANGED <<heapvars, rbvars, ringvars, ht, lib, pr, pgvars, ini, slabvars, timevars, ld, encvars, boot>>
RingStep == which = "ring" /\ RingNext
              /\ UNCHANGED <<heapvars, rbvars, utvars, ht, lib, pr, pgvars, ini, slabvars, timevars, ld, encvars, boot>>
HtStep == which = "hashtable" /\ HtNext
              /\ UNCHANGED <<heapvars, rbvars, utvars, ringvars, lib, pr, pgvars, ini, slabvars, timevars, ld, encvars, boot>>
LibStep == which = "baselib" /\ LibNext
              /\ UNCHANGED <<heapvars, rbvars, utvars, ringvars, ht, pr, pgvars, ini, slabvars, timevars, ld, encvars, boot>>
PrintfStep == which = "printf" /\ PrintfNext
              /\ UNCHANGED <<heapvars, rbvars, utvars, ringvars, ht, lib, pgvars, ini, slabvars, timevars, ld, encvars, boot>>
PgMgrStep == which = "pgmgr" /\ PgMgrNext
              /\ UNCHANGED <<heapvars, rbvars, utvars, ringvars, ht, lib, pr, ini, slabvars, timevars, ld, encvars, boot>>
PgInitStep == which = "pginit" /\ PgInitNext
              /\ UNCHANGED <<heapvars, rbvars, utvars, ringvars, ht, lib, pr, pgvars, slabvars, timevars, ld, encvars, boot>>
SlabStep == which = "slab" /\ SlabNext
              /\ UNCHANGED <<heapvars, rbvars, utvars, ringvars, ht, lib, pr, pgvars, ini, timevars, ld, encvars, boot>>
TimeStep == which = "time" /\ TimeNext
              /\ UNCHANGED <<heapvars, rbvars, utvars, ringvars, ht, lib, pr, pgvars, ini, slabvars, ld, encvars, boot>>
LoaderStep == which = "loader" /\ LoaderNext
              /\ UNCHANGED <<heapvars, rbvars, utvars, ringvars, ht, lib, pr, pgvars, ini, slabvars, timevars,
                             encvars, boot>>
EncoderStep == which = "encoder" /\ EncoderNext
              /\ UNCHANGED <<heapvars, rbvars, utvars, ringvars, ht, lib, pr, pgvars, ini, slabvars, timevars,
                             ld, boot>>
BootStep == which = "boot" /\ BootNext
              /\ UNCHANGED <<heapvars, rbvars, utvars, ringvars, ht, lib, pr, pgvars, ini, slabvars, timevars,
                             ld, encvars>>

LibraryNext ==
  /\ UNCHANGED which
  /\ \/ HeapStep \/ RbStep \/ UtStep \/ RingStep \/ HtStep \/ LibStep \/ PrintfStep
     \/ PgMgrStep \/ PgInitStep \/ SlabStep \/ TimeStep \/ LoaderStep \/ EncoderStep \/ BootStep

LibrarySpec == LibraryInit /\ [][LibraryNext]_allvars
=============================================================================
