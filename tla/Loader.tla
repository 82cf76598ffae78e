------------------------------- MODULE Loader -------------------------------
(***************************************************************************)
(* The program loader (loader/src), the first code of every task: it reads *)
(* the task's arguments, finds the ELF image linked into the kernel, maps  *)
(* a block, copies the segments, clears the bss, relocates and jumps.      *)
(* Memory is a row of cells, each a byte or a relocated word; the file's   *)
(* cell at offset o is <<"file", o>>.  Images are the position-independent *)
(* executables a linker makes: a first segment at file offset 0, a second  *)
(* one with data and bss, a RELRO range over the data, relocations in it.  *)
(***************************************************************************)
EXTENDS Integers, Sequences, FiniteSets, FiniteSetsExt, SequencesExt

CONSTANTS
  Align,         \* p_align of the segments, a power of two
  PageCells,     \* cells in the smallest block ke_mmap hands out
  LargestLvl,    \* the largest has PageCells * 2^LargestLvl
  MaxText, MaxGap, MaxData, MaxBss,    \* bounds on the cells of an image's parts
  MmapFails      \* whether there may be no block left

\* An image and what rounding its lowest address down adds to it.
ImageCells == Align - 1 + MaxText + MaxGap + MaxData + MaxBss

ASSUME LoaderAssumption ==
  /\ {Align, PageCells, MaxText} \subseteq Nat \ {0}
  /\ {LargestLvl, MaxGap, MaxData, MaxBss} \subseteq Nat
  /\ ImageCells <= PageCells * 2 ^ LargestLvl
  /\ MmapFails \in BOOLEAN

VARIABLES ld     \* the loader's task: see LoaderInit

loadervars == <<ld>>

\* vaddr of the first segment, its size, and the second's gap, data and bss.
Shapes == [at : 0 .. 2 * Align - 1, text : 1 .. MaxText, gap : 0 .. MaxGap, data : 0 .. MaxData, bss : 0 .. MaxBss]

PhdrsOf(s) ==
  LET v == s.at + s.text + s.gap
  IN  << [type |-> "PHDR", offset |-> 0, vaddr |-> 0, filesz |-> 9, memsz |-> 9, align |-> 1],
         [type |-> "LOAD", offset |-> 0, vaddr |-> s.at, filesz |-> s.text, memsz |-> s.text,
          align |-> Align],
         [type |-> "LOAD", offset |-> s.text, vaddr |-> v, filesz |-> s.data,
          memsz |-> s.data + s.bss, align |-> Align],
         [type |-> "GNU_RELRO", offset |-> s.text, vaddr |-> v, filesz |-> s.data,
          memsz |-> s.data, align |-> 1] >>

\* The section headers elf_reader_ctr_section tells apart by their type.
ShdrsOf(s) ==
  LET v == s.at + s.text + s.gap
  IN  << [type |-> "PROGBITS", addr |-> s.at, size |-> s.text] >>
      \o (IF s.bss > 0 THEN <<[type |-> "NOBITS", addr |-> v + s.data, size |-> s.bss]>> ELSE <<>>)
      \o << [type |-> "DYNAMIC", addr |-> v, size |-> s.data] >>

\* The first data cell holds an address to relocate; a relocation of a type
\* the loader does not know is skipped.
RelasOf(s) ==
  LET v == s.at + s.text + s.gap
  IN  (IF s.data > 0 THEN <<[type |-> "RELATIV", offset |-> v, addend |-> s.at]>> ELSE <<>>)
      \o <<[type |-> "OTHER", offset |-> s.at, addend |-> 0]>>

Image(s) == [ident |-> TRUE, entry |-> s.at, p_hdr_arr |-> PhdrsOf(s),
             s_hdr_arr |-> ShdrsOf(s), rela_arr |-> RelasOf(s)]
\* elf_start NULL: what is at address 0 is taken not to look like an image.
NoElf == [ident |-> FALSE]

\* The arguments: key and value pairs in the order they were given.
ArgLists == {<<>>, <<<<"PROGRAM", "prog">>>>, <<<<"PROGRAM", "other">>>>,
             <<<<"NAME", "prog">>, <<"PROGRAM", "prog">>>>,
             <<<<"PROGRAM", "other">>, <<"PROGRAM", "prog">>>>,
             <<<<"PROGRAM", "prog">>, <<"PROGRAM", "other">>>>}

Stale == <<"stale", 0>>       \* left by the block's last user
FileCell(o) == <<"file", o>>
OwnWord(n) == <<"word", n>>   \* written by the loader itself

MaxAddr == 2 * PageCells + ImageCells

LoaderInit ==
  \E args \in ArgLists, s \in Shapes :
    ld = [at |-> "args", args |-> args, shape |-> s, elf |-> NoElf, bss |-> <<>>,
          base |-> 0, memsz |-> 0, target |-> 0, block |-> {}, jumped |-> {},
          mem |-> [a \in 0 .. MaxAddr |-> Stale]]

-----------------------------------------------------------------------------
(* elf_reader.c and loader_args.c                                          *)

resolve_elf_start(name) == IF name = "prog" THEN Image(ld.shape) ELSE NoElf

\* Each PROGRAM overwrites what the one before resolved to, unknown ones too.
resolve_args ==
  LET programs == {i \in DOMAIN ld.args : ld.args[i][1] = "PROGRAM"}
  IN  /\ ld.at = "args"
      /\ ld' = [ld EXCEPT !.at = "reader",
                          !.elf = IF programs = {} THEN NoElf ELSE resolve_elf_start(ld.args[Max(programs)][2])]

\* The last NOBITS section, whatever its name, is the bss.
BssOf(shdrs) ==
  LET nobits == {i \in DOMAIN shdrs : shdrs[i].type = "NOBITS"}
  IN  IF nobits = {} THEN <<>> ELSE <<shdrs[Max(nobits)]>>

\* Without an image load_elf returns, to ke_exit (task.c sets the link register).
elf_reader_ctr ==
  /\ ld.at = "reader"
  /\ ld' = IF ld.elf.ident
             THEN [ld EXCEPT !.at = "size", !.bss = BssOf(ld.elf.s_hdr_arr)]
             ELSE [ld EXCEPT !.at = "exit"]

-----------------------------------------------------------------------------
(* loader.c                                                                *)

PhdrsOfType(types) == {h \in Range(ld.elf.p_hdr_arr) : h.type \in types}

\* Mutant of MemTop: the size of what the file holds.
MutMemTop == Max({h.vaddr + h.filesz : h \in PhdrsOfType({"LOAD", "GNU_RELRO"})})

MemTop == Max({h.vaddr + h.memsz : h \in PhdrsOfType({"LOAD", "GNU_RELRO"})})

\* The lowest address, rounded down to the largest alignment.
calc_mem_size ==
  LET hs == PhdrsOfType({"LOAD", "GNU_RELRO"})
      lo == Min({h.vaddr : h \in hs})
      al == Max({1} \cup {h.align : h \in hs})
      base == lo - (lo % al)
  IN  /\ ld.at = "size"
      /\ ld' = [ld EXCEPT !.at = "mmap", !.base = base, !.memsz = MemTop - base]

\* k_mmap_handler: a block of the next power of two of cells at a page, or,
\* when there is none, address 0 and still a return value of 0.
ke_mmap ==
  LET n == PageCells * 2 ^ Min({k \in 0 .. LargestLvl : ld.memsz <= PageCells * 2 ^ k})
  IN  /\ ld.at = "mmap"
      /\ \/ \E t \in {PageCells, 2 * PageCells} :
              ld' = [ld EXCEPT !.at = "copy", !.target = t, !.block = t .. t + n - 1]
         \/ MmapFails /\ ld' = [ld EXCEPT !.at = "copy", !.target = 0]

Diff == ld.target - ld.base

\* A write of f[a] to each address a in the domain of f.
Written(f) == [a \in DOMAIN ld.mem |-> IF a \in DOMAIN f THEN f[a] ELSE ld.mem[a]]

memcpy_prog_hdr ==
  LET loads == PhdrsOfType({"LOAD"})
      In(a, h) == a \in h.vaddr + Diff .. h.vaddr + Diff + h.filesz - 1
      From(a) == LET h == CHOOSE h \in loads : In(a, h) IN FileCell(h.offset + a - (h.vaddr + Diff))
  IN  /\ ld.at = "copy"
      /\ ld' = [ld EXCEPT !.at = "bss",
                          !.mem = Written([a \in {b \in DOMAIN ld.mem : \E h \in loads : In(b, h)} |-> From(a)])]

clear_bss ==
  /\ ld.at = "bss"
  /\ ld' = [ld EXCEPT !.at = "relocate",
       !.mem = IF ld.bss = <<>> THEN @
               ELSE LET to == ld.bss[1].addr + Diff
                    IN  Written([a \in to .. to + ld.bss[1].size - 1 |-> OwnWord(0)])]

apply_relocations ==
  LET rs == {r \in Range(ld.elf.rela_arr) : r.type = "RELATIV"}
  IN  /\ ld.at = "relocate"
      /\ ld' = [ld EXCEPT !.at = "entry",
           !.mem = Written([a \in {r.offset + Diff : r \in rs} |->
                           OwnWord((CHOOSE r \in rs : r.offset + Diff = a).addend + Diff)])]

\* The jump to the program, with the arguments the loader was given; the
\* program's return is followed by ke_exit.
EnterProgram ==
  /\ ld.at = "entry"
  /\ ld' = [ld EXCEPT !.at = "running", !.jumped = {ld.elf.entry + Diff}]

LoaderNext ==
  \/ resolve_args \/ elf_reader_ctr \/ calc_mem_size \/ ke_mmap
  \/ memcpy_prog_hdr \/ clear_bss \/ apply_relocations \/ EnterProgram

LoaderSpec == LoaderInit /\ [][LoaderNext]_loadervars

-----------------------------------------------------------------------------
(* Properties                                                              *)

\* The loader writes only into the block it mapped (calc_mem_size and the
\* three steps that write agree on where the image lies).
WritesInsideBlock == \A a \in DOMAIN ld.mem : ld.mem[a] # Stale => a \in ld.block

\* A program starts only as the linker laid it out, moved as a whole: text as
\* in the file, addresses in the data moved with it, the
\* bss zero although ke_mmap returns memory with stale contents, and the entry
\* point inside the text (load_elf).
ProgramAsLinked ==
  \A entry \in ld.jumped :
    LET s == ld.shape
        v == s.at + s.text + s.gap + Diff
    IN  /\ entry \in ld.block /\ ld.mem[entry] = FileCell(0)
        /\ \A i \in 0 .. s.text - 1 : ld.mem[entry + i] = FileCell(i)
        /\ \A i \in 0 .. s.data - 1 :
             ld.mem[v + i] = IF i = 0 THEN OwnWord(entry) ELSE FileCell(s.text + i)
        /\ \A i \in 0 .. s.bss - 1 : ld.mem[v + s.data + i] = OwnWord(0)

\* Exactly the tasks whose last PROGRAM argument names a linked program start
\* one; the others exit (resolve_args).
StartsNamedProgram ==
  LET given == {i \in DOMAIN ld.args : ld.args[i][1] = "PROGRAM"}
      known == \E i \in given : ld.args[i][2] = "prog" /\ \A j \in given : j <= i
  IN  (ld.at = "running" => known) /\ (ld.at = "exit" => ~known)

\* The loader runs the program it was asked for, whole and inside its block.
ImageAsLinked == WritesInsideBlock /\ ProgramAsLinked /\ StartsNamedProgram
=============================================================================
