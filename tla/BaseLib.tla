------------------------------ MODULE BaseLib -------------------------------
(***************************************************************************)
(* The base library's size, memory, string and root helpers                *)
(* (lib/include/macro.h, util.h, math.h, lib/libbase/util.c), called on    *)
(* every small argument and compared with what their callers rely on.      *)
(***************************************************************************)
EXTENDS Integers, Sequences, FiniteSets, Bitwise, Folds, SequencesExt

CONSTANTS
  Width,         \* bits of a word (64), at most 8
  Cells,         \* cells of the memory that is moved about
  Chars,         \* the characters of strings, but for the null
  StrLen         \* the longest string

ASSUME BaseLibAssumption ==
  /\ Width \in {2, 4, 6, 8} /\ {Cells, StrLen} \subseteq Nat
  /\ Chars \subseteq Nat \ {0}

VARIABLES lib    \* [fn, args, res]

libvars == <<lib>>

Word == 2 ^ Width

\* A string as it lies in memory.
Strings == {Append(s, 0) : s \in UNION {[1 .. n -> Chars] : n \in 0 .. StrLen}}
Untouched == 99

LibCalls ==
  ({"mmap_sft"} \X (0 .. Word - 1) \X {0} \X {0})
    \cup ({"memmove"} \X (1 .. Cells) \X (1 .. Cells) \X (0 .. Cells))
    \cup ({"sqrt"} \X (0 .. 2 ^ (Width \div 2) - 1) \X {0} \X {0})
StringCalls == {"strcmp", "strbegin", "memcmp"} \X Strings \X Strings \X {0}
CopyCalls == {"strncpy"} \X Strings \X {0} \X (1 .. StrLen + 2)

\* A move stays inside the memory.
LibInit ==
  \E c \in LibCalls \cup StringCalls \cup CopyCalls :
    /\ c[1] = "memmove" => (c[2] + c[4] <= Cells + 1 /\ c[3] + c[4] <= Cells + 1)
    /\ lib = [fn |-> c[1], a |-> c[2], b |-> c[3], n |-> c[4], at |-> "call", res |-> <<>>]

-----------------------------------------------------------------------------
(* Sizes                                                                   *)

\* NEXT_POW2: the decremented value with every bit below its highest one set,
\* plus one; 1 for a result of 0.
NEXT_POW2(val) ==
  LET v == FoldLeft(LAMBDA acc, s : acc | (acc \div 2 ^ s), (val - 1) % Word, <<1, 2, 4>>)
      up == (v + 1) % Word
  IN  IF up = 0 THEN 1 ELSE up

\* MSB_POS: the position of the highest bit, -1 as a uint8_t if there is none.
MSB_POS(x) ==
  LET ps == {p \in 0 .. Width - 1 : x \div 2 ^ p > 0}
  IN  IF ps = {} THEN 255 ELSE CHOOSE p \in ps : \A q \in ps : q <= p

\* k_mmap_handler: the size of the block asked of the page allocator.
k_mmap_handler(mem_sz) == MSB_POS(NEXT_POW2(mem_sz))

-----------------------------------------------------------------------------
(* Memory                                                                  *)

Byte(mem, dest, src) == [mem EXCEPT ![dest] = mem[src]]

\* util_memcpy: byte after byte, upwards.
util_memcpy(mem, dest, src, n) ==
  FoldLeft(LAMBDA m, i : Byte(m, dest + i - 1, src + i - 1), mem, [i \in 1 .. n |-> i])

\* Mutant of util_memmove: always upwards.
Mututil_memmove(mem, dest, src, n) == util_memcpy(mem, dest, src, n)

\* util_memmove: downwards when the destination lies behind the source.
util_memmove(mem, dest, src, n) ==
  IF dest <= src THEN util_memcpy(mem, dest, src, n)
  ELSE FoldLeft(LAMBDA m, i : Byte(m, dest + n - i, src + n - i), mem, [i \in 1 .. n |-> i])

-----------------------------------------------------------------------------
(* Strings                                                                 *)

util_strlen(s) == CHOOSE n \in 0 .. Len(s) - 1 : s[n + 1] = 0 /\ \A i \in 1 .. n : s[i] # 0

\* Where the loops over two strings stop: at the first difference or at the end.
FirstStop(s1, s2) ==
  CHOOSE i \in 1 .. Len(s1) :
    /\ s1[i] # s2[i] \/ s1[i] = 0
    /\ \A j \in 1 .. i - 1 : s1[j] = s2[j] /\ s1[j] # 0

util_strcmp(s1, s2) == LET i == FirstStop(s1, s2) IN s1[i] = s2[i]

\* util_strbegin: whether p begins s.
util_strbegin(s, p) == \A i \in 1 .. util_strlen(p) : s[i] = p[i] /\ \A j \in 1 .. i - 1 : s[j] # 0

\* util_memcmp, over as many bytes as the shorter of the two arrays has.
util_memcmp(p1, p2) ==
  LET n == IF Len(p1) < Len(p2) THEN Len(p1) ELSE Len(p2)
      diff == {i \in 1 .. n : p1[i] # p2[i]}
      i == CHOOSE k \in diff : \A j \in diff : k <= j
  IN  IF diff = {} THEN 0 ELSE IF p1[i] < p2[i] THEN -1 ELSE 1

\* util_strncpy into n bytes: what fits, and a null.
util_strncpy(n, s2) ==
  LET l2 == IF util_strlen(s2) > n - 1 THEN n - 1 ELSE util_strlen(s2)
  IN  [i \in 1 .. n |-> IF i <= l2 THEN s2[i] ELSE IF i = l2 + 1 THEN 0 ELSE Untouched]

-----------------------------------------------------------------------------
(* Roots                                                                   *)

SqrtStep(x, a) == (x + a \div x) \div 2

\* math_sqrt: Newton's steps from a, in words.
math_sqrt(a) ==
  LET run[k \in 0 .. a] ==
        IF k = 0 THEN a
        ELSE LET x == run[k - 1] IN IF (x * x) % Word > a THEN SqrtStep(x, a) ELSE x
  IN  run[a]

-----------------------------------------------------------------------------
Fresh == [i \in 1 .. Cells |-> 10 + i]

Call ==
  /\ lib.at = "call"
  /\ lib' = [lib EXCEPT !.at = "done",
       !.res = CASE lib.fn = "mmap_sft" -> <<k_mmap_handler(lib.a)>>
                 [] lib.fn = "memmove" -> util_memmove(Fresh, lib.a, lib.b, lib.n)
                 [] lib.fn = "sqrt" -> <<math_sqrt(lib.a)>>
                 [] lib.fn = "strcmp" -> <<util_strcmp(lib.a, lib.b)>>
                 [] lib.fn = "strbegin" -> <<util_strbegin(lib.a, lib.b)>>
                 [] lib.fn = "memcmp" -> <<util_memcmp(lib.a, lib.b)>>
                 [] lib.fn = "strncpy" -> util_strncpy(lib.n, lib.a)]

LibNext == Call

Returned(fn) == lib.at = "done" /\ lib.fn = fn

-----------------------------------------------------------------------------
(* Properties                                                              *)

\* The block ke_mmap asks for holds the size it was given and is less than twice
\* as large, zero and exact powers included, up to half the address space
\* (k_mmap_handler, NEXT_POW2, MSB_POS).
MmapSizeFits ==
  (Returned("mmap_sft") /\ lib.a <= Word \div 2) =>
    /\ 2 ^ lib.res[1] >= lib.a
    /\ lib.a > 0 => 2 ^ lib.res[1] < 2 * lib.a

\* A move between overlapping areas leaves the source's old bytes in the
\* destination and nothing else changed (util_memmove).
MemmoveExact ==
  Returned("memmove") =>
    lib.res = [i \in 1 .. Cells |->
                IF i \in lib.a .. lib.a + lib.n - 1 THEN Fresh[lib.b + i - lib.a] ELSE Fresh[i]]

\* The comparisons agree with equality, order and beginning of the strings, and
\* a copy into n bytes is a terminated beginning of its source (util_strcmp,
\* util_strbegin, util_memcmp, util_strncpy).
StringsCompare ==
  /\ Returned("strcmp") => lib.res[1] = (lib.a = lib.b)
  /\ Returned("strbegin") => lib.res[1] = IsPrefix(Front(lib.b), Front(lib.a))
  /\ Returned("memcmp") => ((lib.res[1] = 0) <=> (IsPrefix(lib.a, lib.b) \/ IsPrefix(lib.b, lib.a)))
  /\ Returned("strncpy") =>
       util_strlen(lib.res) = IF Len(lib.a) <= lib.n THEN Len(lib.a) - 1 ELSE lib.n - 1

\* The root is the largest number whose square does not exceed the argument, for
\* arguments below half a word's width, where squares do not overflow (math_sqrt).
RootIsFloor ==
  Returned("sqrt") =>
    LET r == lib.res[1] IN r * r <= lib.a /\ (r + 1) * (r + 1) > lib.a

\* Each helper gives its callers what they rely on, at the edges of its domain too
\* (util.c, util.h, macro.h, math.h).
HelpersExact == MmapSizeFits /\ MemmoveExact /\ StringsCompare /\ RootIsFloor
=============================================================================
