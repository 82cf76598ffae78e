------------------------------- MODULE Printf -------------------------------
(***************************************************************************)
(* Formatted output (lib/libbase/printf.c), which every print of the       *)
(* kernel, the loader and the C programs goes through: one directive of a  *)
(* format, from its flags to the bytes in the caller's buffer.  Floating   *)
(* point is left out.                                                      *)
(*                                                                         *)
(* A character is a number: a digit is its value, and the others are the   *)
(* constants below.  A text is a sequence of characters.                   *)
(***************************************************************************)
EXTENDS Integers, Sequences, FiniteSets, SequencesExt

CONSTANTS
  LongBits,      \* bits of a long (64)
  CharBits,      \* bits of a char (8), unsigned on this processor
  NtoaCap,       \* PRINTF_NTOA_BUFFER_SIZE (32)
  PrintArgs,     \* the integers printed
  WidthArgs,     \* widths; a negative one can only come from an argument ('*')
  PrecArgs,      \* precisions, likewise
  Rooms          \* sizes of the caller's buffer

ASSUME PrintfAssumption ==
  /\ {LongBits, CharBits, NtoaCap} \subseteq Nat \ {0}
  /\ PrintArgs \subseteq 0 .. 2 ^ LongBits - 1
  /\ WidthArgs \subseteq Int /\ PrecArgs \subseteq Int /\ Rooms \subseteq 0 .. 2 ^ LongBits - 1

VARIABLES pr     \* [d: the directive, room: maxlen, at, text, idx, buf: what was written]

printfvars == <<pr>>

Blank == 20
Minus == 21
Plus == 22
Letter == 23     \* a character of a string argument, or the x or b of a prefix
Nul == 24

Flags == {"ZEROPAD", "LEFT", "PLUS", "SPACE", "HASH"}

Least(a, b) == IF a < b THEN a ELSE b
Most(a, b) == IF a < b THEN b ELSE a
Times(n, c) == [i \in 1 .. Most(n, 0) |-> c]

Two(n) == 2 ^ n

-----------------------------------------------------------------------------
(* Parsing                                                                 *)

\* The flags, width and precision of a directive.  A negative width argument
\* means LEFT; a negative precision argument is a precision of 0.
Parse(flags, w, p, hasPrec) ==
  [flags |-> (IF w < 0 THEN flags \cup {"LEFT"} ELSE flags) \cup (IF hasPrec THEN {"PRECISION"} ELSE {}),
   width |-> IF w < 0 THEN -w ELSE w,
   prec |-> IF hasPrec THEN Most(p, 0) ELSE 0]

\* Init: one directive, with its argument.
Directives ==
  [kind : {"int"}, spec : {"d", "hhd", "u", "x", "o", "b"}, value : PrintArgs,
   flags : SUBSET Flags, width : WidthArgs, prec : PrecArgs, hasPrec : BOOLEAN]
StringDirectives ==
  [kind : {"str", "char"}, spec : {"s"}, value : 0 .. 3,
   flags : SUBSET {"LEFT"}, width : WidthArgs, prec : PrecArgs, hasPrec : BOOLEAN]

PrintfInit ==
  \E d \in Directives \cup StringDirectives, n \in Rooms :
    /\ ~d.hasPrec => d.prec = 0
    /\ d.kind # "int" => d.value > 0 \/ d.kind = "str"
    /\ pr = [d |-> d, room |-> n, at |-> "format", text |-> <<>>, buf |-> <<>>]

-----------------------------------------------------------------------------
(* Integers                                                                *)

BaseOf(spec) == CASE spec = "x" -> 16 [] spec = "o" -> 8 [] spec = "b" -> 2 [] OTHER -> 10

\* What va_arg and the casts make of the argument: hh takes it as a char, which
\* has no sign here; d as a signed number.
ArgOf(d) ==
  CASE d.spec = "hhd" -> d.value % Two(CharBits)
    [] d.spec = "d" /\ d.value >= Two(LongBits - 1) -> d.value - Two(LongBits)
    [] OTHER -> d.value

Magnitude(v) == IF v > 0 THEN v ELSE 0 - v

\* The digits of v, least significant first, one for each division until
\* nothing is left; 0 has one digit.
DigitsOf(v, base) ==
  LET ds[n \in 0 .. v] == IF n < base THEN <<n>> ELSE <<n % base>> \o ds[n \div base]
  IN  ds[v]

\* _ntoa_long, _ntoa_long_long: the digits that fit; none for a 0 with a
\* precision.
_ntoa_long(v, base, flags) ==
  IF "PRECISION" \in flags /\ v = 0 THEN <<>>
  ELSE LET ds == DigitsOf(v, base) IN SubSeq(ds, 1, Least(Len(ds), NtoaCap))

\* Mutant of HashPrefix: the prefix is added without making room for it.
MutHashPrefix(buf, base, width, flags) ==
  buf \o Times(Least(IF base = 8 THEN 0 ELSE 1, NtoaCap - Len(buf)), Letter)
      \o Times(Least(1, NtoaCap - Len(buf) - (IF base = 8 THEN 0 ELSE 1)), 0)

\* The prefix of a HASH directive, in the reversed buffer.  A buffer that is as
\* long as the width is taken to be so through zero padding, and gives up its
\* leading characters to the prefix.
HashPrefix(buf, base, width, flags) ==
  LET drop == IF "PRECISION" \notin flags /\ Len(buf) > 0 /\ Len(buf) = width
              THEN Least(Len(buf), IF base = 16 THEN 2 ELSE 1) ELSE 0
      kept == SubSeq(buf, 1, Len(buf) - drop)
      letter == Times(Least(IF base = 8 THEN 0 ELSE 1, NtoaCap - Len(kept)), Letter)
  IN  kept \o letter \o Times(Least(1, NtoaCap - Len(kept) - Len(letter)), 0)

\* _out_rev: the buffer backwards, padded to the width.
_out_rev(buf, width, flags) ==
  (IF {"LEFT", "ZEROPAD"} \cap flags = {} THEN Times(width - Len(buf), Blank) ELSE <<>>)
    \o Reverse(buf)
    \o (IF "LEFT" \in flags THEN Times(width - Len(buf), Blank) ELSE <<>>)

\* _ntoa_format: leading zeros, the prefix, the sign, then the padding.
_ntoa_format(digits, negative, base, prec, width, flags) ==
  LET left == "LEFT" \in flags
      w == IF ~left /\ width > 0 /\ "ZEROPAD" \in flags /\ (negative \/ {"PLUS", "SPACE"} \cap flags # {})
           THEN width - 1 ELSE width
      zeros == IF left THEN 0
               ELSE Most(prec, IF "ZEROPAD" \in flags THEN w ELSE 0)
      padded == digits \o Times(Least(zeros, NtoaCap) - Len(digits), 0)
      hashed == IF "HASH" \in flags THEN HashPrefix(padded, base, w, flags) ELSE padded
      sign == IF Len(hashed) >= NtoaCap THEN <<>>
              ELSE IF negative THEN <<Minus>>
              ELSE IF "PLUS" \in flags THEN <<Plus>>
              ELSE IF "SPACE" \in flags THEN <<Blank>> ELSE <<>>
  IN  _out_rev(hashed \o sign, w, flags)

\* The integer case of _vsnprintf: flags that a specifier drops.
IntegerText(d) ==
  LET p == Parse(d.flags, d.width, d.prec, d.hasPrec)
      v == ArgOf(d)
      base == BaseOf(d.spec)
      flags == p.flags \ ((IF base = 10 \/ v = 0 THEN {"HASH"} ELSE {})
                          \cup (IF d.spec \notin {"d", "hhd"} THEN {"PLUS", "SPACE"} ELSE {})
                          \cup (IF "PRECISION" \in p.flags THEN {"ZEROPAD"} ELSE {}))
  IN  _ntoa_format(_ntoa_long(Magnitude(v), base, flags), v < 0, base, p.prec, p.width, flags)

-----------------------------------------------------------------------------
(* Characters and strings                                                  *)

\* The characters of a string of length len that are printed.
ShownLen(len, p) == IF "PRECISION" \in p.flags THEN Least(len, p.prec) ELSE len

\* The cases 's' and 'c' of _vsnprintf.
StringText(d) ==
  LET p == Parse(d.flags, d.width, d.prec, d.hasPrec)
      n == IF d.kind = "char" THEN 1 ELSE ShownLen(d.value, p)
      pad == Times(p.width - n, Blank)
  IN  IF "LEFT" \in p.flags THEN Times(n, Letter) \o pad ELSE pad \o Times(n, Letter)

-----------------------------------------------------------------------------
(* Output                                                                  *)

Convert ==
  /\ pr.at = "format"
  /\ pr' = [pr EXCEPT !.at = "out", !.text = IF pr.d.kind = "int" THEN IntegerText(pr.d) ELSE StringText(pr.d)]

\* Where the final null goes.
Terminator(idx) == IF idx < pr.room THEN idx ELSE (pr.room - 1) % Two(LongBits)

\* _out_buffer for each character, and the final null: a write outside the
\* buffer is dropped.
Output ==
  LET text == Append(pr.text, Nul)
      at(i) == IF i <= Len(pr.text) THEN i - 1 ELSE Terminator(Len(pr.text))
  IN  /\ pr.at = "out"
      /\ pr' = [pr EXCEPT !.at = "done",
           !.buf = [k \in 1 .. pr.room |->
                     LET ws == {i \in 1 .. Len(text) : at(i) < pr.room /\ at(i) = k - 1}
                     IN  IF ws = {} THEN -1 ELSE text[CHOOSE i \in ws : \A j \in ws : j <= i]]]

PrintfNext == Convert \/ Output

PrintfSpec == PrintfInit /\ [][PrintfNext]_printfvars

-----------------------------------------------------------------------------
(* Properties                                                              *)

\* The text a directive stands for, by the C standard.
Reference(d) ==
  LET p == Parse(d.flags, d.width, d.prec, d.hasPrec)
      v == ArgOf(d)
      base == BaseOf(d.spec)
      prec == d.hasPrec /\ d.prec >= 0
      digits == IF prec /\ p.prec = 0 /\ v = 0 THEN <<>> ELSE Reverse(DigitsOf(Magnitude(v), base))
      prefix == IF "HASH" \notin d.flags \/ v = 0 \/ base = 10 THEN <<>>
                ELSE IF base # 8 THEN <<0, Letter>>
                ELSE IF p.prec > Len(digits) THEN <<>> ELSE <<0>>
      sign == IF v < 0 THEN <<Minus>>
              ELSE IF d.spec \notin {"d", "hhd"} THEN <<>>
              ELSE IF "PLUS" \in d.flags THEN <<Plus>>
              ELSE IF "SPACE" \in d.flags THEN <<Blank>> ELSE <<>>
      front == sign \o prefix
      number == Times(p.prec - Len(digits), 0) \o digits
      room == p.width - Len(front) - Len(number)
  IN  IF "LEFT" \in p.flags THEN front \o number \o Times(room, Blank)
      ELSE IF "ZEROPAD" \in d.flags /\ ~prec THEN front \o Times(room, 0) \o number
      ELSE Times(room, Blank) \o front \o number

\* Where this printf is known to differ: a number that does not fit its
\* buffer, a precision with LEFT, a negative precision argument, and a prefix:
\* in front of as many digits as the field is wide, in front of zero padding too
\* short to hold it, and on an octal number that already begins with a zero.
Differs(d) ==
  LET p == Parse(d.flags, d.width, d.prec, d.hasPrec)
      n == Len(DigitsOf(Magnitude(ArgOf(d)), BaseOf(d.spec)))
      prefixLen == IF d.spec = "o" THEN 1 ELSE 2
  IN  \/ Len(Reference(d)) >= NtoaCap
      \/ d.hasPrec /\ (d.prec < 0 \/ "LEFT" \in p.flags)
      \/ /\ "HASH" \in d.flags /\ d.spec \in {"x", "o", "b"}
         /\ \/ d.spec = "o" /\ p.prec > n
            \/ ~d.hasPrec /\ n = p.width
            \/ /\ ~d.hasPrec /\ "ZEROPAD" \in d.flags /\ "LEFT" \notin p.flags
               /\ n < p.width /\ (d.spec = "b" \/ n + prefixLen > p.width)

\* Outside the listed differences an integer is printed as the C standard says:
\* sign, prefix, zeros, digits and padding (_ntoa_format and its callers).
IntegerAsStandard ==
  (pr.at # "format" /\ pr.d.kind = "int" /\ ~Differs(pr.d)) => pr.text = Reference(pr.d)

\* A directive fills at least its width and a string shows at most its
\* precision (_out_rev, the cases 's' and 'c').
FieldFilled ==
  pr.at # "format" =>
    LET p == Parse(pr.d.flags, pr.d.width, pr.d.prec, pr.d.hasPrec)
    IN  /\ p.width <= NtoaCap => Len(pr.text) >= p.width
        /\ (pr.d.kind = "str" /\ pr.d.hasPrec) =>
             Cardinality({i \in DOMAIN pr.text : pr.text[i] = Letter}) <= p.prec

\* snprintf leaves the longest prefix of the text that fits, with a null behind
\* it, in a buffer of any size, none included (_out_buffer, the termination of
\* _vsnprintf).
OutputTerminated ==
  (pr.at = "done" /\ pr.room > 0) =>
    LET n == Least(Len(pr.text), pr.room - 1)
    IN  SubSeq(pr.buf, 1, n + 1) = Append(SubSeq(pr.text, 1, n), Nul)

\* A directive prints what the standard says, fills its field and leaves its
\* buffer terminated (printf.c).
PrintfExact == IntegerAsStandard /\ FieldFilled /\ OutputTerminated
=============================================================================
