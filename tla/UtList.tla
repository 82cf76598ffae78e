------------------------------- MODULE UtList -------------------------------
(***************************************************************************)
(* The linked lists of lib/include/utlist.h, singly linked (LL_), doubly   *)
(* linked (DL_) and circular (CDL_), over the memory the macros write: two *)
(* list heads and the next and prev fields of each element.  The first     *)
(* element's prev is the last element of a DL or CDL list; the last        *)
(* element's next is NULL, or the first element of a CDL list.             *)
(* Each macro is an operator from memory to memory.                        *)
(***************************************************************************)
EXTENDS Integers, Sequences, FiniteSets

CONSTANTS
  NElems,    \* elements are 1..NElems
  NRanks     \* cmp compares n % NRanks: elements may compare as equal

ASSUME UtAssumption == NElems \in Nat /\ NRanks \in Nat \ {0}

VARIABLES mem, family    \* family: the macros that are used

utvars == <<mem, family>>

Nil == 0
Elems == 1..NElems
Rank(e) == e % NRanks
cmp(a, b) == Rank(a) - Rank(b)

UtInit ==
  /\ mem = [head |-> <<Nil, Nil>>, next |-> [e \in Elems |-> Nil],
            prev |-> [e \in Elems |-> Nil]]
  /\ family \in {"LL", "DL", "CDL"}

\* LL_FOREACH and DL_FOREACH: from the head along next.
Foreach(m, h) ==
  LET from[e \in 0..NElems] == IF e = Nil THEN <<>> ELSE <<e>> \o from[m.next[e]]
  IN  from[m.head[h]]

TailOf(m, h) == LET s == Foreach(m, h) IN IF s = <<>> THEN Nil ELSE s[Len(s)]

\* The element whose next is e, found by the walk of the LL_ macros.
PredOf(m, h, e) ==
  LET ps == {p \in Elems : m.next[p] = e /\ \E i \in DOMAIN Foreach(m, h) : Foreach(m, h)[i] = p}
  IN  IF ps = {} THEN Nil ELSE CHOOSE p \in ps : TRUE

SetNext(m, e, x) == IF e = Nil THEN m ELSE [m EXCEPT !.next[e] = x]
SetPrev(m, e, x) == IF e = Nil THEN m ELSE [m EXCEPT !.prev[e] = x]
SetHead(m, h, x) == [m EXCEPT !.head[h] = x]

\* LL_LOWER_BOUND2 and DL_LOWER_BOUND2: the last element before the first
\* that does not compare below like.
LOWER_BOUND(m, h, like) ==
  LET walk[e \in Elems] ==
        IF m.next[e] = Nil THEN e
        ELSE IF cmp(m.next[e], like) >= 0 THEN e ELSE walk[m.next[e]]
  IN  IF m.head[h] = Nil \/ cmp(m.head[h], like) >= 0 THEN Nil ELSE walk[m.head[h]]

\* LL_SEARCH2: the first element that compares as equal, or NULL.
LL_SEARCH(m, h, like) ==
  LET walk[e \in 0..NElems] ==
        IF e = Nil \/ cmp(e, like) = 0 THEN e ELSE walk[m.next[e]]
  IN  walk[m.head[h]]

-----------------------------------------------------------------------------
(* Singly linked                                                           *)

LL_PREPEND(m, h, add) == SetHead(SetNext(m, add, m.head[h]), h, add)

LL_APPEND(m, h, add) ==
  IF m.head[h] = Nil THEN SetHead(SetNext(m, add, Nil), h, add)
  ELSE SetNext(SetNext(m, add, Nil), TailOf(m, h), add)

LL_CONCAT(m, h, h2) ==
  IF m.head[h] = Nil THEN SetHead(m, h, m.head[h2])
  ELSE SetNext(m, TailOf(m, h), m.head[h2])

LL_DELETE(m, h, del) ==
  IF m.head[h] = del THEN SetHead(m, h, m.next[del])
  ELSE SetNext(m, PredOf(m, h, del), m.next[del])

LL_REPLACE_ELEM(m, h, el, add) ==
  LET m1 == SetNext(m, add, m.next[el])
  IN  IF m.head[h] = el THEN SetHead(m1, h, add) ELSE SetNext(m1, PredOf(m, h, el), add)

LL_PREPEND_ELEM(m, h, el, add) ==
  LET m1 == SetNext(m, add, el)
  IN  IF el = Nil THEN LL_APPEND(m, h, add)
      ELSE IF m.head[h] = el THEN SetHead(m1, h, add) ELSE SetNext(m1, PredOf(m, h, el), add)

LL_APPEND_ELEM(m, h, el, add) ==
  IF el = Nil THEN LL_PREPEND(m, h, add)
  ELSE SetNext(SetNext(m, add, m.next[el]), el, add)

-----------------------------------------------------------------------------
(* Doubly linked                                                           *)

DL_PREPEND(m, h, add) ==
  LET old == m.head[h]
      m1 == SetNext(m, add, old)
  IN  SetHead(IF old = Nil THEN SetPrev(m1, add, add)
            ELSE SetPrev(SetPrev(m1, add, m.prev[old]), old, add), h, add)

DL_APPEND(m, h, add) ==
  LET old == m.head[h]
  IN  IF old = Nil THEN SetHead(SetNext(SetPrev(m, add, add), add, Nil), h, add)
      ELSE SetNext(SetPrev(SetNext(SetPrev(m, add, m.prev[old]), m.prev[old], add), old, add), add, Nil)

DL_CONCAT(m, h, h2) ==
  LET a == m.head[h]
      b == m.head[h2]
  IN  IF b = Nil THEN m
      ELSE IF a = Nil THEN SetHead(m, h, b)
      ELSE SetPrev(SetNext(SetPrev(m, b, m.prev[a]), m.prev[a], b), a, m.prev[b])

DL_DELETE(m, h, del) ==
  LET n == m.next[del]
      p == m.prev[del]
  IN  IF p = del THEN SetHead(m, h, Nil)
      ELSE IF del = m.head[h] THEN SetHead(SetPrev(m, n, p), h, n)
      ELSE SetPrev(SetNext(m, p, n), IF n # Nil THEN n ELSE m.head[h], p)

DL_REPLACE_ELEM(m, h, el, add) ==
  LET n == m.next[el]
      p == m.prev[el]
      m1 == SetNext(m, add, n)
  IN  IF m.head[h] = el
        THEN SetHead(IF n = Nil THEN SetPrev(m1, add, add) ELSE SetPrev(SetPrev(m1, add, p), n, add), h, add)
        ELSE SetPrev(SetNext(SetPrev(m1, add, p), p, add), IF n = Nil THEN m.head[h] ELSE n, add)

DL_PREPEND_ELEM(m, h, el, add) ==
  LET p == m.prev[el]
      m1 == SetPrev(SetPrev(SetNext(m, add, el), add, p), el, add)
  IN  IF el = Nil THEN DL_APPEND(m, h, add)
      ELSE IF m.head[h] = el THEN SetHead(m1, h, add) ELSE SetNext(m1, p, add)

DL_APPEND_ELEM(m, h, el, add) ==
  LET n == m.next[el]
  IN  IF el = Nil THEN DL_PREPEND(m, h, add)
      ELSE SetPrev(SetNext(SetPrev(SetNext(m, add, n), add, el), el, add),
                IF n # Nil THEN n ELSE m.head[h], add)

-----------------------------------------------------------------------------
(* Circular                                                                *)

\* CDL_FOREACH2: from the head along next until it comes round.
CDL_FOREACH(m, h) ==
  LET from[e \in Elems, k \in 1..NElems] ==
        <<e>> \o (IF m.next[e] \in {m.head[h], Nil} \/ k = NElems THEN <<>> ELSE from[m.next[e], k + 1])
  IN  IF m.head[h] = Nil THEN <<>> ELSE from[m.head[h], 1]

CDL_LOWER_BOUND(m, h, like) ==
  LET walk[e \in Elems] ==
        IF m.next[e] = m.head[h] \/ cmp(m.next[e], like) >= 0 THEN e ELSE walk[m.next[e]]
  IN  IF m.head[h] = Nil \/ cmp(m.head[h], like) >= 0 THEN Nil ELSE walk[m.head[h]]

CDL_SEARCH(m, h, like) ==
  LET found == SelectSeq(CDL_FOREACH(m, h), LAMBDA e : cmp(e, like) = 0)
  IN  IF found = <<>> THEN Nil ELSE found[1]

\* p before n.
Join(m, p, n) == SetPrev(SetNext(m, p, n), n, p)

Alone(m, h, add) == SetHead(Join(m, add, add), h, add)

CDL_APPEND(m, h, add) ==
  LET old == m.head[h]
  IN  IF old = Nil THEN Alone(m, h, add) ELSE Join(Join(m, add, old), m.prev[old], add)

CDL_PREPEND(m, h, add) == SetHead(CDL_APPEND(m, h, add), h, add)

CDL_REPLACE_ELEM(m, h, el, add) ==
  LET m1 == Join(Join(m, add, m.next[el]), m.prev[el], add)
  IN  IF m.next[el] = el THEN Alone(m, h, add)
      ELSE IF m.head[h] = el THEN SetHead(m1, h, add) ELSE m1

CDL_PREPEND_ELEM(m, h, el, add) ==
  LET m1 == Join(Join(m, add, el), m.prev[el], add)
  IN  IF el = Nil THEN CDL_APPEND(m, h, add)
      ELSE IF m.head[h] = el THEN SetHead(m1, h, add) ELSE m1

CDL_APPEND_ELEM(m, h, el, add) ==
  IF el = Nil THEN CDL_PREPEND(m, h, add) ELSE Join(Join(m, add, m.next[el]), el, add)

CDL_INSERT_INORDER(m, h, add) ==
  IF m.head[h] = Nil THEN Alone(m, h, add) ELSE CDL_APPEND_ELEM(m, h, CDL_LOWER_BOUND(m, h, add), add)

CDL_DELETE(m, h, del) ==
  LET m1 == Join(m, m.prev[del], m.next[del])
  IN  IF m.head[h] = del /\ m.next[del] = del THEN SetHead(m, h, Nil)
      ELSE IF m.head[h] = del THEN SetHead(m1, h, m.next[del]) ELSE m1

-----------------------------------------------------------------------------
(* The merge sort of LL_SORT2, DL_SORT2 and CDL_SORT2                      *)

\* Mutant of MergeRuns: of two equal elements the one of the later run goes first.
MutMergeRuns(p, q) ==
  LET go[i \in 0..Len(p), j \in 0..Len(q)] ==
        IF i = Len(p) /\ j = Len(q) THEN <<>>
        ELSE IF j = Len(q) \/ (i < Len(p) /\ cmp(p[i + 1], q[j + 1]) < 0)
          THEN <<p[i + 1]>> \o go[i + 1, j] ELSE <<q[j + 1]>> \o go[i, j + 1]
  IN  go[0, 0]

\* Two runs are merged by taking p's element while it compares no greater.
MergeRuns(p, q) ==
  LET go[i \in 0..Len(p), j \in 0..Len(q)] ==
        IF i = Len(p) /\ j = Len(q) THEN <<>>
        ELSE IF j = Len(q) \/ (i < Len(p) /\ cmp(p[i + 1], q[j + 1]) <= 0)
          THEN <<p[i + 1]>> \o go[i + 1, j] ELSE <<q[j + 1]>> \o go[i, j + 1]
  IN  go[0, 0]

\* One pass merges neighbouring runs of insize; passes double insize until
\* one pass needs no more than one merge.
MergeSort(s) ==
  LET end(i) == IF i < Len(s) THEN i ELSE Len(s)
      pass[w \in 1..2 * Len(s), r \in Seq(Elems), at \in 0..2 * Len(s)] ==
        IF at >= Len(s) THEN <<>>
        ELSE MergeRuns(SubSeq(r, at + 1, end(at + w)),
                   SubSeq(r, end(at + w) + 1, end(at + 2 * w))) \o pass[w, r, at + 2 * w]
      sort[w \in 1..2 * Len(s), r \in Seq(Elems)] ==
        IF 2 * w >= Len(s) THEN pass[w, r, 0] ELSE sort[2 * w, pass[w, r, 0]]
  IN  IF s = <<>> THEN <<>> ELSE sort[1, s]

\* The elements are relinked in the order the merges take them; DL_SORT2 and
\* CDL_SORT2 also set prev, and the head's prev to the last, CDL_SORT2 the last
\* one's next to the head.
Relink(m, h, s) ==
  LET at(e) == CHOOSE i \in DOMAIN s : s[i] = e
      in == {s[i] : i \in DOMAIN s}
  IN  [head |-> [m.head EXCEPT ![h] = IF s = <<>> THEN Nil ELSE s[1]],
       next |-> [e \in Elems |->
                  IF e \notin in THEN m.next[e]
                  ELSE IF at(e) < Len(s) THEN s[at(e) + 1]
                  ELSE IF family = "CDL" THEN s[1] ELSE Nil],
       prev |-> [e \in Elems |->
                  IF e \notin in \/ family = "LL" THEN m.prev[e]
                  ELSE IF at(e) > 1 THEN s[at(e) - 1] ELSE s[Len(s)]]]

-----------------------------------------------------------------------------
(* A program with two lists                                                *)

\* The macro of the family in use.
Of(ll, dl, cdl) == CASE family = "LL" -> ll [] family = "DL" -> dl [] OTHER -> cdl

ListOf(h) == Of(Foreach(mem, h), Foreach(mem, h), CDL_FOREACH(mem, h))

InList(h, e) == \E i \in DOMAIN ListOf(h) : ListOf(h)[i] = e

InAList(e) == \E h \in {1, 2} : InList(h, e)

\* The fields of an element outside both lists are not read: every macro that
\* links an element writes them.
Unlink(m, e) == SetPrev(SetNext(m, e, Nil), e, Nil)

\* LL_INSERT_INORDER2, DL_INSERT_INORDER2 and CDL_INSERT_INORDER2
INSERT_INORDER(m, h, add) ==
  Of(LL_APPEND_ELEM(m, h, LOWER_BOUND(m, h, add), add),
     DL_APPEND_ELEM(m, h, LOWER_BOUND(m, h, add), add),
     CDL_INSERT_INORDER(m, h, add))

ListAdd(h, e) ==
  /\ ~InAList(e)
  /\ \/ mem' = Of(LL_PREPEND(mem, h, e), DL_PREPEND(mem, h, e), CDL_PREPEND(mem, h, e))
     \/ mem' = Of(LL_APPEND(mem, h, e), DL_APPEND(mem, h, e), CDL_APPEND(mem, h, e))
     \/ mem' = INSERT_INORDER(mem, h, e)

ListAddAt(h, el, e) ==
  /\ ~InAList(e) /\ InList(h, el)
  /\ \/ mem' = Of(LL_PREPEND_ELEM(mem, h, el, e), DL_PREPEND_ELEM(mem, h, el, e),
                   CDL_PREPEND_ELEM(mem, h, el, e))
     \/ mem' = Of(LL_APPEND_ELEM(mem, h, el, e), DL_APPEND_ELEM(mem, h, el, e),
                   CDL_APPEND_ELEM(mem, h, el, e))
     \/ mem' = Unlink(Of(LL_REPLACE_ELEM(mem, h, el, e), DL_REPLACE_ELEM(mem, h, el, e),
                          CDL_REPLACE_ELEM(mem, h, el, e)), el)

ListDelete(h, e) ==
  /\ InList(h, e)
  /\ mem' = Unlink(Of(LL_DELETE(mem, h, e), DL_DELETE(mem, h, e), CDL_DELETE(mem, h, e)), e)

ListSort(h) == mem' = Relink(mem, h, MergeSort(ListOf(h)))

\* The caller then forgets the second head.  Circular lists have no CONCAT.
ListConcat(h, h2) ==
  /\ family # "CDL"
  /\ mem' = SetHead(Of(LL_CONCAT(mem, h, h2), DL_CONCAT(mem, h, h2), mem), h2, Nil)

UtNext ==
  /\ \E h \in {1, 2} :
       \/ \E e \in Elems : ListAdd(h, e) \/ ListDelete(h, e) \/ \E el \in Elems : ListAddAt(h, el, e)
       \/ ListSort(h)
       \/ ListConcat(h, 3 - h)
  /\ UNCHANGED family

UtSpec == UtInit /\ [][UtNext]_utvars

-----------------------------------------------------------------------------
\* In a DL or CDL list every element is its successor's prev, and the head's prev
\* is the last element, what lets the macros append and delete without a walk; a
\* CDL list closes (DL_APPEND2, DL_DELETE2 and their CDL_ forms).
DoublyLinked ==
  \A h \in {1, 2} :
    LET s == ListOf(h)
    IN  /\ family # "LL" => \A i \in DOMAIN s : mem.prev[s[i]] = IF i = 1 THEN s[Len(s)] ELSE s[i - 1]
        /\ (family = "CDL" /\ s # <<>>) => mem.next[s[Len(s)]] = s[1]

\* The search returns the first match in list order (LL_SEARCH2, CDL_SEARCH2).
SearchFindsFirst ==
  \A h \in {1, 2}, e \in Elems :
    LET s == ListOf(h)
        at == {i \in DOMAIN s : Rank(s[i]) = Rank(e)}
        found == Of(LL_SEARCH(mem, h, e), LL_SEARCH(mem, h, e), CDL_SEARCH(mem, h, e))
    IN  found = IF at = {} THEN Nil ELSE s[CHOOSE i \in at : \A j \in at : i <= j]

Sequences2 == INSTANCE TwoLists WITH lists <- <<ListOf(1), ListOf(2)>>

\* The three families implement sequences: no macro loses, doubles or reorders
\* the other elements, insertion in order and sorting keep equal elements as they
\* were (the LL_, DL_ and CDL_ macros); links and searches agree with them.
ImplementsTwoLists == Sequences2!Spec /\ [](DoublyLinked /\ SearchFindsFirst)
=============================================================================
