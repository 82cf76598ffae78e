------------------------------ MODULE TwoLists ------------------------------
(***************************************************************************)
(* What the list macros promise: two sequences of distinct elements.       *)
(***************************************************************************)
EXTENDS Naturals, Sequences, FiniteSets, SequencesExt

CONSTANTS Elems, Rank(_)

VARIABLE lists

In(e) == \E h \in {1, 2} : e \in ToSet(lists[h])

Put(h, s) == lists' = [lists EXCEPT ![h] = s]

\* e goes in behind the first k elements.
Place(h, e, k) == ~In(e) /\ Put(h, InsertAt(lists[h], k + 1, e))

\* The number of elements that rank below e before the first that does not.
Lower(s, e) ==
  LET stop == {i \in DOMAIN s : Rank(s[i]) >= Rank(e)}
  IN  IF stop = {} THEN Len(s) ELSE (CHOOSE i \in stop : \A j \in stop : i <= j) - 1

\* The permutation of s by rank that keeps equal ranks in their order.
SortedStably(s) ==
  SortSeq([i \in DOMAIN s |-> <<s[i], i>>],
          LAMBDA a, b : Rank(a[1]) < Rank(b[1]) \/ (Rank(a[1]) = Rank(b[1]) /\ a[2] < b[2]))

Init == lists = <<<<>>, <<>>>>

Next ==
  \E h \in {1, 2} :
    LET s == lists[h]
    IN  \/ \E e \in Elems :
             \/ \E k \in {0, Len(s), Lower(s, e)} : Place(h, e, k)
             \/ \E i \in DOMAIN s : \/ Place(h, e, i - 1)
                                    \/ Place(h, e, i)
                                    \/ ~In(e) /\ Put(h, ReplaceAt(s, i, e))
             \/ e \in ToSet(s) /\ Put(h, SelectSeq(s, LAMBDA x : x # e))
        \/ Put(h, [i \in DOMAIN s |-> SortedStably(s)[i][1]])
        \/ lists' = [lists EXCEPT ![h] = s \o lists[3 - h], ![3 - h] = <<>>]

Spec == Init /\ [][Next]_lists
=============================================================================
