----------------------------- MODULE HashTable ------------------------------
(***************************************************************************)
(* The chained hash table of lib/include/hashtable.h as the C name server  *)
(* (user/src/nameserver/nameserver.c) uses it.  Elements come from a fixed *)
(* array through a free list; HT_INIT lists one element past its end.      *)
(***************************************************************************)
EXTENDS Integers, Sequences, FiniteSets, SequencesExt

CONSTANTS
  NsNames,     \* names, as naturals; hashfunc_string(n) % bucksz is n % Bucksz
  NsTids,
  Bucksz,      \* U_NAME_HT_BUCKSZ
  HtCap        \* U_NAME_HT_CAPACITY

ASSUME HtAssumption == NsNames \subseteq Nat /\ Bucksz \in Nat \ {0} /\ HtCap \in Nat

VARIABLE ht    \* [buckets, free, key, val]; chains are sequences of indices

U_NO_TID_FOUND == -2
HT_IDX(n) == n % Bucksz

\* The loop of HT_INIT prepends objects[capacity] first and objects[0] last.
HT_INIT_FREE == [i \in 1..HtCap + 1 |-> i - 1]

HT_INIT ==
  ht = [buckets |-> [b \in 0..Bucksz - 1 |-> <<>>], free |-> HT_INIT_FREE,
        key |-> [i \in 0..HtCap |-> 0], val |-> [i \in 0..HtCap |-> 0]]

\* The place of the first element of the chain with this key, or 0.
HT_AT(h, n) ==
  LET b == h.buckets[HT_IDX(n)]
      at == {i \in DOMAIN b : h.key[b[i]] = n}
  IN  IF at = {} THEN 0 ELSE CHOOSE i \in at : \A j \in at : i <= j

\* That element, or -1.
HT_FIND(h, n) == IF HT_AT(h, n) = 0 THEN -1 ELSE h.buckets[HT_IDX(n)][HT_AT(h, n)]

\* Mutant of HT_INSERT: prepended to the chain of the value, not the key.
MutHT_INSERT(h, e) == [h EXCEPT !.buckets[h.val[e] % Bucksz] = <<e>> \o @]

HT_INSERT(h, e) == [h EXCEPT !.buckets[HT_IDX(h.key[e])] = <<e>> \o @]

\* A name is added with the first free element, or its tid is overwritten.
ns_register_name_with_tid(n, t) ==
  LET e == Head(ht.free)
  IN  ht' = IF HT_FIND(ht, n) # -1 THEN [ht EXCEPT !.val[HT_FIND(ht, n)] = t]
            ELSE HT_INSERT([ht EXCEPT !.free = Tail(@), !.key[e] = n, !.val[e] = t], e)

ns_whois_tid(n) == IF HT_FIND(ht, n) = -1 THEN U_NO_TID_FOUND ELSE ht.val[HT_FIND(ht, n)]

\* HT_DEL_BY_KEY of a key that is there (one that is not would put NULL on
\* the free list); what a free element still holds is of no account.
HT_DEL_BY_KEY(n) ==
  LET e == HT_FIND(ht, n)
  IN  /\ e # -1
      /\ ht' = [ht EXCEPT !.buckets[HT_IDX(n)] = RemoveAt(@, HT_AT(ht, n)),
                          !.free = <<e>> \o @, !.key[e] = 0, !.val[e] = 0]

HtNext ==
  \E n \in NsNames : HT_DEL_BY_KEY(n) \/ \E t \in NsTids : ns_register_name_with_tid(n, t)

HtSpec == HT_INIT /\ [][HtNext]_ht

-----------------------------------------------------------------------------
Chained(h) == UNION {ToSet(h.buckets[b]) : b \in DOMAIN h.buckets}

\* The element past the array is never in use while there are no more names
\* than elements, and every element is in one chain or free, never both.
ElementsAccounted ==
  /\ HtCap \notin Chained(ht)
  /\ Chained(ht) \cap ToSet(ht.free) = {}
  /\ Len(ht.free) + Cardinality(Chained(ht)) = HtCap + 1
  /\ IsInjective(ht.free)

Directory == [n \in NsNames |-> ns_whois_tid(n)]

\* A lookup gives the last tid registered for that very name: colliding names
\* are kept apart and no registration touches another; no element is lost or
\* used twice on the way.
DirectoryExact ==
  /\ []ElementsAccounted
  /\ [][\A n \in NsNames :
       /\ HT_DEL_BY_KEY(n) => Directory' = [Directory EXCEPT ![n] = U_NO_TID_FOUND]
       /\ \A t \in NsTids :
            ns_register_name_with_tid(n, t) => Directory' = [Directory EXCEPT ![n] = t]]_ht
=============================================================================
