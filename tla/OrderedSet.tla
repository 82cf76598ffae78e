----------------------------- MODULE OrderedSet -----------------------------
(***************************************************************************)
(* What the kernel needs of its map of task ids: a set of nodes with       *)
(* distinct keys, to which a node is added unless its key is taken, and    *)
(* from which a member is removed or replaced.                             *)
(***************************************************************************)
CONSTANTS Nodes, KeyOf(_)

VARIABLE members

Init == members = {}

Taken(k) == \E m \in members : KeyOf(m) = k

Add(n) == ~Taken(KeyOf(n)) /\ members' = members \cup {n}

Remove(n) == n \in members /\ members' = members \ {n}

Exchange(n, m) ==
  /\ n \in members /\ m \notin members /\ KeyOf(m) = KeyOf(n)
  /\ members' = (members \ {n}) \cup {m}

Next == \E n \in Nodes : Add(n) \/ Remove(n) \/ \E m \in Nodes : Exchange(n, m)

Spec == Init /\ [][Next]_members
=============================================================================
