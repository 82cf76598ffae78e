------------------------------ MODULE PrioFifo ------------------------------
(***************************************************************************)
(* What the scheduler needs of its ready heap: one queue for each          *)
(* priority, of limited total length, and Pop returns the oldest entry of  *)
(* the most urgent priority.  Kernel.tla uses the heap in this form.       *)
(***************************************************************************)
EXTENDS Naturals, Sequences

CONSTANTS Prios, Tds, Cap, None

VARIABLES q, count, popped

Init ==
  /\ q = [p \in Prios |-> <<>>]
  /\ count = 0
  /\ popped = None

Insert(t, p) ==
  /\ IF count < Cap
       THEN q' = [q EXCEPT ![p] = Append(@, t)] /\ count' = count + 1
       ELSE UNCHANGED <<q, count>>
  /\ popped' = None

Pop ==
  \/ /\ count = 0
     /\ popped' = None
     /\ UNCHANGED <<q, count>>
  \/ \E p \in Prios :
       /\ q[p] # <<>> /\ \A r \in Prios : r < p => q[r] = <<>>
       /\ popped' = Head(q[p])
       /\ q' = [q EXCEPT ![p] = Tail(@)]
       /\ count' = count - 1

Next == Pop \/ \E t \in Tds, p \in Prios : Insert(t, p)

Spec == Init /\ [][Next]_<<q, count, popped>>
=============================================================================
