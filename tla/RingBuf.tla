------------------------------ MODULE RingBuf -------------------------------
(***************************************************************************)
(* The ring buffer of lib/include/ring_buffer.h as the kernel's mailboxes  *)
(* use it for waiting senders, and the user programs for bytes: head is    *)
(* the index of the newest element, size counts them.                      *)
(***************************************************************************)
EXTENDS Naturals, Sequences, FiniteSets

CONSTANTS
  RingCap,     \* USER_STACK_ARRAY_CNT in a mailbox
  Senders,
  NoSender     \* NULL

ASSUME RingAssumption == RingCap \in Nat \ {0} /\ NoSender \notin Senders

VARIABLES
  ring,        \* [head, size, array]
  got          \* what the last k_mbox_pop_send_queue returned

ringvars == <<ring, got>>

RB_INIT ==
  /\ ring = [head |-> RingCap - 1, size |-> 0, array |-> [i \in 0..RingCap - 1 |-> NoSender]]
  /\ got = NoSender

\* The slot RB_PUSH_PRE hands out, or -1 when the buffer is full.
PushSlot(r) == (r.head + 1) % RingCap

\* Mutant of PeekSlot: one too far back.
MutPeekSlot(r) == (r.head + RingCap - r.size) % RingCap

\* The slot of the oldest element.
PeekSlot(r) == (r.head + RingCap + 1 - r.size) % RingCap

\* k_mbox_add_send_queue: RB_PUSH_PRE and the store through its pointer.  A
\* full buffer gives NULL; the kernel never has more senders than slots.
k_mbox_add_send_queue(td) ==
  /\ ring.size < RingCap
  /\ ring' = [head |-> PushSlot(ring), size |-> ring.size + 1,
              array |-> [ring.array EXCEPT ![PushSlot(ring)] = td]]
  /\ got' = NoSender

\* k_mbox_pop_send_queue: RB_PEEK, and RB_POP only if there is an element.
k_mbox_pop_send_queue ==
  IF ring.size = 0 THEN got' = NoSender /\ UNCHANGED ring
  ELSE /\ got' = ring.array[PeekSlot(ring)]
       /\ ring' = [ring EXCEPT !.size = @ - 1]

RingNext == k_mbox_pop_send_queue \/ \E td \in Senders : k_mbox_add_send_queue(td)

RingSpec == RB_INIT /\ [][RingNext]_ringvars

-----------------------------------------------------------------------------
Contents(r) == [i \in 1..r.size |-> r.array[(PeekSlot(r) + i - 1) % RingCap]]

Fifo == INSTANCE PrioFifo WITH
          Prios <- {0}, Tds <- Senders, Cap <- RingCap, None <- NoSender,
          q <- [p \in {0} |-> Contents(ring)], count <- ring.size, popped <- got

\* The buffer is a queue of limited length, wherever head stands and across
\* its wrap-around: a receiver takes its senders in the order they sent.
RingIsFifo == Fifo!Spec
=============================================================================
