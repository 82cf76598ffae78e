----------------------------- MODULE Rendezvous -----------------------------
(***************************************************************************)
(* What message passing promises to user programs (the comments of         *)
(* ke_send, ke_recv and ke_reply in lib/include/uapi.h): a message is a    *)
(* value, handed to the task it was sent to exactly once and in the order  *)
(* of sending, and its sender resumes only with a reply.  There is no      *)
(* scheduler here, no descriptor, no wait list and no shared mailbox: the  *)
(* messages themselves are queued.                                         *)
(***************************************************************************)
EXTENDS Naturals, Sequences

CONSTANTS Tids, Msgs, NoMsg, NoTask

VARIABLES
  live,    \* the tasks that exist
  phase,   \* "free", "sending", "receiving" or "awaiting" (a reply)
  inbox,   \* for each task the sequence of <<sender, message>> not yet taken
  got,     \* the message or reply a task will find when it resumes
  from     \* the sender of that message

ipc == <<live, phase, inbox, got, from>>

Init ==
  /\ live \subseteq Tids
  /\ phase = [t \in Tids |-> "free"]
  /\ inbox = [t \in Tids |-> <<>>]
  /\ got = [t \in Tids |-> NoMsg]
  /\ from = [t \in Tids |-> NoTask]

Spawn(t) ==
  /\ t \notin live
  /\ live' = live \cup {t}
  /\ UNCHANGED <<phase, inbox, got, from>>

\* What is in the inbox of a task that exits is lost with it.
Exit(t) ==
  /\ t \in live /\ phase[t] = "free"
  /\ live' = live \ {t}
  /\ inbox' = [inbox EXCEPT ![t] = <<>>]
  /\ UNCHANGED <<phase, got, from>>

\* A task resumes and takes what it was given.
Resume(t) ==
  /\ phase[t] = "free"
  /\ got' = [got EXCEPT ![t] = NoMsg]
  /\ from' = [from EXCEPT ![t] = NoTask]
  /\ UNCHANGED <<live, phase, inbox>>

Post(s, r, m) ==
  /\ {s, r} \subseteq live
  /\ phase[s] = "free" /\ phase[r] # "receiving"
  /\ phase' = [phase EXCEPT ![s] = "sending"]
  /\ inbox' = [inbox EXCEPT ![r] = Append(@, <<s, m>>)]
  /\ UNCHANGED <<live, got, from>>

Handoff(s, r, m) ==
  /\ {s, r} \subseteq live
  /\ phase[s] = "free" /\ phase[r] = "receiving"
  /\ phase' = [phase EXCEPT ![s] = "awaiting", ![r] = "free"]
  /\ got' = [got EXCEPT ![r] = m]
  /\ from' = [from EXCEPT ![r] = s]
  /\ UNCHANGED <<live, inbox>>

Await(r) ==
  /\ r \in live /\ phase[r] = "free" /\ inbox[r] = <<>>
  /\ phase' = [phase EXCEPT ![r] = "receiving"]
  /\ UNCHANGED <<live, inbox, got, from>>

Take(r) ==
  /\ r \in live /\ phase[r] = "free" /\ inbox[r] # <<>>
  /\ LET s == Head(inbox[r])[1]
         m == Head(inbox[r])[2]
     IN  /\ phase[s] = "sending"
         /\ phase' = [phase EXCEPT ![s] = "awaiting"]
         /\ got' = [got EXCEPT ![r] = m]
         /\ from' = [from EXCEPT ![r] = s]
  /\ inbox' = [inbox EXCEPT ![r] = Tail(@)]
  /\ UNCHANGED live

Answer(s, m) ==
  /\ s \in live /\ phase[s] = "awaiting"
  /\ phase' = [phase EXCEPT ![s] = "free"]
  /\ got' = [got EXCEPT ![s] = m]
  /\ UNCHANGED <<live, inbox, from>>

Next ==
  \E t \in Tids :
    \/ Spawn(t) \/ Exit(t) \/ Resume(t) \/ Await(t) \/ Take(t)
    \/ \E m \in Msgs : \/ Answer(t, m)
                       \/ \E r \in Tids : Post(t, r, m) \/ Handoff(t, r, m)

Spec == Init /\ [][Next]_ipc
=============================================================================
