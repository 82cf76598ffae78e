------------------------------- MODULE Kernel -------------------------------
(***************************************************************************)
(* The trains-os microkernel: task descriptors, the priority scheduler,    *)
(* Send/Receive/Reply message passing and interrupt delivery               *)
(* (kernel/src/syscall_handler.c, loop.c, task.c, interrupt.c and          *)
(* kernel/include/scheduler.h, mailbox.h, task.h).                         *)
(*                                                                         *)
(* The machine has one core and the kernel runs with interrupts masked, so *)
(* a trap from user mode, its handler and the tail of k_loop are one step. *)
(* Two things are separate steps: choosing the next task (Dispatch), and   *)
(* each iteration of the loop that wakes the tasks waiting for an event.   *)
(* User programs are arbitrary: the running task may make any system call  *)
(* with any argument, or arm a device.                                     *)
(***************************************************************************)
EXTENDS Integers, Sequences, FiniteSets

CONSTANTS
  MaxTid,       \* bound: no task identifier above MaxTid is handed out
  LowestPrio,   \* KE_PRIO_MIN (20); KE_PRIO_MAX is 0, the most urgent
  CreatePrios,  \* the integers tasks pass to ke_create as a priority
  HeapCap,      \* K_SCHED_HEAP_CAPACITY (200)
  MboxCap,      \* USER_STACK_ARRAY_CNT (64), capacity of sender_waitqueue
  Events,       \* the numbers tasks pass to ke_await_event: any at all
  Sources,      \* the interrupt ids k_intr_handler delivers
  Msgs,         \* message contents
  BootParent,   \* the word k_main's NULL parent_td reads as a parent's tid
  NoMsg,        \* a buffer the kernel has not written
  NoEvent       \* no interrupt is being handled

NoTask  == -1              \* NULL as kg_current_td, K_TID_INVALID as a tid
IdleTid == 0               \* idle_task, the first task k_main creates
Tids    == 0..MaxTid
Prios   == 0..LowestPrio   \* k_sched_priority_is_valid

\* enum kTaskState.  UNINIT stands for whatever value happens to be in a
\* descriptor that k_td_init_user_task never filled in.  A task waiting for
\* an event has the number it passed as its state, and 1, 3, 4 and 5 are states
\* of this enum too: such a number is in Events as the state it reads as, and
\* no device delivers it.
TaskStates == {"READY", "SEND_BLOCKED", "RECEIVE_BLOCKED", "REPLY_BLOCKED",
               "UNINIT"}

ASSUME BoundsAssumption ==
  /\ MaxTid \in Nat /\ MaxTid >= 2
  /\ LowestPrio \in Nat
  /\ CreatePrios \subseteq Int
  /\ HeapCap \in Nat /\ HeapCap >= 2
  /\ MboxCap \in Nat \ {0}
  /\ BootParent \in Int

ASSUME ValuesAssumption ==
  /\ Sources \subseteq Events
  /\ NoEvent \notin Events
  /\ "UNINIT" \notin Events
  /\ TaskStates \cap Sources = {}
  /\ NoMsg \notin Msgs

VARIABLES
  tasks,          \* map_tid: the identifiers of the descriptors in use
  next_tid,       \* kTaskDspMgr.next_tid
  current,        \* kg_current_td
  heap,           \* task_heap: [q: FIFO of each priority, count]
  state,          \* kTaskDsp.state
  priority,       \* kTaskDsp.priority_key.priority
  parent,         \* kTaskDsp.parent_tid
  retval,         \* kTaskDsp.syscall_retval; sizes are all recorded as 0
  sendq,          \* mailbox.sender_waitqueue
  out_msg,        \* what mailbox.out_msg points to, until it is copied
  in_msg,         \* what the kernel has written to mailbox.in_buf
  in_tid,         \* what the kernel has written to *mailbox.in_tid
  send_blocked, recv_blocked, reply_blocked,  \* the scheduler's wait lists
  event_blocked,  \* the event_blocked list, as its sublist for each event
  armed,          \* the sources that will interrupt
  intr,           \* the event k_intr_handler is waking, or NoEvent
  fault           \* the kernel has written through a pointer it never set,
                  \* or unlinked a task from a list the task is not on

taskVars == <<tasks, next_tid, priority, parent>>
mboxVars == <<sendq, out_msg, in_msg, in_tid>>
waitVars == <<send_blocked, recv_blocked, reply_blocked>>
intrVars == <<event_blocked, armed, intr>>
vars == <<taskVars, current, heap, state, retval, mboxVars, waitVars,
          intrVars, fault>>

Elements(q) == {q[i] : i \in 1..Len(q)}
NoRepeats(q) == \A i, j \in 1..Len(q) : q[i] = q[j] => i = j

\* The tasks that wait on event_blocked under a number that reads as a state
\* of the enum: their state field says what the lists do not.
Misled == UNION {Elements(event_blocked[e]) : e \in Events \cap TaskStates}

-----------------------------------------------------------------------------
(* The ready heap.  Keys are (priority, insert_val) and insert_val grows   *)
(* with every insertion, so the heap is one FIFO per priority.             *)

\* Mutant of HeapInsert: insert_val does not grow, the newest runs first.
MutNewestFirst(h, t, p) ==
  IF h.count < HeapCap
    THEN [q |-> [h.q EXCEPT ![p] = <<t>> \o @], count |-> h.count + 1]
    ELSE h

\* HEAP_INSERT: an insertion into a full heap is silently dropped.
HeapInsert(h, t, p) ==
  IF h.count < HeapCap
    THEN [q |-> [h.q EXCEPT ![p] = Append(@, t)], count |-> h.count + 1]
    ELSE h

\* The tail of k_loop: the task that trapped is still kg_current_td and goes
\* back to the heap, behind whatever its system call made ready.
Requeue(h, t) == HeapInsert(h, t, priority[t])

-----------------------------------------------------------------------------
\* k_main: idle_task, user_entry and name_server exist, the last two are
\* ready at the most urgent priority.  Their parent_tid is read through a
\* NULL parent_td and is whatever word lies at that address.
Init ==
  /\ tasks = 0..2
  /\ next_tid = 3
  /\ current = NoTask
  /\ heap = [q |-> [p \in Prios |-> IF p = 0 THEN <<1, 2>> ELSE <<>>],
             count |-> 2]
  /\ state = [t \in Tids |-> "READY"]
  /\ priority = [t \in Tids |-> IF t = IdleTid THEN LowestPrio ELSE 0]
  /\ parent = [t \in Tids |-> IF t \in 0..2 THEN BootParent ELSE NoTask]
  /\ retval = [t \in Tids |-> 0]
  /\ sendq = [t \in Tids |-> <<>>]
  /\ out_msg = [t \in Tids |-> NoMsg]
  /\ in_msg = [t \in Tids |-> NoMsg]
  /\ in_tid = [t \in Tids |-> NoTask]
  /\ send_blocked = {}
  /\ recv_blocked = {}
  /\ reply_blocked = {}
  /\ event_blocked = [e \in Events |-> <<>>]
  /\ armed = {}
  /\ intr = NoEvent
  /\ fault = FALSE

-----------------------------------------------------------------------------
(* k_loop: choosing what runs next.                                        *)

\* k_sched_get_next: the oldest entry of the most urgent priority.  With
\* kernel_into_user the task takes its result and the message in its buffer;
\* the kernel never reads them again and they go back to fixed values.
DispatchTask(p) ==
  /\ ~fault /\ current = NoTask
  /\ heap.q[p] # <<>>
  /\ \A r \in Prios : r < p => heap.q[r] = <<>>
  /\ LET t == Head(heap.q[p])
     IN  /\ current' = t
         /\ retval' = [retval EXCEPT ![t] = 0]
         /\ in_msg' = [in_msg EXCEPT ![t] = NoMsg]
         /\ in_tid' = [in_tid EXCEPT ![t] = NoTask]
  /\ heap' = [q |-> [heap.q EXCEPT ![p] = Tail(@)], count |-> heap.count - 1]
  /\ UNCHANGED <<taskVars, state, sendq, out_msg, waitVars, intrVars, fault>>

DispatchIdle ==
  /\ ~fault /\ current = NoTask
  /\ \A p \in Prios : heap.q[p] = <<>>
  /\ current' = IdleTid
  /\ UNCHANGED <<taskVars, heap, state, retval, mboxVars, waitVars, intrVars,
                 fault>>

-----------------------------------------------------------------------------
(* System calls.  t is the running task; idle_task makes none.             *)

Running(t) == ~fault /\ current = t /\ t # IdleTid /\ intr = NoEvent

\* The call returns r to its caller, which k_loop puts back in the heap h.
Return(t, r, h) ==
  /\ retval' = [retval EXCEPT ![t] = r]
  /\ heap' = Requeue(h, t)
  /\ current' = NoTask

\* k_exit_handler, k_tmgr_destroy_task.  The senders in the mailbox of the
\* destroyed task are not told.  The fields of a freed descriptor are never
\* read again and go back to fixed values.
k_exit_handler(t) ==
  /\ Running(t)
  /\ tasks' = tasks \ {t}
  /\ current' = NoTask
  /\ sendq' = [sendq EXCEPT ![t] = <<>>]
  /\ priority' = [priority EXCEPT ![t] = 0]
  /\ parent' = [parent EXCEPT ![t] = NoTask]
  /\ UNCHANGED <<next_tid, heap, state, retval, out_msg, in_msg, in_tid,
                 waitVars, intrVars, fault>>

\* ke_yield: the entry of handler_func_tabl is a bare return.
k_yield(t) ==
  /\ Running(t)
  /\ Return(t, retval[t], heap)
  /\ UNCHANGED <<taskVars, state, mboxVars, waitVars, intrVars, fault>>

\* k_create_handler.  Without memory for the descriptor or the stack the
\* caller gets -2; the allocators are modelled elsewhere, here either
\* outcome can happen.
CreateNoMem(t) ==
  /\ Running(t)
  /\ Return(t, -2, heap)
  /\ UNCHANGED <<taskVars, state, mboxVars, waitVars, intrVars, fault>>

\* Mutant of CreateBadPrio: the descriptor is made ready all the same.
MutReadyUninit(t, p) ==
  /\ Running(t) /\ next_tid <= MaxTid
  /\ p \notin Prios
  /\ tasks' = tasks \cup {next_tid}
  /\ next_tid' = next_tid + 1
  /\ state' = [state EXCEPT ![next_tid] = "UNINIT"]
  /\ Return(t, -1, HeapInsert(heap, next_tid, LowestPrio))
  /\ UNCHANGED <<priority, parent, mboxVars, waitVars, intrVars, fault>>

\* The priority is looked at after k_tmgr_get_free_task has entered the
\* descriptor in map_tid: it stays there, neither initialised nor freed.
CreateBadPrio(t, p) ==
  /\ Running(t) /\ next_tid <= MaxTid
  /\ p \notin Prios
  /\ tasks' = tasks \cup {next_tid}
  /\ next_tid' = next_tid + 1
  /\ state' = [state EXCEPT ![next_tid] = "UNINIT"]
  /\ Return(t, -1, heap)
  /\ UNCHANGED <<priority, parent, mboxVars, waitVars, intrVars, fault>>

CreateTask(t, p) ==
  /\ Running(t) /\ next_tid <= MaxTid
  /\ p \in Prios
  /\ tasks' = tasks \cup {next_tid}
  /\ next_tid' = next_tid + 1
  /\ state' = [state EXCEPT ![next_tid] = "READY"]
  /\ priority' = [priority EXCEPT ![next_tid] = p]
  /\ parent' = [parent EXCEPT ![next_tid] = t]
  /\ Return(t, next_tid, HeapInsert(heap, next_tid, p))
  /\ UNCHANGED <<mboxVars, waitVars, intrVars, fault>>

k_create_handler(t) ==
  \/ CreateNoMem(t)
  \/ \E p \in CreatePrios : CreateBadPrio(t, p) \/ CreateTask(t, p)

k_my_tid_handler(t) ==
  /\ Running(t)
  /\ Return(t, t, heap)
  /\ UNCHANGED <<taskVars, state, mboxVars, waitVars, intrVars, fault>>

\* The parent is looked up in map_tid; a dead one is forgotten.
k_my_parent_tid_handler(t) ==
  /\ Running(t)
  /\ LET p == IF parent[t] \in tasks THEN parent[t] ELSE NoTask
     IN  /\ parent' = [parent EXCEPT ![t] = p]
         /\ Return(t, p, heap)
  /\ UNCHANGED <<tasks, next_tid, priority, state, mboxVars, waitVars,
                 intrVars, fault>>

-----------------------------------------------------------------------------
(* k_send_handler(tid, msg, ..., reply, ...)                               *)

SendNoTask(t, r) ==
  /\ Running(t)
  /\ r \notin tasks
  /\ Return(t, -1, heap)
  /\ UNCHANGED <<taskVars, state, mboxVars, waitVars, intrVars, fault>>

\* k_mbox_copy_msg and *in_tid: what receiver r finds when it runs.
Deliver(r, s, m) ==
  /\ in_msg' = [in_msg EXCEPT ![r] = m]
  /\ in_tid' = [in_tid EXCEPT ![r] = s]

\* The receiver is waiting: it gets the message and is made ready, the
\* sender waits for the reply.
SendHandoff(t, r, m) ==
  /\ Running(t)
  /\ r \in tasks \ Misled /\ state[r] = "RECEIVE_BLOCKED"
  /\ Deliver(r, t, m)
  /\ retval' = [retval EXCEPT ![r] = 0]
  /\ reply_blocked' = reply_blocked \cup {t}
  /\ recv_blocked' = recv_blocked \ {r}
  /\ state' = [state EXCEPT ![t] = "REPLY_BLOCKED", ![r] = "READY"]
  /\ heap' = HeapInsert(heap, r, priority[r])
  /\ current' = NoTask
  /\ UNCHANGED <<taskVars, sendq, out_msg, send_blocked, intrVars, fault>>

\* Mutant of SendQueue: kg_current_td is left set, k_loop puts it back.
MutSenderStays(t, r, m) ==
  /\ Running(t)
  /\ r \in tasks /\ state[r] # "RECEIVE_BLOCKED"
  /\ Len(sendq[r]) < MboxCap
  /\ out_msg' = [out_msg EXCEPT ![t] = m]
  /\ sendq' = [sendq EXCEPT ![r] = Append(@, t)]
  /\ send_blocked' = send_blocked \cup {t}
  /\ state' = [state EXCEPT ![t] = "SEND_BLOCKED"]
  /\ current' = NoTask
  /\ heap' = Requeue(heap, t)
  /\ UNCHANGED <<taskVars, retval, in_msg, in_tid, recv_blocked,
                 reply_blocked, intrVars, fault>>

\* The receiver is not waiting: the sender joins its sender_waitqueue.
SendQueue(t, r, m) ==
  /\ Running(t)
  /\ r \in tasks /\ state[r] # "RECEIVE_BLOCKED"
  /\ Len(sendq[r]) < MboxCap
  /\ out_msg' = [out_msg EXCEPT ![t] = m]
  /\ sendq' = [sendq EXCEPT ![r] = Append(@, t)]
  /\ send_blocked' = send_blocked \cup {t}
  /\ state' = [state EXCEPT ![t] = "SEND_BLOCKED"]
  /\ current' = NoTask
  /\ UNCHANGED <<taskVars, heap, retval, in_msg, in_tid, recv_blocked,
                 reply_blocked, intrVars, fault>>

\* k_mbox_add_send_queue does not look at the NULL that RB_PUSH_PRE gives
\* for a full queue.  The state and the mailbox of an uninitialised descriptor
\* are whatever its memory held: an empty mailbox nobody will ever read, or
\* pointers the kernel writes through.  A task that waits for event 4 reads as
\* RECEIVE_BLOCKED: the message goes to the buffer of an earlier call, if there
\* was one, and DL_DELETE2 takes the task from recv_blocked, which it is not on.
SendFault(t, r) ==
  /\ Running(t)
  /\ r \in tasks
  /\ \/ state[r] = "UNINIT"
     \/ r \in Misled /\ state[r] = "RECEIVE_BLOCKED"
     \/ state[r] # "RECEIVE_BLOCKED" /\ Len(sendq[r]) >= MboxCap
  /\ fault' = TRUE
  /\ UNCHANGED <<taskVars, current, heap, state, retval, mboxVars, waitVars,
                 intrVars>>

k_send_handler(t) ==
  \E r \in Tids : \/ SendNoTask(t, r)
                  \/ SendFault(t, r)
                  \/ \E m \in Msgs : SendHandoff(t, r, m) \/ SendQueue(t, r, m)

-----------------------------------------------------------------------------
(* k_recv_handler(tid, msg, ...)                                           *)

\* Mutant of RecvWait: the task blocks without a look at the queue.
MutRecvBlindly(t) ==
  /\ Running(t)
  /\ recv_blocked' = recv_blocked \cup {t}
  /\ state' = [state EXCEPT ![t] = "RECEIVE_BLOCKED"]
  /\ current' = NoTask
  /\ UNCHANGED <<taskVars, heap, retval, mboxVars, send_blocked, reply_blocked,
                 intrVars, fault>>

RecvWait(t) ==
  /\ Running(t)
  /\ sendq[t] = <<>>
  /\ recv_blocked' = recv_blocked \cup {t}
  /\ state' = [state EXCEPT ![t] = "RECEIVE_BLOCKED"]
  /\ current' = NoTask
  /\ UNCHANGED <<taskVars, heap, retval, mboxVars, send_blocked, reply_blocked,
                 intrVars, fault>>

\* The parts of RecvTake, for its mutants: sender s is taken, the queue
\* becomes q and the list of send-blocked tasks b.
MutTake(t, s, q, b) ==
  /\ Running(t)
  /\ sendq[t] # <<>>
  /\ Deliver(t, s, out_msg[s])
  /\ out_msg' = [out_msg EXCEPT ![s] = NoMsg]
  /\ send_blocked' = b
  /\ reply_blocked' = reply_blocked \cup {s}
  /\ state' = [state EXCEPT ![s] = "REPLY_BLOCKED"]
  /\ sendq' = [sendq EXCEPT ![t] = q]
  /\ Return(t, 0, heap)
  /\ UNCHANGED <<taskVars, recv_blocked, intrVars, fault>>

\* Mutants of RecvTake: the newest sender is taken; k_sched_remove_send_wait
\* is forgotten.
MutTakeNewest(t) ==
  MutTake(t, sendq[t][Len(sendq[t])],
          SubSeq(sendq[t], 1, Len(sendq[t]) - 1),
          send_blocked \ {sendq[t][Len(sendq[t])]})
MutTakeNoUnlink(t) ==
  MutTake(t, Head(sendq[t]), Tail(sendq[t]), send_blocked)

\* The longest waiting sender is taken: its message is copied and it waits
\* for the reply.
RecvTake(t) ==
  /\ Running(t)
  /\ sendq[t] # <<>>
  /\ LET s == Head(sendq[t])
     IN  /\ Deliver(t, s, out_msg[s])
         /\ out_msg' = [out_msg EXCEPT ![s] = NoMsg]
         /\ send_blocked' = send_blocked \ {s}
         /\ reply_blocked' = reply_blocked \cup {s}
         /\ state' = [state EXCEPT ![s] = "REPLY_BLOCKED"]
  /\ sendq' = [sendq EXCEPT ![t] = Tail(@)]
  /\ Return(t, 0, heap)
  /\ UNCHANGED <<taskVars, recv_blocked, intrVars, fault>>

k_recv_handler(t) == RecvWait(t) \/ RecvTake(t)

-----------------------------------------------------------------------------
(* k_reply_handler(tid, reply, ...): any task may reply.                   *)

ReplyNoTask(t, s) ==
  /\ Running(t)
  /\ s \notin tasks
  /\ Return(t, -1, heap)
  /\ UNCHANGED <<taskVars, state, mboxVars, waitVars, intrVars, fault>>

ReplyNotBlocked(t, s) ==
  /\ Running(t)
  /\ s \in tasks /\ state[s] # "REPLY_BLOCKED"
  /\ Return(t, -2, heap)
  /\ UNCHANGED <<taskVars, state, mboxVars, waitVars, intrVars, fault>>

\* Mutant of Reply: k_sched_add_ready of the sender is forgotten.
MutReplyNotReady(t, s, m) ==
  /\ Running(t)
  /\ s \in tasks \ Misled /\ state[s] = "REPLY_BLOCKED"
  /\ in_msg' = [in_msg EXCEPT ![s] = m]
  /\ reply_blocked' = reply_blocked \ {s}
  /\ state' = [state EXCEPT ![s] = "READY"]
  /\ retval' = [retval EXCEPT ![s] = 0, ![t] = 0]
  /\ heap' = Requeue(heap, t)
  /\ current' = NoTask
  /\ UNCHANGED <<taskVars, sendq, out_msg, in_tid, send_blocked, recv_blocked,
                 intrVars, fault>>

Reply(t, s, m) ==
  /\ Running(t)
  /\ s \in tasks \ Misled /\ state[s] = "REPLY_BLOCKED"
  /\ in_msg' = [in_msg EXCEPT ![s] = m]
  /\ reply_blocked' = reply_blocked \ {s}
  /\ state' = [state EXCEPT ![s] = "READY"]
  /\ retval' = [retval EXCEPT ![s] = 0, ![t] = 0]
  /\ heap' = Requeue(HeapInsert(heap, s, priority[s]), t)
  /\ current' = NoTask
  /\ UNCHANGED <<taskVars, sendq, out_msg, in_tid, send_blocked, recv_blocked,
                 intrVars, fault>>

\* The state of an uninitialised descriptor may read as REPLY_BLOCKED, and
\* that of a task that waits for event 5 does: it is taken from reply_blocked,
\* which it is not on.
ReplyFault(t, s) ==
  /\ Running(t)
  /\ s \in tasks
  /\ \/ state[s] = "UNINIT"
     \/ s \in Misled /\ state[s] = "REPLY_BLOCKED"
  /\ fault' = TRUE
  /\ UNCHANGED <<taskVars, current, heap, state, retval, mboxVars, waitVars,
                 intrVars>>

k_reply_handler(t) ==
  \E s \in Tids : \/ ReplyNoTask(t, s)
                  \/ ReplyFault(t, s)
                  \/ ReplyNotBlocked(t, s)
                  \/ \E m \in Msgs : Reply(t, s, m)

-----------------------------------------------------------------------------
(* Events.                                                                 *)

\* k_await_event_handler: any number is accepted, and stored as the state.
k_await_event_handler(t) ==
  \E e \in Events :
    /\ Running(t)
    /\ event_blocked' = [event_blocked EXCEPT ![e] = Append(@, t)]
    /\ state' = [state EXCEPT ![t] = e]
    /\ current' = NoTask
    /\ UNCHANGED <<taskVars, heap, retval, mboxVars, waitVars, armed, intr,
                   fault>>

\* A task arms a device from user mode (pie-rust/src/sys/rpi.rs); nothing
\* traps.
Arm(t, e) ==
  /\ Running(t)
  /\ armed' = armed \cup {e}
  /\ UNCHANGED <<taskVars, current, heap, state, retval, mboxVars, waitVars,
                 event_blocked, intr, fault>>

\* k_intr_handler reads the id of an armed source that fired, first when
\* the interrupt is taken and then until none is left; the source is
\* unarmed before the waiting tasks are woken.
IntrTake(e) ==
  /\ ~fault /\ current # NoTask
  /\ intr # NoEvent => event_blocked[intr] = <<>>
  /\ e \in armed
  /\ intr' = e
  /\ armed' = armed \ {e}
  /\ UNCHANGED <<taskVars, current, heap, state, retval, mboxVars, waitVars,
                 event_blocked, fault>>

\* One iteration of k_intr_wakeup_tasks.
IntrWake ==
  /\ intr # NoEvent /\ event_blocked[intr] # <<>>
  /\ LET t == Head(event_blocked[intr])
     IN  /\ event_blocked' = [event_blocked EXCEPT ![intr] = Tail(@)]
         /\ retval' = [retval EXCEPT ![t] = 0]
         /\ state' = [state EXCEPT ![t] = "READY"]
         /\ heap' = HeapInsert(heap, t, priority[t])
  /\ UNCHANGED <<taskVars, current, mboxVars, waitVars, armed, intr, fault>>

\* No interrupt is left: back in k_loop the interrupted task is put back in
\* the heap, unless it is idle_task.
IntrReturn ==
  /\ current # NoTask /\ intr # NoEvent /\ event_blocked[intr] = <<>>
  /\ heap' = IF current = IdleTid THEN heap ELSE Requeue(heap, current)
  /\ current' = NoTask
  /\ intr' = NoEvent
  /\ UNCHANGED <<taskVars, state, retval, mboxVars, waitVars, event_blocked,
                 armed, fault>>

-----------------------------------------------------------------------------
Dispatch == DispatchIdle \/ \E p \in Prios : DispatchTask(p)

Syscall(t) ==
  \/ k_exit_handler(t)
  \/ k_yield(t)
  \/ k_create_handler(t)
  \/ k_my_tid_handler(t)
  \/ k_my_parent_tid_handler(t)
  \/ k_send_handler(t)
  \/ k_recv_handler(t)
  \/ k_reply_handler(t)
  \/ k_await_event_handler(t)

Interrupt == IntrWake \/ IntrReturn \/ \E e \in Sources : IntrTake(e)

Next ==
  \/ Dispatch
  \/ \E t \in Tids : Syscall(t) \/ \E e \in Sources : Arm(t, e)
  \/ Interrupt

Spec == Init /\ [][Next]_vars

\* The kernel runs to completion with interrupts masked.  User programs are
\* assumed not to compute for ever without a system call; interrupts may
\* never come.
FairSpec ==
  /\ Spec
  /\ WF_vars(Dispatch)
  /\ WF_vars(\E t \in Tids : Syscall(t))
  /\ WF_vars(IntrWake)
  /\ WF_vars(IntrReturn)

-----------------------------------------------------------------------------
(* Properties.                                                             *)

\* Types: a task's priority is one the heap has a place for, whatever integer
\* ke_create was given, and identifiers come from next_tid only.
TypeOK ==
  /\ tasks \subseteq Tids
  /\ next_tid \in 0..MaxTid + 1
  /\ current \in Tids \cup {NoTask}
  /\ heap \in [q : [Prios -> Seq(Tids)], count : Int]
  /\ state \in [Tids -> TaskStates \cup Events]
  /\ priority \in [Tids -> Prios]
  /\ parent \in [Tids -> Int]
  /\ retval \in [Tids -> Int]
  /\ sendq \in [Tids -> Seq(Tids)]
  /\ out_msg \in [Tids -> Msgs \cup {NoMsg}]
  /\ in_msg \in [Tids -> Msgs \cup {NoMsg}]
  /\ in_tid \in [Tids -> Tids \cup {NoTask}]
  /\ send_blocked \subseteq Tids
  /\ recv_blocked \subseteq Tids
  /\ reply_blocked \subseteq Tids
  /\ event_blocked \in [Events -> Seq(Tids)]
  /\ armed \subseteq Sources
  /\ intr \in Sources \cup {NoEvent}
  /\ fault \in BOOLEAN

\* The live tasks that are in state s, and do not only read as if they were.
InState(s) == {t \in tasks \ Misled : state[t] = s}

\* The live tasks that wait for event e.
Awaiting(e) ==
  {t \in tasks : state[t] = e /\ (e \in TaskStates => t \in Misled)}

\* The tasks the heap holds.
ReadySet == UNION {Elements(heap.q[p]) : p \in Prios}

\* The scheduler keeps a task's state and the list it is linked on in two
\* places, and the k_sched_remove functions unlink whatever the state says:
\* unlinking from a list the task is not on would corrupt both.  Each wait
\* list holds exactly the live tasks in its state, each once; the only tasks
\* whose state names another list are those k_await_event_handler put on
\* event_blocked under that state.
WaitListsAgree ==
  /\ send_blocked = InState("SEND_BLOCKED")
  /\ recv_blocked = InState("RECEIVE_BLOCKED")
  /\ reply_blocked = InState("REPLY_BLOCKED")
  /\ \A e \in Events : /\ Elements(event_blocked[e]) = Awaiting(e)
                       /\ NoRepeats(event_blocked[e])

\* The heap holds only live tasks that are ready to run and not running,
\* each once and under its own priority: k_loop never runs a destroyed
\* descriptor, or one task twice, and never the idle task by its heap.
HeapHoldsReady ==
  /\ \A p \in Prios :
       /\ Elements(heap.q[p]) \subseteq
            {t \in InState("READY") : priority[t] = p} \ {current, IdleTid}
       /\ NoRepeats(heap.q[p])
  /\ current # NoTask => current \in InState("READY")

\* A send and a receive never miss each other: no task waits to receive
\* while a sender is queued in its mailbox, and a queued sender is a live
\* send-blocked task that waits in one mailbox, once.
NoMissedRendezvous ==
  /\ \A r \in InState("RECEIVE_BLOCKED") : sendq[r] = <<>>
  /\ \A r \in Tids : /\ Elements(sendq[r]) \subseteq InState("SEND_BLOCKED")
                     /\ NoRepeats(sendq[r])
  /\ \A r1, r2 \in Tids :
       r1 # r2 => Elements(sendq[r1]) \cap Elements(sendq[r2]) = {}

\* The idle task stays alive and ready, identifiers are handed out in
\* order, and a mailbox that has no owner is empty.
Bookkeeping ==
  /\ IdleTid \in InState("READY")
  /\ \A t \in tasks : t < next_tid
  /\ \A t \in Tids \ tasks : sendq[t] = <<>>

\* The inductive invariant: none of the parts is preserved by every action
\* without the others.
IInv == WaitListsAgree /\ HeapHoldsReady /\ NoMissedRendezvous /\ Bookkeeping

\* Task states, wait lists, heap and mailboxes are well typed and agree, whatever
\* the handlers are asked for.
KernelInvariant == TypeOK /\ IInv

\* The ready tasks k_loop has forgotten: they are neither running nor in the
\* heap, and nothing will ever run them.
Lost == InState("READY") \ (ReadySet \cup {current, IdleTid})

\* HEAP_INSERT drops what does not fit and a full sender_waitqueue gives no
\* pointer; k_create_handler and k_await_event_handler leave tasks whose state
\* misleads the other handlers.  Nothing else costs a task or corrupts the
\* kernel: no step forgets a ready task while the live tasks, the idle one
\* apart, fit in the heap, and there is no wild write while the senders that
\* could meet in one mailbox fit in it and no state misleads.
NoTaskLost ==
  [][/\ Cardinality(tasks') <= HeapCap + 1 => Lost' \subseteq Lost
     /\ /\ Cardinality(tasks) <= MboxCap + 1
        /\ InState("UNINIT") = {} /\ Misled = {}
        => fault' = fault]_vars

\* A task that stays in the heap for ever is held up by more urgent tasks
\* only: k_loop serves the tasks of one priority in turn.  After a wild write
\* nothing is promised.
StarvedByMoreUrgentOnly ==
  \A t \in Tids :
    <>[](t \in ReadySet) =>
      \/ []<>(\E p \in Prios : p < priority[t] /\ heap.q[p] # <<>>)
      \/ <>fault

\* ke_send in lib/include/uapi.h promises -2 when the transaction cannot be
\* completed, so a task left send-blocked has a receiver that can take it.
SendersHaveReceiver ==
  \A t \in InState("SEND_BLOCKED") : \E r \in tasks : t \in Elements(sendq[r])

-----------------------------------------------------------------------------
(* What the kernel implements.  A queued message is reached through its    *)
(* sender's descriptor; it is the value the sender offered.                *)

Phase(t) ==
  IF t \in Misled THEN "free" ELSE
    CASE state[t] = "SEND_BLOCKED"    -> "sending"
      [] state[t] = "RECEIVE_BLOCKED" -> "receiving"
      [] state[t] = "REPLY_BLOCKED"   -> "awaiting"
      [] OTHER                        -> "free"

Inbox(r) == [i \in 1..Len(sendq[r]) |-> <<sendq[r][i], out_msg[sendq[r][i]]>>]

IPC == INSTANCE Rendezvous WITH
         live  <- tasks,
         phase <- [t \in Tids |-> Phase(t)],
         inbox <- [r \in Tids |-> Inbox(r)],
         got   <- in_msg,
         from  <- in_tid

\* Scheduling, interrupts, task creation and exit never disturb message
\* passing: every step of the kernel is a step of Rendezvous or leaves the
\* messages alone.
ImplementsRendezvous == IPC!Spec
=============================================================================
