---------------------------- MODULE KernelProofs ----------------------------
(***************************************************************************)
(* Proofs about the kernel, for any number of tasks, priorities, events    *)
(* and messages and any capacity of the heap and the mailboxes.            *)
(***************************************************************************)
EXTENDS Kernel, SequenceTheorems, FiniteSetTheorems, TLAPS

-----------------------------------------------------------------------------
(* Queues.                                                                 *)

\* What appending to a queue does to its elements.
LEMMA AppendElements ==
  ASSUME NEW S, NEW q \in Seq(S), NEW t \in S
  PROVE  /\ Append(q, t) \in Seq(S)
         /\ Elements(Append(q, t)) = Elements(q) \cup {t}
         /\ NoRepeats(q) /\ t \notin Elements(q) => NoRepeats(Append(q, t))
<1> DEFINE a == Append(q, t)
<1>1. /\ a \in Seq(S)
      /\ Len(a) = Len(q) + 1
      /\ a[Len(q) + 1] = t
      /\ \A i \in 1..Len(q) : a[i] = q[i]
      /\ Len(q) \in Nat
  OBVIOUS
<1> HIDE DEF a
<1>2. Elements(a) = Elements(q) \cup {t}
  <2>1. ASSUME NEW x \in Elements(a) PROVE x \in Elements(q) \cup {t}
    <3>1. PICK i \in 1..Len(a) : x = a[i]
      BY <2>1 DEF Elements
    <3>2. CASE i = Len(q) + 1
      BY <3>1, <3>2, <1>1
    <3>3. CASE i # Len(q) + 1
      BY <3>1, <3>3, <1>1 DEF Elements
    <3>4. QED BY <3>2, <3>3
  <2>2. ASSUME NEW x \in Elements(q) PROVE x \in Elements(a)
    BY <2>2, <1>1 DEF Elements
  <2>3. t \in Elements(a)
    BY <1>1 DEF Elements
  <2>4. QED BY <2>1, <2>2, <2>3
<1>3. ASSUME NoRepeats(q), t \notin Elements(q) PROVE NoRepeats(a)
  <2> SUFFICES ASSUME NEW i \in 1..Len(a), NEW j \in 1..Len(a), a[i] = a[j]
               PROVE  i = j
    BY DEF NoRepeats
  <2>1. CASE i \in 1..Len(q) /\ j \in 1..Len(q)
    BY <2>1, <1>1, <1>3 DEF NoRepeats
  <2>2. CASE i \notin 1..Len(q) \/ j \notin 1..Len(q)
    BY <2>2, <1>1, <1>3 DEF Elements
  <2>3. QED BY <2>1, <2>2
<1>4. QED BY <1>1, <1>2, <1>3 DEF a

\* What removing the head of a queue does to its elements.
LEMMA TailElements ==
  ASSUME NEW S, NEW q \in Seq(S), q # <<>>
  PROVE  /\ Tail(q) \in Seq(S)
         /\ Head(q) \in S
         /\ Head(q) \in Elements(q)
         /\ NoRepeats(q) => /\ NoRepeats(Tail(q))
                            /\ Elements(Tail(q)) = Elements(q) \ {Head(q)}
<1> DEFINE a == Tail(q)
<1>1. /\ a \in Seq(S)
      /\ Len(q) \in Nat /\ Len(q) >= 1
      /\ Len(a) = Len(q) - 1
      /\ \A i \in 1..Len(q) - 1 : a[i] = q[i + 1]
      /\ Head(q) = q[1]
      /\ Head(q) \in S
  OBVIOUS
<1> HIDE DEF a
<1>2. Head(q) \in Elements(q)
  BY <1>1 DEF Elements
<1>3. ASSUME NoRepeats(q) PROVE NoRepeats(a)
  BY <1>1, <1>3 DEF NoRepeats
<1>4. ASSUME NoRepeats(q) PROVE Elements(a) = Elements(q) \ {q[1]}
  <2>1. ASSUME NEW x \in Elements(a) PROVE x \in Elements(q) \ {q[1]}
    <3>1. PICK i \in 1..Len(a) : x = a[i]
      BY <2>1 DEF Elements
    <3>2. x = q[i + 1] /\ i + 1 \in 1..Len(q) /\ i + 1 # 1 /\ 1 \in 1..Len(q)
      BY <3>1, <1>1
    <3>3. QED BY <3>2, <1>4 DEF Elements, NoRepeats
  <2>2. ASSUME NEW x \in Elements(q), x # q[1] PROVE x \in Elements(a)
    <3>1. PICK i \in 1..Len(q) : x = q[i]
      BY <2>2 DEF Elements
    <3>2. i - 1 \in 1..Len(a) /\ a[i - 1] = x
      BY <3>1, <2>2, <1>1
    <3>3. QED BY <3>2 DEF Elements
  <2>3. QED BY <2>1, <2>2
<1>5. QED BY <1>1, <1>2, <1>3, <1>4 DEF a

\* Elements of a queue over S are in S; an empty queue has none.
LEMMA ElementsType ==
  ASSUME NEW S, NEW q \in Seq(S)
  PROVE  Elements(q) \subseteq S
BY DEF Elements

\* An empty queue, such as a fresh sender_waitqueue, has no elements.
LEMMA EmptyQueue == Elements(<<>>) = {} /\ NoRepeats(<<>>)
BY DEF Elements, NoRepeats

-----------------------------------------------------------------------------
(* The ready heap.                                                         *)

Heaps == [q : [Prios -> Seq(Tids)], count : Int]

\* HEAP_INSERT adds at most the inserted task, under its priority only, and
\* does not repeat a task that was not there.
LEMMA HeapInsertLemma ==
  ASSUME NEW h \in Heaps, NEW t \in Tids, NEW p \in Prios
  PROVE  /\ HeapInsert(h, t, p) \in Heaps
         /\ \A r \in Prios :
              /\ Elements(HeapInsert(h, t, p).q[r]) \subseteq
                   Elements(h.q[r]) \cup (IF r = p THEN {t} ELSE {})
              /\ NoRepeats(h.q[r]) /\ (r = p => t \notin Elements(h.q[r]))
                   => NoRepeats(HeapInsert(h, t, p).q[r])
<1>1. CASE h.count < HeapCap
  <2> DEFINE g == HeapInsert(h, t, p)
  <2>1. /\ g.q = [h.q EXCEPT ![p] = Append(@, t)]
        /\ g.count = h.count + 1
        /\ g = [q |-> [h.q EXCEPT ![p] = Append(@, t)], count |-> h.count + 1]
    BY <1>1 DEF HeapInsert
  <2>2. h.q \in [Prios -> Seq(Tids)] /\ h.count \in Int
    BY DEF Heaps
  <2>3. /\ g.q[p] = Append(h.q[p], t)
        /\ \A r \in Prios : r # p => g.q[r] = h.q[r]
    BY <2>1, <2>2
  <2>4. g \in Heaps
    BY <2>1, <2>2 DEF Heaps
  <2>5. /\ Elements(g.q[p]) = Elements(h.q[p]) \cup {t}
        /\ NoRepeats(h.q[p]) /\ t \notin Elements(h.q[p]) => NoRepeats(g.q[p])
    BY <2>2, <2>3, AppendElements
  <2> HIDE DEF g
  <2>6. QED BY <2>3, <2>4, <2>5 DEF g
<1>2. CASE ~(h.count < HeapCap)
  BY <1>2 DEF HeapInsert
<1>3. QED BY <1>1, <1>2

-----------------------------------------------------------------------------
(* Type correctness.                                                       *)

\* The state k_main hands to k_loop has the right types.
LEMMA InitTypeOK == Init => TypeOK
<1> SUFFICES ASSUME Init PROVE TypeOK
  OBVIOUS
<1>1. 0..2 \subseteq Tids /\ 0 \in Prios /\ LowestPrio \in Prios
  BY BoundsAssumption DEF Tids, Prios
<1>2. <<1, 2>> \in Seq(Tids) /\ <<>> \in Seq(Tids)
  BY <1>1
<1>3. heap \in [q : [Prios -> Seq(Tids)], count : Int]
  <2>1. [p \in Prios |-> IF p = 0 THEN <<1, 2>> ELSE <<>>] \in [Prios -> Seq(Tids)]
    BY <1>2
  <2>2. QED BY <2>1 DEF Init
<1>4. /\ sendq \in [Tids -> Seq(Tids)]
      /\ event_blocked \in [Events -> Seq(Tids)]
  BY <1>2 DEF Init
<1>5. /\ state \in [Tids -> TaskStates \cup Events]
      /\ out_msg \in [Tids -> Msgs \cup {NoMsg}]
      /\ in_msg \in [Tids -> Msgs \cup {NoMsg}]
      /\ in_tid \in [Tids -> Tids \cup {NoTask}]
  BY DEF Init, TaskStates
<1>6. /\ priority \in [Tids -> Prios]
      /\ parent \in [Tids -> Int]
      /\ retval \in [Tids -> Int]
  BY <1>1, BoundsAssumption DEF Init, NoTask
<1>7. /\ tasks \subseteq Tids
      /\ next_tid \in 0..MaxTid + 1
      /\ current \in Tids \cup {NoTask}
  BY <1>1, BoundsAssumption DEF Init
<1>8. /\ send_blocked \subseteq Tids
      /\ recv_blocked \subseteq Tids
      /\ reply_blocked \subseteq Tids
      /\ armed \subseteq Sources
      /\ intr \in Sources \cup {NoEvent}
      /\ fault \in BOOLEAN
  BY DEF Init
<1>9. QED BY <1>3, <1>4, <1>5, <1>6, <1>7, <1>8 DEF TypeOK

\* The idle task, a priority and the bounds, as facts the steps below use.
LEMMA Basics ==
  /\ IdleTid \in Tids
  /\ NoTask \notin Tids
  /\ NoTask \in Int
  /\ Tids \subseteq Int
  /\ 0 \in Prios
  /\ MaxTid \in Nat
BY BoundsAssumption DEF IdleTid, Tids, NoTask, Prios

\* The parts of the state a system call that only returns a value changes.
LEMMA ReturnType ==
  ASSUME TypeOK, NEW t \in Tids, NEW r \in Int, NEW h \in Heaps, Return(t, r, h)
  PROVE  /\ retval' \in [Tids -> Int]
         /\ heap' \in [q : [Prios -> Seq(Tids)], count : Int]
         /\ current' = NoTask
<1>1. priority[t] \in Prios /\ retval \in [Tids -> Int]
  BY DEF TypeOK
<1>2. heap' \in Heaps
  BY <1>1, HeapInsertLemma DEF Return, Requeue
<1>3. QED BY <1>1, <1>2 DEF Return, Heaps

\* Every handler, dispatch and interrupt step keeps the types: in particular
\* no task gets a priority outside the heap's range or a tid that was never
\* handed out.
LEMMA NextTypeOK == TypeOK /\ [Next]_vars => TypeOK'
<1> SUFFICES ASSUME TypeOK, [Next]_vars PROVE TypeOK'
  OBVIOUS
<1> USE DEF taskVars, mboxVars, waitVars, intrVars
<1>0. heap \in Heaps
  BY DEF TypeOK, Heaps
<1>1. CASE DispatchIdle
  BY <1>1, Basics DEF DispatchIdle, TypeOK
<1>2. ASSUME NEW p \in Prios, DispatchTask(p) PROVE TypeOK'
  <2>1. heap.q[p] \in Seq(Tids) /\ heap.q \in [Prios -> Seq(Tids)] /\ heap.count \in Int
    BY DEF TypeOK
  <2>2. Head(heap.q[p]) \in Tids /\ Tail(heap.q[p]) \in Seq(Tids)
    BY <1>2, <2>1, TailElements DEF DispatchTask
  <2>3. heap' \in [q : [Prios -> Seq(Tids)], count : Int]
    BY <1>2, <2>1, <2>2 DEF DispatchTask
  <2>4. /\ current' \in Tids \cup {NoTask}
        /\ retval' \in [Tids -> Int]
        /\ in_msg' \in [Tids -> Msgs \cup {NoMsg}]
        /\ in_tid' \in [Tids -> Tids \cup {NoTask}]
    <3> DEFINE t == Head(heap.q[p])
    <3>1. /\ current' = t
          /\ retval' = [retval EXCEPT ![t] = 0]
          /\ in_msg' = [in_msg EXCEPT ![t] = NoMsg]
          /\ in_tid' = [in_tid EXCEPT ![t] = NoTask]
      BY <1>2 DEF DispatchTask
    <3>2. t \in Tids
      BY <2>2
    <3> HIDE DEF t
    <3>3. QED BY <3>1, <3>2 DEF TypeOK
  <2>5. UNCHANGED <<taskVars, state, sendq, out_msg, waitVars, intrVars, fault>>
    BY <1>2 DEF DispatchTask
  <2>6. QED BY <2>3, <2>4, <2>5 DEF TypeOK
<1>3. ASSUME NEW t \in Tids, k_exit_handler(t) PROVE TypeOK'
  <2>1. /\ tasks' \subseteq Tids
        /\ current' \in Tids \cup {NoTask}
        /\ sendq' \in [Tids -> Seq(Tids)]
        /\ priority' \in [Tids -> Prios]
        /\ parent' \in [Tids -> Int]
    <3>1. <<>> \in Seq(Tids)
      OBVIOUS
    <3>2. QED BY <1>3, <3>1, Basics DEF k_exit_handler, TypeOK
  <2>2. UNCHANGED <<next_tid, heap, state, retval, out_msg, in_msg, in_tid,
                    waitVars, intrVars, fault>>
    BY <1>3 DEF k_exit_handler
  <2>3. QED BY <2>1, <2>2 DEF TypeOK
<1>4. ASSUME NEW t \in Tids,
             k_yield(t) \/ CreateNoMem(t) \/ k_my_tid_handler(t)
      PROVE  TypeOK'
  <2>1. retval[t] \in Int /\ t \in Int /\ -2 \in Int
    BY Basics DEF TypeOK
  <2>2. \E r \in Int : Return(t, r, heap)
    BY <1>4, <2>1 DEF k_yield, CreateNoMem, k_my_tid_handler
  <2>3. UNCHANGED <<taskVars, state, mboxVars, waitVars, intrVars, fault>>
    BY <1>4 DEF k_yield, CreateNoMem, k_my_tid_handler
  <2>4. QED BY <2>2, <2>3, <1>0, ReturnType DEF TypeOK
<1>5. ASSUME NEW t \in Tids, NEW p \in CreatePrios, CreateBadPrio(t, p)
      PROVE  TypeOK'
  <2>1. next_tid \in Tids /\ next_tid + 1 \in 0..MaxTid + 1
    BY <1>5, BoundsAssumption DEF CreateBadPrio, TypeOK, Tids
  <2>2. Return(t, -1, heap)
    BY <1>5 DEF CreateBadPrio
  <2>3. /\ retval' \in [Tids -> Int] /\ current' = NoTask
        /\ heap' \in [q : [Prios -> Seq(Tids)], count : Int]
    BY <1>0, <2>2, ReturnType
  <2>4. QED BY <1>5, <2>1, <2>3 DEF CreateBadPrio, TypeOK, TaskStates
<1>6. ASSUME NEW t \in Tids, NEW p \in CreatePrios, CreateTask(t, p)
      PROVE  TypeOK'
  <2>1. next_tid \in Tids /\ next_tid + 1 \in 0..MaxTid + 1 /\ next_tid \in Int
    BY <1>6, BoundsAssumption DEF CreateTask, TypeOK, Tids
  <2>2. p \in Prios /\ t \in Int
    BY <1>6, Basics DEF CreateTask
  <2> DEFINE h == HeapInsert(heap, next_tid, p)
  <2>3. h \in Heaps
    BY <1>0, <2>1, <2>2, HeapInsertLemma
  <2>4. Return(t, next_tid, h)
    BY <1>6 DEF CreateTask
  <2> HIDE DEF h
  <2>5. /\ retval' \in [Tids -> Int] /\ current' = NoTask
        /\ heap' \in [q : [Prios -> Seq(Tids)], count : Int]
    BY <2>1, <2>3, <2>4, ReturnType
  <2>6. QED BY <1>6, <2>1, <2>2, <2>5 DEF CreateTask, TypeOK, TaskStates
<1>7. ASSUME NEW t \in Tids, k_my_parent_tid_handler(t) PROVE TypeOK'
  <2> DEFINE p == IF parent[t] \in tasks THEN parent[t] ELSE NoTask
  <2>1. p \in Int
    BY Basics DEF TypeOK
  <2>2. Return(t, p, heap) /\ parent' = [parent EXCEPT ![t] = p]
    BY <1>7 DEF k_my_parent_tid_handler
  <2> HIDE DEF p
  <2>3. /\ retval' \in [Tids -> Int] /\ current' = NoTask
        /\ heap' \in [q : [Prios -> Seq(Tids)], count : Int]
    BY <1>0, <2>1, <2>2, ReturnType
  <2>4. parent' \in [Tids -> Int]
    BY <2>1, <2>2 DEF TypeOK
  <2>5. UNCHANGED <<tasks, next_tid, state, priority, mboxVars, waitVars, intrVars, fault>>
    BY <1>7 DEF k_my_parent_tid_handler
  <2>6. QED BY <2>3, <2>4, <2>5 DEF TypeOK
<1>8. ASSUME NEW t \in Tids, NEW r \in Tids,
             \/ SendNoTask(t, r) \/ ReplyNoTask(t, r) \/ ReplyNotBlocked(t, r)
      PROVE  TypeOK'
  <2>1. \E x \in Int : Return(t, x, heap)
    BY <1>8 DEF SendNoTask, ReplyNoTask, ReplyNotBlocked
  <2>2. UNCHANGED <<taskVars, state, mboxVars, waitVars, intrVars, fault>>
    BY <1>8 DEF SendNoTask, ReplyNoTask, ReplyNotBlocked
  <2>3. QED BY <2>1, <2>2, <1>0, ReturnType DEF TypeOK
<1>9. ASSUME NEW t \in Tids, NEW r \in Tids, SendFault(t, r) \/ ReplyFault(t, r)
      PROVE  TypeOK'
  BY <1>9 DEF SendFault, ReplyFault, TypeOK
<1>10. ASSUME NEW t \in Tids, NEW r \in Tids, NEW m \in Msgs, SendHandoff(t, r, m)
       PROVE  TypeOK'
  <2>1. heap' \in [q : [Prios -> Seq(Tids)], count : Int]
    <3>1. heap' = HeapInsert(heap, r, priority[r])
      BY <1>10 DEF SendHandoff
    <3>2. heap \in Heaps /\ priority[r] \in Prios
      BY DEF TypeOK, Heaps
    <3>3. QED BY <3>1, <3>2, HeapInsertLemma DEF Heaps
  <2>2. /\ in_msg' \in [Tids -> Msgs \cup {NoMsg}]
        /\ in_tid' \in [Tids -> Tids \cup {NoTask}]
        /\ retval' \in [Tids -> Int]
    BY <1>10 DEF SendHandoff, Deliver, TypeOK
  <2>3. state' \in [Tids -> TaskStates \cup Events]
    <3>1. state' = [state EXCEPT ![t] = "REPLY_BLOCKED", ![r] = "READY"]
      BY <1>10 DEF SendHandoff
    <3>2. QED BY <3>1 DEF TypeOK, TaskStates
  <2>4. /\ reply_blocked' \subseteq Tids
        /\ recv_blocked' \subseteq Tids
        /\ current' = NoTask
        /\ UNCHANGED <<taskVars, sendq, out_msg, send_blocked, intrVars, fault>>
    BY <1>10 DEF SendHandoff, TypeOK
  <2>5. QED BY <2>1, <2>2, <2>3, <2>4 DEF TypeOK
<1>11. ASSUME NEW t \in Tids, NEW r \in Tids, NEW m \in Msgs, SendQueue(t, r, m)
       PROVE  TypeOK'
  <2>1. Append(sendq[r], t) \in Seq(Tids)
    BY AppendElements DEF TypeOK
  <2>2. QED BY <1>11, <2>1, Basics DEF SendQueue, TypeOK, TaskStates
<1>12. ASSUME NEW t \in Tids, RecvWait(t) PROVE TypeOK'
  BY <1>12, Basics DEF RecvWait, TypeOK, TaskStates
<1>13. ASSUME NEW t \in Tids, RecvTake(t) PROVE TypeOK'
  <2>1. Head(sendq[t]) \in Tids /\ Tail(sendq[t]) \in Seq(Tids)
    BY <1>13, TailElements DEF RecvTake, TypeOK
  <2>2. /\ retval' \in [Tids -> Int] /\ current' = NoTask
        /\ heap' \in [q : [Prios -> Seq(Tids)], count : Int]
    <3>1. Return(t, 0, heap)
      BY <1>13 DEF RecvTake
    <3>2. QED BY <3>1, <1>0, ReturnType
  <2>3. QED BY <1>13, <2>1, <2>2 DEF RecvTake, Deliver, TypeOK, TaskStates
<1>14. ASSUME NEW t \in Tids, NEW s \in Tids, NEW m \in Msgs, Reply(t, s, m)
       PROVE  TypeOK'
  <2>1. priority[s] \in Prios /\ priority[t] \in Prios
    BY DEF TypeOK
  <2>2. HeapInsert(heap, s, priority[s]) \in Heaps
    BY <1>0, <2>1, HeapInsertLemma
  <2>3. heap' \in Heaps
    BY <1>14, <2>1, <2>2, HeapInsertLemma DEF Reply, Requeue
  <2>4. /\ state' \in [Tids -> TaskStates \cup Events]
        /\ retval' \in [Tids -> Int]
        /\ in_msg' \in [Tids -> Msgs \cup {NoMsg}]
    BY <1>14 DEF Reply, TypeOK, TaskStates
  <2>5. QED BY <1>14, <2>3, <2>4 DEF Reply, TypeOK, Heaps
<1>15. ASSUME NEW t \in Tids, k_await_event_handler(t) PROVE TypeOK'
  <2>1. PICK e \in Events :
          /\ event_blocked' = [event_blocked EXCEPT ![e] = Append(@, t)]
          /\ state' = [state EXCEPT ![t] = e]
          /\ current' = NoTask
          /\ UNCHANGED <<taskVars, heap, retval, mboxVars, waitVars, armed,
                         intr, fault>>
    BY <1>15 DEF k_await_event_handler
  <2>2. Append(event_blocked[e], t) \in Seq(Tids)
    BY AppendElements DEF TypeOK
  <2>3. QED BY <2>1, <2>2 DEF TypeOK
<1>16. ASSUME NEW t \in Tids, NEW e \in Sources, Arm(t, e) PROVE TypeOK'
  BY <1>16 DEF Arm, TypeOK
<1>17. ASSUME NEW e \in Sources, IntrTake(e) PROVE TypeOK'
  BY <1>17 DEF IntrTake, TypeOK
<1>18. CASE IntrWake
  <2>1. intr \in Events
    BY <1>18, ValuesAssumption DEF IntrWake, TypeOK
  <2>2. event_blocked[intr] \in Seq(Tids)
    BY <2>1 DEF TypeOK
  <2> DEFINE t == Head(event_blocked[intr])
  <2>3. t \in Tids /\ Tail(event_blocked[intr]) \in Seq(Tids)
    BY <1>18, <2>2, TailElements DEF IntrWake
  <2>4. priority[t] \in Prios
    BY <2>3 DEF TypeOK
  <2>5. HeapInsert(heap, t, priority[t]) \in Heaps
    BY <1>0, <2>3, <2>4, HeapInsertLemma
  <2>6. /\ event_blocked' = [event_blocked EXCEPT ![intr] = Tail(@)]
        /\ retval' = [retval EXCEPT ![t] = 0]
        /\ state' = [state EXCEPT ![t] = "READY"]
        /\ heap' = HeapInsert(heap, t, priority[t])
        /\ UNCHANGED <<taskVars, current, mboxVars, waitVars, armed, intr, fault>>
    BY <1>18 DEF IntrWake
  <2> HIDE DEF t
  <2>7. event_blocked' \in [Events -> Seq(Tids)]
    BY <2>1, <2>3, <2>6 DEF TypeOK
  <2>8. retval' \in [Tids -> Int]
    BY <2>3, <2>6 DEF TypeOK
  <2>9. state' \in [Tids -> TaskStates \cup Events]
    BY <2>3, <2>6 DEF TypeOK, TaskStates
  <2>10. QED BY <2>5, <2>6, <2>7, <2>8, <2>9 DEF TypeOK, Heaps
<1>19. CASE IntrReturn
  <2>1. heap' \in Heaps
    <3>1. current \in Tids /\ priority[current] \in Prios
      BY <1>19 DEF IntrReturn, TypeOK
    <3>2. HeapInsert(heap, current, priority[current]) \in Heaps
      BY <1>0, <3>1, HeapInsertLemma
    <3>3. QED BY <1>19, <1>0, <3>2 DEF IntrReturn, Requeue
  <2>2. QED BY <1>19, <2>1 DEF IntrReturn, TypeOK, Heaps
<1>20. CASE UNCHANGED vars
  BY <1>20 DEF vars, TypeOK
<1>21. QED
  BY <1>1, <1>2, <1>3, <1>4, <1>5, <1>6, <1>7, <1>8, <1>9, <1>10, <1>11,
     <1>12, <1>13, <1>14, <1>15, <1>16, <1>17, <1>18, <1>19, <1>20
     DEF Next, Dispatch, Syscall, Interrupt, k_create_handler, k_send_handler,
         k_recv_handler, k_reply_handler

\* The kernel's state is well typed in every reachable state, for any number
\* of tasks, priorities, events and messages.
THEOREM TypeCorrect == Spec => []TypeOK
<1>1. Init => TypeOK BY InitTypeOK
<1>2. TypeOK /\ [Next]_vars => TypeOK' BY NextTypeOK
<1>3. QED BY <1>1, <1>2, PTL DEF Spec

-----------------------------------------------------------------------------
(* The scheduler's lists.                                                  *)

\* The heap h holds only tasks of R, each under its priority in pr and once.
HeapIn(h, R, pr) ==
  \A p \in Prios : /\ Elements(h.q[p]) \subseteq {x \in R : pr[x] = p}
                   /\ NoRepeats(h.q[p])

\* HEAP_INSERT of a ready task keeps every heap entry a ready task under its
\* own priority, each once.
LEMMA InsertIn ==
  ASSUME NEW h \in Heaps, NEW R, NEW pr, NEW t \in Tids, pr[t] \in Prios,
         HeapIn(h, R, pr), t \notin R
  PROVE  /\ HeapInsert(h, t, pr[t]) \in Heaps
         /\ HeapIn(HeapInsert(h, t, pr[t]), R \cup {t}, pr)
<1>1. HeapInsert(h, t, pr[t]) \in Heaps
  BY HeapInsertLemma
<1>2. ASSUME NEW p \in Prios
      PROVE  /\ Elements(HeapInsert(h, t, pr[t]).q[p]) \subseteq
                  {x \in R \cup {t} : pr[x] = p}
             /\ NoRepeats(HeapInsert(h, t, pr[t]).q[p])
  <2>1. /\ Elements(HeapInsert(h, t, pr[t]).q[p]) \subseteq
             Elements(h.q[p]) \cup (IF p = pr[t] THEN {t} ELSE {})
        /\ NoRepeats(h.q[p]) /\ (p = pr[t] => t \notin Elements(h.q[p]))
             => NoRepeats(HeapInsert(h, t, pr[t]).q[p])
    BY HeapInsertLemma
  <2>2. /\ Elements(h.q[p]) \subseteq {x \in R : pr[x] = p}
        /\ NoRepeats(h.q[p])
        /\ t \notin Elements(h.q[p])
    BY DEF HeapIn
  <2>3. QED BY <2>1, <2>2
<1>3. QED BY <1>1, <1>2 DEF HeapIn

\* A heap of tasks of a set is one of tasks of any larger set with the same
\* priorities.
LEMMA GrowIn ==
  ASSUME NEW h, NEW R, NEW pr, NEW R2, NEW pr2, HeapIn(h, R, pr),
         R \subseteq R2, \A x \in R : pr2[x] = pr[x]
  PROVE  HeapIn(h, R2, pr2)
BY DEF HeapIn

\* The ready tasks that are in the heap when none is lost.
Waiting == InState("READY") \ {current, IdleTid}

\* HeapHoldsReady says that the heap holds tasks that wait to run, and no
\* others.
LEMMA HeapHoldsReadyIn ==
  HeapHoldsReady <=> /\ HeapIn(heap, Waiting, priority)
                     /\ current # NoTask => current \in InState("READY")
BY DEF HeapHoldsReady, HeapIn, Waiting

\* k_loop puts the running task back: the heap still holds what it should
\* when the ready tasks stay ready.
LEMMA RequeueHeap ==
  ASSUME TypeOK, HeapHoldsReady, current # NoTask, current # IdleTid,
         heap' = Requeue(heap, current), current' = NoTask,
         \A x \in InState("READY") : /\ x \in InState("READY")'
                                     /\ priority'[x] = priority[x]
  PROVE  HeapHoldsReady'
<1>1. heap \in Heaps /\ current \in Tids /\ priority[current] \in Prios
  BY DEF TypeOK, Heaps
<1>2. HeapIn(heap, Waiting, priority) /\ current \in InState("READY")
  BY HeapHoldsReadyIn
<1>3. HeapIn(heap', Waiting \cup {current}, priority)
  BY <1>1, <1>2, InsertIn DEF Requeue, Waiting
<1>4. Waiting \cup {current} \subseteq Waiting'
  <2>1. InState("READY") \subseteq Tids
    BY DEF InState, TypeOK
  <2>2. Waiting' = InState("READY")' \ {NoTask, IdleTid}
    BY DEF Waiting
  <2>3. QED BY <2>1, <2>2, <1>2, Basics DEF Waiting
<1>5. HeapIn(heap', Waiting', priority')
  BY <1>2, <1>3, <1>4, GrowIn DEF Waiting
<1>6. QED BY <1>5 DEF HeapHoldsReady, HeapIn, Waiting

\* A step that moves no queue, list or state keeps the other parts.
Lists == <<tasks, state, sendq, waitVars, event_blocked>>

\* The tasks whose state misleads are those on event_blocked.
LEMMA MisledStays == UNCHANGED event_blocked => Misled' = Misled
BY DEF Misled

\* A task whose state misleads is live, and waits for an event.
LEMMA MisledFacts ==
  ASSUME TypeOK, IInv, NEW t \in Misled
  PROVE  t \in tasks /\ \E e \in Events \cap TaskStates : t \in Elements(event_blocked[e])
BY DEF Misled, IInv, WaitListsAgree, Awaiting

\* The parts of the invariant about wait lists and mailboxes survive a step
\* that leaves tasks, states, mailboxes and lists alone.
LEMMA FrameLists ==
  ASSUME IInv, UNCHANGED Lists, next_tid' = next_tid
  PROVE  WaitListsAgree' /\ NoMissedRendezvous' /\ Bookkeeping'
<1>1. Misled' = Misled
  BY MisledStays DEF Lists
<1>2. QED
  BY <1>1 DEF IInv, Lists, waitVars, WaitListsAgree, NoMissedRendezvous, Bookkeeping,
     InState, Awaiting

\* k_main's initial lists, heap and mailboxes agree with the task states.
LEMMA InitIInv == Init => IInv
<1> SUFFICES ASSUME Init PROVE IInv
  OBVIOUS
<1>0. Misled = {}
  BY EmptyQueue DEF Init, Misled
<1>1. \A s : InState(s) = IF s = "READY" THEN 0..2 ELSE {}
  BY <1>0, BoundsAssumption DEF Init, InState, Tids
<1>2. \A e : Awaiting(e) = {}
  BY <1>0, BoundsAssumption DEF Init, Awaiting, TaskStates, Tids
<1>3. WaitListsAgree
  BY <1>1, <1>2, EmptyQueue DEF Init, WaitListsAgree
<1>4. HeapHoldsReady
  <2>1. ASSUME NEW p \in Prios
        PROVE  /\ Elements(heap.q[p]) \subseteq
                    {t \in InState("READY") : priority[t] = p} \ {current, IdleTid}
               /\ NoRepeats(heap.q[p])
    <3>1. CASE p = 0
      <4>1. heap.q[p] = <<1, 2>>
        BY <3>1 DEF Init
      <4>2. Elements(<<1, 2>>) = {1, 2} /\ NoRepeats(<<1, 2>>)
        BY DEF Elements, NoRepeats
      <4>3. {1, 2} \subseteq Tids
        BY BoundsAssumption DEF Tids
      <4>4. QED BY <3>1, <4>1, <4>2, <4>3, <1>1 DEF Init, IdleTid, NoTask
    <3>2. CASE p # 0
      BY <3>2, EmptyQueue DEF Init
    <3>3. QED BY <3>1, <3>2
  <2>2. QED BY <2>1 DEF HeapHoldsReady, Init
<1>5. NoMissedRendezvous
  BY <1>1, EmptyQueue DEF Init, NoMissedRendezvous
<1>6. Bookkeeping
  BY <1>1 DEF Init, Bookkeeping, IdleTid
<1>7. QED BY <1>3, <1>4, <1>5, <1>6 DEF IInv

\* The running task is ready and on no list.
LEMMA RunningFacts ==
  ASSUME TypeOK, IInv, NEW t \in Tids, Running(t)
  PROVE  /\ t = current /\ t # IdleTid /\ t # NoTask /\ intr = NoEvent
         /\ t \in tasks /\ state[t] = "READY" /\ t \notin Misled
         /\ t \notin send_blocked /\ t \notin recv_blocked
         /\ t \notin reply_blocked
         /\ \A r \in Tids : t \notin Elements(sendq[r])
         /\ \A e \in Events : t \notin Elements(event_blocked[e])
         /\ t \notin Waiting
<1>1. t = current /\ t # IdleTid /\ t # NoTask /\ intr = NoEvent
  BY Basics DEF Running
<1>2. t \in tasks /\ state[t] = "READY" /\ t \notin Misled
  BY <1>1 DEF IInv, HeapHoldsReady, InState
<1>3. "READY" \in TaskStates
  BY DEF TaskStates
<1>4. /\ t \notin send_blocked /\ t \notin recv_blocked /\ t \notin reply_blocked
      /\ \A e \in Events : t \notin Elements(event_blocked[e])
  BY <1>2, <1>3 DEF IInv, WaitListsAgree, InState, Awaiting
<1>5. \A r \in Tids : t \notin Elements(sendq[r])
  BY <1>2 DEF IInv, NoMissedRendezvous, InState
<1>6. QED BY <1>1, <1>2, <1>4, <1>5 DEF Waiting

\* A system call that changes nothing but its caller's result and parent.
LEMMA PlainReturn ==
  ASSUME TypeOK, IInv, NEW t \in Tids, NEW r, Running(t), Return(t, r, heap),
         UNCHANGED Lists, next_tid' = next_tid, priority' = priority
  PROVE  IInv'
<1>1. WaitListsAgree' /\ NoMissedRendezvous' /\ Bookkeeping'
  BY FrameLists
<1>2. \A x \in InState("READY") : x \in InState("READY")' /\ priority'[x] = priority[x]
  BY MisledStays DEF Lists, InState
<1>3. current # NoTask /\ current # IdleTid /\ t = current
  BY RunningFacts
<1>4. heap' = Requeue(heap, current) /\ current' = NoTask
  BY <1>3 DEF Return
<1>5. HeapHoldsReady'
  BY <1>2, <1>3, <1>4, RequeueHeap DEF IInv
<1>6. QED BY <1>1, <1>5 DEF IInv

\* The running task leaves for a wait list: the heap is untouched.
LEMMA BlockHeap ==
  ASSUME TypeOK, IInv, NEW t \in Tids, Running(t), current' = NoTask,
         heap' = heap, priority' = priority, tasks' = tasks,
         \A x \in InState("READY") \ {t} : x \in InState("READY")'
  PROVE  HeapHoldsReady'
<1>1. HeapIn(heap, Waiting, priority)
  BY HeapHoldsReadyIn DEF IInv
<1>2. Waiting \subseteq Waiting'
  <2>1. InState("READY") \subseteq Tids
    BY DEF InState, TypeOK
  <2>2. Waiting' = InState("READY")' \ {NoTask, IdleTid}
    BY DEF Waiting
  <2>3. QED BY <2>1, <2>2, RunningFacts, Basics DEF Waiting
<1>3. HeapIn(heap', Waiting', priority')
  BY <1>1, <1>2, GrowIn
<1>4. QED BY <1>3 DEF HeapHoldsReady, HeapIn, Waiting

\* k_exit_handler: the destroyed descriptor was on no list, and its own
\* senders stay on send_blocked.
LEMMA ExitIInv ==
  ASSUME TypeOK, IInv, NEW t \in Tids, k_exit_handler(t)
  PROVE  IInv'
<1> USE DEF waitVars, intrVars
<1>1. Running(t) /\ tasks' = tasks \ {t} /\ current' = NoTask
      /\ sendq' = [sendq EXCEPT ![t] = <<>>]
      /\ priority' = [priority EXCEPT ![t] = 0]
      /\ UNCHANGED <<next_tid, heap, state, waitVars, intrVars>>
  BY DEF k_exit_handler
<1>2. \A s : InState(s)' = InState(s) \ {t} /\ Awaiting(s)' = Awaiting(s) \ {t}
  BY <1>1, MisledStays DEF InState, Awaiting
<1>3. WaitListsAgree'
  BY <1>1, <1>2, RunningFacts DEF IInv, WaitListsAgree
<1>4. HeapHoldsReady'
  <2>1. HeapIn(heap, Waiting, priority)
    BY HeapHoldsReadyIn DEF IInv
  <2>2. \A x \in Waiting : x # t /\ x \in Tids
    BY <1>1, RunningFacts DEF Waiting, InState, TypeOK
  <2>3. Waiting \subseteq Waiting'
    <3>1. Waiting' = (InState("READY") \ {t}) \ {NoTask, IdleTid}
      BY <1>1, <1>2 DEF Waiting
    <3>2. QED BY <2>2, <3>1, Basics DEF Waiting
  <2>4. \A x \in Waiting : priority'[x] = priority[x]
    BY <1>1, <2>2 DEF TypeOK
  <2>5. HeapIn(heap', Waiting', priority')
    <3>1. heap' = heap
      BY <1>1
    <3>2. HeapIn(heap, Waiting', priority')
      BY <2>1, <2>3, <2>4, GrowIn
    <3>3. QED BY <3>1, <3>2
  <2>6. QED BY <1>1, <2>5 DEF HeapHoldsReady, HeapIn, Waiting
<1>5. NoMissedRendezvous'
  <2>1. sendq'[t] = <<>> /\ \A r \in Tids : r # t => sendq'[r] = sendq[r]
    BY <1>1 DEF TypeOK
  <2>2. \A r \in Tids : Elements(sendq'[r]) \subseteq Elements(sendq[r])
    BY <2>1, EmptyQueue
  <2>3. \A r \in Tids : NoRepeats(sendq'[r])
    BY <2>1, EmptyQueue DEF IInv, NoMissedRendezvous
  <2>4. \A r \in Tids : Elements(sendq'[r]) \subseteq InState("SEND_BLOCKED")'
    <3>1. \A r \in Tids : Elements(sendq[r]) \subseteq InState("SEND_BLOCKED")
      BY DEF IInv, NoMissedRendezvous
    <3>2. \A r \in Tids : t \notin Elements(sendq[r])
      BY <1>1, RunningFacts
    <3>3. QED BY <1>2, <2>2, <3>1, <3>2
  <2>5. \A r \in InState("RECEIVE_BLOCKED")' : sendq'[r] = <<>>
    <3>1. \A r \in InState("RECEIVE_BLOCKED") : r \in Tids /\ sendq[r] = <<>>
      BY DEF IInv, NoMissedRendezvous, InState, TypeOK
    <3>2. QED BY <1>2, <2>1, <3>1
  <2>6. \A r1, r2 \in Tids :
          r1 # r2 => Elements(sendq'[r1]) \cap Elements(sendq'[r2]) = {}
    BY <2>2 DEF IInv, NoMissedRendezvous
  <2>7. QED BY <2>3, <2>4, <2>5, <2>6 DEF NoMissedRendezvous
<1>6. Bookkeeping'
  <2>1. IdleTid \in InState("READY")'
    BY <1>1, <1>2, RunningFacts DEF IInv, Bookkeeping
  <2>2. QED BY <1>1, <2>1 DEF IInv, Bookkeeping, TypeOK
<1>7. QED BY <1>3, <1>4, <1>5, <1>6 DEF IInv

\* k_create_handler with an invalid priority: the descriptor it leaves in
\* map_tid is on no list and not in the heap.
LEMMA CreateBadPrioIInv ==
  ASSUME TypeOK, IInv, NEW t \in Tids, NEW p, CreateBadPrio(t, p)
  PROVE  IInv'
<1> USE DEF waitVars, intrVars, mboxVars
<1> DEFINE c == next_tid
<1>1. /\ Running(t) /\ c \in Tids /\ c \notin tasks /\ c \in Int
      /\ tasks' = tasks \cup {c}
      /\ next_tid' = c + 1
      /\ state' = [state EXCEPT ![c] = "UNINIT"]
      /\ Return(t, -1, heap)
      /\ UNCHANGED <<priority, sendq, waitVars, event_blocked>>
  BY BoundsAssumption DEF CreateBadPrio, TypeOK, Tids, IInv, Bookkeeping
<1>2. \A s : s # "UNINIT" => InState(s)' = InState(s) /\ Awaiting(s)' = Awaiting(s)
  BY <1>1, MisledStays DEF InState, Awaiting, TypeOK
<1>3. "UNINIT" \notin Events
  BY ValuesAssumption
<1>4. WaitListsAgree'
  <2>1. /\ InState("SEND_BLOCKED")' = InState("SEND_BLOCKED")
        /\ InState("RECEIVE_BLOCKED")' = InState("RECEIVE_BLOCKED")
        /\ InState("REPLY_BLOCKED")' = InState("REPLY_BLOCKED")
        /\ \A e \in Events : Awaiting(e)' = Awaiting(e)
    BY <1>2, <1>3
  <2>2. QED BY <1>1, <2>1 DEF IInv, WaitListsAgree
<1>5. HeapHoldsReady'
  <2>1. InState("READY")' = InState("READY") /\ priority' = priority
    BY <1>1, <1>2
  <2>2. /\ current # NoTask /\ current # IdleTid
        /\ heap' = Requeue(heap, current) /\ current' = NoTask
    BY <1>1, RunningFacts DEF Return
  <2>3. QED BY <2>1, <2>2, RequeueHeap DEF IInv
<1>6. NoMissedRendezvous'
  <2>1. /\ InState("SEND_BLOCKED")' = InState("SEND_BLOCKED")
        /\ InState("RECEIVE_BLOCKED")' = InState("RECEIVE_BLOCKED")
    BY <1>2
  <2>2. QED BY <1>1, <2>1 DEF IInv, NoMissedRendezvous
<1>7. Bookkeeping'
  <2>1. IdleTid \in InState("READY")'
    BY <1>2 DEF IInv, Bookkeeping
  <2>2. \A x \in tasks' : x < next_tid'
    BY <1>1 DEF IInv, Bookkeeping, TypeOK, Tids
  <2>3. QED BY <1>1, <2>1, <2>2 DEF IInv, Bookkeeping
<1>8. QED BY <1>4, <1>5, <1>6, <1>7 DEF IInv

\* k_create_handler: the new task is entered in map_tid and in the heap, and
\* on no list.
LEMMA CreateTaskIInv ==
  ASSUME TypeOK, IInv, NEW t \in Tids, NEW p, CreateTask(t, p)
  PROVE  IInv'
<1> USE DEF waitVars, intrVars, mboxVars
<1> DEFINE c == next_tid
           h == HeapInsert(heap, c, p)
<1>1. /\ Running(t) /\ c \in Tids /\ c \notin tasks /\ c \in Int /\ p \in Prios
      /\ tasks' = tasks \cup {c}
      /\ next_tid' = c + 1
      /\ state' = [state EXCEPT ![c] = "READY"]
      /\ priority' = [priority EXCEPT ![c] = p]
      /\ Return(t, c, h)
      /\ UNCHANGED <<sendq, waitVars, event_blocked>>
  BY BoundsAssumption DEF CreateTask, TypeOK, Tids, IInv, Bookkeeping
<1> HIDE DEF c, h
<1>2. /\ \A s : s # "READY" => InState(s)' = InState(s)
      /\ InState("READY")' = InState("READY") \cup {c}
      /\ \A e : Awaiting(e)' = Awaiting(e)
  <2>1. Misled' = Misled /\ c \notin Misled
    BY <1>1, MisledStays, MisledFacts
  <2>2. /\ \A s : s # "READY" => InState(s)' = InState(s)
        /\ InState("READY")' = InState("READY") \cup {c}
    BY <1>1, <2>1 DEF InState, TypeOK
  <2>3. \A e : Awaiting(e)' = Awaiting(e)
    BY <1>1, <2>1 DEF Awaiting, TaskStates, TypeOK
  <2>4. QED BY <2>2, <2>3
<1>4. /\ InState("SEND_BLOCKED")' = InState("SEND_BLOCKED")
      /\ InState("RECEIVE_BLOCKED")' = InState("RECEIVE_BLOCKED")
      /\ InState("REPLY_BLOCKED")' = InState("REPLY_BLOCKED")
      /\ \A e \in Events : Awaiting(e)' = Awaiting(e)
  BY <1>2
<1>5. WaitListsAgree'
  BY <1>1, <1>4 DEF IInv, WaitListsAgree
<1>6. HeapHoldsReady'
  <2>1. HeapIn(heap, Waiting, priority) /\ heap \in Heaps
    BY HeapHoldsReadyIn DEF IInv, TypeOK, Heaps
  <2>2. /\ c \notin Waiting /\ t \notin Waiting /\ t # c /\ t \in tasks
        /\ \A x \in Waiting : x \in Tids /\ x # c
    BY <1>1, RunningFacts DEF Waiting, InState, TypeOK
  <2>3. /\ priority'[c] = p /\ priority'[t] = priority[t] /\ priority[t] \in Prios
        /\ \A x \in Waiting : priority'[x] = priority[x]
    BY <1>1, <2>2 DEF TypeOK
  <2>4. HeapIn(heap, Waiting, priority')
    BY <2>1, <2>3, GrowIn
  <2>5. h \in Heaps /\ HeapIn(h, Waiting \cup {c}, priority')
    BY <1>1, <2>1, <2>2, <2>3, <2>4, InsertIn DEF h
  <2>6. heap' = HeapInsert(h, t, priority'[t]) /\ current' = NoTask
    BY <1>1, <2>3 DEF Return, Requeue
  <2>7. HeapIn(heap', (Waiting \cup {c}) \cup {t}, priority')
    BY <2>2, <2>3, <2>5, <2>6, InsertIn
  <2>8. (Waiting \cup {c}) \cup {t} \subseteq Waiting'
    <3>1. Waiting' = (InState("READY") \cup {c}) \ {NoTask, IdleTid}
      BY <1>2, <2>6 DEF Waiting
    <3>2. /\ t \in InState("READY") /\ t # NoTask /\ t # IdleTid
          /\ c # NoTask /\ c # IdleTid
      BY <1>1, RunningFacts, Basics DEF InState, IInv, Bookkeeping
    <3>3. QED BY <2>2, <3>1, <3>2, Basics DEF Waiting
  <2>9. HeapIn(heap', Waiting', priority')
    BY <2>7, <2>8, GrowIn
  <2>10. QED BY <2>6, <2>9 DEF HeapHoldsReady, HeapIn, Waiting
<1>7. NoMissedRendezvous'
  BY <1>1, <1>4 DEF IInv, NoMissedRendezvous
<1>8. Bookkeeping'
  <2>1. IdleTid \in InState("READY")'
    BY <1>2 DEF IInv, Bookkeeping
  <2>2. \A x \in tasks' : x < next_tid'
    BY <1>1 DEF IInv, Bookkeeping, TypeOK, Tids, c
  <2>3. QED BY <1>1, <2>1, <2>2 DEF IInv, Bookkeeping
<1>9. QED BY <1>5, <1>6, <1>7, <1>8 DEF IInv

\* k_send_handler with a waiting receiver: the receiver moves from
\* recv_blocked to the heap, the sender to reply_blocked.
LEMMA SendHandoffIInv ==
  ASSUME TypeOK, IInv, NEW t \in Tids, NEW r \in Tids, NEW m, SendHandoff(t, r, m)
  PROVE  IInv'
<1> USE DEF waitVars, intrVars, taskVars
<1>1. /\ Running(t) /\ r \in tasks \ Misled /\ state[r] = "RECEIVE_BLOCKED"
      /\ reply_blocked' = reply_blocked \cup {t}
      /\ recv_blocked' = recv_blocked \ {r}
      /\ state' = [state EXCEPT ![t] = "REPLY_BLOCKED", ![r] = "READY"]
      /\ heap' = HeapInsert(heap, r, priority[r])
      /\ current' = NoTask
      /\ UNCHANGED <<tasks, next_tid, priority, sendq, send_blocked, event_blocked>>
  BY DEF SendHandoff
<1>2. t # r /\ t \in tasks \ Misled /\ state[t] = "READY" /\ Misled' = Misled
  BY <1>1, RunningFacts, MisledStays
<1>3. state'[t] = "REPLY_BLOCKED" /\ state'[r] = "READY"
      /\ \A x \in Tids : x # t /\ x # r => state'[x] = state[x]
  BY <1>1, <1>2 DEF TypeOK
<1>4. {"READY", "RECEIVE_BLOCKED", "REPLY_BLOCKED"} \subseteq TaskStates
  BY DEF TaskStates
<1>5. /\ InState("SEND_BLOCKED")' = InState("SEND_BLOCKED")
      /\ InState("RECEIVE_BLOCKED")' = InState("RECEIVE_BLOCKED") \ {r}
      /\ InState("REPLY_BLOCKED")' = InState("REPLY_BLOCKED") \cup {t}
      /\ InState("READY")' = (InState("READY") \ {t}) \cup {r}
      /\ \A e \in Events : Awaiting(e)' = Awaiting(e)
  <2> USE <1>1, <1>2, <1>3 DEF InState, TypeOK
  <2>1. InState("SEND_BLOCKED")' = InState("SEND_BLOCKED")
    OBVIOUS
  <2>2. InState("RECEIVE_BLOCKED")' = InState("RECEIVE_BLOCKED") \ {r}
    OBVIOUS
  <2>3. InState("REPLY_BLOCKED")' = InState("REPLY_BLOCKED") \cup {t}
    OBVIOUS
  <2>4. InState("READY")' = (InState("READY") \ {t}) \cup {r}
    OBVIOUS
  <2>5. \A e \in Events : Awaiting(e)' = Awaiting(e)
    BY <1>4 DEF Awaiting
  <2>6. QED BY <2>1, <2>2, <2>3, <2>4, <2>5
<1>6. WaitListsAgree'
  BY <1>1, <1>5 DEF IInv, WaitListsAgree
<1>7. HeapHoldsReady'
  <2>1. HeapIn(heap, Waiting, priority) /\ heap \in Heaps
    BY HeapHoldsReadyIn DEF IInv, TypeOK, Heaps
  <2>2. r \notin Waiting /\ priority[r] \in Prios
    BY <1>1 DEF Waiting, InState, TypeOK
  <2>3. HeapIn(heap', Waiting \cup {r}, priority')
    BY <1>1, <2>1, <2>2, InsertIn
  <2>4. Waiting \cup {r} \subseteq Waiting'
    <3>1. Waiting' = ((InState("READY") \ {t}) \cup {r}) \ {NoTask, IdleTid}
      BY <1>1, <1>5 DEF Waiting
    <3>2. r # NoTask /\ r # IdleTid
      BY <1>1, Basics DEF IInv, Bookkeeping, InState
    <3>3. InState("READY") \subseteq Tids
      BY DEF InState, TypeOK
    <3>4. t \notin Waiting
      BY <1>1, RunningFacts
    <3>5. QED BY <3>1, <3>2, <3>3, <3>4, Basics DEF Waiting
  <2>5. HeapIn(heap', Waiting', priority')
    BY <2>3, <2>4, GrowIn
  <2>6. QED BY <1>1, <2>5 DEF HeapHoldsReady, HeapIn, Waiting
<1>8. NoMissedRendezvous'
  BY <1>1, <1>5 DEF IInv, NoMissedRendezvous
<1>9. Bookkeeping'
  <2>1. IdleTid \in InState("READY")'
    BY <1>1, <1>5, RunningFacts DEF IInv, Bookkeeping
  <2>2. QED BY <1>1, <2>1 DEF IInv, Bookkeeping
<1>10. QED BY <1>6, <1>7, <1>8, <1>9 DEF IInv

\* One task, whose state does not mislead, moves from one state of the enum to
\* another.
LEMMA StateMove ==
  ASSUME TypeOK, tasks' = tasks, UNCHANGED event_blocked, NEW x \in tasks \ Misled,
         NEW u \in TaskStates, NEW v \in TaskStates, u # v,
         state[x] = u, state' = [state EXCEPT ![x] = v]
  PROVE  /\ InState(u)' = InState(u) \ {x}
         /\ InState(v)' = InState(v) \cup {x}
         /\ \A w : w # u /\ w # v => InState(w)' = InState(w)
         /\ \A e : Awaiting(e)' = Awaiting(e)
<1>1. x \in Tids /\ state'[x] = v /\ \A y \in Tids : y # x => state'[y] = state[y]
  BY DEF TypeOK
<1>2. tasks \subseteq Tids /\ Misled' = Misled
  BY MisledStays DEF TypeOK
<1>3. /\ InState(u)' = InState(u) \ {x}
      /\ InState(v)' = InState(v) \cup {x}
      /\ \A w : w # u /\ w # v => InState(w)' = InState(w)
  BY <1>1, <1>2 DEF InState
<1>4. \A e : Awaiting(e)' = Awaiting(e)
  BY <1>1, <1>2 DEF Awaiting
<1>5. QED BY <1>3, <1>4

\* k_send_handler without one: the sender moves to send_blocked and to the
\* end of one mailbox.
LEMMA SendQueueIInv ==
  ASSUME TypeOK, IInv, NEW t \in Tids, NEW r \in Tids, NEW m, SendQueue(t, r, m)
  PROVE  IInv'
<1> USE DEF waitVars, intrVars, taskVars
<1>1. /\ Running(t) /\ r \in tasks /\ state[r] # "RECEIVE_BLOCKED"
      /\ sendq' = [sendq EXCEPT ![r] = Append(@, t)]
      /\ send_blocked' = send_blocked \cup {t}
      /\ state' = [state EXCEPT ![t] = "SEND_BLOCKED"]
      /\ current' = NoTask
      /\ UNCHANGED <<tasks, next_tid, priority, heap, recv_blocked,
                     reply_blocked, event_blocked>>
  BY DEF SendQueue
<1>2. t \in tasks \ Misled /\ state[t] = "READY" /\ t # IdleTid
      /\ \A q \in Tids : t \notin Elements(sendq[q])
  BY <1>1, RunningFacts
<1>3. {"READY", "SEND_BLOCKED", "RECEIVE_BLOCKED", "REPLY_BLOCKED"} \subseteq TaskStates /\ Misled' = Misled
  BY <1>1, MisledStays DEF TaskStates
<1>4. /\ InState("SEND_BLOCKED")' = InState("SEND_BLOCKED") \cup {t}
      /\ InState("RECEIVE_BLOCKED")' = InState("RECEIVE_BLOCKED")
      /\ InState("REPLY_BLOCKED")' = InState("REPLY_BLOCKED")
      /\ InState("READY")' = InState("READY") \ {t}
      /\ \A e \in Events : Awaiting(e)' = Awaiting(e)
  <2>1. /\ tasks' = tasks /\ UNCHANGED event_blocked /\ t \in tasks \ Misled
        /\ state[t] = "READY" /\ state' = [state EXCEPT ![t] = "SEND_BLOCKED"]
        /\ "READY" \in TaskStates /\ "SEND_BLOCKED" \in TaskStates
    BY <1>1, <1>2, <1>3
  <2>2. /\ InState("READY")' = InState("READY") \ {t}
        /\ InState("SEND_BLOCKED")' = InState("SEND_BLOCKED") \cup {t}
        /\ \A w : w # "READY" /\ w # "SEND_BLOCKED" => InState(w)' = InState(w)
        /\ \A e : Awaiting(e)' = Awaiting(e)
    BY <2>1, StateMove
  <2>3. QED BY <2>2
<1>5. WaitListsAgree'
  BY <1>1, <1>4 DEF IInv, WaitListsAgree
<1>6. HeapHoldsReady'
  BY <1>1, <1>4, BlockHeap
<1>7. NoMissedRendezvous'
  <2>1. /\ sendq'[r] = Append(sendq[r], t)
        /\ \A q \in Tids : q # r => sendq'[q] = sendq[q]
        /\ sendq[r] \in Seq(Tids)
    BY <1>1 DEF TypeOK
  <2>2. /\ Elements(sendq'[r]) = Elements(sendq[r]) \cup {t}
        /\ NoRepeats(sendq'[r])
    BY <1>2, <2>1, AppendElements DEF IInv, NoMissedRendezvous
  <2>3. \A q \in InState("RECEIVE_BLOCKED")' : sendq'[q] = <<>>
    <3>1. \A q \in InState("RECEIVE_BLOCKED") : q \in Tids /\ q # r /\ sendq[q] = <<>>
      BY <1>1 DEF IInv, NoMissedRendezvous, InState, TypeOK
    <3>2. QED BY <1>4, <2>1, <3>1
  <2>4. \A q \in Tids : /\ Elements(sendq'[q]) \subseteq InState("SEND_BLOCKED")'
                        /\ NoRepeats(sendq'[q])
    BY <1>4, <2>1, <2>2 DEF IInv, NoMissedRendezvous
  <2>5. \A q1, q2 \in Tids :
          q1 # q2 => Elements(sendq'[q1]) \cap Elements(sendq'[q2]) = {}
    <3> SUFFICES ASSUME NEW q1 \in Tids, NEW q2 \in Tids, q1 # q2
                 PROVE  Elements(sendq'[q1]) \cap Elements(sendq'[q2]) = {}
      OBVIOUS
    <3>1. Elements(sendq[q1]) \cap Elements(sendq[q2]) = {}
      BY DEF IInv, NoMissedRendezvous
    <3>2. t \notin Elements(sendq[q1]) /\ t \notin Elements(sendq[q2])
      BY <1>2
    <3>3. QED BY <2>1, <2>2, <3>1, <3>2
  <2>6. QED BY <2>3, <2>4, <2>5 DEF NoMissedRendezvous
<1>8. Bookkeeping'
  <2>1. IdleTid \in InState("READY")'
    BY <1>2, <1>4 DEF IInv, Bookkeeping
  <2>2. \A x \in Tids \ tasks' : sendq'[x] = <<>>
    BY <1>1 DEF IInv, Bookkeeping, TypeOK
  <2>3. QED BY <1>1, <2>1, <2>2 DEF IInv, Bookkeeping
<1>9. QED BY <1>5, <1>6, <1>7, <1>8 DEF IInv

\* k_recv_handler with an empty mailbox: the receiver moves to recv_blocked.
LEMMA RecvWaitIInv ==
  ASSUME TypeOK, IInv, NEW t \in Tids, RecvWait(t)
  PROVE  IInv'
<1> USE DEF waitVars, intrVars, taskVars, mboxVars
<1>1. /\ Running(t) /\ sendq[t] = <<>>
      /\ recv_blocked' = recv_blocked \cup {t}
      /\ state' = [state EXCEPT ![t] = "RECEIVE_BLOCKED"]
      /\ current' = NoTask
      /\ UNCHANGED <<tasks, next_tid, priority, heap, sendq, send_blocked,
                     reply_blocked, event_blocked>>
  BY DEF RecvWait
<1>2. t \in tasks \ Misled /\ state[t] = "READY" /\ t # IdleTid
  BY <1>1, RunningFacts
<1>3. {"READY", "RECEIVE_BLOCKED"} \subseteq TaskStates /\ Misled' = Misled
  BY <1>1, MisledStays DEF TaskStates
<1>4. /\ InState("SEND_BLOCKED")' = InState("SEND_BLOCKED")
      /\ InState("RECEIVE_BLOCKED")' = InState("RECEIVE_BLOCKED") \cup {t}
      /\ InState("REPLY_BLOCKED")' = InState("REPLY_BLOCKED")
      /\ InState("READY")' = InState("READY") \ {t}
      /\ \A e \in Events : Awaiting(e)' = Awaiting(e)
  BY <1>1, <1>2, <1>3 DEF InState, Awaiting, TypeOK
<1>5. WaitListsAgree'
  BY <1>1, <1>4 DEF IInv, WaitListsAgree
<1>6. HeapHoldsReady'
  BY <1>1, <1>4, BlockHeap
<1>7. NoMissedRendezvous'
  BY <1>1, <1>4 DEF IInv, NoMissedRendezvous
<1>8. Bookkeeping'
  <2>1. IdleTid \in InState("READY")'
    BY <1>2, <1>4 DEF IInv, Bookkeeping
  <2>2. QED BY <1>1, <2>1 DEF IInv, Bookkeeping
<1>9. QED BY <1>5, <1>6, <1>7, <1>8 DEF IInv

\* k_recv_handler with a queued sender: it moves from send_blocked and the
\* mailbox to reply_blocked.
LEMMA RecvTakeIInv ==
  ASSUME TypeOK, IInv, NEW t \in Tids, RecvTake(t)
  PROVE  IInv'
<1> USE DEF waitVars, intrVars, taskVars
<1>0. PICK s \in Tids : s = Head(sendq[t])
  <2>1. sendq[t] \in Seq(Tids) /\ sendq[t] # <<>>
    BY DEF RecvTake, TypeOK
  <2>2. QED BY <2>1, TailElements
<1>1. /\ Running(t) /\ sendq[t] # <<>>
      /\ send_blocked' = send_blocked \ {s}
      /\ reply_blocked' = reply_blocked \cup {s}
      /\ state' = [state EXCEPT ![s] = "REPLY_BLOCKED"]
      /\ sendq' = [sendq EXCEPT ![t] = Tail(@)]
      /\ Return(t, 0, heap)
      /\ UNCHANGED <<tasks, next_tid, priority, recv_blocked, event_blocked>>
  BY <1>0 DEF RecvTake
<1>2. /\ s \in Tids /\ s \in Elements(sendq[t])
      /\ NoRepeats(Tail(sendq[t]))
      /\ Elements(Tail(sendq[t])) = Elements(sendq[t]) \ {s}
  BY <1>0, <1>1, TailElements DEF IInv, NoMissedRendezvous, TypeOK
<1>3. s \in tasks \ Misled /\ state[s] = "SEND_BLOCKED"
  BY <1>2 DEF IInv, NoMissedRendezvous, InState
<1>4. {"SEND_BLOCKED", "REPLY_BLOCKED"} \subseteq TaskStates
  BY DEF TaskStates
<1>5. /\ InState("SEND_BLOCKED")' = InState("SEND_BLOCKED") \ {s}
      /\ InState("RECEIVE_BLOCKED")' = InState("RECEIVE_BLOCKED")
      /\ InState("REPLY_BLOCKED")' = InState("REPLY_BLOCKED") \cup {s}
      /\ InState("READY")' = InState("READY")
      /\ \A e \in Events : Awaiting(e)' = Awaiting(e)
  <2>1. /\ "SEND_BLOCKED" # "REPLY_BLOCKED" /\ tasks' = tasks
        /\ state' = [state EXCEPT ![s] = "REPLY_BLOCKED"]
        /\ UNCHANGED event_blocked
    BY <1>1
  <2>2. /\ InState("SEND_BLOCKED")' = InState("SEND_BLOCKED") \ {s}
        /\ InState("REPLY_BLOCKED")' = InState("REPLY_BLOCKED") \cup {s}
        /\ \A w : w # "SEND_BLOCKED" /\ w # "REPLY_BLOCKED"
                 => InState(w)' = InState(w)
        /\ \A e : Awaiting(e)' = Awaiting(e)
    BY <1>3, <1>4, <2>1, StateMove
  <2>3. QED BY <2>2
<1>6. WaitListsAgree'
  BY <1>1, <1>5 DEF IInv, WaitListsAgree
<1>7. HeapHoldsReady'
  <2>1. /\ current # NoTask /\ current # IdleTid
        /\ heap' = Requeue(heap, current) /\ current' = NoTask
    BY <1>1, RunningFacts DEF Return
  <2>2. QED BY <1>1, <1>5, <2>1, RequeueHeap DEF IInv
<1>8. NoMissedRendezvous'
  <2>1. /\ sendq'[t] = Tail(sendq[t])
        /\ \A q \in Tids : q # t => sendq'[q] = sendq[q]
    BY <1>1 DEF TypeOK
  <2>2. \A q \in Tids : q # t => s \notin Elements(sendq[q])
    BY <1>2 DEF IInv, NoMissedRendezvous
  <2>3. \A q \in Tids : /\ Elements(sendq'[q]) = Elements(sendq[q]) \ {s}
                        /\ NoRepeats(sendq'[q])
    BY <1>2, <2>1, <2>2 DEF IInv, NoMissedRendezvous
  <2>4. \A q \in InState("RECEIVE_BLOCKED")' : sendq'[q] = <<>>
    <3>1. \A q \in InState("RECEIVE_BLOCKED") : q \in Tids /\ sendq[q] = <<>>
      BY DEF IInv, NoMissedRendezvous, InState, TypeOK
    <3>2. QED BY <1>1, <1>5, <2>1, <3>1
  <2>5. \A q \in Tids : Elements(sendq'[q]) \subseteq InState("SEND_BLOCKED")'
    BY <1>5, <2>3 DEF IInv, NoMissedRendezvous
  <2>6. \A q1, q2 \in Tids :
          q1 # q2 => Elements(sendq'[q1]) \cap Elements(sendq'[q2]) = {}
    BY <2>3 DEF IInv, NoMissedRendezvous
  <2>7. QED BY <2>3, <2>4, <2>5, <2>6 DEF NoMissedRendezvous
<1>9. Bookkeeping'
  <2>1. IdleTid \in InState("READY")'
    BY <1>5 DEF IInv, Bookkeeping
  <2>2. t \in tasks
    BY <1>1, RunningFacts
  <2>3. \A x \in Tids \ tasks' : sendq'[x] = <<>>
    BY <1>1, <2>2 DEF IInv, Bookkeeping, TypeOK
  <2>4. QED BY <1>1, <2>1, <2>3 DEF IInv, Bookkeeping
<1>10. QED BY <1>6, <1>7, <1>8, <1>9 DEF IInv

\* k_reply_handler: the sender moves from reply_blocked to the heap.
LEMMA ReplyIInv ==
  ASSUME TypeOK, IInv, NEW t \in Tids, NEW s \in Tids, NEW m, Reply(t, s, m)
  PROVE  IInv'
<1> USE DEF waitVars, intrVars, taskVars
<1> DEFINE h == HeapInsert(heap, s, priority[s])
<1>1. /\ Running(t) /\ s \in tasks \ Misled /\ state[s] = "REPLY_BLOCKED"
      /\ reply_blocked' = reply_blocked \ {s}
      /\ state' = [state EXCEPT ![s] = "READY"]
      /\ heap' = HeapInsert(h, t, priority[t])
      /\ current' = NoTask
      /\ UNCHANGED <<tasks, next_tid, priority, sendq, send_blocked,
                     recv_blocked, event_blocked>>
  BY DEF Reply, Requeue
<1> HIDE DEF h
<1>2. {"READY", "REPLY_BLOCKED"} \subseteq TaskStates /\ Misled' = Misled
  BY <1>1, MisledStays DEF TaskStates
<1>3. /\ InState("SEND_BLOCKED")' = InState("SEND_BLOCKED")
      /\ InState("RECEIVE_BLOCKED")' = InState("RECEIVE_BLOCKED")
      /\ InState("REPLY_BLOCKED")' = InState("REPLY_BLOCKED") \ {s}
      /\ InState("READY")' = InState("READY") \cup {s}
      /\ \A e \in Events : Awaiting(e)' = Awaiting(e)
  BY <1>1, <1>2 DEF InState, Awaiting, TypeOK
<1>4. WaitListsAgree'
  BY <1>1, <1>3 DEF IInv, WaitListsAgree
<1>5. HeapHoldsReady'
  <2>1. HeapIn(heap, Waiting, priority) /\ heap \in Heaps
    BY HeapHoldsReadyIn DEF IInv, TypeOK, Heaps
  <2>2. /\ s \notin Waiting /\ s # t /\ t \notin Waiting
        /\ priority[s] \in Prios /\ priority[t] \in Prios
    BY <1>1, RunningFacts DEF Waiting, InState, TypeOK
  <2>3. h \in Heaps /\ HeapIn(h, Waiting \cup {s}, priority)
    BY <2>1, <2>2, InsertIn DEF h
  <2>4. HeapIn(heap', (Waiting \cup {s}) \cup {t}, priority)
    BY <1>1, <2>2, <2>3, InsertIn
  <2>5. (Waiting \cup {s}) \cup {t} \subseteq Waiting'
    <3>1. Waiting' = (InState("READY") \cup {s}) \ {NoTask, IdleTid}
      BY <1>1, <1>3 DEF Waiting
    <3>2. /\ t \in InState("READY") /\ t # NoTask /\ t # IdleTid
          /\ s # NoTask /\ s # IdleTid
      BY <1>1, RunningFacts, Basics DEF InState, IInv, Bookkeeping
    <3>3. InState("READY") \subseteq Tids
      BY DEF InState, TypeOK
    <3>4. QED BY <3>1, <3>2, <3>3, Basics DEF Waiting
  <2>6. HeapIn(heap', Waiting', priority')
    BY <1>1, <2>4, <2>5, GrowIn
  <2>7. QED BY <1>1, <2>6 DEF HeapHoldsReady, HeapIn, Waiting
<1>6. NoMissedRendezvous'
  BY <1>1, <1>3 DEF IInv, NoMissedRendezvous
<1>7. Bookkeeping'
  <2>1. IdleTid \in InState("READY")'
    BY <1>3 DEF IInv, Bookkeeping
  <2>2. QED BY <1>1, <2>1 DEF IInv, Bookkeeping
<1>8. QED BY <1>4, <1>5, <1>6, <1>7 DEF IInv

\* k_await_event_handler: the caller moves to event_blocked under its number,
\* and misleads when that is the number of a state.
LEMMA AwaitEventIInv ==
  ASSUME TypeOK, IInv, NEW t \in Tids, k_await_event_handler(t)
  PROVE  IInv'
<1> USE DEF waitVars, taskVars, mboxVars
<1>1. PICK e \in Events :
        /\ Running(t)
        /\ event_blocked' = [event_blocked EXCEPT ![e] = Append(@, t)]
        /\ state' = [state EXCEPT ![t] = e]
        /\ current' = NoTask
        /\ UNCHANGED <<tasks, next_tid, priority, heap, sendq, waitVars>>
  BY DEF k_await_event_handler
<1>2. t \in tasks \ Misled /\ state[t] = "READY" /\ t # IdleTid
      /\ \A f \in Events : t \notin Elements(event_blocked[f])
  BY <1>1, RunningFacts
<1>a. /\ event_blocked'[e] = Append(event_blocked[e], t)
      /\ event_blocked[e] \in Seq(Tids)
      /\ \A f \in Events : f # e => event_blocked'[f] = event_blocked[f]
  BY <1>1 DEF TypeOK
<1>b. /\ Elements(event_blocked'[e]) = Elements(event_blocked[e]) \cup {t}
      /\ NoRepeats(event_blocked'[e])
  BY <1>2, <1>a, AppendElements DEF IInv, WaitListsAgree
<1>3. Misled' = Misled \cup (IF e \in TaskStates THEN {t} ELSE {})
  <2>1. \A f \in Events : Elements(event_blocked'[f])
                           = Elements(event_blocked[f]) \cup (IF f = e THEN {t} ELSE {})
    BY <1>a, <1>b
  <2>2. QED BY <2>1 DEF Misled
<1>c. /\ state'[t] = e /\ \A x \in Tids : x # t => state'[x] = state[x]
      /\ tasks \subseteq Tids /\ "READY" \in TaskStates
  BY <1>1 DEF TypeOK, TaskStates
<1>d. \A w \in TaskStates : InState(w)' = InState(w) \ {t}
  BY <1>1, <1>2, <1>3, <1>c DEF InState
<1>4. /\ InState("SEND_BLOCKED")' = InState("SEND_BLOCKED")
      /\ InState("RECEIVE_BLOCKED")' = InState("RECEIVE_BLOCKED")
      /\ InState("REPLY_BLOCKED")' = InState("REPLY_BLOCKED")
      /\ InState("READY")' = InState("READY") \ {t}
  <2>1. \A w : w # "READY" => t \notin InState(w)
    BY <1>2 DEF InState
  <2>2. QED BY <1>d, <2>1 DEF TaskStates
<1>e. /\ Awaiting(e)' = Awaiting(e) \cup {t}
      /\ \A f \in Events : f # e => Awaiting(f)' = Awaiting(f)
  <2>1. Awaiting(e)' = Awaiting(e) \cup {t}
    BY <1>1, <1>2, <1>3, <1>c DEF Awaiting
  <2>2. ASSUME NEW f \in Events, f # e PROVE Awaiting(f)' = Awaiting(f)
    BY <1>1, <1>2, <1>3, <1>c, <2>2 DEF Awaiting
  <2>3. QED BY <2>1, <2>2
<1>5. WaitListsAgree'
  <2>1. \A f \in Events : /\ Elements(event_blocked'[f]) = Awaiting(f)'
                          /\ NoRepeats(event_blocked'[f])
    BY <1>a, <1>b, <1>e DEF IInv, WaitListsAgree
  <2>2. QED BY <1>1, <1>4, <2>1 DEF IInv, WaitListsAgree
<1>6. HeapHoldsReady'
  BY <1>1, <1>4, BlockHeap
<1>7. NoMissedRendezvous'
  BY <1>1, <1>4 DEF IInv, NoMissedRendezvous
<1>8. Bookkeeping'
  <2>1. IdleTid \in InState("READY")'
    BY <1>2, <1>4 DEF IInv, Bookkeeping
  <2>2. QED BY <1>1, <2>1 DEF IInv, Bookkeeping
<1>9. QED BY <1>5, <1>6, <1>7, <1>8 DEF IInv

\* k_intr_wakeup_tasks: a task moves from event_blocked to the heap.
LEMMA IntrWakeIInv ==
  ASSUME TypeOK, IInv, IntrWake
  PROVE  IInv'
<1> USE DEF waitVars, taskVars, mboxVars
<1>a. PICK e \in Events : e = intr /\ event_blocked[e] # <<>> /\ e \notin TaskStates
  BY ValuesAssumption DEF IntrWake, TypeOK
<1>b. PICK t \in Tids : t = Head(event_blocked[e])
  BY <1>a, TailElements DEF TypeOK
<1>1. /\ e \in Events /\ event_blocked[e] # <<>>
      /\ event_blocked' = [event_blocked EXCEPT ![e] = Tail(@)]
      /\ state' = [state EXCEPT ![t] = "READY"]
      /\ heap' = HeapInsert(heap, t, priority[t])
      /\ UNCHANGED <<tasks, next_tid, priority, current, sendq, waitVars>>
  BY <1>a, <1>b DEF IntrWake
<1>2. /\ t \in Tids /\ t \in Elements(event_blocked[e])
      /\ NoRepeats(Tail(event_blocked[e]))
      /\ Elements(Tail(event_blocked[e])) = Elements(event_blocked[e]) \ {t}
  BY <1>1, <1>b, TailElements DEF IInv, WaitListsAgree, TypeOK
<1>3. t \in tasks /\ state[t] = e
  BY <1>1, <1>2 DEF IInv, WaitListsAgree, Awaiting
<1>c. /\ event_blocked'[e] = Tail(event_blocked[e])
      /\ \A f \in Events : f # e => event_blocked'[f] = event_blocked[f]
  BY <1>1 DEF TypeOK
<1>4. /\ {"READY", "SEND_BLOCKED", "RECEIVE_BLOCKED", "REPLY_BLOCKED"} \subseteq TaskStates
      /\ e \notin TaskStates /\ Misled' = Misled /\ t \notin Misled
  <2>1. Misled' = Misled
    BY <1>a, <1>c DEF Misled
  <2>2. t \notin Misled
    BY <1>a, <1>3 DEF Misled, IInv, WaitListsAgree, Awaiting
  <2>3. QED BY <1>a, <2>1, <2>2 DEF TaskStates
<1>d. /\ state'[t] = "READY" /\ \A x \in Tids : x # t => state'[x] = state[x]
      /\ tasks \subseteq Tids
  BY <1>1 DEF TypeOK
<1>5. /\ InState("SEND_BLOCKED")' = InState("SEND_BLOCKED")
      /\ InState("RECEIVE_BLOCKED")' = InState("RECEIVE_BLOCKED")
      /\ InState("REPLY_BLOCKED")' = InState("REPLY_BLOCKED")
      /\ InState("READY")' = InState("READY") \cup {t}
      /\ Awaiting(e)' = Awaiting(e) \ {t}
      /\ \A f \in Events : f # e => Awaiting(f)' = Awaiting(f)
  <2>1. \A w \in TaskStates : InState(w)' = IF w = "READY" THEN InState(w) \cup {t}
                                                          ELSE InState(w)
    BY <1>1, <1>3, <1>4, <1>d DEF InState
  <2>2. /\ Awaiting(e)' = Awaiting(e) \ {t}
        /\ \A f \in Events : f # e => Awaiting(f)' = Awaiting(f)
    BY <1>1, <1>3, <1>4, <1>d DEF Awaiting
  <2>3. QED BY <1>4, <2>1, <2>2
<1>6. WaitListsAgree'
  <2>2. \A f \in Events : /\ Elements(event_blocked'[f]) = Awaiting(f)'
                          /\ NoRepeats(event_blocked'[f])
    <3>1. \A f \in Events : /\ Elements(event_blocked[f]) = Awaiting(f)
                            /\ NoRepeats(event_blocked[f])
      BY DEF IInv, WaitListsAgree
    <3>2. QED BY <1>1, <1>2, <1>5, <1>c, <3>1
  <2>3. QED BY <1>1, <1>5, <2>2 DEF IInv, WaitListsAgree
<1>7. HeapHoldsReady'
  <2>1. HeapIn(heap, Waiting, priority) /\ heap \in Heaps
    BY HeapHoldsReadyIn DEF IInv, TypeOK, Heaps
  <2>2. t \notin InState("READY") /\ t # NoTask
    BY <1>1, <1>2, <1>3, <1>4, Basics DEF InState
  <2>3. t # current /\ t # IdleTid /\ t \notin Waiting /\ priority[t] \in Prios
    BY <1>2, <2>2 DEF IInv, HeapHoldsReady, Bookkeeping, Waiting, TypeOK
  <2>4. HeapIn(heap', Waiting \cup {t}, priority)
    BY <1>1, <1>2, <2>1, <2>3, InsertIn
  <2>5. Waiting' = (InState("READY") \cup {t}) \ {current, IdleTid}
    BY <1>1, <1>5 DEF Waiting
  <2>6. Waiting \cup {t} \subseteq Waiting'
    BY <2>3, <2>5 DEF Waiting
  <2>7. HeapIn(heap', Waiting', priority')
    BY <1>1, <2>4, <2>6, GrowIn
  <2>8. current' # NoTask => current' \in InState("READY")'
    BY <1>1, <1>5 DEF IInv, HeapHoldsReady
  <2>9. QED BY <2>7, <2>8 DEF HeapHoldsReady, HeapIn, Waiting
<1>8. NoMissedRendezvous'
  BY <1>1, <1>5 DEF IInv, NoMissedRendezvous
<1>9. Bookkeeping'
  <2>1. IdleTid \in InState("READY")'
    BY <1>5 DEF IInv, Bookkeeping
  <2>2. QED BY <1>1, <2>1 DEF IInv, Bookkeeping
<1>10. QED BY <1>6, <1>7, <1>8, <1>9 DEF IInv

\* The end of k_intr_handler: k_loop puts the interrupted task back.
LEMMA IntrReturnIInv ==
  ASSUME TypeOK, IInv, IntrReturn
  PROVE  IInv'
<1> USE DEF waitVars, taskVars, mboxVars
<1>1. /\ current # NoTask /\ current' = NoTask
      /\ heap' = IF current = IdleTid THEN heap ELSE Requeue(heap, current)
      /\ UNCHANGED <<Lists, next_tid, priority>>
  BY DEF IntrReturn, Lists
<1>2. WaitListsAgree' /\ NoMissedRendezvous' /\ Bookkeeping'
  BY <1>1, FrameLists
<1>3. InState("READY")' = InState("READY") /\ InState("READY") \subseteq Tids
  BY <1>1, MisledStays DEF InState, Lists, TypeOK
<1>4. HeapHoldsReady'
  <2>1. CASE current # IdleTid
    BY <1>1, <1>3, <2>1, RequeueHeap DEF IInv
  <2>2. CASE current = IdleTid
    <3>1. HeapIn(heap, Waiting, priority)
      BY HeapHoldsReadyIn DEF IInv
    <3>2. Waiting \subseteq Waiting'
      <4>1. Waiting' = InState("READY") \ {NoTask, IdleTid}
        BY <1>1, <1>3 DEF Waiting
      <4>2. QED BY <4>1, <1>3, Basics DEF Waiting
    <3>3. heap' = heap /\ priority' = priority
      BY <1>1, <2>2
    <3>4. HeapIn(heap', Waiting', priority')
      BY <3>1, <3>2, <3>3, GrowIn
    <3>5. QED BY <1>1, <3>4 DEF HeapHoldsReady, HeapIn, Waiting
  <2>3. QED BY <2>1, <2>2
<1>5. QED BY <1>2, <1>4 DEF IInv

\* k_sched_get_next: the task leaves the heap and is the running one.
LEMMA DispatchIInv ==
  ASSUME TypeOK, IInv, Dispatch
  PROVE  IInv'
<1> USE DEF waitVars, taskVars, mboxVars, intrVars
<1>1. UNCHANGED <<Lists, next_tid, priority>> /\ current = NoTask
  BY DEF Dispatch, DispatchIdle, DispatchTask, Lists
<1>2. WaitListsAgree' /\ NoMissedRendezvous' /\ Bookkeeping'
  BY <1>1, FrameLists
<1>3. InState("READY")' = InState("READY")
  BY <1>1, MisledStays DEF InState, Lists
<1>4. HeapIn(heap, Waiting, priority)
  BY HeapHoldsReadyIn DEF IInv
<1>5. HeapHoldsReady'
  <2>1. CASE DispatchIdle
    <3>1. heap' = heap /\ current' = IdleTid
      BY <2>1 DEF DispatchIdle
    <3>2. Waiting' = InState("READY") \ {IdleTid}
      BY <1>3, <3>1 DEF Waiting
    <3>3. Waiting \subseteq Waiting'
      BY <3>2 DEF Waiting
    <3>4. HeapIn(heap', Waiting', priority')
      BY <1>1, <1>4, <3>1, <3>3, GrowIn
    <3>5. current' \in InState("READY")'
      BY <1>3, <3>1 DEF IInv, Bookkeeping
    <3>6. QED BY <3>4, <3>5 DEF HeapHoldsReady, HeapIn, Waiting
  <2>2. ASSUME NEW p \in Prios, DispatchTask(p) PROVE HeapHoldsReady'
    <3> DEFINE t == Head(heap.q[p])
    <3>1. /\ heap.q[p] # <<>> /\ current' = t
          /\ heap' = [q |-> [heap.q EXCEPT ![p] = Tail(@)], count |-> heap.count - 1]
      BY <2>2 DEF DispatchTask
    <3>2. heap.q \in [Prios -> Seq(Tids)]
      BY DEF TypeOK
    <3>3. /\ t \in Elements(heap.q[p])
          /\ NoRepeats(Tail(heap.q[p]))
          /\ Elements(Tail(heap.q[p])) = Elements(heap.q[p]) \ {t}
      BY <1>4, <3>1, <3>2, TailElements DEF HeapIn
    <3>4. /\ heap'.q[p] = Tail(heap.q[p])
          /\ \A r \in Prios : r # p => heap'.q[r] = heap.q[r]
      BY <3>1, <3>2
    <3> HIDE DEF t
    <3>5. t \in Waiting /\ priority[t] = p
      BY <1>4, <3>3 DEF HeapIn
    <3>6. Waiting' = InState("READY") \ {t, IdleTid}
      BY <1>3, <3>1 DEF Waiting
    <3>7. \A r \in Prios :
            /\ Elements(heap'.q[r]) \subseteq {x \in Waiting' : priority'[x] = r}
            /\ NoRepeats(heap'.q[r])
      BY <1>1, <1>4, <3>3, <3>4, <3>5, <3>6 DEF HeapIn, Waiting
    <3>8. t \in InState("READY")'
      BY <1>3, <3>5 DEF Waiting
    <3>9. QED BY <3>1, <3>7, <3>8 DEF HeapHoldsReady, Waiting
  <2>3. QED BY <2>1, <2>2 DEF Dispatch
<1>6. QED BY <1>2, <1>5 DEF IInv

\* Every step preserves the inductive invariant.
LEMMA NextIInv == TypeOK /\ IInv /\ [Next]_vars => IInv'
<1> SUFFICES ASSUME TypeOK, IInv, [Next]_vars PROVE IInv'
  OBVIOUS
<1> USE DEF taskVars, mboxVars, waitVars, intrVars
<1>1. CASE Dispatch
  BY <1>1, DispatchIInv
<1>2. ASSUME NEW t \in Tids, k_exit_handler(t) PROVE IInv'
  BY <1>2, ExitIInv
<1>3. ASSUME NEW t \in Tids,
             \/ k_yield(t) \/ CreateNoMem(t) \/ k_my_tid_handler(t)
             \/ k_my_parent_tid_handler(t)
             \/ \E r \in Tids : \/ SendNoTask(t, r) \/ ReplyNoTask(t, r)
                                \/ ReplyNotBlocked(t, r)
      PROVE  IInv'
  <2>1. /\ Running(t) /\ \E r : Return(t, r, heap)
        /\ UNCHANGED <<Lists, next_tid, priority>>
    BY <1>3 DEF k_yield, CreateNoMem, k_my_tid_handler, Lists,
       k_my_parent_tid_handler, SendNoTask, ReplyNoTask, ReplyNotBlocked
  <2>2. QED BY <2>1, PlainReturn
<1>4. ASSUME NEW t \in Tids, NEW p \in CreatePrios,
             CreateBadPrio(t, p) \/ CreateTask(t, p)
      PROVE  IInv'
  BY <1>4, CreateBadPrioIInv, CreateTaskIInv
<1>5. ASSUME NEW t \in Tids, NEW r \in Tids, NEW m \in Msgs,
             SendHandoff(t, r, m) \/ SendQueue(t, r, m) \/ Reply(t, r, m)
      PROVE  IInv'
  BY <1>5, SendHandoffIInv, SendQueueIInv, ReplyIInv
<1>6. ASSUME NEW t \in Tids, RecvWait(t) \/ RecvTake(t) PROVE IInv'
  BY <1>6, RecvWaitIInv, RecvTakeIInv
<1>7. ASSUME NEW t \in Tids, k_await_event_handler(t) PROVE IInv'
  BY <1>7, AwaitEventIInv
<1>8. CASE IntrWake
  BY <1>8, IntrWakeIInv
<1>9. CASE IntrReturn
  BY <1>9, IntrReturnIInv
<1>10. CASE \/ \E t, r \in Tids : SendFault(t, r) \/ ReplyFault(t, r)
            \/ \E t \in Tids, e \in Sources : Arm(t, e)
            \/ \E e \in Sources : IntrTake(e)
            \/ UNCHANGED vars
  <2>1. UNCHANGED <<Lists, next_tid, priority, heap, current>>
    BY <1>10 DEF SendFault, ReplyFault, Arm, IntrTake, vars, Lists
  <2>2. WaitListsAgree' /\ NoMissedRendezvous' /\ Bookkeeping'
    BY <2>1, FrameLists
  <2>3. InState("READY")' = InState("READY")
    BY <2>1, MisledStays DEF InState, Lists
  <2>4. HeapHoldsReady'
    BY <2>1, <2>3 DEF IInv, HeapHoldsReady
  <2>5. QED BY <2>2, <2>4 DEF IInv
<1>11. QED
  BY <1>1, <1>2, <1>3, <1>4, <1>5, <1>6, <1>7, <1>8, <1>9, <1>10
     DEF Next, Syscall, Interrupt, k_create_handler, k_send_handler,
         k_recv_handler, k_reply_handler

\* The strengthening that is inductive holds (every handler of the kernel).
LEMMA Strengthened == Spec => []IInv
<1>1. Init => IInv BY InitIInv
<1>2. TypeOK /\ IInv /\ [Next]_vars => IInv' BY NextIInv
<1>3. QED BY <1>1, <1>2, TypeCorrect, PTL DEF Spec

\* In every state of the kernel the wait lists, the heap and the mailboxes
\* agree with the states of the tasks.
THEOREM Invariance == Spec => []KernelInvariant
<1>1. TypeOK /\ IInv => KernelInvariant BY DEF KernelInvariant
<1>2. QED BY <1>1, Strengthened, TypeCorrect, PTL

\* State and list agree, whatever the tasks do, for every task but those that
\* k_await_event_handler filed under the number of a state.
THEOREM WaitListsTheorem == Spec => []WaitListsAgree
<1>1. KernelInvariant => WaitListsAgree BY DEF KernelInvariant, IInv
<1>2. QED BY <1>1, Invariance, PTL

\* k_loop runs only live, ready tasks, and each from one heap entry.
THEOREM HeapTheorem == Spec => []HeapHoldsReady
<1>1. KernelInvariant => HeapHoldsReady BY DEF KernelInvariant, IInv
<1>2. QED BY <1>1, Invariance, PTL

\* No sender waits in the mailbox of a task that waits to receive, and no
\* sender is queued twice.
THEOREM RendezvousTheorem == Spec => []NoMissedRendezvous
<1>1. KernelInvariant => NoMissedRendezvous BY DEF KernelInvariant, IInv
<1>2. QED BY <1>1, Invariance, PTL

-----------------------------------------------------------------------------
(* What the kernel guarantees the tasks that run on it.                    *)
(*                                                                         *)
(* Message passing: it implements Rendezvous.tla for any number of tasks,  *)
(* priorities, events and messages; every step of the kernel is one step   *)
(* of Rendezvous or leaves phases, inboxes and received messages alone.    *)
(*                                                                         *)
(* No task is lost: as long as the heap and the mailboxes have room for    *)
(* every live task, HEAP_INSERT never drops one and RB_PUSH_PRE never      *)
(* gives NULL.                                                             *)

\* A descriptor outside map_tid, fresh or freed, was left ready: only the live
\* tasks move through the phases of a message.
DeadReady == \A t \in Tids \ tasks : state[t] = "READY"

\* The phase a state field stands for.
PhaseOf(s) ==
  CASE s = "SEND_BLOCKED"    -> "sending"
    [] s = "RECEIVE_BLOCKED" -> "receiving"
    [] s = "REPLY_BLOCKED"   -> "awaiting"
    [] OTHER                 -> "free"

phases  == [t \in Tids |-> Phase(t)]
inboxes == [r \in Tids |-> Inbox(r)]
ipcvars == <<tasks, phases, inboxes, in_msg, in_tid>>

-----------------------------------------------------------------------------
(* What the refinement mapping sees of a change of state.                  *)

\* The phase of each task, as a function of its state field: a task whose state
\* misleads is in none.
LEMMA PhaseValue ==
  /\ \A t \in Tids : t \notin Misled => phases[t] = PhaseOf(state[t])
  /\ \A t \in Tids : phases[t] = "receiving" => state[t] = "RECEIVE_BLOCKED"
  /\ PhaseOf("SEND_BLOCKED") = "sending"
  /\ PhaseOf("RECEIVE_BLOCKED") = "receiving"
  /\ PhaseOf("REPLY_BLOCKED") = "awaiting"
  /\ \A s : s \notin {"SEND_BLOCKED", "RECEIVE_BLOCKED", "REPLY_BLOCKED"}
              => PhaseOf(s) = "free"
  /\ \A s : PhaseOf(s) = "receiving" => s = "RECEIVE_BLOCKED"
BY DEF phases, Phase, PhaseOf

\* The phases before and after a step.
LEMMA PhaseShape ==
  /\ \A x \in Tids : phases[x] = IF x \in Misled THEN "free" ELSE PhaseOf(state[x])
  /\ \A x \in Tids : phases'[x] = IF x \in Misled' THEN "free" ELSE PhaseOf(state'[x])
  /\ phases = [x \in Tids |-> phases[x]]
  /\ phases' = [x \in Tids |-> phases'[x]]
<1>1. \A x \in Tids : Phase(x) = IF x \in Misled THEN "free" ELSE PhaseOf(state[x])
  BY DEF Phase, PhaseOf
<1>2. \A x \in Tids : Phase(x)' = IF x \in Misled' THEN "free" ELSE PhaseOf(state'[x])
  BY DEF Phase, PhaseOf
<1>3. QED BY <1>1, <1>2 DEF phases

\* Setting one state field sets one phase.
LEMMA PhaseMove ==
  ASSUME state \in [Tids -> TaskStates \cup Events], NEW t \in Tids \ Misled, NEW s,
         state' = [state EXCEPT ![t] = s], Misled' = Misled
  PROVE  phases' = [phases EXCEPT ![t] = PhaseOf(s)]
<1>1. /\ state'[t] = s /\ t \notin Misled
      /\ \A x \in Tids : x # t => state'[x] = state[x]
  OBVIOUS
<1>2. phases'[t] = PhaseOf(s) /\ \A x \in Tids : x # t => phases'[x] = phases[x]
  BY <1>1, PhaseShape
<1>3. QED BY <1>2, PhaseShape

\* Setting the state field of a task whose phase does not change changes no
\* phase.
LEMMA PhaseStays ==
  ASSUME state \in [Tids -> TaskStates \cup Events], NEW t \in Tids, NEW s,
         state' = [state EXCEPT ![t] = s], PhaseOf(s) = PhaseOf(state[t]),
         Misled' = Misled
  PROVE  phases' = phases
<1>1. state'[t] = s /\ \A x \in Tids : x # t => state'[x] = state[x]
  OBVIOUS
<1>2. \A x \in Tids : phases'[x] = phases[x]
  BY <1>1, PhaseShape
<1>3. QED BY <1>2, PhaseShape

\* The messages that a queue q of senders stands for, when o is what the
\* senders' descriptors point to.
Box(q, o) == [i \in 1..Len(q) |-> <<q[i], o[q[i]]>>]

Letters == Tids \X (Msgs \cup {NoMsg})

\* An inbox is a sequence of letters as long as its queue.
LEMMA BoxType ==
  ASSUME NEW q \in Seq(Tids), NEW o \in [Tids -> Msgs \cup {NoMsg}]
  PROVE  /\ Box(q, o) \in Seq(Letters)
         /\ Len(Box(q, o)) = Len(q)
         /\ \A i \in 1..Len(q) : Box(q, o)[i] = <<q[i], o[q[i]]>>
<1>1. Len(q) \in Nat /\ \A i \in 1..Len(q) : q[i] \in Tids
  OBVIOUS
<1> DEFINE n == Len(q)  b == Box(q, o)
<1>2. \A i \in 1..n : b[i] = <<q[i], o[q[i]]>>
  BY DEF Box
<1>3. b \in [1..n -> Letters]
  BY <1>1 DEF Box, Letters
<1> HIDE DEF n, b
<1>4. b \in Seq(Letters) /\ Len(b) = n
  BY <1>1, <1>3 DEF n
<1>5. QED BY <1>2, <1>4 DEF n, b

\* An inbox does not change with the messages of tasks that are not queued.
LEMMA BoxStays ==
  ASSUME NEW q, NEW o, NEW w, \A x \in Elements(q) : w[x] = o[x]
  PROVE  Box(q, w) = Box(q, o)
BY DEF Box, Elements

\* Queueing a sender puts its message at the end of the inbox.
LEMMA BoxAppend ==
  ASSUME NEW q \in Seq(Tids), NEW o \in [Tids -> Msgs \cup {NoMsg}],
         NEW t \in Tids, NEW m \in Msgs, t \notin Elements(q)
  PROVE  Box(Append(q, t), [o EXCEPT ![t] = m]) = Append(Box(q, o), <<t, m>>)
<1> DEFINE a == Append(q, t)  w == [o EXCEPT ![t] = m]
           b == Box(a, w)     c == Append(Box(q, o), <<t, m>>)
<1>1. /\ a \in Seq(Tids) /\ Len(a) = Len(q) + 1 /\ a[Len(q) + 1] = t
      /\ \A i \in 1..Len(q) : a[i] = q[i]
      /\ Len(q) \in Nat
  BY AppendProperties
<1>2. w \in [Tids -> Msgs \cup {NoMsg}] /\ w[t] = m
      /\ \A x \in Tids : x # t => w[x] = o[x]
  OBVIOUS
<1>3. /\ Box(q, o) \in Seq(Letters) /\ Len(Box(q, o)) = Len(q)
      /\ \A i \in 1..Len(q) : Box(q, o)[i] = <<q[i], o[q[i]]>>
  BY BoxType
<1> HIDE DEF a, w
<1>4. /\ b \in Seq(Letters) /\ Len(b) = Len(q) + 1
      /\ \A i \in 1..Len(q) + 1 : b[i] = <<a[i], w[a[i]]>>
  BY <1>1, <1>2, BoxType
<1>5. <<t, m>> \in Letters
  BY DEF Letters
<1>6. /\ c \in Seq(Letters) /\ Len(c) = Len(q) + 1
      /\ \A i \in 1..Len(q) : c[i] = <<q[i], o[q[i]]>>
      /\ c[Len(q) + 1] = <<t, m>>
  BY <1>3, <1>5, AppendProperties
<1> HIDE DEF b, c
<1>7. ASSUME NEW i \in 1..Len(q) + 1 PROVE b[i] = c[i]
  <2>1. CASE i = Len(q) + 1
    BY <1>1, <1>2, <1>4, <1>6, <2>1
  <2>2. CASE i # Len(q) + 1
    <3>1. i \in 1..Len(q) /\ q[i] \in Tids /\ q[i] # t
      BY <1>1, <2>2 DEF Elements
    <3>2. a[i] = q[i] /\ w[q[i]] = o[q[i]]
      BY <1>1, <1>2, <3>1
    <3>3. b[i] = <<q[i], o[q[i]]>> /\ c[i] = <<q[i], o[q[i]]>>
      BY <1>4, <1>6, <3>1, <3>2
    <3>4. QED BY <3>3
  <2>3. QED BY <2>1, <2>2
<1>8. b = c
  BY <1>4, <1>6, <1>7, SeqEqual
<1>9. QED BY <1>8 DEF a, b, c, w

\* Taking the first sender removes the first letter, and clearing that sender's
\* message changes no other.
LEMMA BoxTail ==
  ASSUME NEW q \in Seq(Tids), NEW o \in [Tids -> Msgs \cup {NoMsg}],
         q # <<>>, NoRepeats(q), NEW w, w = [o EXCEPT ![Head(q)] = NoMsg]
  PROVE  /\ Box(q, o) # <<>>
         /\ Head(Box(q, o)) = <<Head(q), o[Head(q)]>>
         /\ Box(Tail(q), w) = Tail(Box(q, o))
<1>1. /\ Tail(q) \in Seq(Tids) /\ Len(Tail(q)) = Len(q) - 1
      /\ \A i \in 1..Len(q) - 1 : Tail(q)[i] = q[i + 1]
      /\ Head(q) = q[1] /\ Len(q) \in Nat \ {0}
  BY HeadTailProperties
<1>2. /\ Box(q, o) \in Seq(Letters) /\ Len(Box(q, o)) = Len(q)
      /\ \A i \in 1..Len(q) : Box(q, o)[i] = <<q[i], o[q[i]]>>
  BY BoxType
<1> DEFINE b == Box(q, o)  a == Tail(q)  d == Box(a, w)
<1>3. w \in [Tids -> Msgs \cup {NoMsg}]
  OBVIOUS
<1>4. /\ d \in Seq(Letters) /\ Len(d) = Len(q) - 1
      /\ \A i \in 1..Len(q) - 1 : d[i] = <<q[i + 1], w[q[i + 1]]>>
  <2>1. /\ d \in Seq(Letters) /\ Len(d) = Len(a)
        /\ \A i \in 1..Len(a) : d[i] = <<a[i], w[a[i]]>>
    BY <1>1, <1>3, BoxType
  <2>2. QED BY <1>1, <2>1
<1> HIDE DEF b, d
<1>5. b # <<>> /\ Head(b) = b[1]
  BY <1>1, <1>2 DEF b
<1>6. /\ Tail(b) \in Seq(Letters) /\ Len(Tail(b)) = Len(q) - 1
      /\ \A i \in 1..Len(q) - 1 : Tail(b)[i] = b[i + 1]
  BY <1>1, <1>2, <1>5, HeadTailProperties DEF b
<1>7. ASSUME NEW i \in 1..Len(q) - 1 PROVE d[i] = Tail(b)[i]
  <2>1. i + 1 \in 1..Len(q) /\ 1 \in 1..Len(q) /\ i + 1 # 1
    BY <1>1
  <2>2. q[i + 1] # q[1] /\ q[i + 1] \in Tids
    BY <2>1 DEF NoRepeats
  <2>3. w[q[i + 1]] = o[q[i + 1]]
    BY <1>1, <2>2
  <2>4. QED BY <1>2, <1>4, <1>6, <2>1, <2>3 DEF b
<1>8. d = Tail(b)
  BY <1>4, <1>6, <1>7, SeqEqual
<1>9. b[1] = <<Head(q), o[Head(q)]>>
  <2>1. 1 \in 1..Len(q)
    BY <1>1
  <2>2. QED BY <1>1, <1>2, <2>1 DEF b
<1>10. QED BY <1>5, <1>8, <1>9 DEF b, d

-----------------------------------------------------------------------------
(* Descriptors outside map_tid.                                            *)

\* A step changes the state field only of live tasks or of the descriptor it
\* takes, and k_exit_handler frees a ready one.
LEMMA NextDeadReady == TypeOK /\ IInv /\ DeadReady /\ [Next]_vars => DeadReady'
<1> SUFFICES ASSUME TypeOK, IInv, DeadReady, [Next]_vars PROVE DeadReady'
  OBVIOUS
<1> USE DEF taskVars, mboxVars, waitVars, intrVars
<1>1. ASSUME NEW t \in Tids, k_exit_handler(t) PROVE DeadReady'
  <2>1. tasks' = tasks \ {t} /\ state' = state /\ Running(t)
    BY <1>1 DEF k_exit_handler
  <2>2. state[t] = "READY"
    BY <2>1, RunningFacts
  <2>3. QED BY <2>1, <2>2 DEF DeadReady
<1>2. ASSUME NEW t \in Tids, NEW p \in CreatePrios,
             CreateBadPrio(t, p) \/ CreateTask(t, p)
      PROVE  DeadReady'
  BY <1>2 DEF CreateBadPrio, CreateTask, DeadReady, TypeOK
<1>3. ASSUME NEW t \in Tids, NEW r \in Tids, NEW m \in Msgs,
             SendHandoff(t, r, m) \/ SendQueue(t, r, m) \/ Reply(t, r, m)
      PROVE  DeadReady'
  <2>1. Running(t) /\ r \in tasks /\ tasks' = tasks
    BY <1>3 DEF SendHandoff, SendQueue, Reply
  <2>2. t \in tasks
    BY <2>1, RunningFacts
  <2>3. \A x \in Tids : x # t /\ x # r => state'[x] = state[x]
    BY <1>3 DEF SendHandoff, SendQueue, Reply, TypeOK
  <2>4. QED BY <2>1, <2>2, <2>3 DEF DeadReady
<1>3a. ASSUME NEW t \in Tids, RecvWait(t) PROVE DeadReady'
  <2>1. /\ Running(t) /\ tasks' = tasks
        /\ state' = [state EXCEPT ![t] = "RECEIVE_BLOCKED"]
    BY <1>3a DEF RecvWait
  <2>2. t \in tasks
    BY <2>1, RunningFacts
  <2>3. QED BY <2>1, <2>2 DEF DeadReady, TypeOK
<1>4. ASSUME NEW t \in Tids, RecvTake(t) PROVE DeadReady'
  <2>1. sendq[t] # <<>> /\ sendq[t] \in Seq(Tids)
    BY <1>4 DEF RecvTake, TypeOK
  <2>2. Head(sendq[t]) \in tasks
    BY <2>1, TailElements DEF IInv, NoMissedRendezvous, InState
  <2>3. tasks' = tasks /\ state' = [state EXCEPT ![Head(sendq[t])] = "REPLY_BLOCKED"]
    BY <1>4 DEF RecvTake
  <2>4. QED BY <2>2, <2>3 DEF DeadReady, TypeOK
<1>5. ASSUME NEW t \in Tids, k_await_event_handler(t) PROVE DeadReady'
  <2>1. PICK e \in Events :
          Running(t) /\ state' = [state EXCEPT ![t] = e] /\ tasks' = tasks
    BY <1>5 DEF k_await_event_handler
  <2>2. t \in tasks
    BY <2>1, RunningFacts
  <2>3. QED BY <2>1, <2>2 DEF DeadReady, TypeOK
<1>6. CASE IntrWake
  <2> DEFINE t == Head(event_blocked[intr])
  <2>1. state' = [state EXCEPT ![t] = "READY"] /\ tasks' = tasks
    BY <1>6 DEF IntrWake
  <2>2. QED BY <2>1 DEF DeadReady, TypeOK
<1>7. CASE \/ Dispatch \/ IntrReturn \/ (\E e \in Sources : IntrTake(e))
           \/ \E t \in Tids :
                \/ k_yield(t) \/ CreateNoMem(t) \/ k_my_tid_handler(t)
                \/ k_my_parent_tid_handler(t) \/ (\E e \in Sources : Arm(t, e))
                \/ \E r \in Tids : \/ SendNoTask(t, r) \/ SendFault(t, r)
                                   \/ ReplyNoTask(t, r) \/ ReplyNotBlocked(t, r)
                                   \/ ReplyFault(t, r)
           \/ UNCHANGED vars
  <2>1. state' = state /\ tasks' = tasks
    BY <1>7 DEF Dispatch, DispatchIdle, DispatchTask, IntrReturn, IntrTake, k_yield,
       CreateNoMem, k_my_tid_handler, k_my_parent_tid_handler, Arm, SendNoTask,
       SendFault, ReplyNoTask, ReplyNotBlocked, ReplyFault, vars
  <2>2. QED BY <2>1 DEF DeadReady
<1>8. QED
  BY <1>1, <1>2, <1>3, <1>3a, <1>4, <1>5, <1>6, <1>7
     DEF Next, Syscall, Interrupt, k_create_handler, k_send_handler,
         k_recv_handler, k_reply_handler

\* Only live tasks are ever anything but ready.
LEMMA DeadReadyInvariance == Spec => []DeadReady
<1>1. Init => DeadReady
  BY DEF Init, DeadReady
<1>2. QED BY <1>1, NextDeadReady, TypeCorrect, Strengthened, PTL DEF Spec

-----------------------------------------------------------------------------
(* One lemma for each step of Rendezvous.                                  *)

\* k_sched_get_next and kernel_into_user: the task takes its message.
LEMMA DispatchResumes ==
  ASSUME TypeOK, IInv, NEW p \in Prios, DispatchTask(p)
  PROVE  \E t \in Tids : IPC!Resume(t)
<1> DEFINE t == Head(heap.q[p])
<1>1. heap.q[p] \in Seq(Tids) /\ heap.q[p] # <<>>
  BY DEF DispatchTask, TypeOK
<1>2. t \in Tids /\ t \in Elements(heap.q[p])
  BY <1>1, TailElements
<1>3. state[t] = "READY" /\ t \notin Misled
  BY <1>2 DEF IInv, HeapHoldsReady, InState
<1>4. /\ in_msg' = [in_msg EXCEPT ![t] = NoMsg]
      /\ in_tid' = [in_tid EXCEPT ![t] = NoTask]
      /\ UNCHANGED <<tasks, state, sendq, out_msg, event_blocked>>
  BY DEF DispatchTask, taskVars, intrVars
<1> HIDE DEF t
<1>5. phases[t] = "free"
  BY <1>2, <1>3, PhaseValue
<1>6. phases' = phases /\ inboxes' = inboxes
  BY <1>4, MisledStays DEF phases, inboxes, Phase, Inbox
<1>7. QED BY <1>2, <1>4, <1>5, <1>6 DEF IPC!Resume, phases, inboxes

\* k_exit_handler: the mailbox goes with its owner.
LEMMA ExitExits ==
  ASSUME TypeOK, IInv, NEW t \in Tids, k_exit_handler(t)
  PROVE  IPC!Exit(t)
<1>1. /\ Running(t) /\ tasks' = tasks \ {t}
      /\ sendq' = [sendq EXCEPT ![t] = <<>>]
      /\ UNCHANGED <<state, out_msg, in_msg, in_tid, event_blocked>>
  BY DEF k_exit_handler, intrVars
<1>2. t \in tasks /\ phases[t] = "free"
  BY <1>1, RunningFacts, PhaseValue
<1>3. phases' = phases
  BY <1>1, MisledStays DEF phases, Phase
<1>4. inboxes' = [inboxes EXCEPT ![t] = <<>>]
  <2>1. sendq'[t] = <<>> /\ \A r \in Tids : r # t => sendq'[r] = sendq[r]
    BY <1>1 DEF TypeOK
  <2>2. Inbox(t)' = <<>>
    BY <2>1 DEF Inbox
  <2>3. \A r \in Tids : r # t => Inbox(r)' = Inbox(r)
    BY <1>1, <2>1 DEF Inbox
  <2>4. QED BY <2>2, <2>3 DEF inboxes
<1>5. QED BY <1>1, <1>2, <1>3, <1>4 DEF IPC!Exit, phases, inboxes

\* k_create_handler, with a priority the scheduler has or without: the
\* descriptor is in map_tid in both cases.
LEMMA CreateSpawns ==
  ASSUME TypeOK, IInv, DeadReady, NEW t \in Tids, NEW p,
         CreateBadPrio(t, p) \/ CreateTask(t, p)
  PROVE  \E c \in Tids : IPC!Spawn(c)
<1> DEFINE c == next_tid
<1>1. /\ c \in Tids /\ c \notin tasks /\ tasks' = tasks \cup {c}
      /\ \E s \in {"UNINIT", "READY"} : state' = [state EXCEPT ![c] = s]
      /\ UNCHANGED <<sendq, out_msg, in_msg, in_tid>> /\ Misled' = Misled
  <2>1. /\ next_tid <= MaxTid /\ tasks' = tasks \cup {c}
        /\ \/ state' = [state EXCEPT ![c] = "UNINIT"]
           \/ state' = [state EXCEPT ![c] = "READY"]
        /\ UNCHANGED <<sendq, out_msg, in_msg, in_tid, event_blocked>>
    BY DEF CreateBadPrio, CreateTask, mboxVars, intrVars
  <2>2. c \in Tids /\ c \notin tasks
    BY <2>1, BoundsAssumption DEF TypeOK, Tids, IInv, Bookkeeping
  <2>3. QED BY <2>1, <2>2, MisledStays
<1>2. state[c] = "READY"
  BY <1>1 DEF DeadReady
<1>3. phases' = phases
  <2>1. PICK s \in {"UNINIT", "READY"} : state' = [state EXCEPT ![c] = s]
    BY <1>1
  <2>2. PhaseOf(s) = PhaseOf(state[c])
    BY <1>2 DEF PhaseOf
  <2>3. state \in [Tids -> TaskStates \cup Events]
    BY DEF TypeOK
  <2> HIDE DEF c
  <2>4. QED BY <1>1, <2>1, <2>2, <2>3, PhaseStays
<1>4. inboxes' = inboxes
  BY <1>1 DEF inboxes, Inbox
<1>5. QED BY <1>1, <1>3, <1>4 DEF IPC!Spawn, phases, inboxes

\* k_send_handler to a waiting receiver.
LEMMA SendHandsOff ==
  ASSUME TypeOK, IInv, NEW t \in Tids, NEW r \in Tids, NEW m \in Msgs,
         SendHandoff(t, r, m)
  PROVE  IPC!Handoff(t, r, m)
<1>1. /\ Running(t) /\ r \in tasks \ Misled /\ state[r] = "RECEIVE_BLOCKED"
      /\ state' = [state EXCEPT ![t] = "REPLY_BLOCKED", ![r] = "READY"]
      /\ in_msg' = [in_msg EXCEPT ![r] = m]
      /\ in_tid' = [in_tid EXCEPT ![r] = t]
      /\ UNCHANGED <<tasks, sendq, out_msg, event_blocked>>
  BY DEF SendHandoff, Deliver, taskVars, intrVars
<1>2. t \in tasks \ Misled /\ state[t] = "READY" /\ t # r /\ Misled' = Misled
  BY <1>1, RunningFacts, MisledStays
<1>3. phases[t] = "free" /\ phases[r] = "receiving"
  BY <1>1, <1>2, PhaseValue
<1>4. phases' = [phases EXCEPT ![t] = "awaiting", ![r] = "free"]
  <2>1. /\ state'[t] = "REPLY_BLOCKED" /\ state'[r] = "READY"
        /\ \A x \in Tids : x # t /\ x # r => state'[x] = state[x]
        /\ t \in Tids /\ r \in Tids
    BY <1>1, <1>2 DEF TypeOK
  <2>2. PhaseOf("REPLY_BLOCKED") = "awaiting" /\ PhaseOf("READY") = "free"
    BY PhaseValue
  <2>3. /\ phases'[t] = "awaiting" /\ phases'[r] = "free"
        /\ \A x \in Tids : x # t /\ x # r => phases'[x] = phases[x]
    BY <1>1, <1>2, <2>1, <2>2, PhaseShape
  <2>4. QED BY <2>3, <1>2, PhaseShape
<1>5. inboxes' = inboxes
  BY <1>1 DEF inboxes, Inbox
<1>6. QED BY <1>1, <1>2, <1>3, <1>4, <1>5 DEF IPC!Handoff, phases, inboxes

\* k_recv_handler with an empty sender_waitqueue.
LEMMA RecvAwaits ==
  ASSUME TypeOK, IInv, NEW t \in Tids, RecvWait(t)
  PROVE  IPC!Await(t)
<1>1. /\ Running(t) /\ sendq[t] = <<>>
      /\ state' = [state EXCEPT ![t] = "RECEIVE_BLOCKED"]
      /\ UNCHANGED <<tasks, sendq, out_msg, in_msg, in_tid, event_blocked>>
  BY DEF RecvWait, taskVars, mboxVars, intrVars
<1>2. t \in tasks \ Misled /\ phases[t] = "free" /\ Misled' = Misled
  BY <1>1, RunningFacts, PhaseValue, MisledStays
<1>3. phases' = [phases EXCEPT ![t] = "receiving"]
  <2>1. state \in [Tids -> TaskStates \cup Events]
    BY DEF TypeOK
  <2>2. phases' = [phases EXCEPT ![t] = PhaseOf("RECEIVE_BLOCKED")]
    BY <1>1, <1>2, <2>1, PhaseMove
  <2>3. QED BY <2>2, PhaseValue
<1>4. inboxes' = inboxes /\ inboxes[t] = <<>>
  BY <1>1 DEF inboxes, Inbox
<1>5. QED BY <1>1, <1>2, <1>3, <1>4 DEF IPC!Await, phases, inboxes

\* k_reply_handler to a task that awaits the reply.
LEMMA ReplyAnswers ==
  ASSUME TypeOK, IInv, NEW t \in Tids, NEW s \in Tids, NEW m \in Msgs, Reply(t, s, m)
  PROVE  IPC!Answer(s, m)
<1>1. /\ s \in tasks \ Misled /\ state[s] = "REPLY_BLOCKED"
      /\ state' = [state EXCEPT ![s] = "READY"]
      /\ in_msg' = [in_msg EXCEPT ![s] = m]
      /\ UNCHANGED <<tasks, sendq, out_msg, in_tid>> /\ Misled' = Misled
  BY MisledStays DEF Reply, taskVars, intrVars
<1>2. phases[s] = "awaiting"
  BY <1>1, PhaseValue
<1>3. phases' = [phases EXCEPT ![s] = "free"]
  <2>1. state \in [Tids -> TaskStates \cup Events]
    BY DEF TypeOK
  <2>2. phases' = [phases EXCEPT ![s] = PhaseOf("READY")]
    BY <1>1, <2>1, PhaseMove
  <2>3. QED BY <2>2, PhaseValue
<1>4. inboxes' = inboxes
  BY <1>1 DEF inboxes, Inbox
<1>5. QED BY <1>1, <1>2, <1>3, <1>4 DEF IPC!Answer, phases, inboxes

\* k_send_handler to a task that is not waiting: the message waits in the
\* sender's descriptor, behind those of the senders before it.
LEMMA SendPosts ==
  ASSUME TypeOK, IInv, NEW t \in Tids, NEW r \in Tids, NEW m \in Msgs,
         SendQueue(t, r, m)
  PROVE  IPC!Post(t, r, m)
<1>1. /\ Running(t) /\ r \in tasks /\ state[r] # "RECEIVE_BLOCKED"
      /\ state' = [state EXCEPT ![t] = "SEND_BLOCKED"]
      /\ out_msg' = [out_msg EXCEPT ![t] = m]
      /\ sendq' = [sendq EXCEPT ![r] = Append(@, t)]
      /\ UNCHANGED <<tasks, in_msg, in_tid>> /\ Misled' = Misled
  BY MisledStays DEF SendQueue, taskVars, intrVars
<1>2. /\ t \in tasks \ Misled /\ state[t] = "READY"
      /\ \A x \in Tids : t \notin Elements(sendq[x])
  BY <1>1, RunningFacts
<1>3. phases[t] = "free" /\ phases[r] # "receiving"
  BY <1>1, <1>2, PhaseValue
<1>4. phases' = [phases EXCEPT ![t] = "sending"]
  <2>1. state \in [Tids -> TaskStates \cup Events]
    BY DEF TypeOK
  <2>2. phases' = [phases EXCEPT ![t] = PhaseOf("SEND_BLOCKED")]
    BY <1>1, <1>2, <2>1, PhaseMove
  <2>3. QED BY <2>2, PhaseValue
<1>5. /\ sendq \in [Tids -> Seq(Tids)]
      /\ out_msg \in [Tids -> Msgs \cup {NoMsg}]
  BY DEF TypeOK
<1>6. inboxes' = [inboxes EXCEPT ![r] = Append(@, <<t, m>>)]
  <2>1. Box(sendq'[r], out_msg') = Append(Box(sendq[r], out_msg), <<t, m>>)
    <3>1. sendq[r] \in Seq(Tids) /\ sendq'[r] = Append(sendq[r], t)
      BY <1>1, <1>5
    <3>2. Box(Append(sendq[r], t), [out_msg EXCEPT ![t] = m])
            = Append(Box(sendq[r], out_msg), <<t, m>>)
      BY <1>2, <1>5, <3>1, BoxAppend
    <3>3. QED BY <1>1, <3>1, <3>2
  <2>2. ASSUME NEW x \in Tids, x # r
        PROVE  Box(sendq'[x], out_msg') = Box(sendq[x], out_msg)
    <3>1. sendq'[x] = sendq[x] /\ Elements(sendq[x]) \subseteq Tids
      BY <1>1, <1>5, <2>2, ElementsType
    <3>2. \A y \in Elements(sendq[x]) : out_msg'[y] = out_msg[y]
      BY <1>1, <1>2, <1>5, <3>1
    <3>3. QED BY <3>1, <3>2, BoxStays
  <2>3. \A x \in Tids : /\ Inbox(x) = Box(sendq[x], out_msg)
                        /\ Inbox(x)' = Box(sendq'[x], out_msg')
    BY DEF Inbox, Box
  <2>4. QED BY <2>1, <2>2, <2>3 DEF inboxes
<1>7. QED BY <1>1, <1>2, <1>3, <1>4, <1>6 DEF IPC!Post, phases, inboxes

\* k_recv_handler with a queued sender: the oldest message is copied out of
\* its sender's descriptor.
LEMMA RecvTakes ==
  ASSUME TypeOK, IInv, NEW t \in Tids, RecvTake(t)
  PROVE  IPC!Take(t)
<1> DEFINE s == Head(sendq[t])
<1>1. /\ Running(t) /\ sendq[t] # <<>>
      /\ state' = [state EXCEPT ![s] = "REPLY_BLOCKED"]
      /\ out_msg' = [out_msg EXCEPT ![s] = NoMsg]
      /\ sendq' = [sendq EXCEPT ![t] = Tail(@)]
      /\ in_msg' = [in_msg EXCEPT ![t] = out_msg[s]]
      /\ in_tid' = [in_tid EXCEPT ![t] = s]
      /\ tasks' = tasks /\ Misled' = Misled
  BY MisledStays DEF RecvTake, Deliver, taskVars, intrVars
<1>2. /\ sendq \in [Tids -> Seq(Tids)]
      /\ out_msg \in [Tids -> Msgs \cup {NoMsg}]
      /\ sendq[t] \in Seq(Tids)
  BY DEF TypeOK
<1>3. /\ s \in Tids /\ s \in Elements(sendq[t]) /\ NoRepeats(sendq[t])
      /\ state[s] = "SEND_BLOCKED" /\ s \notin Misled
  BY <1>1, <1>2, TailElements DEF IInv, NoMissedRendezvous, InState
<1>4. t \in tasks /\ phases[t] = "free" /\ phases[s] = "sending"
  BY <1>1, <1>3, RunningFacts, PhaseValue
<1>5. phases' = [phases EXCEPT ![s] = "awaiting"]
  <2>1. state \in [Tids -> TaskStates \cup Events]
    BY DEF TypeOK
  <2>2. phases' = [phases EXCEPT ![s] = PhaseOf("REPLY_BLOCKED")]
    BY <1>1, <1>3, <2>1, PhaseMove
  <2>3. QED BY <2>2, PhaseValue
<1>6. \A x \in Tids : /\ inboxes[x] = Box(sendq[x], out_msg)
                      /\ inboxes'[x] = Box(sendq'[x], out_msg')
  BY DEF inboxes, Inbox, Box
<1>7. /\ inboxes[t] # <<>> /\ Head(inboxes[t]) = <<s, out_msg[s]>>
      /\ inboxes'[t] = Tail(inboxes[t])
  <2>1. sendq'[t] = Tail(sendq[t])
    BY <1>1, <1>2
  <2>2. /\ Box(sendq[t], out_msg) # <<>>
        /\ Head(Box(sendq[t], out_msg)) = <<s, out_msg[s]>>
        /\ Box(Tail(sendq[t]), out_msg') = Tail(Box(sendq[t], out_msg))
    BY <1>1, <1>2, <1>3, BoxTail
  <2>3. QED BY <1>6, <2>1, <2>2
<1>8. ASSUME NEW x \in Tids, x # t PROVE inboxes'[x] = inboxes[x]
  <2>1. sendq'[x] = sendq[x] /\ Elements(sendq[x]) \subseteq Tids
    BY <1>1, <1>2, <1>8, ElementsType
  <2>2. s \notin Elements(sendq[x])
    BY <1>3, <1>8 DEF IInv, NoMissedRendezvous
  <2>3. \A y \in Elements(sendq[x]) : out_msg'[y] = out_msg[y]
    BY <1>1, <1>2, <2>1, <2>2
  <2>4. QED BY <1>6, <2>1, <2>3, BoxStays
<1>9. inboxes' = [inboxes EXCEPT ![t] = Tail(@)]
  BY <1>7, <1>8 DEF inboxes
<1> HIDE DEF s
<1>10. Head(inboxes[t])[1] = s /\ Head(inboxes[t])[2] = out_msg[s]
  BY <1>7
<1>11. QED BY <1>1, <1>4, <1>5, <1>7, <1>9, <1>10 DEF IPC!Take, phases, inboxes

-----------------------------------------------------------------------------
(* The refinement.                                                         *)

\* k_main's tasks are live, free and have no mail.
LEMMA InitRefines == Init => IPC!Init
<1> SUFFICES ASSUME Init PROVE IPC!Init
  OBVIOUS
<1>1. tasks \subseteq Tids
  BY BoundsAssumption DEF Init, Tids
<1>2. /\ [t \in Tids |-> Phase(t)] = [t \in Tids |-> "free"]
      /\ [r \in Tids |-> Inbox(r)] = [t \in Tids |-> <<>>]
  BY EmptyQueue DEF Init, Phase, Inbox, Misled
<1>3. QED BY <1>1, <1>2 DEF IPC!Init, Init

\* Every step of the kernel is a step of message passing or a stutter.
LEMMA NextRefines ==
  TypeOK /\ IInv /\ DeadReady /\ [Next]_vars => IPC!Next \/ UNCHANGED ipcvars
<1> SUFFICES ASSUME TypeOK, IInv, DeadReady, [Next]_vars
             PROVE  IPC!Next \/ UNCHANGED ipcvars
  OBVIOUS
<1> USE DEF taskVars, mboxVars, waitVars, intrVars
<1>1. ASSUME NEW p \in Prios, DispatchTask(p) PROVE IPC!Next
  BY <1>1, DispatchResumes DEF IPC!Next
<1>2. ASSUME NEW t \in Tids, k_exit_handler(t) PROVE IPC!Next
  BY <1>2, ExitExits DEF IPC!Next
<1>3. ASSUME NEW t \in Tids, NEW p \in CreatePrios,
             CreateBadPrio(t, p) \/ CreateTask(t, p)
      PROVE  IPC!Next
  BY <1>3, CreateSpawns DEF IPC!Next
<1>4. ASSUME NEW t \in Tids, NEW r \in Tids, NEW m \in Msgs,
             SendHandoff(t, r, m) \/ SendQueue(t, r, m) \/ Reply(t, r, m)
      PROVE  IPC!Next
  BY <1>4, SendHandsOff, SendPosts, ReplyAnswers DEF IPC!Next
<1>5. ASSUME NEW t \in Tids, RecvWait(t) \/ RecvTake(t) PROVE IPC!Next
  BY <1>5, RecvAwaits, RecvTakes DEF IPC!Next
<1>6. ASSUME NEW t \in Tids, k_await_event_handler(t) PROVE UNCHANGED ipcvars
  <2>1. PICK e \in Events :
          /\ Running(t) /\ state' = [state EXCEPT ![t] = e]
          /\ event_blocked' = [event_blocked EXCEPT ![e] = Append(@, t)]
          /\ UNCHANGED <<tasks, sendq, out_msg, in_msg, in_tid>>
    BY <1>6 DEF k_await_event_handler
  <2>2. /\ state[t] = "READY" /\ t \notin Misled
        /\ state'[t] = e /\ \A x \in Tids : x # t => state'[x] = state[x]
    BY <2>1, RunningFacts DEF TypeOK
  <2>3. Misled' = Misled \cup (IF e \in TaskStates THEN {t} ELSE {})
    <3>1. /\ event_blocked'[e] = Append(event_blocked[e], t)
          /\ event_blocked[e] \in Seq(Tids)
          /\ \A f \in Events : f # e => event_blocked'[f] = event_blocked[f]
      BY <2>1 DEF TypeOK
    <3>2. Elements(event_blocked'[e]) = Elements(event_blocked[e]) \cup {t}
      BY <3>1, AppendElements
    <3>3. \A f \in Events : Elements(event_blocked'[f])
                             = Elements(event_blocked[f]) \cup (IF f = e THEN {t} ELSE {})
      BY <3>1, <3>2
    <3>4. QED BY <3>3 DEF Misled
  <2>4. e \notin TaskStates => PhaseOf(e) = "free"
    BY PhaseValue DEF TaskStates
  <2>5. phases' = phases
    <3>1. PhaseOf("READY") = "free"
      BY PhaseValue
    <3>2. \A x \in Tids : phases'[x] = phases[x]
      BY <2>2, <2>3, <2>4, <3>1, PhaseShape
    <3>3. QED BY <3>2, PhaseShape
  <2>6. QED BY <2>1, <2>5 DEF ipcvars, inboxes, Inbox
<1>7. CASE IntrWake
  <2>1. PICK e \in Events : e = intr /\ event_blocked[e] # <<>> /\ e \notin TaskStates
    BY <1>7, ValuesAssumption DEF IntrWake, TypeOK
  <2> DEFINE t == Head(event_blocked[e])
  <2>2. t \in Tids /\ t \in Elements(event_blocked[e])
    BY <2>1, TailElements DEF TypeOK
  <2>3. state[t] = e
    BY <2>2 DEF IInv, WaitListsAgree, Awaiting
  <2>4. /\ state' = [state EXCEPT ![t] = "READY"]
        /\ event_blocked' = [event_blocked EXCEPT ![e] = Tail(@)]
        /\ UNCHANGED <<tasks, sendq, out_msg, in_msg, in_tid>>
    BY <1>7, <2>1 DEF IntrWake
  <2>5. e \notin {"SEND_BLOCKED", "RECEIVE_BLOCKED", "REPLY_BLOCKED"}
    BY <2>1 DEF TaskStates
  <2> HIDE DEF t
  <2>6. PhaseOf("READY") = PhaseOf(state[t])
    BY <2>3, <2>5, PhaseValue
  <2>a. Misled' = Misled
    <3>1. \A f \in Events : f # e => event_blocked'[f] = event_blocked[f]
      BY <2>4 DEF TypeOK
    <3>2. QED BY <2>1, <3>1 DEF Misled
  <2>7. phases' = phases
    BY <2>2, <2>4, <2>6, <2>a, PhaseStays DEF TypeOK
  <2>8. QED BY <2>4, <2>7 DEF ipcvars, inboxes, Inbox
<1>8. CASE \/ DispatchIdle \/ IntrReturn \/ (\E e \in Sources : IntrTake(e))
           \/ \E t \in Tids :
                \/ k_yield(t) \/ CreateNoMem(t) \/ k_my_tid_handler(t)
                \/ k_my_parent_tid_handler(t) \/ (\E e \in Sources : Arm(t, e))
                \/ \E r \in Tids : \/ SendNoTask(t, r) \/ SendFault(t, r)
                                   \/ ReplyNoTask(t, r) \/ ReplyNotBlocked(t, r)
                                   \/ ReplyFault(t, r)
           \/ UNCHANGED vars
  <2>1. UNCHANGED <<tasks, state, sendq, out_msg, in_msg, in_tid, event_blocked>>
    BY <1>8 DEF DispatchIdle, IntrReturn, IntrTake, k_yield,
       CreateNoMem, k_my_tid_handler, k_my_parent_tid_handler, Arm, SendNoTask,
       SendFault, ReplyNoTask, ReplyNotBlocked, ReplyFault, vars
  <2>2. QED BY <2>1, MisledStays DEF ipcvars, phases, Phase, inboxes, Inbox
<1>9. QED
  BY <1>1, <1>2, <1>3, <1>4, <1>5, <1>6, <1>7, <1>8
     DEF Next, Dispatch, Syscall, Interrupt, k_create_handler, k_send_handler,
         k_recv_handler, k_reply_handler

\* The kernel keeps the promises of ke_send, ke_recv and ke_reply: tasks see
\* the message passing of Rendezvous, whatever is scheduled, created,
\* destroyed or interrupted in between.
THEOREM KernelImplementsRendezvous == Spec => ImplementsRendezvous
<1>1. Init => IPC!Init BY InitRefines
<1>2. TypeOK /\ IInv /\ DeadReady /\ [Next]_vars => [IPC!Next]_(IPC!ipc)
  BY NextRefines DEF ipcvars, IPC!ipc, phases, inboxes
<1>3. QED
  BY <1>1, <1>2, TypeCorrect, Strengthened, DeadReadyInvariance, PTL
     DEF Spec, ImplementsRendezvous, IPC!Spec

-----------------------------------------------------------------------------
(* Room in the heap and in the mailboxes.                                  *)

\* What the kernel relies on and never checks: every live task but the idle
\* task can be in the heap, or in one mailbox, at once, no ke_create had a
\* priority outside the scheduler's range, and no ke_await_event the number
\* of a state.
RoomForAll ==
  /\ Cardinality(tasks) <= HeapCap + 1
  /\ Cardinality(tasks) <= MboxCap + 1
  /\ InState("UNINIT") = {}
  /\ Misled = {}

ReadyOf(h) == UNION {Elements(h.q[p]) : p \in Prios}

\* The heap counts its entries.
CountsReady(h) == h.count = Cardinality(ReadyOf(h))

\* What a step does to the ready tasks: the heap goes on counting its entries,
\* and no task is forgotten as long as the heap has room for all.
Kept ==
  /\ CountsReady(heap)'
  /\ Cardinality(tasks') <= HeapCap + 1 => Lost' \subseteq Lost

-----------------------------------------------------------------------------
(* Counting.                                                               *)

\* The tasks in a queue without repetitions are as many as its length.
LEMMA QueueLength ==
  ASSUME NEW S, NEW q \in Seq(S), NoRepeats(q)
  PROVE  IsFiniteSet(Elements(q)) /\ Cardinality(Elements(q)) = Len(q)
<1> DEFINE n == Len(q)  E == Elements(q)
<1>1. n \in Nat /\ q \in [1..n -> S]
  OBVIOUS
<1>2. /\ \A i \in 1..n : q[i] \in E
      /\ \A x \in E : \E i \in 1..n : q[i] = x
      /\ \A i, j \in 1..n : q[i] = q[j] => i = j
  BY DEF Elements, NoRepeats
<1> HIDE DEF n, E
<1>3. q \in [1..n -> E]
  BY <1>1, <1>2
<1>4. q \in Bijection(1..n, E)
  BY <1>2, <1>3 DEF Bijection, Injection, Surjection, IsInjective
<1>5. IsFiniteSet(1..n) /\ Cardinality(1..n) = n
  BY <1>1, FS_Interval
<1>6. IsFiniteSet(E) /\ Cardinality(E) = n
  BY <1>4, <1>5, FS_Bijection DEF ExistsBijection
<1>7. QED BY <1>6 DEF n, E

\* A set of live tasks that leaves out the idle task and one more is smaller
\* than the room for all but the idle task.
LEMMA RoomForOneMore ==
  ASSUME NEW X \in SUBSET Tids, IdleTid \in X, NEW K \in Nat, Cardinality(X) <= K + 1,
         NEW T \in SUBSET (X \ {IdleTid}), NEW t \in X, t # IdleTid, t \notin T
  PROVE  IsFiniteSet(T) /\ Cardinality(T) \in Nat /\ Cardinality(T) < K
<1>1. IsFiniteSet(Tids)
  BY BoundsAssumption, FS_Interval DEF Tids
<1>2. IsFiniteSet(X) /\ IsFiniteSet(T)
  BY <1>1, FS_Subset
<1>3. /\ IsFiniteSet(X \ {IdleTid})
      /\ Cardinality(X \ {IdleTid}) = Cardinality(X) - 1
      /\ Cardinality(X) \in Nat
  BY <1>2, FS_RemoveElement, FS_CardinalityType
<1>4. /\ IsFiniteSet(T \cup {t})
      /\ Cardinality(T \cup {t}) = Cardinality(T) + 1
      /\ Cardinality(T) \in Nat
  BY <1>2, FS_AddElement, FS_CardinalityType
<1>5. T \cup {t} \subseteq X \ {IdleTid}
  OBVIOUS
<1>6. Cardinality(T \cup {t}) <= Cardinality(X \ {IdleTid})
  BY <1>3, <1>5, FS_Subset
<1>7. QED BY <1>2, <1>3, <1>4, <1>6

\* HEAP_INSERT keeps the count and every entry it finds; with room for every
\* live task it drops nothing.
LEMMA InsertFits ==
  ASSUME NEW X \in SUBSET Tids, IdleTid \in X,
         NEW h \in Heaps, CountsReady(h), ReadyOf(h) \subseteq X \ {IdleTid},
         NEW t \in X, t # IdleTid, t \notin ReadyOf(h), NEW p \in Prios
  PROVE  /\ HeapInsert(h, t, p) \in Heaps
         /\ CountsReady(HeapInsert(h, t, p))
         /\ ReadyOf(h) \subseteq ReadyOf(HeapInsert(h, t, p))
         /\ ReadyOf(HeapInsert(h, t, p)) \subseteq ReadyOf(h) \cup {t}
         /\ Cardinality(X) <= HeapCap + 1 => t \in ReadyOf(HeapInsert(h, t, p))
<1> DEFINE g == HeapInsert(h, t, p)
<1>1. g \in Heaps
  BY HeapInsertLemma
<1>2. CASE h.count < HeapCap
  <2>1. g = [q |-> [h.q EXCEPT ![p] = Append(@, t)], count |-> h.count + 1]
    BY <1>2 DEF HeapInsert
  <2>2. h.q \in [Prios -> Seq(Tids)]
    BY DEF Heaps
  <2>3. /\ g.q[p] = Append(h.q[p], t) /\ g.count = h.count + 1
        /\ \A r \in Prios : r # p => g.q[r] = h.q[r]
    BY <2>1, <2>2
  <2>4. Elements(g.q[p]) = Elements(h.q[p]) \cup {t}
    BY <2>2, <2>3, AppendElements
  <2> HIDE DEF g
  <2>5. ReadyOf(g) = ReadyOf(h) \cup {t}
    <3>1. \A r \in Prios : Elements(g.q[r]) = Elements(h.q[r]) \cup (IF r = p THEN {t} ELSE {})
      BY <2>3, <2>4
    <3>2. QED BY <3>1 DEF ReadyOf
  <2>6. IsFiniteSet(ReadyOf(h))
    <3>1. ReadyOf(h) \subseteq Tids
      OBVIOUS
    <3>2. IsFiniteSet(Tids)
      BY BoundsAssumption, FS_Interval DEF Tids
    <3>3. QED BY <3>1, <3>2, FS_Subset
  <2>7. Cardinality(ReadyOf(h) \cup {t}) = Cardinality(ReadyOf(h)) + 1
    BY <2>6, FS_AddElement
  <2>8. CountsReady(g)
    BY <2>3, <2>5, <2>7 DEF CountsReady
  <2>9. QED BY <1>1, <2>5, <2>8 DEF g
<1>3. CASE ~(h.count < HeapCap)
  <2>1. g = h
    BY <1>3 DEF HeapInsert
  <2>2. ~(Cardinality(X) <= HeapCap + 1)
    <3>1. SUFFICES ASSUME Cardinality(X) <= HeapCap + 1 PROVE FALSE
      OBVIOUS
    <3>2. Cardinality(ReadyOf(h)) < HeapCap
      BY <3>1, BoundsAssumption, RoomForOneMore
    <3>3. QED BY <1>3, <3>2 DEF CountsReady
  <2>3. QED BY <2>1, <2>2
<1>4. QED BY <1>2, <1>3

-----------------------------------------------------------------------------
(* Steps.                                                                  *)

\* The tasks in the heap are live and ready; neither the idle task nor the
\* running one is among them.
LEMMA ReadyFacts ==
  ASSUME TypeOK, IInv
  PROVE  /\ heap \in Heaps /\ ReadySet = ReadyOf(heap)
         /\ ReadySet \subseteq InState("READY") \ {current, IdleTid}
         /\ InState("READY") \subseteq tasks
         /\ tasks \in SUBSET Tids /\ IdleTid \in tasks
         /\ current # NoTask => current \in InState("READY")
         /\ \A t \in Tids : Running(t) => /\ t = current /\ t # IdleTid /\ t # NoTask
                                          /\ t \in tasks /\ state[t] = "READY"
<1>1. ReadySet \subseteq InState("READY") \ {current, IdleTid}
  BY DEF ReadySet, IInv, HeapHoldsReady
<1>2. \A t \in Tids : Running(t) => /\ t = current /\ t # IdleTid /\ t # NoTask
                                    /\ t \in tasks /\ state[t] = "READY"
  BY RunningFacts
<1>3. QED
  BY <1>1, <1>2 DEF TypeOK, Heaps, ReadySet, ReadyOf, IInv, Bookkeeping, HeapHoldsReady,
     InState

\* A system call that returns requeues its caller.
LEMMA ReturnFits ==
  ASSUME TypeOK, IInv, NEW t \in Tids, Running(t),
         NEW X \in SUBSET Tids, tasks \subseteq X,
         NEW h \in Heaps, CountsReady(h), ReadyOf(h) \subseteq X \ {IdleTid, t},
         heap' = Requeue(h, t)
  PROVE  /\ CountsReady(heap)' /\ ReadyOf(h) \subseteq ReadySet'
         /\ Cardinality(X) <= HeapCap + 1 => t \in ReadySet'
<1>1. t \in X /\ t # IdleTid /\ IdleTid \in X /\ priority[t] \in Prios
  BY ReadyFacts DEF TypeOK
<1> DEFINE g == Requeue(h, t)
<1>2. /\ CountsReady(g) /\ ReadyOf(h) \subseteq ReadyOf(g)
      /\ Cardinality(X) <= HeapCap + 1 => t \in ReadyOf(g)
  BY <1>1, InsertFits DEF Requeue
<1> HIDE DEF g
<1>3. QED BY <1>2 DEF g, CountsReady, ReadyOf, ReadySet

\* A task that blocks leaves the others in the heap.
LEMMA BlockFits ==
  ASSUME TypeOK, IInv, CountsReady(heap), NEW t \in Tids, Running(t),
         UNCHANGED <<heap, tasks>>, current' = NoTask,
         InState("READY")' \subseteq InState("READY") \ {t}
  PROVE  Kept
<1>1. t = current
  BY ReadyFacts
<1>2. CountsReady(heap)' /\ ReadySet' = ReadySet
  BY DEF CountsReady, ReadyOf, ReadySet
<1>3. Lost' = InState("READY")' \ (ReadySet \cup {NoTask, IdleTid})
  BY <1>2 DEF Lost
<1>4. QED BY <1>1, <1>2, <1>3 DEF Kept, Lost

\* k_sched_get_next takes one entry out of the heap and its task runs.
LEMMA DispatchFits ==
  ASSUME TypeOK, IInv, CountsReady(heap), NEW p \in Prios, DispatchTask(p)
  PROVE  Kept
<1> DEFINE t == Head(heap.q[p])
<1>1. /\ current = NoTask /\ heap.q[p] # <<>> /\ current' = t
      /\ heap' = [q |-> [heap.q EXCEPT ![p] = Tail(@)], count |-> heap.count - 1]
      /\ UNCHANGED <<tasks, state, event_blocked>>
  BY DEF DispatchTask, taskVars, intrVars
<1>2. heap.q \in [Prios -> Seq(Tids)] /\ heap.count \in Int
  BY DEF TypeOK
<1>3. /\ t \in Elements(heap.q[p]) /\ NoRepeats(heap.q[p])
      /\ Elements(Tail(heap.q[p])) = Elements(heap.q[p]) \ {t}
  BY <1>1, <1>2, TailElements DEF IInv, HeapHoldsReady
<1>4. /\ heap'.q[p] = Tail(heap.q[p]) /\ heap'.count = heap.count - 1
      /\ \A r \in Prios : r # p => heap'.q[r] = heap.q[r]
  BY <1>1, <1>2
<1>5. \A r \in Prios : r # p => t \notin Elements(heap.q[r])
  BY <1>3 DEF IInv, HeapHoldsReady
<1> HIDE DEF t
<1>6. ReadySet' = ReadySet \ {t} /\ t \in ReadySet
  <2>1. \A r \in Prios : Elements(heap'.q[r]) = Elements(heap.q[r]) \ {t}
    BY <1>3, <1>4, <1>5
  <2>2. QED BY <1>3, <2>1 DEF ReadySet
<1>7. IsFiniteSet(ReadySet)
  <2>1. ReadySet \subseteq Tids /\ IsFiniteSet(Tids)
    BY ReadyFacts, BoundsAssumption, FS_Interval DEF Tids
  <2>2. QED BY <2>1, FS_Subset
<1>8. Cardinality(ReadySet \ {t}) = Cardinality(ReadySet) - 1
  BY <1>6, <1>7, FS_RemoveElement
<1>9. CountsReady(heap)'
  BY <1>4, <1>6, <1>8, ReadyFacts DEF CountsReady, ReadyOf, ReadySet
<1>10. InState("READY")' = InState("READY") /\ NoTask \notin Tids /\ InState("READY") \subseteq Tids
  BY <1>1, MisledStays, Basics, ReadyFacts DEF InState
<1>11. Lost' = InState("READY") \ ((ReadySet \ {t}) \cup {t, IdleTid})
  BY <1>1, <1>6, <1>10 DEF Lost
<1>12. QED BY <1>1, <1>6, <1>9, <1>10, <1>11 DEF Kept, Lost

\* System calls that return to their caller and make at most one more task
\* ready: n, in the heap under priority p before the caller.
LEMMA WakeFits ==
  ASSUME TypeOK, IInv, CountsReady(heap),
         NEW t \in Tids, Running(t), tasks \subseteq tasks', tasks' \subseteq Tids,
         NEW n \in tasks', n # IdleTid, n # t, n \notin InState("READY"), NEW p \in Prios,
         heap' = Requeue(HeapInsert(heap, n, p), t), current' = NoTask,
         InState("READY")' \subseteq InState("READY") \cup {n}
  PROVE  Kept
<1> DEFINE h == HeapInsert(heap, n, p)
<1>1. /\ heap \in Heaps /\ ReadySet = ReadyOf(heap)
      /\ ReadyOf(heap) \subseteq tasks \ {IdleTid, t} /\ IdleTid \in tasks
      /\ n \notin ReadyOf(heap) /\ t = current /\ t \in tasks
  BY ReadyFacts
<1>2. /\ h \in Heaps /\ CountsReady(h) /\ ReadyOf(heap) \subseteq ReadyOf(h)
      /\ ReadyOf(h) \subseteq ReadyOf(heap) \cup {n}
      /\ Cardinality(tasks') <= HeapCap + 1 => n \in ReadyOf(h)
  BY <1>1, InsertFits
<1> HIDE DEF h
<1>3. ReadyOf(h) \subseteq tasks' \ {IdleTid, t}
  BY <1>1, <1>2
<1>4. /\ CountsReady(heap)' /\ ReadyOf(h) \subseteq ReadySet'
      /\ Cardinality(tasks') <= HeapCap + 1 => t \in ReadySet'
  BY <1>2, <1>3, ReturnFits DEF h
<1>5. Lost' = InState("READY")' \ (ReadySet' \cup {NoTask, IdleTid})
  BY DEF Lost
<1>6. QED BY <1>1, <1>2, <1>4, <1>5 DEF Kept, Lost

\* System calls that return to their caller and make no other task ready.
LEMMA PlainFits ==
  ASSUME TypeOK, IInv, CountsReady(heap), NEW t \in Tids, Running(t),
         heap' = Requeue(heap, t), current' = NoTask,
         tasks \subseteq tasks', tasks' \subseteq Tids,
         InState("READY")' \subseteq InState("READY")
  PROVE  Kept
<1>1. /\ heap \in Heaps /\ ReadySet = ReadyOf(heap)
      /\ ReadyOf(heap) \subseteq tasks' \ {IdleTid, t} /\ t = current
  BY ReadyFacts
<1>2. /\ CountsReady(heap)' /\ ReadySet \subseteq ReadySet'
      /\ Cardinality(tasks') <= HeapCap + 1 => t \in ReadySet'
  BY <1>1, ReturnFits
<1>3. Lost' = InState("READY")' \ (ReadySet' \cup {NoTask, IdleTid})
  BY DEF Lost
<1>4. QED BY <1>1, <1>2, <1>3 DEF Kept, Lost

\* A step that makes n ready while another task runs or the caller blocks.
LEMMA ReadyFits ==
  ASSUME TypeOK, IInv, CountsReady(heap), NEW n \in tasks, n # IdleTid,
         n \notin InState("READY"), heap' = HeapInsert(heap, n, priority[n]),
         UNCHANGED tasks,
         InState("READY")' \ {current', IdleTid}
           \subseteq (InState("READY") \ {current, IdleTid}) \cup {n}
  PROVE  Kept
<1> DEFINE h == HeapInsert(heap, n, priority[n])
<1>1. /\ heap \in Heaps /\ ReadySet = ReadyOf(heap)
      /\ ReadyOf(heap) \subseteq tasks \ {IdleTid} /\ n \notin ReadyOf(heap)
      /\ tasks \in SUBSET Tids /\ IdleTid \in tasks /\ priority[n] \in Prios
  BY ReadyFacts DEF TypeOK
<1>2. /\ CountsReady(h) /\ ReadyOf(heap) \subseteq ReadyOf(h)
      /\ Cardinality(tasks) <= HeapCap + 1 => n \in ReadyOf(h)
  BY <1>1, InsertFits
<1> HIDE DEF h
<1>3. /\ CountsReady(heap)' /\ ReadySet \subseteq ReadySet'
      /\ Cardinality(tasks') <= HeapCap + 1 => n \in ReadySet'
  BY <1>1, <1>2 DEF h, CountsReady, ReadyOf, ReadySet
<1>4. Lost' = (InState("READY")' \ {current', IdleTid}) \ ReadySet'
  BY DEF Lost
<1>5. Lost = (InState("READY") \ {current, IdleTid}) \ ReadySet
  BY DEF Lost
<1>6. QED BY <1>3, <1>4, <1>5 DEF Kept

\* A step that leaves the heap, the tasks and who runs alone.
LEMMA IdleFits ==
  ASSUME TypeOK, IInv, CountsReady(heap), UNCHANGED heap,
         InState("READY")' \ {current', IdleTid}
           \subseteq InState("READY") \ {current, IdleTid}
  PROVE  Kept
<1>1. CountsReady(heap)' /\ ReadySet' = ReadySet
  BY DEF CountsReady, ReadyOf, ReadySet
<1>2. Lost' = (InState("READY")' \ {current', IdleTid}) \ ReadySet
  BY <1>1 DEF Lost
<1>3. Lost = (InState("READY") \ {current, IdleTid}) \ ReadySet
  BY DEF Lost
<1>4. QED BY <1>1, <1>2, <1>3 DEF Kept

\* A task that waits for an event is not ready, whatever its state reads as.
LEMMA AwaitLeaves ==
  ASSUME TypeOK, IInv, NEW t \in Tids, k_await_event_handler(t)
  PROVE  InState("READY")' \subseteq InState("READY") \ {t}
<1>1. PICK e \in Events :
        /\ event_blocked' = [event_blocked EXCEPT ![e] = Append(@, t)]
        /\ state' = [state EXCEPT ![t] = e]
        /\ tasks' = tasks
  BY DEF k_await_event_handler, taskVars
<1>2. /\ event_blocked'[e] = Append(event_blocked[e], t)
      /\ event_blocked[e] \in Seq(Tids)
      /\ \A f \in Events : f # e => event_blocked'[f] = event_blocked[f]
  BY <1>1 DEF TypeOK
<1>3. Elements(event_blocked'[e]) = Elements(event_blocked[e]) \cup {t}
  BY <1>2, AppendElements
<1>4. \A f \in Events : Elements(event_blocked[f]) \subseteq Elements(event_blocked'[f])
  BY <1>2, <1>3
<1>5. Misled \subseteq Misled' /\ (e \in TaskStates => t \in Misled')
  BY <1>3, <1>4 DEF Misled
<1>6. state'[t] = e /\ \A x \in Tids : x # t => state'[x] = state[x]
  BY <1>1 DEF TypeOK
<1>7. "READY" \in TaskStates /\ tasks \subseteq Tids
  BY DEF TaskStates, TypeOK
<1>8. QED BY <1>1, <1>5, <1>6, <1>7 DEF InState

\* The mailbox a sender joins has a free slot: RB_PUSH_PRE gives a pointer, and
\* the descriptor of the receiver was initialised.
LEMMA NoWildWrite ==
  ASSUME TypeOK, IInv, Cardinality(tasks) <= MboxCap + 1, InState("UNINIT") = {},
         Misled = {}, NEW t \in Tids, NEW r \in Tids,
         SendFault(t, r) \/ ReplyFault(t, r)
  PROVE  FALSE
<1>1. Running(t) /\ r \in tasks
  BY DEF SendFault, ReplyFault
<1>2. state[r] # "UNINIT"
  BY <1>1 DEF InState
<1>3. Len(sendq[r]) < MboxCap
  <2>1. /\ sendq[r] \in Seq(Tids) /\ NoRepeats(sendq[r])
        /\ Elements(sendq[r]) \subseteq InState("SEND_BLOCKED")
    BY DEF TypeOK, IInv, NoMissedRendezvous
  <2>2. t \in tasks /\ t # IdleTid /\ t \notin Elements(sendq[r])
    BY <1>1, RunningFacts
  <2>3. /\ IdleTid \in tasks /\ tasks \in SUBSET Tids
        /\ Elements(sendq[r]) \subseteq tasks \ {IdleTid}
    BY <2>1 DEF IInv, Bookkeeping, InState, TypeOK
  <2>4. Cardinality(Elements(sendq[r])) < MboxCap
    BY <2>2, <2>3, BoundsAssumption, RoomForOneMore
  <2>5. QED BY <2>1, <2>4, QueueLength
<1>4. Len(sendq[r]) \in Nat /\ MboxCap \in Nat
  BY BoundsAssumption DEF TypeOK
<1>5. QED BY <1>2, <1>3, <1>4 DEF SendFault, ReplyFault

\* No step forgets a ready task that fits.
LEMMA NextKept == TypeOK /\ IInv /\ CountsReady(heap) /\ [Next]_vars => Kept
<1> SUFFICES ASSUME TypeOK, IInv, CountsReady(heap), [Next]_vars
             PROVE  Kept
  OBVIOUS
<1> USE DEF taskVars, mboxVars, waitVars, intrVars
<1>0. tasks \subseteq Tids
  BY DEF TypeOK
<1>1. ASSUME NEW p \in Prios, DispatchTask(p) PROVE Kept
  BY <1>1, DispatchFits
<1>2. CASE DispatchIdle
  <2>1. UNCHANGED <<heap, tasks, state, event_blocked>> /\ current = NoTask /\ current' = IdleTid
    BY <1>2 DEF DispatchIdle
  <2>2. InState("READY") \subseteq Tids /\ NoTask \notin Tids
    BY Basics, ReadyFacts
  <2>3. InState("READY")' = InState("READY")
    BY <2>1, MisledStays DEF InState
  <2>4. QED BY <2>1, <2>2, <2>3, IdleFits
<1>3. ASSUME NEW t \in Tids, k_exit_handler(t) PROVE Kept
  <2>1. /\ Running(t) /\ current' = NoTask /\ tasks' = tasks \ {t}
        /\ UNCHANGED <<heap, state, event_blocked>>
    BY <1>3 DEF k_exit_handler
  <2>2. InState("READY")' = InState("READY") \ {t} /\ t = current
    BY <2>1, MisledStays, ReadyFacts DEF InState
  <2>3. QED BY <2>1, <2>2, IdleFits
<1>4. ASSUME NEW t \in Tids,
             \/ k_yield(t) \/ CreateNoMem(t) \/ k_my_tid_handler(t)
             \/ k_my_parent_tid_handler(t)
             \/ \E r \in Tids : \/ SendNoTask(t, r) \/ ReplyNoTask(t, r)
                                \/ ReplyNotBlocked(t, r)
      PROVE  Kept
  <2>1. /\ Running(t) /\ heap' = Requeue(heap, t) /\ current' = NoTask
        /\ UNCHANGED <<tasks, state, event_blocked>>
    BY <1>4 DEF k_yield, CreateNoMem, k_my_tid_handler, k_my_parent_tid_handler,
       SendNoTask, ReplyNoTask, ReplyNotBlocked, Return
  <2>2. InState("READY")' = InState("READY")
    BY <2>1, MisledStays DEF InState
  <2>3. QED BY <1>0, <2>1, <2>2, PlainFits
<1>5. ASSUME NEW t \in Tids, NEW p \in CreatePrios, CreateBadPrio(t, p)
      PROVE  Kept
  <2>1. /\ Running(t) /\ heap' = Requeue(heap, t) /\ current' = NoTask
        /\ tasks' = tasks \cup {next_tid}
        /\ state' = [state EXCEPT ![next_tid] = "UNINIT"]
        /\ UNCHANGED event_blocked /\ next_tid <= MaxTid
    BY <1>5 DEF CreateBadPrio, Return
  <2>2. next_tid \in Tids
    BY <2>1, BoundsAssumption DEF TypeOK, Tids
  <2>3. InState("READY")' \subseteq InState("READY")
    BY <2>1, <2>2, MisledStays DEF InState, TypeOK
  <2>4. tasks \subseteq tasks' /\ tasks' \subseteq Tids
    BY <1>0, <2>1, <2>2
  <2>5. QED BY <2>1, <2>3, <2>4, PlainFits
<1>6. ASSUME NEW t \in Tids, NEW p \in CreatePrios, CreateTask(t, p)
      PROVE  Kept
  <2> DEFINE c == next_tid
  <2>1. /\ Running(t) /\ p \in Prios /\ tasks' = tasks \cup {c}
        /\ state' = [state EXCEPT ![c] = "READY"] /\ UNCHANGED event_blocked
        /\ heap' = Requeue(HeapInsert(heap, c, p), t) /\ current' = NoTask
    BY <1>6 DEF CreateTask, Return
  <2>2. c \in Tids /\ c \notin tasks
    BY <1>6, BoundsAssumption DEF CreateTask, TypeOK, Tids, IInv, Bookkeeping
  <2>3. t \in tasks /\ IdleTid \in tasks
    BY <2>1, ReadyFacts
  <2>4. InState("READY")' \subseteq InState("READY") \cup {c} /\ c \notin InState("READY")
    BY <2>1, <2>2, MisledStays DEF InState, TypeOK
  <2>5. tasks' \subseteq Tids /\ tasks \subseteq tasks'
    BY <2>1, <2>2 DEF TypeOK
  <2> HIDE DEF c
  <2>6. QED BY <2>1, <2>2, <2>3, <2>4, <2>5, WakeFits
<1>7. ASSUME NEW t \in Tids, NEW r \in Tids, NEW m \in Msgs, SendHandoff(t, r, m)
      PROVE  Kept
  <2>1. /\ Running(t) /\ r \in tasks \ Misled /\ state[r] = "RECEIVE_BLOCKED"
        /\ state' = [state EXCEPT ![t] = "REPLY_BLOCKED", ![r] = "READY"]
        /\ heap' = HeapInsert(heap, r, priority[r]) /\ current' = NoTask
        /\ UNCHANGED <<tasks, event_blocked>>
    BY <1>7 DEF SendHandoff
  <2>2. t = current /\ t \in tasks /\ t # r
    BY <2>1, ReadyFacts
  <2>3. InState("READY")' = (InState("READY") \ {t}) \cup {r}
    BY <2>1, <2>2, MisledStays DEF InState, TypeOK
  <2>4. r \notin InState("READY") /\ r # IdleTid
    BY <2>1 DEF InState, IInv, Bookkeeping
  <2>5. QED BY <2>1, <2>2, <2>3, <2>4, ReadyFits
<1>8. ASSUME NEW t \in Tids, NEW r \in Tids, NEW m \in Msgs, SendQueue(t, r, m)
      PROVE  Kept
  <2>1. /\ Running(t) /\ state' = [state EXCEPT ![t] = "SEND_BLOCKED"] /\ current' = NoTask
        /\ UNCHANGED <<tasks, event_blocked, heap>>
    BY <1>8 DEF SendQueue
  <2>2. InState("READY")' \subseteq InState("READY") \ {t}
    BY <1>0, <2>1, MisledStays DEF InState, TypeOK
  <2>3. QED BY <2>1, <2>2, BlockFits
<1>9. ASSUME NEW t \in Tids, NEW s \in Tids, NEW m \in Msgs, Reply(t, s, m)
      PROVE  Kept
  <2>1. /\ Running(t) /\ s \in tasks \ Misled /\ state[s] = "REPLY_BLOCKED"
        /\ state' = [state EXCEPT ![s] = "READY"]
        /\ heap' = Requeue(HeapInsert(heap, s, priority[s]), t) /\ current' = NoTask
        /\ UNCHANGED <<tasks, event_blocked>>
    BY <1>9 DEF Reply
  <2>2. s # t /\ s # IdleTid /\ s \notin InState("READY") /\ priority[s] \in Prios
    BY <2>1, ReadyFacts DEF InState, IInv, Bookkeeping, TypeOK
  <2>3. InState("READY")' \subseteq InState("READY") \cup {s}
    BY <2>1, MisledStays DEF InState, TypeOK
  <2>4. tasks \subseteq Tids /\ tasks' \subseteq Tids
    BY <2>1 DEF TypeOK
  <2>5. QED BY <2>1, <2>2, <2>3, <2>4, WakeFits
<1>10. ASSUME NEW t \in Tids, RecvWait(t) PROVE Kept
  <2>1. /\ Running(t) /\ state' = [state EXCEPT ![t] = "RECEIVE_BLOCKED"] /\ current' = NoTask
        /\ UNCHANGED <<tasks, event_blocked, heap>>
    BY <1>10 DEF RecvWait
  <2>2. InState("READY")' \subseteq InState("READY") \ {t}
    BY <1>0, <2>1, MisledStays DEF InState, TypeOK
  <2>3. QED BY <2>1, <2>2, BlockFits
<1>11. ASSUME NEW t \in Tids, RecvTake(t) PROVE Kept
  <2> DEFINE s == Head(sendq[t])
  <2>1. /\ Running(t) /\ sendq[t] # <<>> /\ heap' = Requeue(heap, t) /\ current' = NoTask
        /\ state' = [state EXCEPT ![s] = "REPLY_BLOCKED"] /\ UNCHANGED <<tasks, event_blocked>>
    BY <1>11 DEF RecvTake, Return
  <2>2. InState("READY")' \subseteq InState("READY")
    BY <2>1, MisledStays DEF InState, TypeOK
  <2>3. QED BY <1>0, <2>1, <2>2, PlainFits
<1>12. ASSUME NEW t \in Tids, k_await_event_handler(t) PROVE Kept
  <2>1. Running(t) /\ current' = NoTask /\ UNCHANGED <<tasks, heap>>
    BY <1>12 DEF k_await_event_handler
  <2>2. QED BY <1>12, <2>1, AwaitLeaves, BlockFits
<1>13. CASE IntrWake
  <2>1. PICK e \in Events : e = intr /\ event_blocked[e] # <<>> /\ e \notin TaskStates
    BY <1>13, ValuesAssumption DEF IntrWake, TypeOK
  <2> DEFINE t == Head(event_blocked[e])
  <2>2. /\ event_blocked' = [event_blocked EXCEPT ![e] = Tail(@)]
        /\ state' = [state EXCEPT ![t] = "READY"]
        /\ heap' = HeapInsert(heap, t, priority[t])
        /\ UNCHANGED <<tasks, current>>
    BY <1>13, <2>1 DEF IntrWake
  <2>3. t \in tasks /\ state[t] = e
    BY <2>1, TailElements DEF TypeOK, IInv, WaitListsAgree, Awaiting
  <2>4. t # IdleTid /\ t \notin InState("READY")
    BY <2>1, <2>3 DEF TaskStates, InState, IInv, Bookkeeping
  <2> HIDE DEF t
  <2>5. Misled' = Misled
    <3>1. \A f \in Events \cap TaskStates : event_blocked'[f] = event_blocked[f]
      BY <2>1, <2>2 DEF TypeOK
    <3>2. QED BY <3>1 DEF Misled
  <2>6. InState("READY")' \subseteq InState("READY") \cup {t}
    BY <2>2, <2>3, <2>5 DEF InState, TypeOK
  <2>7. QED BY <2>2, <2>3, <2>4, <2>6, ReadyFits
<1>14. CASE IntrReturn
  <2>1. /\ heap' = IF current = IdleTid THEN heap ELSE Requeue(heap, current)
        /\ current' = NoTask /\ current # NoTask
        /\ UNCHANGED <<tasks, state, event_blocked>>
    BY <1>14 DEF IntrReturn
  <2>2. InState("READY")' = InState("READY") /\ NoTask \notin Tids
    BY <2>1, MisledStays, Basics DEF InState
  <2>3. CASE current = IdleTid
    BY <2>1, <2>2, <2>3, IdleFits
  <2>4. CASE current # IdleTid
    <3>1. /\ heap \in Heaps /\ ReadySet = ReadyOf(heap)
          /\ ReadyOf(heap) \subseteq tasks \ {IdleTid, current}
          /\ tasks \in SUBSET Tids /\ IdleTid \in tasks /\ current \in tasks
          /\ priority[current] \in Prios
      BY <2>1, ReadyFacts DEF TypeOK
    <3> DEFINE g == HeapInsert(heap, current, priority[current])
    <3>2. /\ CountsReady(g) /\ ReadyOf(heap) \subseteq ReadyOf(g)
          /\ Cardinality(tasks) <= HeapCap + 1 => current \in ReadyOf(g)
      BY <2>4, <3>1, InsertFits
    <3>3. heap' = g
      BY <2>1, <2>4 DEF Requeue
    <3> HIDE DEF g
    <3>4. /\ CountsReady(heap)' /\ ReadySet \subseteq ReadySet'
          /\ Cardinality(tasks') <= HeapCap + 1 => current \in ReadySet'
      BY <2>1, <3>1, <3>2, <3>3 DEF CountsReady, ReadyOf, ReadySet
    <3>5. Lost' = InState("READY") \ (ReadySet' \cup {NoTask, IdleTid})
      BY <2>1, <2>2 DEF Lost
    <3>6. QED BY <3>4, <3>5 DEF Kept, Lost
  <2>5. QED BY <2>3, <2>4
<1>15. CASE \/ \E t, r \in Tids : SendFault(t, r) \/ ReplyFault(t, r)
            \/ \E t \in Tids, e \in Sources : Arm(t, e)
            \/ \E e \in Sources : IntrTake(e)
            \/ UNCHANGED vars
  <2>1. UNCHANGED <<heap, tasks, state, current, event_blocked>>
    BY <1>15 DEF SendFault, ReplyFault, Arm, IntrTake, vars
  <2>2. InState("READY")' = InState("READY")
    BY <2>1, MisledStays DEF InState
  <2>3. QED BY <2>1, <2>2, IdleFits
<1>16. QED
  BY <1>1, <1>2, <1>3, <1>4, <1>5, <1>6, <1>7, <1>8, <1>9, <1>10, <1>11, <1>12,
     <1>13, <1>14, <1>15
     DEF Next, Dispatch, Syscall, Interrupt, k_create_handler, k_send_handler,
         k_recv_handler, k_reply_handler

\* Only the two faults of the message calls write through a stray pointer.
LEMMA NextFault ==
  ASSUME TypeOK, IInv, [Next]_vars, Cardinality(tasks) <= MboxCap + 1,
         InState("UNINIT") = {}, Misled = {}
  PROVE  fault' = fault
<1>1. ASSUME NEW t \in Tids, NEW r \in Tids PROVE ~SendFault(t, r) /\ ~ReplyFault(t, r)
  BY NoWildWrite
<1>2. CASE Dispatch
  BY <1>2 DEF Dispatch, DispatchIdle, DispatchTask
<1>3. ASSUME NEW t \in Tids, Syscall(t) PROVE fault' = fault
  <2>1. CASE k_send_handler(t)
    BY <1>1, <2>1 DEF k_send_handler, SendNoTask, SendHandoff, SendQueue
  <2>2. CASE k_recv_handler(t)
    BY <2>2 DEF k_recv_handler, RecvWait, RecvTake
  <2>3. CASE k_reply_handler(t)
    BY <1>1, <2>3 DEF k_reply_handler, ReplyNoTask, ReplyNotBlocked, Reply
  <2>4. CASE k_create_handler(t)
    BY <2>4 DEF k_create_handler, CreateNoMem, CreateBadPrio, CreateTask
  <2>5. CASE \/ k_exit_handler(t) \/ k_yield(t) \/ k_my_tid_handler(t)
             \/ k_my_parent_tid_handler(t) \/ k_await_event_handler(t)
    BY <2>5 DEF k_exit_handler, k_yield, k_my_tid_handler, k_my_parent_tid_handler,
       k_await_event_handler
  <2>6. QED BY <1>3, <2>1, <2>2, <2>3, <2>4, <2>5 DEF Syscall
<1>4. CASE Interrupt
  BY <1>4 DEF Interrupt, IntrWake, IntrReturn, IntrTake
<1>5. CASE \/ \E t \in Tids, e \in Sources : Arm(t, e)
           \/ UNCHANGED vars
  BY <1>5 DEF Arm, vars
<1>6. QED BY <1>2, <1>3, <1>4, <1>5 DEF Next

\* k_main's heap holds the two tasks it counts, and no other is ready.
LEMMA InitCapacity == Init => CountsReady(heap) /\ Lost = {} /\ ~fault
<1> SUFFICES ASSUME Init PROVE CountsReady(heap) /\ Lost = {} /\ ~fault
  OBVIOUS
<1>1. heap.count = 2 /\ heap.q[0] = <<1, 2>> /\ \A p \in Prios \ {0} : heap.q[p] = <<>>
  BY Basics DEF Init
<1>2. Elements(<<1, 2>>) = {1, 2}
  BY DEF Elements
<1>3. ReadyOf(heap) = {1, 2} /\ ReadySet = {1, 2}
  BY <1>1, <1>2, Basics, EmptyQueue DEF ReadyOf, ReadySet
<1>4. Cardinality({1, 2}) = 2
  <2>1. IsFiniteSet({1}) /\ Cardinality({1}) = 1
    BY FS_Singleton
  <2>2. {1, 2} = {1} \cup {2} /\ 2 \notin {1}
    OBVIOUS
  <2>3. QED BY <2>1, <2>2, FS_AddElement
<1>5. InState("READY") \subseteq 0..2
  BY DEF Init, InState
<1>6. CountsReady(heap)
  BY <1>1, <1>3, <1>4 DEF CountsReady
<1>7. Lost = {}
  BY <1>3, <1>5 DEF Lost, IdleTid
<1>8. QED BY <1>6, <1>7 DEF Init

\* What one step does, as NoTaskLost says it.
StepLosesNone ==
  /\ Cardinality(tasks') <= HeapCap + 1 => Lost' \subseteq Lost
  /\ /\ Cardinality(tasks) <= MboxCap + 1
     /\ InState("UNINIT") = {} /\ Misled = {}
     => fault' = fault

LEMMA NextLosesNone ==
  TypeOK /\ IInv /\ CountsReady(heap) /\ [Next]_vars => StepLosesNone /\ CountsReady(heap)'
BY NextKept, NextFault DEF Kept, StepLosesNone

\* Whatever the tasks call with whatever arguments, a ready task is forgotten
\* only in a step with more live tasks than the heap has room for, and the
\* kernel writes astray only with more of them than a mailbox has room for, or
\* after a ke_create or a ke_await_event with an argument it should refuse.
THEOREM NoTaskLostTheorem == Spec => NoTaskLost
<1>1. TypeOK /\ IInv /\ CountsReady(heap) /\ [Next]_vars => [StepLosesNone]_vars
  BY NextLosesNone
<1>2. Spec => [][StepLosesNone]_vars
  BY <1>1, InitCapacity, NextLosesNone, TypeCorrect, Strengthened, PTL DEF Spec
<1>3. QED BY <1>2 DEF NoTaskLost, StepLosesNone

\* While there is room for all of them no ready task is forgotten at all, and
\* the kernel never writes through a pointer nobody set.
THEOREM RoomMeansNoneLost == Spec /\ []RoomForAll => [](Lost = {} /\ ~fault)
<1>1. ASSUME TypeOK, IInv, CountsReady(heap), RoomForAll, RoomForAll', [Next]_vars,
             Lost = {} /\ ~fault
      PROVE  (Lost = {} /\ ~fault)'
  BY <1>1, NextLosesNone DEF StepLosesNone, RoomForAll
<1>2. QED
  BY <1>1, InitCapacity, NextLosesNone, TypeCorrect, Strengthened, PTL DEF Spec
=============================================================================
