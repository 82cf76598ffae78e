---------------------------- MODULE LegacyClock -----------------------------
(***************************************************************************)
(* The C clock server (user/src/clock) and the library calls that use it   *)
(* (lib/libsyscall): ke_time, ke_delay, ke_delay_until, and ke_who_is,     *)
(* which asks the name server again every few ticks and, to be able to     *)
(* wait, calls itself to find the clock server first.  Ticks are relative: *)
(* a waiting element holds how many are left, which is what the server     *)
(* compares (delay_until_tick.delay - curtick).                            *)
(***************************************************************************)
EXTENDS Integers, Sequences, FiniteSets

CONSTANTS
  CkClients,     \* client tasks
  CkCap,         \* CK_SERVER_DELAY_QUEUE_SZ (256)
  RetryLimit,    \* KE_WHO_IS_RETRY_LIMIT (50)
  RetrySep,      \* KE_WHO_IS_RETRY_SEP (5 ticks)
  MaxDelay,      \* the longest ke_delay and, less curtick, ke_delay_until
  MaxDepth       \* bound on the calls of ke_who_is inside each other

ASSUME ClockAssumption ==
  {CkCap, RetryLimit, RetrySep, MaxDelay, MaxDepth} \subseteq Nat \ {0}

VARIABLES
  names,         \* what the name server knows, of "clock" and "svc"
  waits,         \* delay_queue: elements [tid, left]
  free_list,     \* how many elements are free
  ckbox,         \* the clock server's mailbox: [tid, kind, ticks]
  ticker,        \* the notifier: "await" or "sent"
  task,          \* [stack: calls of ke_who_is, at, age: ticks since it asked]
  ck_fault       \* an assertion of the server or of ke_who_is failed

ckvars == <<names, waits, free_list, ckbox, ticker, task, ck_fault>>

\* A call of ke_who_is: the name, the attempts made, whether it found the clock.
Frame(name) == [name |-> name, i |-> 0, clock |-> FALSE]

CkInit ==
  /\ names = {} /\ waits = {} /\ free_list = CkCap /\ ckbox = <<>> /\ ticker = "await"
  /\ task = [c \in CkClients |-> [stack |-> <<Frame("svc")>>, at |-> "ask", age |-> 0]]
  /\ ck_fault = FALSE

-----------------------------------------------------------------------------
(* Library calls                                                           *)

\* MSG_SEND to the clock server: the task is at "clock" until it is answered.
AskClock(c, kind, n, stack) ==
  /\ ckbox' = Append(ckbox, [tid |-> c, kind |-> kind, ticks |-> n])
  /\ task' = [task EXCEPT ![c].at = "clock", ![c].stack = stack]

\* ke_register_as, of the clock server and of the service looked for.
ke_register_as(name) ==
  /\ name \notin names
  /\ names' = names \cup {name}
  /\ UNCHANGED <<waits, free_list, ckbox, ticker, task, ck_fault>>

\* The name is known: a call inside another hands it the clock's tid, and the
\* outer one then waits as it had set out to.
Found(c) ==
  LET s == task[c].stack
      outer == Tail(s)
  IN  /\ Head(s).name \in names
      /\ IF outer = <<>>
           THEN task' = [task EXCEPT ![c] = [stack |-> <<>>, at |-> "free", age |-> 0]] /\ UNCHANGED ckbox
           ELSE AskClock(c, "delay", RetrySep, [outer EXCEPT ![1].clock = TRUE])

\* The name is not known: find the clock, or wait for the next attempt.
NotFound(c) ==
  LET s == task[c].stack
  IN  /\ Head(s).name \notin names
      /\ IF Head(s).clock
           THEN AskClock(c, "delay", RetrySep, s)
           ELSE /\ Len(s) < MaxDepth
                /\ task' = [task EXCEPT ![c].stack = <<Frame("clock")>> \o s]
                /\ UNCHANGED ckbox

ke_who_is(c) ==
  /\ task[c].at = "ask" /\ ~ck_fault
  /\ Found(c) \/ NotFound(c)
  /\ UNCHANGED <<names, waits, free_list, ticker, ck_fault>>

ke_delay(c) ==
  /\ task[c].at = "free" /\ "clock" \in names
  /\ \E kind \in {"time", "delay", "until"}, n \in -1 .. MaxDelay : AskClock(c, kind, n, <<>>)
  /\ UNCHANGED <<names, waits, free_list, ticker, ck_fault>>

\* The clock's answer: ke_who_is makes its next attempt, or asserts that there
\* are none left; any other call returns.
Resume(t) ==
  IF t.stack = <<>> THEN [t EXCEPT !.at = "free"]
  ELSE [t EXCEPT !.stack[1].i = @ + 1,
                 !.at = IF t.stack[1].i + 1 = RetryLimit THEN "failed" ELSE "ask"]

Answered(tids, age) ==
  task' = [c \in CkClients |->
             LET t == [task[c] EXCEPT !.age = IF @ < RetryLimit * RetrySep THEN @ + age ELSE @]
             IN  IF c \in tids THEN Resume(t) ELSE t]

-----------------------------------------------------------------------------
(* The server                                                              *)

\* Mutant of Due: one tick late.
MutDue(ws) == {w \in ws : w.left < 0}

\* The elements clock_server_pop_delay takes off the heap.
Due(ws) == {w \in ws : w.left <= 0}

\* mCkNotifyReq: send the notifier off, count the tick, answer all that is due.
ServeNotify ==
  LET ticked == {[w EXCEPT !.left = @ - 1] : w \in waits}
  IN  /\ ticker' = "await"
      /\ waits' = ticked \ Due(ticked)
      /\ free_list' = free_list + Cardinality(Due(ticked))
      /\ Answered({w.tid : w \in Due(ticked)}, 1)
      /\ UNCHANGED ck_fault

\* clock_server_add_delay_until asserts that an element is free.
AddDelayUntil(m) ==
  /\ IF free_list = 0
       THEN ck_fault' = TRUE /\ UNCHANGED <<waits, free_list>>
       ELSE /\ waits' = waits \cup {[tid |-> m.tid, left |-> m.ticks]}
            /\ free_list' = free_list - 1
            /\ UNCHANGED ck_fault
  /\ UNCHANGED <<ticker, task>>

\* mCkTimeReq, and -2 for a time in the past, are answered at once.
ServeRequest(m) ==
  IF m.kind = "time" \/ m.ticks < 0
    THEN Answered({m.tid}, 0) /\ UNCHANGED <<waits, free_list, ticker, ck_fault>>
    ELSE AddDelayUntil(m)

clock_server_main ==
  /\ "clock" \in names /\ ~ck_fault /\ ckbox # <<>>
  /\ IF Head(ckbox).kind = "notify" THEN ServeNotify ELSE ServeRequest(Head(ckbox))
  /\ ckbox' = Tail(ckbox)
  /\ UNCHANGED names

\* The timer interrupt ends ke_await_event, and the notifier sends.
clock_notifier_main ==
  /\ ticker = "await" /\ ~ck_fault
  /\ ticker' = "sent"
  /\ ckbox' = Append(ckbox, [tid |-> "notifier", kind |-> "notify", ticks |-> 0])
  /\ UNCHANGED <<names, waits, free_list, task, ck_fault>>

CkNext ==
  \/ \E name \in {"clock", "svc"} : ke_register_as(name)
  \/ \E c \in CkClients : ke_who_is(c) \/ ke_delay(c)
  \/ clock_server_main
  \/ clock_notifier_main

\* The clock server is among the most urgent tasks, and the timer ticks.
CkFairness ==
  /\ WF_ckvars(ke_register_as("clock"))
  /\ WF_ckvars(clock_server_main)
  /\ WF_ckvars(clock_notifier_main)
  /\ \A c \in CkClients : WF_ckvars(ke_who_is(c))

-----------------------------------------------------------------------------
(* Properties                                                              *)

\* The assertion "Clock Server Delay Queue Full" does not fail with as many
\* elements as there are tasks: a task waits at most once, and an element is
\* free or in the heap (clock_server_add_delay_until).
ClockElementsSuffice ==
  /\ ~ck_fault
  /\ free_list + Cardinality(waits) = CkCap
  /\ \A c \in CkClients : Cardinality({w \in waits : w.tid = c}) <= 1

\* ke_who_is gives up only after all its attempts, each RetrySep ticks after
\* the one before, whatever calls of itself it made first (syscall.c).
WhoIsPatient ==
  \A c \in CkClients : task[c].at = "failed" =>
    /\ task[c].age >= RetryLimit * RetrySep
    /\ Len(task[c].stack) = 1

\* A request to wait is answered with the notification that ends it, neither
\* before nor after: one that leaves the heap had at most one tick left, and
\* one that stays has one left at least (clock_server_pop_delay).  The server
\* never runs out of elements, and who waits for a name waits in full.
DelaysExact ==
  /\ [](ClockElementsSuffice /\ WhoIsPatient)
  /\ [][\A w \in waits :
       /\ (\A v \in waits' : v.tid # w.tid) => w.left <= 1
       /\ \A v \in waits' : v.tid = w.tid /\ v # w => v.left >= 1]_ckvars

\* ke_who_is returns or gives up, and every request to the clock is answered.
ClockCallsReturn ==
  \A c \in CkClients :
    /\ task[c].at = "clock" ~> task[c].at # "clock"
    /\ task[c].at = "ask" ~> task[c].at \in {"free", "failed"}
=============================================================================
