---------------------------- MODULE ClockService ----------------------------
(***************************************************************************)
(* The clock: pie-rust/src/bin/clock_server.rs and clock_notifier.rs, the  *)
(* system timer they share, and clients that wait for ticks.               *)
(*                                                                         *)
(* The server and the notifier run at the most urgent priority, and so does*)
(* a client like user_entry; the scheduler serves them in turn.  The other *)
(* clients only run while all of these are blocked.  The notifier waits for*)
(* the timer interrupt in the kernel, and an interrupt nobody waits for is *)
(* lost.  The server arms the timer only after it has replied to the       *)
(* notifier, with a deadline that advances by QUANTUM from the last        *)
(* deadline and not from the present time; a deadline already passed never *)
(* matches the counter.                                                    *)
(*                                                                         *)
(* Time and tick counts are kept relative to the present, so that no run   *)
(* of the clock is too long for the model.                                 *)
(***************************************************************************)
EXTENDS Integers, Sequences, FiniteSets

CONSTANTS
  ClockClients,  \* tasks that use the clock, as numbers
  UrgentClients, \* those at the clock's own priority: user_entry (main.c:86)
  Quantum,       \* QUANTUM, in units of time (10 ms)
  MaxTicks,      \* bound: the longest wait a client asks for
  MaxBusy        \* assumption: the tasks at the clock's priority, urgent clients
                 \* included, are never ready for more than MaxBusy units on end

ASSUME ClockAssumption ==
  /\ ClockClients \subseteq Nat
  /\ UrgentClients \subseteq ClockClients /\ IsFiniteSet(UrgentClients)
  /\ Quantum \in Nat /\ MaxTicks \in Nat /\ MaxBusy \in Nat

\* Bound: waits longer than this are not told apart; none may be as long.
MaxElapsed == MaxTicks * Quantum + 2 * MaxBusy + 1

\* The server and the notifier in the ready queue, no client's number.
ServerTask == -1
NotifierTask == -2

\* Requests and messages.
WaitReq(c, n) == [type |-> "ClockWaitReq", from |-> c, ticks |-> n]
CurTickReq(c) == [type |-> "ClockCurTickReq", from |-> c]
Notification  == [type |-> "ClockNotifier", from |-> NotifierTask]
NoMessage     == [type |-> "none"]

VARIABLES
  ready,     \* the ready queue at priority 0; its head is running
  server,    \* what the server does next, or "blocked" in ker_recv
  notifier,  \* what the notifier does next, or "replying"/"event" when blocked
  clock_inbox,  \* messages queued for the server
  msg,       \* the message the server handles
  due,       \* the deadline t less the present time
  armed,     \* the timer's compare register holds t, and t has not passed
  waits,     \* the heap: pairs <<until - curtick, client>>
  blocked,   \* the clients waiting for a reply
  asked,     \* history: the ticks of each client's pending wait
  elapsed,   \* history: the time since it was sent
  busy       \* for how long a task at this priority has been ready

clockvars == <<ready, server, notifier, clock_inbox, msg, due, armed, waits, blocked,
               asked, elapsed, busy>>
history == <<asked, elapsed, busy>>

Running(t) == ready # <<>> /\ Head(ready) = t

\* A system call that makes the tasks q ready and leaves the caller ready.
Yielded(q) == Tail(ready) \o q \o <<Head(ready)>>

\* The caller blocks: a less urgent client calls when the queue is empty.
Rest == IF ready = <<>> THEN <<>> ELSE Tail(ready)

\* A reply makes an urgent client ready here, any other at its own priority.
Woken(c) == IF c \in UrgentClients THEN <<c>> ELSE <<>>

\* The urgent clients in some order, each at most once.
Orders ==
  UNION {{q \in [1..n -> UrgentClients] : \A i, j \in 1..n : q[i] = q[j] => i = j}
           : n \in 0..Cardinality(UrgentClients)}

\* _start of the server has created the notifier, behind whoever was ready.
ClockInit ==
  /\ ready \in {q \o <<NotifierTask, ServerTask>> : q \in Orders}
  /\ server = "start"
  /\ notifier = "send"
  /\ clock_inbox = <<>>
  /\ msg = NoMessage
  /\ due = 0
  /\ armed = FALSE
  /\ waits = {}
  /\ blocked = {}
  /\ asked = [c \in ClockClients |-> 0]
  /\ elapsed = [c \in ClockClients |-> 0]
  /\ busy = 0

-----------------------------------------------------------------------------
(* clock_notifier.rs                                                       *)

NotifierSend ==
  /\ Running(NotifierTask) /\ notifier = "send"
  /\ notifier' = "replying"
  /\ IF server = "blocked"
       THEN /\ msg' = Notification /\ server' = "handle"
            /\ ready' = Append(Tail(ready), ServerTask)
            /\ UNCHANGED clock_inbox
       ELSE /\ clock_inbox' = Append(clock_inbox, Notification)
            /\ ready' = Tail(ready)
            /\ UNCHANGED <<msg, server>>
  /\ UNCHANGED <<due, armed, waits, blocked, history>>

NotifierAwait ==
  /\ Running(NotifierTask) /\ notifier = "await"
  /\ notifier' = "event"
  /\ ready' = Tail(ready)
  /\ UNCHANGED <<server, clock_inbox, msg, due, armed, waits, blocked, history>>

-----------------------------------------------------------------------------
(* clock_server.rs                                                         *)

\* The first deadline is counted from now, and the compare register cleared.
ServerStart ==
  /\ Running(ServerTask) /\ server = "start"
  /\ due' = 0 /\ armed' = FALSE
  /\ server' = "recv"
  /\ UNCHANGED <<ready, notifier, clock_inbox, msg, waits, blocked, history>>

ServerRecv ==
  /\ Running(ServerTask) /\ server = "recv"
  /\ IF clock_inbox = <<>>
       THEN /\ server' = "blocked"
            /\ ready' = Tail(ready)
            /\ UNCHANGED <<clock_inbox, msg>>
       ELSE /\ server' = "handle"
            /\ msg' = Head(clock_inbox) /\ clock_inbox' = Tail(clock_inbox)
            /\ ready' = Yielded(<<>>)
  /\ UNCHANGED <<notifier, due, armed, waits, blocked, history>>

\* The reply lets the notifier go back to wait for the interrupt.
HandleNotifier ==
  /\ Running(ServerTask) /\ server = "handle" /\ msg = Notification
  /\ notifier' = "await"
  /\ ready' = Yielded(<<NotifierTask>>)
  /\ server' = "arm"
  /\ msg' = NoMessage
  /\ UNCHANGED <<clock_inbox, due, armed, waits, blocked, history>>

\* Mutant of ServerArm: the deadline is counted from the present time.
MutArmFromNow ==
  /\ Running(ServerTask) /\ server = "arm"
  /\ due' = Quantum
  /\ armed' = TRUE
  /\ waits' = {<<w[1] - 1, w[2]>> : w \in waits}
  /\ server' = "wake"
  /\ UNCHANGED <<ready, notifier, clock_inbox, msg, blocked, history>>

\* t += QUANTUM, intr_arm(t), curtick += 1.
ServerArm ==
  /\ Running(ServerTask) /\ server = "arm"
  /\ due' = due + Quantum
  /\ armed' = (due' > 0)
  /\ waits' = {<<w[1] - 1, w[2]>> : w \in waits}
  /\ server' = "wake"
  /\ UNCHANGED <<ready, notifier, clock_inbox, msg, blocked, history>>

\* WaitReq is ordered by until, then by tid.
First(w) ==
  \A v \in waits : w[1] < v[1] \/ (w[1] = v[1] /\ w[2] <= v[2])

\* One iteration of the loop that replies to the clients whose time is up.
ServerWake ==
  /\ Running(ServerTask) /\ server = "wake"
  /\ IF \E w \in waits : First(w) /\ w[1] <= 0
       THEN /\ \E w \in waits :
                 /\ First(w)
                 /\ waits' = waits \ {w}
                 /\ blocked' = blocked \ {w[2]}
                 /\ ready' = Yielded(Woken(w[2]))
            /\ UNCHANGED server
       ELSE /\ server' = "recv"
            /\ UNCHANGED <<waits, blocked, ready>>
  /\ UNCHANGED <<notifier, clock_inbox, msg, due, armed, history>>

\* Mutant of HandleWait: a wait ends one tick early.
MutWaitShort ==
  /\ Running(ServerTask) /\ server = "handle" /\ msg.type = "ClockWaitReq"
  /\ IF msg.ticks <= 1
       THEN /\ blocked' = blocked \ {msg.from}
            /\ ready' = Yielded(Woken(msg.from))
            /\ UNCHANGED waits
       ELSE /\ waits' = waits \cup {<<msg.ticks - 1, msg.from>>}
            /\ UNCHANGED <<blocked, ready>>
  /\ server' = "recv"
  /\ msg' = NoMessage
  /\ UNCHANGED <<notifier, clock_inbox, due, armed, history>>

HandleWait ==
  /\ Running(ServerTask) /\ server = "handle" /\ msg.type = "ClockWaitReq"
  /\ IF msg.ticks = 0
       THEN /\ blocked' = blocked \ {msg.from}
            /\ ready' = Yielded(Woken(msg.from))
            /\ UNCHANGED waits
       ELSE /\ waits' = waits \cup {<<msg.ticks, msg.from>>}
            /\ UNCHANGED <<blocked, ready>>
  /\ server' = "recv"
  /\ msg' = NoMessage
  /\ UNCHANGED <<notifier, clock_inbox, due, armed, history>>

HandleCurTick ==
  /\ Running(ServerTask) /\ server = "handle" /\ msg.type = "ClockCurTickReq"
  /\ blocked' = blocked \ {msg.from}
  /\ ready' = Yielded(Woken(msg.from))
  /\ server' = "recv"
  /\ msg' = NoMessage
  /\ UNCHANGED <<notifier, clock_inbox, due, armed, waits, history>>

-----------------------------------------------------------------------------
(* ClockAPI: a client sends a request, an urgent one in its turn and any    *)
(* other while nothing more urgent is ready.  The server has it at once if *)
(* it waits for one; otherwise it is queued, before or behind the          *)
(* notifier's message.                                                     *)

ClockSend(c, m, n) ==
  /\ IF c \in UrgentClients THEN Running(c) ELSE ready = <<>>
  /\ c \notin blocked
  /\ blocked' = blocked \cup {c}
  /\ asked' = [asked EXCEPT ![c] = n]
  /\ elapsed' = [elapsed EXCEPT ![c] = 0]
  /\ busy' = IF ready = <<>> THEN 0 ELSE busy
  /\ IF server = "blocked"
       THEN /\ msg' = m /\ server' = "handle"
            /\ ready' = Append(Rest, ServerTask)
            /\ UNCHANGED clock_inbox
       ELSE /\ clock_inbox' = Append(clock_inbox, m)
            /\ ready' = Rest
            /\ UNCHANGED <<msg, server>>
  /\ UNCHANGED <<notifier, due, armed, waits>>

wait_ticks(c)   == \E n \in 0..MaxTicks : ClockSend(c, WaitReq(c, n), n)
get_cur_tick(c) == ClockSend(c, CurTickReq(c), 0)

\* Urgent clients that wait for something other than the clock, or have exited.
Away == {d \in UrgentClients \ blocked : \A i \in 1..Len(ready) : ready[i] # d}

\* An urgent client calls the kernel or another server than the clock's: it may
\* wake one that is away, and be away itself afterwards.
OtherCall(c) ==
  /\ Running(c)
  /\ \E woken \in {<<>>} \cup {<<d>> : d \in Away} :
       ready' \in {Yielded(woken), Tail(ready) \o woken}
  /\ UNCHANGED <<server, notifier, clock_inbox, msg, due, armed, waits, blocked, history>>

\* A less urgent task wakes an urgent client that is away.
OtherWake(d) ==
  /\ ready = <<>> /\ d \in Away
  /\ ready' = <<d>> /\ busy' = 0
  /\ UNCHANGED <<server, notifier, clock_inbox, msg, due, armed, waits, blocked, asked, elapsed>>

-----------------------------------------------------------------------------
(* Time.                                                                   *)

\* Whether the counter reaches the compare register at the next unit.
Fires == armed /\ due = 1

\* A unit of time passes.  The timer interrupt wakes the notifier if it is
\* waiting; whatever it interrupts goes to the end of the queue, behind the
\* notifier.  Another interrupt may do the same to the running task.
Tick ==
  /\ armed \/ ready # <<>>
  /\ ready # <<>> => busy < MaxBusy
  /\ due' = due - 1
  /\ armed' = (armed /\ ~Fires)
  /\ notifier' = IF Fires /\ notifier = "event" THEN "send" ELSE notifier
  /\ LET woken == IF Fires /\ notifier = "event" THEN <<NotifierTask>> ELSE <<>>
     IN  IF ready = <<>> THEN ready' = woken
         ELSE \/ ready' = Yielded(woken)
              \/ ~Fires /\ UNCHANGED ready
  /\ busy' = IF ready = <<>> THEN 0 ELSE busy + 1
  /\ elapsed' = [c \in ClockClients |->
       IF c \in blocked /\ elapsed[c] < MaxElapsed THEN elapsed[c] + 1 ELSE elapsed[c]]
  /\ UNCHANGED <<server, clock_inbox, msg, waits, blocked, asked>>

ClockServer == ServerStart \/ ServerRecv \/ HandleNotifier \/ ServerArm
                 \/ ServerWake \/ HandleWait \/ HandleCurTick
Notifier    == NotifierSend \/ NotifierAwait

ClockNext ==
  \/ ClockServer \/ Notifier \/ Tick
  \/ \E c \in ClockClients : wait_ticks(c) \/ get_cur_tick(c)
  \/ \E c \in UrgentClients : OtherCall(c) \/ OtherWake(c)

\* The scheduler runs the most urgent ready task, and time passes.
ClockFairness == WF_clockvars(ClockServer) /\ WF_clockvars(Notifier) /\ WF_clockvars(Tick)
ClockSpec == ClockInit /\ [][ClockNext]_clockvars /\ ClockFairness

-----------------------------------------------------------------------------
\* Types: the server is never more than MaxBusy behind a deadline, each tick
\* wakes every wait that is due, the notifier and each client send one message
\* at a time, and nobody is twice in the ready queue.
ClockTypeOK ==
  /\ \A i \in 1..Len(ready) : ready[i] \in {ServerTask, NotifierTask} \cup UrgentClients
  /\ \A i, j \in 1..Len(ready) : ready[i] = ready[j] => i = j
  /\ server \in {"start", "recv", "blocked", "handle", "arm", "wake"}
  /\ notifier \in {"send", "replying", "await", "event"}
  /\ \A i \in 1..Len(clock_inbox) : clock_inbox[i].from \in {NotifierTask} \cup UrgentClients
  /\ \A i, j \in 1..Len(clock_inbox) : clock_inbox[i].from = clock_inbox[j].from => i = j
  /\ due \in -MaxBusy..Quantum
  /\ armed \in BOOLEAN
  /\ waits \subseteq (0..MaxTicks) \X ClockClients
  /\ blocked \subseteq ClockClients
  /\ busy \in 0..MaxBusy

\* The clock cannot stop: when nobody at its priority has anything to do, the
\* timer is armed with a deadline ahead, the server waits for a message and the
\* notifier for the timer's interrupt.
ClockAlive == ready = <<>> => armed /\ notifier = "event" /\ server = "blocked"

\* An urgent client's request may be counted from a tick that has passed and is
\* not handled yet, or be sent before the server's first look at the time.
Slack(c) == IF c \in UrgentClients THEN MaxBusy ELSE 0

\* A wait of n ticks lasts at least n - 1 quanta ...
NotEarly ==
  [][\A c \in blocked \ blocked' :
       elapsed[c] >= (asked[c] - 1) * Quantum - Slack(c)]_clockvars

\* ... and at most n quanta and the time the server may be late with the
\* last tick: its lateness with earlier ticks does not add up.
NotLate ==
  \A c \in blocked : elapsed[c] <= asked[c] * Quantum + MaxBusy + Slack(c)

\* The clock never stops and no wait ends late.
ClockOnTime == ClockTypeOK /\ ClockAlive /\ NotLate

\* Every ker_send of a client to the server is answered, whatever the ticks and
\* the requests of the others: no wait stays in the heap.  Urgent clients that
\* never let the queue empty again would starve all but each other.
EveryRequestAnswered ==
  []<>(ready = <<>>) => \A c \in ClockClients : c \in blocked ~> c \notin blocked
=============================================================================
