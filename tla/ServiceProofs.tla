--------------------------- MODULE ServiceProofs ----------------------------
(***************************************************************************)
(* Proofs about the servers.  The clock: for any clients, at its own       *)
(* priority or below it, any waits and any QUANTUM, no wait ends late or   *)
(* early as long as server and notifier are never kept from blocking for a *)
(* whole QUANTUM.  A serial port: for any clients, buffers and FIFOs, an   *)
(* interrupt that is lost while the broker is busy is never one that the   *)
(* server still waits for, although the kernel may mask the device between *)
(* the server's read of the mask and its write; and blocking writes are    *)
(* answered in order.                                                      *)
(***************************************************************************)
EXTENDS ClockService, UartServer, SequenceTheorems, FiniteSetTheorems, WellFoundedInduction,
        TLAPS

-----------------------------------------------------------------------------
(* The inductive invariant.                                                *)

Tasks == {ServerTask, NotifierTask} \cup UrgentClients

Requests ==
  {WaitReq(c, n) : c \in ClockClients, n \in 0..MaxTicks} \cup
  {CurTickReq(c) : c \in ClockClients}

\* What can be queued for the server: no less urgent client runs, and sends,
\* before the server waits for a message.
Queued == {Notification} \cup {m \in Requests : m.from \in UrgentClients}

Members(q) == {q[i] : i \in 1..Len(q)}

\* A queue of members of T that has exactly the members of S, once each.
Holds(T, q, S) ==
  /\ q \in Seq(T) /\ Members(q) = S
  /\ \A i, j \in 1..Len(q) : q[i] = q[j] => i = j

\* The message the server handles is a client's.
FromClient == msg \in Requests

\* The clients' requests that are not handled yet.
Pending == (Members(clock_inbox) \cup {msg}) \cap Requests

\* Who is in the ready queue follows from what each task does; an urgent
\* client in it waits for no answer.
ReadyAgrees ==
  /\ Holds(Tasks, ready, Members(ready))
  /\ ServerTask \in Members(ready) <=> server # "blocked"
  /\ NotifierTask \in Members(ready) <=> notifier \in {"send", "await"}
  /\ Members(ready) \cap blocked = {}

\* The notifier's message is in the inbox or in the server's hands while the
\* notifier waits for the reply, and nowhere otherwise.
Handshake ==
  /\ server \in {"start", "recv", "blocked", "handle", "arm", "wake"}
  /\ notifier \in {"send", "replying", "await", "event"}
  /\ Holds(Queued, clock_inbox, Members(clock_inbox))
  /\ msg \in {NoMessage, Notification} \cup Requests
  /\ msg \notin Members(clock_inbox)
  /\ server = "handle" <=> msg # NoMessage
  /\ server = "blocked" => clock_inbox = <<>>
  /\ notifier = "replying" <=> Notification \in Members(clock_inbox) \cup {msg}
  /\ server \in {"arm", "wake"} => notifier \in {"await", "event"}
  /\ server = "start" => notifier \in {"send", "replying"}

\* A deadline has passed and the next is not armed yet.
Late == notifier \in {"send", "replying"} \/ server = "arm"

\* Since the last deadline passed a task at the clock's priority has been
\* ready; the timer is armed otherwise, and a deadline that follows a late
\* tick is as far ahead as the tick was late.
DeadlineKept ==
  /\ due \in Int /\ armed \in BOOLEAN /\ busy \in 0..MaxBusy
  /\ Late => ~armed /\ due <= 0 /\ due + busy >= 0
  /\ ~Late => armed /\ due >= 1 /\ due <= Quantum
  /\ server # "arm" /\ (notifier = "await" \/ server = "wake")
       => due + busy >= Quantum

\* A client is blocked for one request, which the server has yet to handle or
\* has in its heap of waits; an entry is due only while the server wakes those
\* due.
OneRequestEach ==
  /\ waits \subseteq (0..MaxTicks) \X ClockClients
  /\ server = "start" => waits = {}
  /\ \A w \in waits : server = "wake" \/ w[1] >= 1
  /\ \A v, w \in waits : v[2] = w[2] => v = w
  /\ \A m, l \in Pending : m.from = l.from => m = l
  /\ \A m \in Pending, w \in waits : w[2] # m.from
  /\ blocked = {w[2] : w \in waits} \cup {m.from : m \in Pending}

\* How long a client has waited, what it waits for and the time to the next
\* deadline add up to what it asked for, up to a quantum and what an urgent
\* client's request was late or early for the tick it was counted from.
WaitsAddUp ==
  /\ asked \in [ClockClients -> 0..MaxTicks]
  /\ elapsed \in [ClockClients -> Nat]
  /\ \A w \in waits :
       /\ asked[w[2]] * Quantum <= elapsed[w[2]] + due + w[1] * Quantum + Slack(w[2])
       /\ elapsed[w[2]] + due + w[1] * Quantum
            <= asked[w[2]] * Quantum + Quantum + Slack(w[2])
  /\ \A m \in Pending :
       /\ asked[m.from] = IF m.type = "ClockWaitReq" THEN m.ticks ELSE 0
       /\ elapsed[m.from] <= busy
       /\ m.from \notin UrgentClients => /\ 1 <= elapsed[m.from] + due
                                         /\ elapsed[m.from] + due <= Quantum

ClockInv == ReadyAgrees /\ Handshake /\ DeadlineKept /\ OneRequestEach /\ WaitsAddUp

\* The scheduling the clock relies on: everybody at its priority blocks again
\* before a whole QUANTUM has passed.
SoonBlocked == MaxBusy < Quantum

-----------------------------------------------------------------------------
(* The ready queue and the messages.                                       *)

\* Taking the head of a queue, and putting a member of T behind its last.
LEMMA QueueOps ==
  ASSUME NEW T, NEW S, NEW q, Holds(T, q, S)
  PROVE  /\ S \subseteq T /\ (q = <<>> <=> S = {})
         /\ q # <<>> => /\ Head(q) \in S
                        /\ Holds(T, Tail(q), S \ {Head(q)})
         /\ \A x \in T \ S : Holds(T, Append(q, x), S \cup {x})
<1>0. /\ q \in Seq(T) /\ Members(q) = S /\ Len(q) \in Nat
      /\ \A i, j \in 1..Len(q) : q[i] = q[j] => i = j
  BY DEF Holds
<1>1. S \subseteq T /\ (q = <<>> <=> S = {})
  <2>1. \A i \in 1..Len(q) : q[i] \in T
    BY <1>0
  <2>2. q # <<>> => Len(q) >= 1
    BY <1>0
  <2>3. q = <<>> => Len(q) = 0
    OBVIOUS
  <2>4. q # <<>> => q[1] \in S
    BY <1>0, <2>2 DEF Members
  <2>5. QED BY <1>0, <2>1, <2>3, <2>4 DEF Members
<1>2. ASSUME q # <<>>
      PROVE  Head(q) \in S /\ Holds(T, Tail(q), S \ {Head(q)})
  <2> DEFINE r == Tail(q)
  <2>1. /\ Len(q) >= 1 /\ Head(q) = q[1] /\ r \in Seq(T) /\ Len(r) = Len(q) - 1
        /\ \A i \in 1..Len(r) : r[i] = q[i + 1]
    BY <1>0, <1>2, HeadTailProperties
  <2> HIDE DEF r
  <2>2. \A i \in 1..Len(r) : i + 1 \in 1..Len(q)
    BY <1>0, <2>1
  <2>3. \A i \in 2..Len(q) : i - 1 \in 1..Len(r) /\ q[i] = r[i - 1]
    <3>1. \A i \in 2..Len(q) : i - 1 \in 1..Len(r) /\ (i - 1) + 1 = i
      BY <1>0, <2>1
    <3>2. QED BY <2>1, <3>1
  <2>4. Members(r) = S \ {Head(q)}
    <3>1. \A i \in 1..Len(q) : i = 1 \/ i \in 2..Len(q)
      BY <1>0
    <3>2. \A i \in 2..Len(q) : q[i] # q[1]
      <4>1. \A i \in 2..Len(q) : i \in 1..Len(q) /\ 1 \in 1..Len(q) /\ i # 1
        BY <1>0
      <4>2. QED BY <1>0, <4>1
    <3>3. \A x \in S : x # q[1] => x \in Members(r)
      BY <1>0, <2>3, <3>1 DEF Members
    <3>4. \A i \in 1..Len(r) : r[i] \in S /\ r[i] # q[1]
      <4>1. \A i \in 1..Len(r) : i + 1 \in 2..Len(q)
        BY <1>0, <2>1
      <4>2. QED BY <1>0, <2>1, <2>2, <3>2, <4>1 DEF Members
    <3>5. QED BY <2>1, <3>3, <3>4 DEF Members
  <2>5. \A i, j \in 1..Len(r) : r[i] = r[j] => i = j
    <3>1. \A i, j \in 1..Len(r) : r[i] = r[j] => i + 1 = j + 1
      BY <1>0, <2>1, <2>2
    <3>2. \A i \in 1..Len(r) : i \in Int
      OBVIOUS
    <3>3. \A i, j \in Int : i + 1 = j + 1 => i = j
      OBVIOUS
    <3>4. QED BY <3>1, <3>2, <3>3
  <2>6. Head(q) \in S
    <3>1. 1 \in 1..Len(q)
      BY <1>0, <2>1
    <3>2. QED BY <1>0, <2>1, <3>1 DEF Members
  <2>7. QED BY <2>1, <2>4, <2>5, <2>6 DEF Holds, r
<1>3. ASSUME NEW x \in T \ S
      PROVE  Holds(T, Append(q, x), S \cup {x})
  <2> DEFINE r == Append(q, x)  n == Len(q) + 1
  <2>1. /\ r \in Seq(T) /\ Len(r) = n
        /\ \A i \in 1..Len(q) : r[i] = q[i]
        /\ r[n] = x
    BY <1>0, AppendProperties
  <2>2. /\ n \in 1..n
        /\ \A i \in 1..n : i = n \/ i \in 1..Len(q)
        /\ \A i \in 1..Len(q) : i \in 1..n
    BY <1>0
  <2> HIDE DEF r, n
  <2>3. \A i \in 1..Len(q) : q[i] \in S /\ r[i] # x
    BY <1>0, <1>3, <2>1 DEF Members
  <2>4. Members(r) = S \cup {x}
    <3>1. \A y \in Members(r) : y \in S \cup {x}
      BY <2>1, <2>2, <2>3 DEF Members
    <3>2. \A y \in S : y \in Members(r)
      BY <1>0, <2>1, <2>2 DEF Members
    <3>3. x \in Members(r)
      BY <2>1, <2>2 DEF Members
    <3>4. QED BY <3>1, <3>2, <3>3
  <2>5. \A i, j \in 1..n : r[i] = r[j] => i = j
    BY <1>0, <2>1, <2>2, <2>3
  <2>6. QED BY <2>1, <2>4, <2>5 DEF Holds, r
<1>4. QED BY <1>1, <1>2, <1>3

\* What the queue holds after the running task's call: the caller blocked or
\* not, and at most one task woken.
LEMMA ReadyOps ==
  ASSUME NEW S, Holds(Tasks, ready, S), NEW h, Running(h)
  PROVE  /\ h \in S /\ h \in Tasks
         /\ Holds(Tasks, Tail(ready), S \ {h})
         /\ Holds(Tasks, Yielded(<<>>), S)
         /\ \A x \in Tasks \ S :
              /\ Holds(Tasks, Append(Tail(ready), x), (S \ {h}) \cup {x})
              /\ Holds(Tasks, Tail(ready) \o <<x>>, (S \ {h}) \cup {x})
              /\ Holds(Tasks, Yielded(<<x>>), S \cup {x})
<1>1. ready # <<>> /\ h = Head(ready) /\ ready \in Seq(Tasks)
  BY DEF Running, Holds
<1> DEFINE r == Tail(ready)  P == S \ {h}
<1>2. h \in S /\ S \subseteq Tasks /\ h \in Tasks /\ Holds(Tasks, r, P) /\ r \in Seq(Tasks)
  <2>1. h \in S /\ S \subseteq Tasks /\ Holds(Tasks, r, P)
    BY <1>1, QueueOps
  <2>2. QED BY <2>1 DEF Holds
<1>3. Yielded(<<>>) = Append(r, h)
  <2>1. r \o <<>> = r /\ r \o <<h>> = Append(r, h)
    BY <1>2
  <2>2. QED BY <1>1, <2>1 DEF Yielded
<1>4. ASSUME NEW x \in Tasks
      PROVE  /\ Yielded(<<x>>) = Append(Append(r, x), h)
             /\ Append(r, x) \in Seq(Tasks) /\ r \o <<x>> = Append(r, x)
  <2>1. Append(r, x) \in Seq(Tasks) /\ r \o <<x>> = Append(r, x)
    BY <1>2
  <2>2. Append(r, x) \o <<h>> = Append(Append(r, x), h)
    BY <1>2, <2>1
  <2>3. QED BY <1>1, <2>1, <2>2 DEF Yielded
<1> HIDE DEF r, P
<1>5. h \notin P /\ P \cup {h} = S
  BY <1>2 DEF P
<1>6. Holds(Tasks, Append(r, h), S)
  <2>1. Holds(Tasks, Append(r, h), P \cup {h})
    BY <1>2, <1>5, QueueOps
  <2>2. QED BY <1>5, <2>1
<1>7. ASSUME NEW x \in Tasks \ S
      PROVE  /\ Holds(Tasks, Append(r, x), P \cup {x})
             /\ Holds(Tasks, Append(Append(r, x), h), S \cup {x})
  <2>1. x \notin P /\ h \notin P \cup {x} /\ (P \cup {x}) \cup {h} = S \cup {x}
    BY <1>2, <1>5
  <2>2. Holds(Tasks, Append(r, x), P \cup {x})
    BY <1>2, <2>1, QueueOps
  <2> DEFINE U == P \cup {x}  v == Append(r, x)
  <2>3. Holds(Tasks, v, U) /\ h \in Tasks \ U
    BY <1>2, <2>1, <2>2
  <2> HIDE DEF U, v
  <2>4. Holds(Tasks, Append(v, h), U \cup {h})
    BY <2>3, QueueOps
  <2>5. QED BY <2>1, <2>2, <2>4 DEF U, v
<1>8. QED BY <1>2, <1>3, <1>4, <1>6, <1>7 DEF r, P

\* Queues of at most one task.
LEMMA SmallQueues ==
  ASSUME NEW T
  PROVE  /\ Holds(T, <<>>, {})
         /\ \A x \in T : Holds(T, <<x>>, {x}) /\ Append(<<>>, x) = <<x>>
<1>1. Holds(T, <<>>, {})
  BY DEF Holds, Members
<1>2. ASSUME NEW x \in T
      PROVE  Holds(T, <<x>>, {x}) /\ Append(<<>>, x) = <<x>>
  <2>1. Append(<<>>, x) = <<x>>
    OBVIOUS
  <2>2. Holds(T, Append(<<>>, x), {} \cup {x})
    BY <1>1, QueueOps
  <2>3. {} \cup {x} = {x}
    OBVIOUS
  <2>4. QED BY <2>1, <2>2, <2>3
<1>3. QED BY <1>1, <1>2

\* No two kinds of task or message are confused.
LEMMA TaskKinds ==
  /\ ServerTask # NotifierTask
  /\ \A c \in ClockClients : c \in Nat /\ c # ServerTask /\ c # NotifierTask
  /\ UrgentClients \subseteq ClockClients
  /\ {ServerTask, NotifierTask} \subseteq Tasks /\ UrgentClients \subseteq Tasks
BY ClockAssumption DEF ServerTask, NotifierTask, Tasks

\* The members of a queue grown by one.
LEMMA AppendMembers ==
  ASSUME NEW T, NEW q \in Seq(T), NEW x
  PROVE  Members(Append(q, x)) = Members(q) \cup {x}
<1> DEFINE r == Append(q, x)  n == Len(q) + 1
<1>1. Len(q) \in Nat /\ Len(r) = n /\ r[n] = x /\ \A i \in 1..Len(q) : r[i] = q[i]
  OBVIOUS
<1>2. n \in 1..n /\ \A i \in 1..n : i = n \/ i \in 1..Len(q)
  BY <1>1
<1>3. \A i \in 1..Len(q) : i \in 1..n
  BY <1>1
<1> HIDE DEF r, n
<1>4. Members(r) = Members(q) \cup {x}
  BY <1>1, <1>2, <1>3 DEF Members
<1>5. QED BY <1>4 DEF r

\* A message of the notifier is none of a client, and says by its type what it is.
LEMMA MessageKinds ==
  /\ Notification \notin Requests /\ NoMessage \notin Requests /\ Notification # NoMessage
  /\ NoMessage \notin Queued /\ Notification \in Queued
  /\ \A m \in Requests :
       /\ m.type \in {"ClockWaitReq", "ClockCurTickReq"}
       /\ m.from \in ClockClients
       /\ m.type = "ClockWaitReq" => m.ticks \in 0..MaxTicks
  /\ \A m \in Queued : m = Notification \/ (m \in Requests /\ m.from \in UrgentClients)
  /\ Notification.type = "ClockNotifier" /\ NoMessage.type = "none"
<1>1. Notification.type = "ClockNotifier" /\ NoMessage.type = "none"
  BY DEF Notification, NoMessage
<1>2. ASSUME NEW c \in ClockClients, NEW n \in 0..MaxTicks
      PROVE  /\ WaitReq(c, n).type = "ClockWaitReq"
             /\ WaitReq(c, n).from = c /\ WaitReq(c, n).ticks = n
  BY DEF WaitReq
<1>3. ASSUME NEW c \in ClockClients
      PROVE  CurTickReq(c).type = "ClockCurTickReq" /\ CurTickReq(c).from = c
  BY DEF CurTickReq
<1>4. ASSUME NEW m \in Requests
      PROVE  /\ m.type \in {"ClockWaitReq", "ClockCurTickReq"}
             /\ m.from \in ClockClients
             /\ m.type = "ClockWaitReq" => m.ticks \in 0..MaxTicks
  BY <1>2, <1>3 DEF Requests
<1>5. \A m \in Queued : m = Notification \/ (m \in Requests /\ m.from \in UrgentClients)
  BY DEF Queued
<1>6. QED BY <1>1, <1>4, <1>5 DEF Queued

\* What one client sends in a step.
LEMMA SendStep ==
  ASSUME NEW c \in ClockClients, wait_ticks(c) \/ get_cur_tick(c)
  PROVE  \E n \in 0..MaxTicks, m \in Requests :
           /\ ClockSend(c, m, n) /\ m.from = c
           /\ n = IF m.type = "ClockWaitReq" THEN m.ticks ELSE 0
<1>1. CASE wait_ticks(c)
  <2>1. PICK n \in 0..MaxTicks : ClockSend(c, WaitReq(c, n), n)
    BY <1>1 DEF wait_ticks
  <2>2. /\ WaitReq(c, n) \in Requests /\ WaitReq(c, n).from = c
        /\ WaitReq(c, n).type = "ClockWaitReq" /\ WaitReq(c, n).ticks = n
    <3>1. WaitReq(c, n) \in Requests
      BY DEF Requests
    <3>2. QED BY <3>1 DEF WaitReq
  <2>3. QED BY <2>1, <2>2
<1>2. CASE get_cur_tick(c)
  <2>1. ClockSend(c, CurTickReq(c), 0) /\ 0 \in 0..MaxTicks
    BY <1>2, ClockAssumption DEF get_cur_tick
  <2>2. /\ CurTickReq(c) \in Requests /\ CurTickReq(c).from = c
        /\ CurTickReq(c).type # "ClockWaitReq"
    <3>1. CurTickReq(c) \in Requests
      BY DEF Requests
    <3>2. QED BY <3>1 DEF CurTickReq
  <2>3. QED BY <2>1, <2>2
<1>3. QED BY <1>1, <1>2

\* The requests not handled yet are those in the inbox and the one in the
\* server's hands; those of less urgent clients are never queued.
LEMMA PendingIs ==
  ASSUME Handshake
  PROVE  /\ Pending \subseteq Requests
         /\ \A m \in Pending : m = msg \/ m.from \in UrgentClients
         /\ \A m \in Pending : m.from \in ClockClients
         /\ FromClient <=> msg \in Pending
         /\ server = "blocked" => Pending = {}
<1>1. \A m \in Members(clock_inbox) : m \in Queued
  <2>1. Members(clock_inbox) \subseteq Queued
    BY QueueOps DEF Handshake
  <2>2. QED BY <2>1
<1>2. server = "blocked" => Members(clock_inbox) = {}
  BY SmallQueues DEF Handshake, Holds
<1>3. server = "blocked" => msg \notin Requests
  BY MessageKinds DEF Handshake
<1>4. QED BY <1>1, <1>2, <1>3, MessageKinds DEF Pending, FromClient

\* Only clients are blocked on the clock.
LEMMA OnlyClients ==
  ASSUME Handshake, OneRequestEach
  PROVE  blocked \subseteq ClockClients /\ ServerTask \notin blocked /\ NotifierTask \notin blocked
<1>1. \A w \in waits : w[2] \in ClockClients
  BY DEF OneRequestEach
<1>2. \A c \in blocked : c \in ClockClients
  BY <1>1, PendingIs DEF OneRequestEach
<1>3. QED BY <1>2, TaskKinds

\* With nobody ready the server and the notifier wait, and nothing is pending.
LEMMA NobodyReady ==
  ASSUME ReadyAgrees, Handshake
  PROVE  /\ ready = <<>> <=> Members(ready) = {}
         /\ ready = <<>> => /\ server = "blocked" /\ notifier = "event" /\ ~Late
                            /\ msg = NoMessage /\ clock_inbox = <<>> /\ Pending = {}
         /\ Pending # {} => ready # <<>>
<1>1. ready = <<>> <=> Members(ready) = {}
  BY QueueOps DEF ReadyAgrees
<1>2. ASSUME ready = <<>>
      PROVE  /\ server = "blocked" /\ notifier = "event" /\ ~Late
             /\ msg = NoMessage /\ clock_inbox = <<>> /\ Pending = {}
  <2>1. server = "blocked" /\ notifier \notin {"send", "await"}
    BY <1>1, <1>2 DEF ReadyAgrees
  <2>2. msg = NoMessage /\ clock_inbox = <<>> /\ Members(clock_inbox) = {}
    BY <2>1, SmallQueues DEF Handshake, Holds
  <2>3. notifier # "replying"
    BY <2>2, MessageKinds DEF Handshake
  <2>4. notifier = "event"
    BY <2>1, <2>3 DEF Handshake
  <2>5. QED BY <2>1, <2>2, <2>4, PendingIs DEF Late
<1>3. QED BY <1>1, <1>2

\* Every nonempty set of natural numbers has a least one.
LEMMA LeastNumber ==
  ASSUME NEW T \in SUBSET Nat, T # {}
  PROVE  \E x \in T : \A y \in T : x <= y
<1> DEFINE R == {ss \in Nat \X Nat : ss[1] < ss[2]}
<1>1. IsWellFoundedOn(R, Nat)
  BY NatLessThanWellFounded DEF OpToRel
<1>2. PICK x \in T : \A y \in T : ~(<<y, x>> \in R)
  <2> HIDE DEF R
  <2> QED BY <1>1, WFMin
<1>3. ASSUME NEW y \in T
      PROVE  x <= y
  <2>1. ~(<<y, x>> \in R)
    BY <1>2
  <2>2. x \in Nat /\ y \in Nat /\ <<y, x>> \in Nat \X Nat
    OBVIOUS
  <2>3. ~(y < x)
    BY <2>1, <2>2
  <2>4. QED BY <2>2, <2>3
<1>4. QED BY <1>3

\* The heap has a first wait that is due whenever any wait in it is due: the
\* loop that wakes clients does not end before the last of them.
LEMMA FirstIsDue ==
  ASSUME waits \subseteq (0..MaxTicks) \X ClockClients
  PROVE  /\ \A w, v \in waits : First(w) /\ First(v) /\ v[1] <= 0 => w[1] = 0
         /\ (\E w \in waits : w[1] <= 0) => \E w \in waits : First(w) /\ w[1] <= 0
<1>0. \A w \in waits : w[1] \in Nat /\ w[2] \in Nat /\ w = <<w[1], w[2]>>
  <2>1. \A w \in waits : w[1] \in 0..MaxTicks /\ w[2] \in ClockClients /\ w = <<w[1], w[2]>>
    OBVIOUS
  <2>2. \A k \in 0..MaxTicks : k \in Nat
    BY ClockAssumption
  <2>3. \A c \in ClockClients : c \in Nat
    BY ClockAssumption
  <2>4. QED BY <2>1, <2>2, <2>3
<1>1. \A w, v \in waits : First(w) /\ First(v) /\ v[1] <= 0 => w[1] = 0
  BY <1>0 DEF First
<1>2. ASSUME NEW u \in waits, u[1] <= 0
      PROVE  \E w \in waits : First(w) /\ w[1] <= 0
  <2> DEFINE T == {w[2] : w \in {x \in waits : x[1] = 0}}
  <2>1. T \in SUBSET Nat /\ u[2] \in T
    BY <1>0, <1>2
  <2>2. PICK t \in T : \A y \in T : t <= y
    <3> HIDE DEF T
    <3> QED BY <2>1, LeastNumber
  <2>3. PICK w \in waits : w[1] = 0 /\ w[2] = t
    BY <2>2
  <2>4. ASSUME NEW v \in waits
        PROVE  w[1] < v[1] \/ (w[1] = v[1] /\ w[2] <= v[2])
    <3>1. CASE v[1] = 0
      <4>1. v[2] \in T
        BY <3>1
      <4>2. QED BY <2>2, <2>3, <3>1, <4>1
    <3>2. CASE v[1] # 0
      BY <1>0, <2>3, <3>2
    <3>3. QED BY <3>1, <3>2
  <2>5. QED BY <2>3, <2>4 DEF First
<1>3. QED BY <1>1, <1>2

-----------------------------------------------------------------------------
(* Numbers.                                                                *)

\* One tick less is one QUANTUM less.
LEMMA OneTickLess ==
  ASSUME NEW n \in Int
  PROVE  n * Quantum \in Int /\ (n - 1) * Quantum = n * Quantum - Quantum
BY ClockAssumption

\* The longest wait a client asks for bounds each in time as well.
LEMMA LongestWait ==
  ASSUME NEW n \in 0..MaxTicks
  PROVE  /\ n * Quantum \in Nat /\ n * Quantum <= MaxTicks * Quantum
         /\ n >= 1 => n * Quantum >= Quantum
BY ClockAssumption

\* Deadline and lateness in the terms the steps use: the deadline passed at most
\* MaxBusy ago, and is never further than QUANTUM ahead.
LEMMA DeadlineRange ==
  ASSUME ClockInv, SoonBlocked
  PROVE  /\ due \in -MaxBusy..Quantum
         /\ due + busy >= 0
         /\ ready = <<>> => /\ armed /\ due >= 1 /\ ~Late
                            /\ notifier = "event" /\ server = "blocked"
<1>1. MaxBusy \in Nat /\ Quantum \in Nat /\ MaxBusy < Quantum
  BY ClockAssumption DEF SoonBlocked
<1>2. due \in Int /\ busy \in 0..MaxBusy
  BY DEF ClockInv, DeadlineKept
<1>3. due \in -MaxBusy..Quantum /\ due + busy >= 0
  <2>1. CASE Late
    <3>1. due <= 0 /\ due + busy >= 0
      BY <2>1 DEF ClockInv, DeadlineKept
    <3>2. QED BY <1>1, <1>2, <3>1
  <2>2. CASE ~Late
    <3>1. due >= 1 /\ due <= Quantum
      BY <2>2 DEF ClockInv, DeadlineKept
    <3>2. QED BY <1>1, <1>2, <3>1
  <2>3. QED BY <2>1, <2>2
<1>4. ASSUME ready = <<>>
      PROVE  armed /\ due >= 1 /\ ~Late /\ notifier = "event" /\ server = "blocked"
  <2>1. server = "blocked" /\ notifier = "event" /\ ~Late
    BY <1>4, NobodyReady DEF ClockInv
  <2>2. QED BY <2>1 DEF ClockInv, DeadlineKept
<1>5. QED BY <1>3, <1>4

\* The timer never fires before the notifier waits for it, nor while clients
\* are still to be woken for the last tick: no interrupt is lost.
LEMMA FiresInTime ==
  ASSUME ClockInv, SoonBlocked, Tick, Fires
  PROVE  notifier = "event" /\ ~Late /\ server \notin {"start", "arm", "wake"}
<1>1. MaxBusy \in Nat /\ Quantum \in Nat /\ MaxBusy < Quantum
  BY ClockAssumption DEF SoonBlocked
<1>2. armed /\ due = 1 /\ busy \in 0..MaxBusy
  BY DEF Fires, ClockInv, DeadlineKept
<1>3. ~Late
  BY <1>2 DEF ClockInv, DeadlineKept
<1>4. notifier \in {"await", "event"} /\ server \notin {"start", "arm"}
  BY <1>3 DEF Late, ClockInv, Handshake
<1>5. notifier # "await" /\ server # "wake"
  <2>1. CASE ready = <<>>
    BY <2>1, DeadlineRange
  <2>2. CASE ready # <<>>
    <3>1. busy < MaxBusy
      BY <2>2 DEF Tick
    <3>2. ~(due + busy >= Quantum)
      BY <1>1, <1>2, <3>1
    <3>3. QED BY <1>4, <3>2 DEF ClockInv, DeadlineKept
  <2>3. QED BY <2>1, <2>2
<1>6. QED BY <1>3, <1>4, <1>5

-----------------------------------------------------------------------------
(* Two conjuncts of the invariant say who is ready and where the notifier's *)
(* message is; they follow from each step's control alone.                  *)

\* The reply to an urgent client puts it into the queue, where it was not; any
\* other leaves the queue to those who were in it.
LEMMA ReplyOps ==
  ASSUME ReadyAgrees, Handshake, OneRequestEach, Running(ServerTask), NEW c \in blocked
  PROVE  \E S \in SUBSET Tasks :
           /\ Holds(Tasks, Yielded(Woken(c)), S) /\ S \subseteq Members(ready) \cup {c}
           /\ ServerTask \in S /\ (NotifierTask \in S <=> NotifierTask \in Members(ready))
<1>0. c \in ClockClients /\ c \notin Members(ready) /\ c # NotifierTask
  BY OnlyClients, TaskKinds DEF ReadyAgrees
<1>1. Holds(Tasks, ready, Members(ready))
  BY DEF ReadyAgrees
<1>2. ServerTask \in Members(ready) /\ Members(ready) \subseteq Tasks
  BY <1>1, ReadyOps, QueueOps
<1>3. CASE c \in UrgentClients
  <2>1. c \in Tasks \ Members(ready)
    BY <1>0, <1>3, TaskKinds
  <2>2. Holds(Tasks, Yielded(<<c>>), Members(ready) \cup {c})
    BY <1>1, <2>1, ReadyOps
  <2>3. QED BY <1>0, <1>2, <1>3, <2>1, <2>2 DEF Woken
<1>4. CASE c \notin UrgentClients
  <2>1. Holds(Tasks, Yielded(<<>>), Members(ready))
    BY <1>1, ReadyOps
  <2>2. QED BY <1>2, <1>4, <2>1 DEF Woken
<1>5. QED BY <1>3, <1>4

\* An iteration of the loop that wakes clients takes a wait that is due out of
\* the heap and replies to its client, or finds none due and ends.
LEMMA WakeStep ==
  ASSUME ClockInv, ServerWake
  PROVE  /\ server = "wake" /\ ~FromClient
         /\ UNCHANGED <<due, asked, elapsed, busy, msg, clock_inbox, notifier>>
         /\ \/ \E w \in waits : /\ w[1] = 0 /\ server' = "wake"
                                /\ waits' = waits \ {w} /\ blocked' = blocked \ {w[2]}
                                /\ ready' = Yielded(Woken(w[2]))
            \/ /\ server' = "recv" /\ UNCHANGED <<waits, blocked, ready>>
               /\ \A w \in waits : w[1] >= 1
<1>1. server = "wake" /\ UNCHANGED <<due, asked, elapsed, busy, msg, clock_inbox, notifier>>
  BY DEF ServerWake, history
<1>2. msg = NoMessage /\ ~FromClient
  BY <1>1, MessageKinds DEF ClockInv, Handshake, FromClient
<1>3. /\ waits \subseteq (0..MaxTicks) \X ClockClients
      /\ \A w \in waits : w[1] \in 0..MaxTicks
  BY DEF ClockInv, OneRequestEach
<1>4. CASE \E w \in waits : First(w) /\ w[1] <= 0
  <2>1. PICK w \in waits : /\ First(w) /\ waits' = waits \ {w} /\ blocked' = blocked \ {w[2]}
                           /\ ready' = Yielded(Woken(w[2]))
    BY <1>4 DEF ServerWake
  <2>2. w[1] = 0
    BY <1>3, <1>4, <2>1, FirstIsDue
  <2>3. server' = "wake"
    BY <1>1, <1>4 DEF ServerWake
  <2>4. QED BY <1>1, <1>2, <2>1, <2>2, <2>3
<1>5. CASE ~\E w \in waits : First(w) /\ w[1] <= 0
  <2>1. server' = "recv" /\ UNCHANGED <<waits, blocked, ready>>
    BY <1>5 DEF ServerWake
  <2>2. \A w \in waits : ~(w[1] <= 0)
    BY <1>3, <1>5, FirstIsDue
  <2>3. \A k \in 0..MaxTicks : ~(k <= 0) => k >= 1
    BY ClockAssumption
  <2>4. QED BY <1>1, <1>2, <1>3, <2>1, <2>2, <2>3
<1>6. QED BY <1>4, <1>5

\* The handler of a client's message replies to it, or puts its wait into the
\* heap.
LEMMA HandleStep ==
  ASSUME ClockInv, HandleWait \/ HandleCurTick
  PROVE  /\ Running(ServerTask) /\ server = "handle" /\ server' = "recv" /\ msg' = NoMessage
         /\ FromClient /\ msg \in Pending /\ msg.from \in blocked
         /\ UNCHANGED <<due, asked, elapsed, busy, clock_inbox, notifier>>
         /\ \/ /\ waits' = waits /\ blocked' = blocked \ {msg.from}
               /\ ready' = Yielded(Woken(msg.from))
               /\ msg.type = "ClockWaitReq" => msg.ticks = 0
            \/ /\ waits' = waits \cup {<<msg.ticks, msg.from>>} /\ UNCHANGED <<blocked, ready>>
               /\ msg.type = "ClockWaitReq" /\ msg.ticks # 0
<1>1. /\ Running(ServerTask) /\ server = "handle" /\ server' = "recv" /\ msg' = NoMessage
      /\ UNCHANGED <<due, asked, elapsed, busy, clock_inbox, notifier>>
      /\ msg.type \in {"ClockWaitReq", "ClockCurTickReq"}
      /\ \/ /\ waits' = waits /\ blocked' = blocked \ {msg.from}
            /\ ready' = Yielded(Woken(msg.from))
            /\ msg.type = "ClockWaitReq" => msg.ticks = 0
         \/ /\ waits' = waits \cup {<<msg.ticks, msg.from>>} /\ UNCHANGED <<blocked, ready>>
            /\ msg.type = "ClockWaitReq" /\ msg.ticks # 0
  BY DEF HandleWait, HandleCurTick, history
<1>2. FromClient
  BY <1>1, MessageKinds DEF FromClient, ClockInv, Handshake
<1>3. msg \in Pending
  BY <1>2, PendingIs DEF ClockInv
<1>4. msg.from \in blocked
  BY <1>3 DEF ClockInv, OneRequestEach
<1>5. QED BY <1>1, <1>2, <1>3, <1>4

\* Every step keeps ReadyAgrees and Handshake.
LEMMA ControlKept ==
  ASSUME ClockInv, SoonBlocked, ClockNext
  PROVE  ReadyAgrees' /\ Handshake'
<1> USE DEF ClockInv
<1> DEFINE M == Members(ready)  I == Members(clock_inbox)
<1>0. /\ Holds(Tasks, ready, M) /\ M \subseteq Tasks
      /\ Holds(Queued, clock_inbox, I) /\ I \subseteq Queued
      /\ blocked \subseteq ClockClients /\ ServerTask \notin blocked /\ NotifierTask \notin blocked
      /\ M \cap blocked = {}
  BY QueueOps, OnlyClients DEF ReadyAgrees, Handshake
<1>a. \A S : Holds(Tasks, ready', S) => Members(ready') = S
  BY DEF Holds
<1>b. \A S : Holds(Queued, clock_inbox', S) => Members(clock_inbox') = S
  BY DEF Holds
<1>1. ASSUME NotifierSend
      PROVE  ReadyAgrees' /\ Handshake'
  <2>0. /\ Running(NotifierTask) /\ notifier = "send" /\ notifier' = "replying"
        /\ blocked' = blocked /\ Notification \notin I /\ msg # Notification
        /\ server \notin {"arm", "wake"}
    BY <1>1 DEF NotifierSend, Handshake
  <2>1. CASE server = "blocked"
    <3>1. /\ msg' = Notification /\ server' = "handle" /\ clock_inbox' = clock_inbox
          /\ ready' = Append(Tail(ready), ServerTask)
      BY <1>1, <2>1 DEF NotifierSend
    <3>2. ServerTask \in Tasks \ M /\ ServerTask # NotifierTask
      BY <2>1, TaskKinds DEF ReadyAgrees
    <3>3. Holds(Tasks, ready', (M \ {NotifierTask}) \cup {ServerTask})
      BY <1>0, <2>0, <3>1, <3>2, ReadyOps
    <3>4. Members(ready') = (M \ {NotifierTask}) \cup {ServerTask}
      BY <1>a, <3>3
    <3>5. ReadyAgrees'
      BY <1>0, <2>0, <3>1, <3>2, <3>3, <3>4 DEF ReadyAgrees
    <3>6. QED BY <2>0, <2>1, <3>1, <3>5, MessageKinds DEF Handshake
  <2>2. CASE server # "blocked"
    <3>1. /\ msg' = msg /\ server' = server /\ ready' = Tail(ready)
          /\ clock_inbox' = Append(clock_inbox, Notification)
      BY <1>1, <2>2 DEF NotifierSend
    <3>2. Holds(Tasks, ready', M \ {NotifierTask})
      BY <1>0, <2>0, <3>1, ReadyOps
    <3>3. Members(ready') = M \ {NotifierTask}
      BY <1>a, <3>2
    <3>4. ReadyAgrees'
      BY <1>0, <2>0, <3>1, <3>2, <3>3, TaskKinds DEF ReadyAgrees
    <3>5. Notification \in Queued \ I
      BY <2>0, MessageKinds
    <3>6. Holds(Queued, clock_inbox', I \cup {Notification})
      BY <1>0, <3>1, <3>5, QueueOps
    <3>7. Members(clock_inbox') = I \cup {Notification}
      BY <1>b, <3>6
    <3>8. QED BY <2>0, <2>2, <3>1, <3>4, <3>6, <3>7 DEF Handshake
  <2>3. QED BY <2>1, <2>2
<1>2. ASSUME NotifierAwait
      PROVE  ReadyAgrees' /\ Handshake'
  <2>1. /\ Running(NotifierTask) /\ notifier = "await" /\ notifier' = "event"
        /\ server' = server /\ msg' = msg /\ clock_inbox' = clock_inbox
        /\ ready' = Tail(ready) /\ blocked' = blocked
    BY <1>2 DEF NotifierAwait
  <2>2. Holds(Tasks, ready', M \ {NotifierTask})
    BY <1>0, <2>1, ReadyOps
  <2>3. Members(ready') = M \ {NotifierTask}
    BY <1>a, <2>2
  <2>4. ReadyAgrees'
    BY <1>0, <2>1, <2>2, <2>3, TaskKinds DEF ReadyAgrees
  <2>5. QED BY <2>1, <2>4 DEF Handshake
<1>3. ASSUME ServerStart \/ ServerArm
      PROVE  ReadyAgrees' /\ Handshake'
  <2>1. /\ server \in {"start", "arm"} /\ server' = (IF server = "start" THEN "recv" ELSE "wake")
        /\ ready' = ready /\ notifier' = notifier /\ msg' = msg /\ clock_inbox' = clock_inbox
        /\ blocked' = blocked
    BY <1>3 DEF ServerStart, ServerArm
  <2>2. ReadyAgrees'
    BY <2>1 DEF ReadyAgrees
  <2>3. QED BY <2>1, <2>2 DEF Handshake
<1>4. ASSUME ServerRecv
      PROVE  ReadyAgrees' /\ Handshake'
  <2>0. /\ Running(ServerTask) /\ server = "recv" /\ notifier' = notifier /\ msg = NoMessage
        /\ blocked' = blocked
    BY <1>4 DEF ServerRecv, Handshake
  <2>1. CASE clock_inbox = <<>>
    <3>1. /\ server' = "blocked" /\ msg' = msg /\ clock_inbox' = clock_inbox
          /\ ready' = Tail(ready)
      BY <1>4, <2>1 DEF ServerRecv
    <3>2. Holds(Tasks, ready', M \ {ServerTask})
      BY <1>0, <2>0, <3>1, ReadyOps
    <3>3. Members(ready') = M \ {ServerTask}
      BY <1>a, <3>2
    <3>4. ReadyAgrees'
      BY <1>0, <2>0, <3>1, <3>2, <3>3, TaskKinds DEF ReadyAgrees
    <3>5. QED BY <2>0, <2>1, <3>1, <3>4 DEF Handshake
  <2>2. CASE clock_inbox # <<>>
    <3>1. /\ server' = "handle" /\ msg' = Head(clock_inbox) /\ clock_inbox' = Tail(clock_inbox)
          /\ ready' = Yielded(<<>>)
      BY <1>4, <2>2 DEF ServerRecv
    <3>2. Holds(Tasks, ready', M)
      BY <1>0, <2>0, <3>1, ReadyOps
    <3>3. Members(ready') = M
      BY <1>a, <3>2
    <3>4. ReadyAgrees'
      BY <1>0, <2>0, <3>1, <3>2, <3>3 DEF ReadyAgrees
    <3>5. msg' \in I /\ Holds(Queued, clock_inbox', I \ {msg'})
      BY <1>0, <2>2, <3>1, QueueOps
    <3>6. Members(clock_inbox') = I \ {msg'}
      BY <1>b, <3>5
    <3>7. msg' # NoMessage /\ msg' \in {Notification} \cup Requests
      BY <1>0, <3>5, MessageKinds
    <3>8. Notification \in Members(clock_inbox') \cup {msg'} <=> Notification \in I \cup {msg}
      BY <2>0, <3>5, <3>6, MessageKinds
    <3>9. QED BY <2>0, <3>1, <3>4, <3>5, <3>6, <3>7, <3>8 DEF Handshake
  <2>3. QED BY <2>1, <2>2
<1>5. ASSUME HandleNotifier
      PROVE  ReadyAgrees' /\ Handshake'
  <2>1. /\ Running(ServerTask) /\ server = "handle" /\ msg = Notification
        /\ notifier = "replying" /\ Notification \notin I
        /\ notifier' = "await" /\ server' = "arm" /\ msg' = NoMessage
        /\ clock_inbox' = clock_inbox /\ ready' = Yielded(<<NotifierTask>>) /\ blocked' = blocked
    BY <1>5 DEF HandleNotifier, Handshake
  <2>2. NotifierTask \in Tasks \ M
    BY <2>1, TaskKinds DEF ReadyAgrees
  <2>3. Holds(Tasks, ready', M \cup {NotifierTask})
    BY <1>0, <2>1, <2>2, ReadyOps
  <2>4. Members(ready') = M \cup {NotifierTask}
    BY <1>a, <2>3
  <2>5. ReadyAgrees'
    BY <1>0, <2>1, <2>3, <2>4, TaskKinds DEF ReadyAgrees
  <2>6. NoMessage \notin I
    BY <1>0, MessageKinds
  <2>7. QED BY <2>1, <2>5, <2>6, MessageKinds DEF Handshake
<1>6. ASSUME NEW c \in blocked, Running(ServerTask), ready' = Yielded(Woken(c)),
             blocked' = blocked \ {c}, notifier' = notifier, server' # "blocked"
      PROVE  ReadyAgrees'
  <2>1. PICK S \in SUBSET Tasks :
          /\ Holds(Tasks, ready', S) /\ S \subseteq M \cup {c}
          /\ ServerTask \in S /\ (NotifierTask \in S <=> NotifierTask \in M)
    BY <1>6, ReplyOps
  <2>2. Members(ready') = S
    BY <1>a, <2>1
  <2>3. QED BY <1>0, <1>6, <2>1, <2>2 DEF ReadyAgrees
<1>7. ASSUME ServerWake
      PROVE  ReadyAgrees' /\ Handshake'
  <2>0. /\ server = "wake" /\ notifier' = notifier /\ msg' = msg /\ clock_inbox' = clock_inbox
        /\ server' \in {"wake", "recv"} /\ Running(ServerTask)
    BY <1>7, WakeStep DEF ServerWake
  <2>1. ASSUME NEW w \in waits, blocked' = blocked \ {w[2]}, ready' = Yielded(Woken(w[2]))
        PROVE  ReadyAgrees'
    <3>1. w[2] \in blocked
      BY DEF OneRequestEach
    <3>2. QED BY <1>6, <2>0, <2>1, <3>1
  <2>2. ASSUME UNCHANGED <<blocked, ready>>
        PROVE  ReadyAgrees'
    BY <2>0, <2>2 DEF ReadyAgrees
  <2>3. QED BY <1>7, <2>0, <2>1, <2>2, WakeStep DEF Handshake
<1>8. ASSUME HandleWait \/ HandleCurTick
      PROVE  ReadyAgrees' /\ Handshake'
  <2>1. /\ Running(ServerTask) /\ server = "handle" /\ server' = "recv"
        /\ notifier' = notifier /\ clock_inbox' = clock_inbox /\ msg' = NoMessage
        /\ FromClient /\ msg.from \in blocked
    BY <1>8, HandleStep
  <2>2. ReadyAgrees'
    <3>1. CASE blocked' = blocked \ {msg.from} /\ ready' = Yielded(Woken(msg.from))
      BY <1>6, <2>1, <3>1
    <3>2. CASE UNCHANGED <<blocked, ready>>
      BY <2>1, <3>2 DEF ReadyAgrees
    <3>3. QED BY <1>8, <3>1, <3>2, HandleStep
  <2>3. NoMessage \notin I /\ msg # Notification
    BY <1>0, <2>1, MessageKinds DEF FromClient
  <2>4. QED BY <2>1, <2>2, <2>3, MessageKinds DEF Handshake
<1>9. ASSUME NEW c \in ClockClients, wait_ticks(c) \/ get_cur_tick(c)
      PROVE  ReadyAgrees' /\ Handshake'
  <2>1. PICK n \in 0..MaxTicks, m \in Requests : ClockSend(c, m, n) /\ m.from = c
    BY <1>9, SendStep
  <2>2. /\ c \in UrgentClients => Running(c)
        /\ c \notin UrgentClients => ready = <<>>
        /\ c \notin blocked /\ blocked' = blocked \cup {c} /\ notifier' = notifier
        /\ c \notin {ServerTask, NotifierTask}
    BY <2>1, TaskKinds DEF ClockSend
  <2>3. m \notin I \cup {Notification, NoMessage}
    <3>1. m \notin Pending
      BY <2>1, <2>2 DEF OneRequestEach
    <3>2. QED BY <3>1, MessageKinds DEF Pending
  <2>4. Holds(Tasks, Rest, M \ {c}) /\ (ServerTask \in M \ {c} <=> ServerTask \in M)
    <3>1. CASE c \in UrgentClients
      <4>1. ready # <<>> /\ Rest = Tail(ready)
        BY <2>2, <3>1 DEF Running, Rest
      <4>2. QED BY <1>0, <2>2, <3>1, <4>1, ReadyOps
    <3>2. CASE c \notin UrgentClients
      <4>1. ready = <<>> /\ Rest = <<>> /\ M = {} /\ M \ {c} = {}
        BY <2>2, <3>2, NobodyReady DEF Rest
      <4>2. QED BY <1>0, <4>1
    <3>3. QED BY <3>1, <3>2
  <2>5. CASE server = "blocked"
    <3>1. /\ msg' = m /\ server' = "handle" /\ clock_inbox' = clock_inbox
          /\ ready' = Append(Rest, ServerTask)
      BY <2>1, <2>5 DEF ClockSend
    <3>2. ServerTask \in Tasks \ (M \ {c}) /\ msg = NoMessage
      BY <2>2, <2>5, TaskKinds DEF ReadyAgrees, Handshake
    <3>3. Holds(Tasks, ready', (M \ {c}) \cup {ServerTask})
      BY <2>4, <3>1, <3>2, QueueOps
    <3>4. Members(ready') = (M \ {c}) \cup {ServerTask}
      BY <1>a, <3>3
    <3>5. ReadyAgrees'
      BY <1>0, <2>2, <3>1, <3>3, <3>4, TaskKinds DEF ReadyAgrees
    <3>6. QED BY <2>2, <2>3, <2>5, <3>1, <3>2, <3>5, MessageKinds DEF Handshake
  <2>6. CASE server # "blocked"
    <3>1. /\ msg' = msg /\ server' = server /\ clock_inbox' = Append(clock_inbox, m)
          /\ ready' = Rest
      BY <2>1, <2>6 DEF ClockSend
    <3>2. Members(ready') = M \ {c}
      BY <1>a, <2>4, <3>1
    <3>3. ReadyAgrees'
      BY <1>0, <2>2, <2>4, <2>6, <3>1, <3>2, TaskKinds DEF ReadyAgrees
    <3>4. c \in UrgentClients
      BY <2>2, <2>6, NobodyReady
    <3>5. m \in Queued \ I
      BY <2>1, <2>3, <3>4 DEF Queued
    <3>6. Holds(Queued, clock_inbox', I \cup {m})
      BY <1>0, <3>1, <3>5, QueueOps
    <3>7. Members(clock_inbox') = I \cup {m}
      BY <1>b, <3>6
    <3>8. m # msg
      <4>1. msg \in Requests => msg \in Pending
        BY DEF Pending
      <4>2. m \notin Pending
        BY <2>1, <2>2 DEF OneRequestEach
      <4>3. QED BY <2>1, <4>1, <4>2
    <3>9. QED BY <2>2, <2>3, <2>6, <3>1, <3>3, <3>6, <3>7, <3>8 DEF Handshake
  <2>7. QED BY <2>5, <2>6
<1>10. ASSUME NEW c \in UrgentClients, OtherCall(c) \/ OtherWake(c)
       PROVE  ReadyAgrees' /\ Handshake'
  <2>1. /\ UNCHANGED <<server, notifier, clock_inbox, msg, blocked>>
    BY <1>10 DEF OtherCall, OtherWake
  <2>2. /\ \A d \in Away : d \in UrgentClients /\ d \notin M /\ d \in Tasks \ M /\ d \notin blocked
        /\ \A d \in UrgentClients : d \notin {ServerTask, NotifierTask}
    BY TaskKinds DEF Away, Members
  <2>3. \E S : /\ Holds(Tasks, ready', S) /\ S \cap blocked = {}
               /\ ServerTask \in S <=> ServerTask \in M
               /\ NotifierTask \in S <=> NotifierTask \in M
    <3>1. CASE OtherWake(c)
      <4>1. ready' = <<c>> /\ c \in Away /\ M = {}
        BY <3>1, NobodyReady DEF OtherWake
      <4>2. Holds(Tasks, ready', {c})
        BY <2>2, <4>1, SmallQueues
      <4>3. QED BY <2>2, <4>1, <4>2
    <3>2. CASE OtherCall(c)
      <4>1. PICK woken \in {<<>>} \cup {<<d>> : d \in Away} :
              Running(c) /\ ready' \in {Yielded(woken), Tail(ready) \o woken}
        BY <3>2 DEF OtherCall
      <4>2. CASE woken = <<>>
        <5>1. Tail(ready) \o woken = Tail(ready)
          <6>1. Tail(ready) \in Seq(Tasks)
            BY <1>0, <4>1, ReadyOps DEF Holds
          <6>2. QED BY <4>2, <6>1
        <5>2. Holds(Tasks, Yielded(woken), M) /\ Holds(Tasks, Tail(ready), M \ {c})
          BY <1>0, <4>1, <4>2, ReadyOps
        <5>3. CASE ready' = Yielded(woken)
          BY <1>0, <5>2, <5>3
        <5>4. CASE ready' = Tail(ready) \o woken
          <6> DEFINE S == M \ {c}
          <6>1. /\ S \cap blocked = {} /\ (ServerTask \in S <=> ServerTask \in M)
                /\ NotifierTask \in S <=> NotifierTask \in M
            BY <1>0, <2>2
          <6>2. Holds(Tasks, ready', S)
            BY <5>1, <5>2, <5>4
          <6> HIDE DEF S, M
          <6>3. QED BY <6>1, <6>2
        <5>5. QED BY <4>1, <5>3, <5>4
      <4>3. CASE \E d \in Away : woken = <<d>>
        <5>1. PICK d \in Away : woken = <<d>>
          BY <4>3
        <5>2. Holds(Tasks, Yielded(woken), M \cup {d})
              /\ Holds(Tasks, Tail(ready) \o woken, (M \ {c}) \cup {d})
          BY <1>0, <2>2, <4>1, <5>1, ReadyOps
        <5>3. CASE ready' = Yielded(woken)
          BY <1>0, <2>2, <5>2, <5>3
        <5>4. CASE ready' = Tail(ready) \o woken
          BY <1>0, <2>2, <5>2, <5>4
        <5>5. QED BY <4>1, <5>3, <5>4
      <4>4. QED BY <4>1, <4>2, <4>3
    <3>3. QED BY <1>10, <3>1, <3>2
  <2>4. ReadyAgrees'
    <3>1. PICK S : /\ Holds(Tasks, ready', S) /\ S \cap blocked = {}
                   /\ ServerTask \in S <=> ServerTask \in M
                   /\ NotifierTask \in S <=> NotifierTask \in M
      BY <2>3
    <3>2. Members(ready') = S
      BY <1>a, <3>1
    <3>3. QED BY <2>1, <3>1, <3>2 DEF ReadyAgrees
  <2>5. QED BY <2>1, <2>4 DEF Handshake
<1>11. ASSUME Tick
       PROVE  ReadyAgrees' /\ Handshake'
  <2>0. server' = server /\ msg' = msg /\ clock_inbox' = clock_inbox /\ blocked' = blocked
    BY <1>11 DEF Tick
  <2>1. CASE Fires /\ notifier = "event"
    <3>1. notifier' = "send"
      BY <1>11, <2>1 DEF Tick
    <3>2. NotifierTask \in Tasks \ M
      BY <2>1, TaskKinds DEF ReadyAgrees
    <3>3. Holds(Tasks, ready', M \cup {NotifierTask})
      <4>1. CASE ready = <<>>
        <5>1. ready' = <<NotifierTask>> /\ M \cup {NotifierTask} = {NotifierTask}
          BY <1>11, <2>1, <4>1, NobodyReady DEF Tick
        <5>2. QED BY <3>2, <5>1, SmallQueues
      <4>2. CASE ready # <<>>
        <5>1. Running(Head(ready)) /\ ready' = Yielded(<<NotifierTask>>)
          BY <1>11, <2>1, <4>2 DEF Tick, Running
        <5>2. QED BY <1>0, <3>2, <5>1, ReadyOps
      <4>3. QED BY <4>1, <4>2
    <3>4. Members(ready') = M \cup {NotifierTask}
      BY <1>a, <3>3
    <3>5. ReadyAgrees'
      BY <1>0, <2>0, <3>1, <3>3, <3>4, TaskKinds DEF ReadyAgrees
    <3>6. server \notin {"start", "arm", "wake"}
      BY <1>11, <2>1, FiresInTime DEF Late
    <3>7. QED BY <2>0, <2>1, <3>1, <3>5, <3>6 DEF Handshake
  <2>2. CASE ~(Fires /\ notifier = "event")
    <3>1. notifier' = notifier
      BY <1>11, <2>2 DEF Tick
    <3>2. Holds(Tasks, ready', M)
      <4>1. CASE ready = <<>>
        BY <1>0, <1>11, <2>2, <4>1 DEF Tick
      <4>2. CASE ready # <<>>
        <5>1. Running(Head(ready)) /\ ready' \in {ready, Yielded(<<>>)}
          BY <1>11, <2>2, <4>2 DEF Tick, Running
        <5>2. Holds(Tasks, Yielded(<<>>), M)
          BY <1>0, <5>1, ReadyOps
        <5>3. QED BY <1>0, <5>1, <5>2
      <4>3. QED BY <4>1, <4>2
    <3>3. Members(ready') = M
      BY <1>a, <3>2
    <3>4. ReadyAgrees'
      BY <1>0, <2>0, <3>1, <3>2, <3>3 DEF ReadyAgrees
    <3>5. QED BY <2>0, <3>1, <3>4 DEF Handshake
  <2>3. QED BY <2>1, <2>2
<1>12. QED
  BY <1>1, <1>2, <1>3, <1>4, <1>5, <1>7, <1>8, <1>9, <1>10, <1>11
  DEF ClockNext, ClockServer, Notifier

\* A deadline that passes arms nothing until it has been served, and each step
\* between the two leaves the sum of deadline and lateness as it is.
LEMMA DeadlineStays ==
  ASSUME ClockInv, SoonBlocked, ClockNext
  PROVE  DeadlineKept'
<1> USE DEF ClockInv
<1>0. MaxBusy \in Nat /\ Quantum \in Nat /\ MaxBusy < Quantum
  BY ClockAssumption DEF SoonBlocked
<1>1. CASE NotifierSend
  <2>1. /\ notifier = "send" /\ notifier' = "replying"
        /\ UNCHANGED <<due, armed, busy>> /\ server' \in {server, "handle"}
    BY <1>1 DEF NotifierSend, history
  <2>2. server \notin {"arm", "wake"} /\ Late /\ Late'
    BY <2>1 DEF Handshake, Late
  <2>3. QED BY <2>1, <2>2 DEF DeadlineKept
<1>2. CASE NotifierAwait
  <2>1. /\ notifier = "await" /\ notifier' = "event"
        /\ UNCHANGED <<due, armed, busy, server>> /\ (Late' <=> Late)
    BY <1>2 DEF NotifierAwait, history, Late
  <2>2. QED BY <2>1 DEF DeadlineKept
<1>3. CASE ServerStart
  <2>1. /\ server = "start" /\ server' = "recv" /\ notifier' = notifier
        /\ due' = 0 /\ armed' = FALSE /\ busy' = busy
    BY <1>3 DEF ServerStart, history
  <2>2. notifier \in {"send", "replying"} /\ Late'
    BY <2>1 DEF Handshake, Late
  <2>3. busy' \in 0..MaxBusy /\ due' + busy' >= 0
    BY <1>0, <2>1 DEF DeadlineKept
  <2>4. armed' \in BOOLEAN /\ ~armed'
    BY <2>1
  <2>5. QED BY <2>1, <2>2, <2>3, <2>4 DEF DeadlineKept
<1>4. CASE ServerRecv \/ HandleWait \/ HandleCurTick
  <2>1. /\ server \in {"recv", "handle"} /\ server' \in {"recv", "handle", "blocked"}
        /\ UNCHANGED <<due, armed, busy, notifier>>
    BY <1>4 DEF ServerRecv, HandleWait, HandleCurTick, history
  <2>2. Late' <=> Late
    BY <2>1 DEF Late
  <2>3. QED BY <2>1, <2>2 DEF DeadlineKept
<1>5. CASE HandleNotifier
  <2>1. /\ msg = Notification /\ notifier' = "await" /\ server' = "arm"
        /\ UNCHANGED <<due, armed, busy>>
    BY <1>5 DEF HandleNotifier, history
  <2>2. Late /\ Late'
    BY <2>1 DEF Handshake, Late
  <2>3. QED BY <2>1, <2>2 DEF DeadlineKept
<1>6. CASE ServerArm
  <2>1. /\ server = "arm" /\ server' = "wake" /\ notifier' = notifier
        /\ due' = due + Quantum /\ armed' = (due' > 0) /\ busy' = busy
    BY <1>6 DEF ServerArm, history
  <2>2. due \in Int /\ busy \in 0..MaxBusy /\ due <= 0 /\ due + busy >= 0
    BY <2>1 DEF DeadlineKept, Late
  <2>3. due' >= 1 /\ due' <= Quantum /\ due' + busy' >= Quantum /\ due' \in Int
    BY <1>0, <2>1, <2>2
  <2>4. ~Late'
    BY <2>1 DEF Handshake, Late
  <2>5. armed' = TRUE /\ armed'
    <3>1. due' > 0
      BY <2>3
    <3>2. QED BY <2>1, <3>1, Zenon
  <2>6. QED BY <2>1, <2>2, <2>3, <2>4, <2>5 DEF DeadlineKept
<1>7. CASE ServerWake
  <2>1. /\ server = "wake" /\ server' \in {"wake", "recv"}
        /\ UNCHANGED <<due, armed, busy, notifier>>
    BY <1>7 DEF ServerWake, history
  <2>2. Late' <=> Late
    BY <2>1 DEF Late
  <2>3. QED BY <2>1, <2>2 DEF DeadlineKept
<1>8. CASE \/ \E c \in ClockClients : wait_ticks(c) \/ get_cur_tick(c)
           \/ \E c \in UrgentClients : OtherCall(c) \/ OtherWake(c)
  <2>1. /\ UNCHANGED <<due, armed, notifier>>
        /\ server' = server \/ (server = "blocked" /\ server' = "handle")
        /\ busy' = busy \/ (ready = <<>> /\ busy' = 0)
    <3>1. CASE \E c \in ClockClients : wait_ticks(c) \/ get_cur_tick(c)
      <4>1. PICK c \in ClockClients, n \in 0..MaxTicks, m \in Requests : ClockSend(c, m, n)
        BY <3>1, SendStep
      <4>2. QED BY <4>1 DEF ClockSend
    <3>2. CASE \E c \in UrgentClients : OtherCall(c) \/ OtherWake(c)
      BY <3>2 DEF OtherCall, OtherWake, history
    <3>3. QED BY <1>8, <3>1, <3>2
  <2>2. Late' <=> Late
    BY <2>1 DEF Late
  <2>3. CASE busy' = busy
    <3>1. server' = server \/ (server' # "arm" /\ server' # "wake" /\ server # "arm" /\ server # "wake")
      BY <2>1
    <3>2. UNCHANGED <<due, armed, busy, notifier>>
      BY <2>1, <2>3
    <3>3. QED BY <2>2, <3>1, <3>2 DEF DeadlineKept
  <2>4. CASE ready = <<>> /\ busy' = 0
    <3>1. /\ notifier = "event" /\ ~Late /\ server = "blocked"
          /\ armed /\ due >= 1 /\ due <= Quantum
      BY <2>4, DeadlineRange DEF DeadlineKept
    <3>2. armed' \in BOOLEAN /\ armed' /\ due' >= 1 /\ due' <= Quantum /\ due' \in Int
      BY <2>1, <3>1 DEF DeadlineKept
    <3>3. server' # "wake" /\ notifier' # "await"
      BY <2>1, <3>1
    <3>4. ~Late' /\ busy' \in 0..MaxBusy
      BY <1>0, <2>2, <2>4, <3>1
    <3>5. QED BY <3>2, <3>3, <3>4 DEF DeadlineKept
  <2>5. QED BY <2>1, <2>3, <2>4
<1>9. CASE Tick
  <2>1. /\ due' = due - 1 /\ server' = server
        /\ armed' = (armed /\ ~Fires)
        /\ busy' = IF ready = <<>> THEN 0 ELSE busy + 1
        /\ ready # <<>> => busy < MaxBusy
        /\ notifier' = IF Fires /\ notifier = "event" THEN "send" ELSE notifier
    BY <1>9 DEF Tick
  <2>2. due \in Int /\ armed \in BOOLEAN /\ busy \in 0..MaxBusy
    BY DEF DeadlineKept
  <2>3. CASE Fires
    <3>1. notifier = "event" /\ ~Late /\ server \notin {"start", "arm", "wake"}
      BY <1>9, <2>3, FiresInTime
    <3>2. notifier' = "send" /\ Late'
      BY <2>1, <2>3, <3>1 DEF Late
    <3>3. due' = 0 /\ armed' = FALSE
      <4>1. due = 1
        BY <2>3 DEF Fires
      <4>2. armed' = FALSE
        BY <2>1, <2>3, Zenon
      <4>3. QED BY <2>1, <4>1, <4>2
    <3>4. busy' \in 0..MaxBusy
      BY <1>0, <2>1, <2>2
    <3>5. QED BY <1>0, <2>1, <3>1, <3>2, <3>3, <3>4 DEF DeadlineKept
  <2>4. CASE ~Fires
    <3>1. notifier' = notifier /\ armed' = armed /\ (Late' <=> Late)
      BY <2>1, <2>2, <2>4 DEF Late
    <3>2. CASE ready = <<>>
      <4>1. armed /\ due >= 1 /\ due <= Quantum /\ ~Late /\ notifier = "event"
            /\ server = "blocked"
        BY <3>2, DeadlineRange DEF DeadlineKept
      <4>2. due # 1
        BY <2>4, <4>1 DEF Fires
      <4>3. due' >= 1 /\ due' <= Quantum /\ due' \in Int /\ busy' = 0
        BY <1>0, <2>1, <2>2, <3>2, <4>1, <4>2
      <4>4. ~Late' /\ armed' = TRUE /\ armed'
        BY <2>2, <3>1, <4>1, Zenon
      <4>5. QED BY <1>0, <2>1, <3>1, <4>1, <4>3, <4>4 DEF DeadlineKept
    <3>3. CASE ready # <<>>
      <4>1. busy' \in 0..MaxBusy /\ due' + busy' = due + busy /\ due' \in Int
        BY <1>0, <2>1, <2>2, <3>3
      <4>2. CASE Late
        <5>1. ~armed /\ due <= 0 /\ due + busy >= 0
          BY <4>2 DEF DeadlineKept
        <5>2. due' <= 0
          BY <2>1, <2>2, <5>1
        <5>3. QED BY <2>1, <3>1, <4>1, <4>2, <5>1, <5>2 DEF DeadlineKept
      <4>3. CASE ~Late
        <5>1. armed /\ due >= 1 /\ due <= Quantum
          BY <4>3 DEF DeadlineKept
        <5>2. due # 1
          BY <2>4, <5>1 DEF Fires
        <5>3. due' >= 1 /\ due' <= Quantum
          BY <1>0, <2>1, <2>2, <5>1, <5>2
        <5>4. ~Late' /\ armed' = TRUE /\ armed'
          BY <2>2, <3>1, <4>3, <5>1, Zenon
        <5>5. QED BY <2>1, <3>1, <4>1, <5>3, <5>4 DEF DeadlineKept
      <4>4. QED BY <4>2, <4>3
    <3>4. QED BY <3>2, <3>3
  <2>5. QED BY <2>3, <2>4
<1>10. QED
  BY <1>1, <1>2, <1>3, <1>4, <1>5, <1>6, <1>7, <1>8, <1>9 DEF ClockNext, ClockServer, Notifier

-----------------------------------------------------------------------------
(* The clients' requests.                                                  *)

-----------------------------------------------------------------------------
(* The clients' requests.                                                  *)

\* Steps of the notifier, of the server before it looks at a client's message,
\* and of urgent clients that call somebody else, concern no request.
LEMMA RequestsUntouched ==
  ASSUME ClockInv,
         \/ Notifier \/ ServerStart \/ ServerRecv \/ HandleNotifier
         \/ \E c \in UrgentClients : OtherCall(c) \/ OtherWake(c)
  PROVE  /\ UNCHANGED <<waits, blocked, asked, elapsed>>
         /\ Pending' = Pending
         /\ busy' = busy \/ Pending = {}
         /\ server' = "wake" <=> server = "wake"
         /\ server' # "start" \/ server = "start"
         /\ due' = due \/ (server = "start" /\ \A m \in Pending : m.from \in UrgentClients)
<1> USE DEF ClockInv
<1> DEFINE I == Members(clock_inbox)
<1>0. Holds(Queued, clock_inbox, I) /\ \A S : Holds(Queued, clock_inbox', S) => Members(clock_inbox') = S
  BY DEF Handshake, Holds
<1>1. CASE NotifierSend
  <2>1. UNCHANGED <<waits, blocked, asked, elapsed, busy, due>>
    BY <1>1 DEF NotifierSend, history
  <2>2. CASE server = "blocked"
    <3>1. /\ msg = NoMessage /\ msg' = Notification /\ server' = "handle"
          /\ clock_inbox' = clock_inbox
      BY <1>1, <2>2 DEF NotifierSend, Handshake
    <3>2. QED BY <2>1, <2>2, <3>1, MessageKinds DEF Pending
  <2>3. CASE server # "blocked"
    <3>1. /\ msg' = msg /\ server' = server /\ notifier = "send"
          /\ clock_inbox' = Append(clock_inbox, Notification)
      BY <1>1, <2>3 DEF NotifierSend
    <3>2. Notification \in Queued \ I
      BY <3>1, MessageKinds DEF Handshake
    <3>3. Holds(Queued, clock_inbox', I \cup {Notification})
      BY <1>0, <3>1, <3>2, QueueOps
    <3>4. Members(clock_inbox') = I \cup {Notification}
      BY <1>0, <3>3
    <3>5. QED BY <2>1, <3>1, <3>4, MessageKinds DEF Pending
  <2>4. QED BY <2>2, <2>3
<1>2. CASE NotifierAwait
  BY <1>2 DEF NotifierAwait, history, Pending
<1>3. CASE ServerStart
  <2>1. server = "start" /\ server' = "recv" /\ msg' = msg /\ msg = NoMessage
        /\ clock_inbox' = clock_inbox
    BY <1>3 DEF ServerStart, Handshake
  <2>2. UNCHANGED <<waits, blocked, asked, elapsed, busy>>
    BY <1>3 DEF ServerStart, history
  <2>3. Pending' = Pending
    BY <2>1 DEF Pending
  <2>4. \A m \in Pending : m.from \in UrgentClients
    BY <2>1, PendingIs, MessageKinds
  <2>5. QED BY <2>1, <2>2, <2>3, <2>4
<1>4. CASE ServerRecv
  <2>1. server = "recv" /\ server' \in {"blocked", "handle"} /\ msg = NoMessage
    BY <1>4 DEF ServerRecv, Handshake
  <2>2. UNCHANGED <<waits, blocked, asked, elapsed, busy, due>>
    BY <1>4 DEF ServerRecv, history
  <2>3. Pending' = Pending
    <3>1. CASE clock_inbox = <<>>
      BY <1>4, <3>1 DEF ServerRecv, Pending
    <3>2. CASE clock_inbox # <<>>
      <4>1. msg' = Head(clock_inbox) /\ clock_inbox' = Tail(clock_inbox)
        BY <1>4, <3>2 DEF ServerRecv
      <4>2. msg' \in I /\ Holds(Queued, clock_inbox', I \ {msg'})
        BY <1>0, <3>2, <4>1, QueueOps
      <4>3. Members(clock_inbox') = I \ {msg'}
        BY <1>0, <4>2
      <4>4. QED BY <2>1, <4>2, <4>3, MessageKinds DEF Pending
    <3>3. QED BY <3>1, <3>2
  <2>4. QED BY <2>1, <2>2, <2>3
<1>5. CASE HandleNotifier
  <2>1. /\ server = "handle" /\ server' = "arm" /\ msg = Notification /\ msg' = NoMessage
        /\ UNCHANGED <<waits, blocked, asked, elapsed, busy, due, clock_inbox>>
    BY <1>5 DEF HandleNotifier, history
  <2>2. QED BY <2>1, MessageKinds DEF Pending
<1>6. CASE \E c \in UrgentClients : OtherCall(c) \/ OtherWake(c)
  <2>1. /\ UNCHANGED <<waits, blocked, asked, elapsed, due, clock_inbox, msg, server>>
        /\ busy' = busy \/ ready = <<>>
    BY <1>6 DEF OtherCall, OtherWake, history
  <2>2. Pending' = Pending
    BY <2>1 DEF Pending
  <2>3. QED BY <2>1, <2>2, NobodyReady
<1>7. QED BY <1>1, <1>2, <1>3, <1>4, <1>5, <1>6 DEF Notifier

\* The server has nothing of a client in its hands while it serves a tick, and
\* what it has handled is not pending any more.
LEMMA PendingMoves ==
  ASSUME ClockInv
  PROVE  /\ ServerWake \/ ServerArm \/ Tick => Pending' = Pending
         /\ HandleWait \/ HandleCurTick => Pending' = Pending \ {msg}
         /\ \A c \in ClockClients, m \in Requests : \A n :
              ClockSend(c, m, n) => Pending' = Pending \cup {m}
<1> USE DEF ClockInv
<1>1. ASSUME ServerWake \/ ServerArm \/ Tick
      PROVE  Pending' = Pending
  <2>1. UNCHANGED <<clock_inbox, msg>>
    BY <1>1, WakeStep DEF ServerArm, Tick
  <2>2. QED BY <2>1 DEF Pending
<1>2. ASSUME HandleWait \/ HandleCurTick
      PROVE  Pending' = Pending \ {msg}
  <2>1. msg' = NoMessage /\ clock_inbox' = clock_inbox /\ msg \notin Members(clock_inbox)
    BY <1>2, HandleStep DEF Handshake
  <2>2. QED BY <2>1, MessageKinds DEF Pending
<1>3. ASSUME NEW c \in ClockClients, NEW m \in Requests, NEW n, ClockSend(c, m, n)
      PROVE  Pending' = Pending \cup {m}
  <2>1. CASE server = "blocked"
    <3>1. msg = NoMessage /\ msg' = m /\ clock_inbox' = clock_inbox
      BY <1>3, <2>1 DEF ClockSend, Handshake
    <3>2. QED BY <3>1, MessageKinds DEF Pending
  <2>2. CASE server # "blocked"
    <3>1. msg' = msg /\ clock_inbox' = Append(clock_inbox, m)
      BY <1>3, <2>2 DEF ClockSend
    <3>2. Members(clock_inbox') = Members(clock_inbox) \cup {m}
      <4>1. clock_inbox \in Seq(Queued)
        BY DEF Handshake, Holds
      <4>2. QED BY <3>1, <4>1, AppendMembers
    <3>3. QED BY <3>1, <3>2 DEF Pending
  <2>3. QED BY <2>1, <2>2
<1>4. QED BY <1>1, <1>2, <1>3

\* A client stays blocked for exactly one request, and the heap holds no wait
\* that is over once its clients have been woken.
LEMMA RequestsStay ==
  ASSUME ClockInv, SoonBlocked, ClockNext
  PROVE  OneRequestEach'
<1> USE DEF ClockInv
<1>0. /\ waits \subseteq (0..MaxTicks) \X ClockClients
      /\ \A w \in waits : w[1] \in 0..MaxTicks /\ w[2] \in ClockClients
      /\ \A w \in waits : w = <<w[1], w[2]>>
      /\ blocked = {w[2] : w \in waits} \cup {m.from : m \in Pending}
      /\ \A v, w \in waits : v[2] = w[2] => v = w
      /\ \A m, l \in Pending : m.from = l.from => m = l
      /\ \A m \in Pending, w \in waits : w[2] # m.from
  BY DEF OneRequestEach
<1>1. CASE \/ Notifier \/ ServerStart \/ ServerRecv \/ HandleNotifier
           \/ \E c \in UrgentClients : OtherCall(c) \/ OtherWake(c)
  BY <1>1, RequestsUntouched DEF OneRequestEach
<1>2. CASE Tick
  <2>1. UNCHANGED <<waits, blocked, server>> /\ Pending' = Pending
    BY <1>2, PendingMoves DEF Tick
  <2>2. QED BY <2>1 DEF OneRequestEach
<1>3. CASE ServerArm
  <2>1. /\ server = "arm" /\ server' = "wake" /\ blocked' = blocked /\ Pending' = Pending
        /\ waits' = {<<w[1] - 1, w[2]>> : w \in waits}
    BY <1>3, PendingMoves DEF ServerArm
  <2>3. \A w \in waits : w[1] >= 1 /\ w[1] - 1 \in 0..MaxTicks
    <3>1. \A w \in waits : w[1] >= 1
      BY <2>1 DEF OneRequestEach
    <3>2. \A k \in 0..MaxTicks : k >= 1 => k - 1 \in 0..MaxTicks
      BY ClockAssumption
    <3>3. QED BY <1>0, <3>1, <3>2
  <2>4. \A v \in waits' : \E w \in waits : v = <<w[1] - 1, w[2]>>
    BY <2>1
  <2>5. waits' \subseteq (0..MaxTicks) \X ClockClients
    BY <1>0, <2>3, <2>4
  <2>6. \A v, w \in waits' : v[2] = w[2] => v = w
    BY <1>0, <2>4
  <2>7. {w[2] : w \in waits'} = {w[2] : w \in waits}
    <3>1. \A w \in waits : \E v \in waits' : v[2] = w[2]
      <4>1. \A w \in waits : <<w[1] - 1, w[2]>> \in waits'
        BY <2>1
      <4>2. QED BY <4>1
    <3>2. \A v \in waits' : \E w \in waits : v[2] = w[2]
      BY <2>4
    <3>3. QED BY <3>1, <3>2
  <2>8. \A m \in Pending', w \in waits' : w[2] # m.from
    BY <1>0, <2>1, <2>4
  <2>9. QED BY <1>0, <2>1, <2>5, <2>6, <2>7, <2>8 DEF OneRequestEach
<1>4. CASE ServerWake
  <2>1. server = "wake" /\ Pending' = Pending
    BY <1>4, WakeStep, PendingMoves
  <2>2. ASSUME NEW w \in waits, server' = "wake", waits' = waits \ {w}, blocked' = blocked \ {w[2]}
        PROVE  OneRequestEach'
    <3>1. {x[2] : x \in waits'} = {x[2] : x \in waits} \ {w[2]}
      BY <1>0, <2>2
    <3>2. {m.from : m \in Pending} \ {w[2]} = {m.from : m \in Pending}
      BY <1>0
    <3>3. blocked' = {x[2] : x \in waits'} \cup {m.from : m \in Pending'}
      BY <1>0, <2>1, <2>2, <3>1, <3>2
    <3>4. waits' \subseteq waits
      BY <2>2
    <3>5. QED BY <1>0, <2>1, <2>2, <3>3, <3>4 DEF OneRequestEach
  <2>3. ASSUME server' = "recv", UNCHANGED <<waits, blocked>>, \A w \in waits : w[1] >= 1
        PROVE  OneRequestEach'
    BY <1>0, <2>1, <2>3 DEF OneRequestEach
  <2>4. QED BY <1>4, <2>2, <2>3, WakeStep
<1>5. CASE HandleWait \/ HandleCurTick
  <2>1. /\ server = "handle" /\ server' = "recv" /\ msg \in Pending /\ msg.from \in ClockClients
        /\ Pending' = Pending \ {msg} /\ FromClient
    BY <1>5, HandleStep, PendingMoves, PendingIs
  <2>2. \A w \in waits : w[2] # msg.from /\ w[1] >= 1
    BY <2>1 DEF OneRequestEach
  <2>a. \A m \in Pending' : m \in Pending /\ m.from # msg.from
    BY <1>0, <2>1
  <2>b. {m.from : m \in Pending'} = {m.from : m \in Pending} \ {msg.from}
    BY <2>1, <2>a
  <2>3. CASE waits' = waits /\ blocked' = blocked \ {msg.from}
    <3>1. blocked' = {w[2] : w \in waits} \cup {m.from : m \in Pending'}
      BY <1>0, <2>2, <2>3, <2>b
    <3>2. QED BY <1>0, <2>1, <2>2, <2>3, <2>a, <3>1 DEF OneRequestEach
  <2>4. CASE ~(waits' = waits /\ blocked' = blocked \ {msg.from})
    <3>1. /\ msg.type = "ClockWaitReq" /\ msg.ticks # 0 /\ blocked' = blocked
          /\ waits' = waits \cup {<<msg.ticks, msg.from>>}
      BY <1>5, <2>4, HandleStep
    <3>2. msg.ticks \in 0..MaxTicks /\ msg.ticks >= 1
      <4>1. msg.ticks \in 0..MaxTicks
        BY <2>1, <3>1, MessageKinds DEF FromClient
      <4>2. \A k \in 0..MaxTicks : k # 0 => k >= 1
        BY ClockAssumption
      <4>3. QED BY <3>1, <4>1, <4>2
    <3> DEFINE e == <<msg.ticks, msg.from>>
    <3>3. /\ e \in (0..MaxTicks) \X ClockClients /\ e[1] = msg.ticks /\ e[2] = msg.from
          /\ waits' = waits \cup {e}
      BY <2>1, <3>1, <3>2
    <3> HIDE DEF e
    <3>4. {w[2] : w \in waits'} = {w[2] : w \in waits} \cup {msg.from}
      BY <3>3
    <3>5. \A v, w \in waits' : v[2] = w[2] => v = w
      BY <1>0, <2>2, <3>3
    <3>6. blocked' = {w[2] : w \in waits'} \cup {m.from : m \in Pending'}
      BY <1>0, <2>1, <2>b, <3>1, <3>4
    <3>7. \A m \in Pending', w \in waits' : w[2] # m.from
      BY <1>0, <2>a, <3>3
    <3>8. waits' \subseteq (0..MaxTicks) \X ClockClients /\ \A w \in waits' : w[1] >= 1
      BY <1>0, <2>2, <3>2, <3>3
    <3>9. QED BY <1>0, <2>1, <2>a, <3>5, <3>6, <3>7, <3>8 DEF OneRequestEach
  <2>5. QED BY <2>3, <2>4
<1>6. ASSUME NEW c \in ClockClients, wait_ticks(c) \/ get_cur_tick(c)
      PROVE  OneRequestEach'
  <2>1. PICK n \in 0..MaxTicks, m \in Requests : ClockSend(c, m, n) /\ m.from = c
    BY <1>6, SendStep
  <2>2. /\ waits' = waits /\ c \notin blocked /\ blocked' = blocked \cup {c}
        /\ Pending' = Pending \cup {m}
        /\ server' = server \/ server' = "handle"
    BY <2>1, PendingMoves DEF ClockSend
  <2>3. \A w \in waits : w[2] # c /\ w[2] # m.from
    BY <1>0, <2>1, <2>2
  <2>4. \A l \in Pending : l.from # c
    BY <1>0, <2>2
  <2>5. {l.from : l \in Pending'} = {l.from : l \in Pending} \cup {c}
    BY <2>1, <2>2
  <2>6. blocked' = {w[2] : w \in waits'} \cup {l.from : l \in Pending'}
    BY <1>0, <2>2, <2>5
  <2>7. \A w \in waits : server' = "wake" \/ w[1] >= 1
    <3>1. server = "wake" => server' = "wake"
      BY <2>1 DEF ClockSend
    <3>2. QED BY <3>1 DEF OneRequestEach
  <2>8. server' = "start" => waits' = {}
    BY <2>2 DEF OneRequestEach
  <2>9. \A k, l \in Pending' : k.from = l.from => k = l
    BY <1>0, <2>1, <2>2, <2>4
  <2>10. \A l \in Pending', w \in waits' : w[2] # l.from
    BY <1>0, <2>2, <2>3
  <2>11. QED BY <1>0, <2>2, <2>6, <2>7, <2>8, <2>9, <2>10 DEF OneRequestEach
<1>7. QED
  BY <1>1, <1>2, <1>3, <1>4, <1>5, <1>6 DEF ClockNext, ClockServer

-----------------------------------------------------------------------------
(* How long the clients wait.                                              *)

\* A client at the clock's priority can be held up by others of it, no other can.
LEMMA SlackIs ==
  ASSUME NEW c
  PROVE  Slack(c) \in 0..MaxBusy /\ (c \notin UrgentClients => Slack(c) = 0)
BY ClockAssumption DEF Slack

\* The terms of the sum for one wait in the heap.
LEMMA WaitTerms ==
  ASSUME ClockInv, NEW w \in waits
  PROVE  /\ w[2] \in ClockClients /\ w[2] \in blocked /\ w[1] \in 0..MaxTicks
         /\ asked[w[2]] \in 0..MaxTicks
         /\ asked[w[2]] * Quantum \in Nat /\ w[1] * Quantum \in Nat
         /\ w[1] = 0 => w[1] * Quantum = 0
         /\ w[1] >= 1 => w[1] * Quantum >= Quantum
         /\ elapsed[w[2]] \in Nat /\ due \in Int /\ Slack(w[2]) \in Nat
         /\ asked[w[2]] * Quantum <= elapsed[w[2]] + due + w[1] * Quantum + Slack(w[2])
         /\ elapsed[w[2]] + due + w[1] * Quantum
              <= asked[w[2]] * Quantum + Quantum + Slack(w[2])
<1>1. w[2] \in ClockClients /\ w[1] \in 0..MaxTicks /\ w[2] \in blocked
  BY DEF ClockInv, OneRequestEach
<1>2. asked[w[2]] \in 0..MaxTicks /\ elapsed[w[2]] \in Nat /\ due \in Int
  BY <1>1 DEF ClockInv, WaitsAddUp, DeadlineKept
<1>3. /\ asked[w[2]] * Quantum \in Nat /\ w[1] * Quantum \in Nat
      /\ w[1] >= 1 => w[1] * Quantum >= Quantum
  BY <1>1, <1>2, LongestWait
<1>4. w[1] = 0 => w[1] * Quantum = 0
  BY ClockAssumption
<1>5. Slack(w[2]) \in Nat
  BY SlackIs, ClockAssumption
<1>6. QED BY <1>1, <1>2, <1>3, <1>4, <1>5 DEF ClockInv, WaitsAddUp

\* No client has waited longer than it asked for, the server's lateness with
\* the last tick and its slack.
LEMMA WaitBounded ==
  ASSUME ClockInv, SoonBlocked, NEW c \in blocked
  PROVE  /\ c \in ClockClients
         /\ elapsed[c] \in Nat /\ asked[c] * Quantum \in Nat
         /\ elapsed[c] <= asked[c] * Quantum + MaxBusy + Slack(c)
         /\ elapsed[c] < MaxElapsed
<1>0. MaxBusy \in Nat /\ Quantum \in Nat /\ busy \in 0..MaxBusy /\ due \in Int
  BY ClockAssumption DEF ClockInv, DeadlineKept
<1> DEFINE s == Slack(c)
<1>s. s \in 0..MaxBusy
  BY SlackIs
<1>1. c \in ClockClients /\ elapsed[c] <= asked[c] * Quantum + busy + s
  <2>1. CASE \E m \in Pending : c = m.from
    <3>1. PICK m \in Pending : c = m.from
      BY <2>1
    <3>2. c \in ClockClients
      BY <3>1, PendingIs DEF ClockInv
    <3>3. elapsed[c] \in Nat /\ asked[c] \in 0..MaxTicks /\ elapsed[c] <= busy
      BY <3>1, <3>2 DEF ClockInv, WaitsAddUp
    <3>4. asked[c] * Quantum \in Nat
      BY <3>3, LongestWait
    <3> HIDE DEF s
    <3>5. QED BY <1>0, <1>s, <3>2, <3>3, <3>4
  <2>2. CASE \E w \in waits : w[2] = c
    <3>1. PICK w \in waits : w[2] = c
      BY <2>2
    <3> DEFINE e == elapsed[c]  a == asked[c] * Quantum  l == w[1] * Quantum
    <3>2. /\ e \in Nat /\ a \in Nat /\ l \in Nat /\ e + due + l <= a + Quantum + s
          /\ w[1] \in 0..MaxTicks /\ (w[1] = 0 => l = 0) /\ (w[1] >= 1 => l >= Quantum)
      BY <3>1, WaitTerms
    <3>3. CASE w[1] >= 1
      <4>1. due + busy >= 0
        BY DeadlineRange
      <4> HIDE DEF e, a, l, s
      <4>2. e <= a + busy + s
        BY <1>0, <1>s, <3>2, <3>3, <4>1
      <4>3. QED BY <3>1, <4>2, WaitTerms DEF e, a
    <3>4. CASE ~(w[1] >= 1)
      <4>1. w[1] = 0
        <5>1. \A k \in 0..MaxTicks : ~(k >= 1) => k = 0
          BY ClockAssumption
        <5>2. QED BY <3>2, <3>4, <5>1
      <4>2. server = "wake"
        BY <3>4 DEF ClockInv, OneRequestEach
      <4>3. due + busy >= Quantum
        BY <4>2 DEF ClockInv, DeadlineKept
      <4> HIDE DEF e, a, l, s
      <4>4. e <= a + busy + s
        BY <1>0, <1>s, <3>2, <4>1, <4>3
      <4>5. QED BY <3>1, <4>4, WaitTerms DEF e, a
    <3>5. QED BY <3>3, <3>4
  <2>3. QED BY <2>1, <2>2 DEF ClockInv, OneRequestEach
<1>2. elapsed[c] \in Nat /\ asked[c] \in 0..MaxTicks
  BY <1>1 DEF ClockInv, WaitsAddUp
<1> DEFINE e == elapsed[c]  a == asked[c] * Quantum  m == MaxTicks * Quantum
<1>3. a \in Nat /\ a <= m /\ m \in Nat
  <2>1. m \in Nat
    BY ClockAssumption
  <2>2. QED BY <1>2, <2>1, LongestWait
<1>4. e \in Nat /\ e <= a + busy + s
  BY <1>1, <1>2
<1>5. MaxElapsed = m + 2 * MaxBusy + 1
  BY DEF MaxElapsed
<1> HIDE DEF e, a, m, s
<1>6. e <= a + MaxBusy + s /\ e < MaxElapsed
  BY <1>0, <1>s, <1>3, <1>4, <1>5
<1>7. QED BY <1>1, <1>3, <1>4, <1>6 DEF e, a, s

\* Time moves a wait's three terms against each other: a unit elapses as the
\* deadline comes a unit nearer, and a tick less is a deadline a QUANTUM later.
LEMMA SumsStay ==
  ASSUME ClockInv, SoonBlocked, ClockNext
  PROVE  WaitsAddUp'
<1> USE DEF ClockInv
<1>0. /\ MaxBusy \in Nat /\ Quantum \in Nat /\ due \in Int /\ busy \in 0..MaxBusy
      /\ asked \in [ClockClients -> 0..MaxTicks] /\ elapsed \in [ClockClients -> Nat]
      /\ \A c : Slack(c) \in Nat /\ Slack(c)' = Slack(c)
  BY ClockAssumption, SlackIs DEF WaitsAddUp, DeadlineKept, Slack
<1>1. CASE \/ Notifier \/ ServerStart \/ ServerRecv \/ HandleNotifier
           \/ \E c \in UrgentClients : OtherCall(c) \/ OtherWake(c)
  <2>1. UNCHANGED <<waits, asked, elapsed>> /\ Pending' = Pending
        /\ (busy' = busy \/ Pending = {})
        /\ (due' = due \/ (waits = {} /\ \A m \in Pending : m.from \in UrgentClients))
    <3>1. server = "start" => waits = {}
      BY DEF OneRequestEach
    <3>2. QED BY <1>1, <3>1, RequestsUntouched
  <2>2. QED BY <1>0, <2>1 DEF WaitsAddUp
<1>2. CASE Tick
  <2>1. /\ UNCHANGED <<waits, asked>> /\ due' = due - 1 /\ Pending' = Pending
        /\ elapsed' = [c \in ClockClients |->
             IF c \in blocked /\ elapsed[c] < MaxElapsed THEN elapsed[c] + 1 ELSE elapsed[c]]
        /\ busy' = IF ready = <<>> THEN 0 ELSE busy + 1
    BY <1>2, PendingMoves DEF Tick
  <2>2. \A c \in blocked : elapsed'[c] = elapsed[c] + 1
    BY <2>1, WaitBounded
  <2>3. elapsed' \in [ClockClients -> Nat]
    BY <1>0, <2>1
  <2>4. ASSUME NEW w \in waits'
        PROVE  /\ asked'[w[2]] * Quantum <= elapsed'[w[2]] + due' + w[1] * Quantum + Slack(w[2])
               /\ elapsed'[w[2]] + due' + w[1] * Quantum
                    <= asked'[w[2]] * Quantum + Quantum + Slack(w[2])
    <3> DEFINE e == elapsed[w[2]]  f == elapsed'[w[2]]  s == Slack(w[2])
               a == asked[w[2]] * Quantum  l == w[1] * Quantum
    <3>1. w \in waits
      BY <2>1
    <3>2. /\ e \in Nat /\ f = e + 1 /\ a \in Nat /\ l \in Nat /\ s \in Nat
          /\ a <= e + due + l + s /\ e + due + l <= a + Quantum + s
      BY <2>2, <3>1, WaitTerms
    <3>3. asked'[w[2]] * Quantum = a
      BY <2>1
    <3> HIDE DEF e, f, a, l, s
    <3>4. a <= f + due' + l + s /\ f + due' + l <= a + Quantum + s
      BY <1>0, <2>1, <3>2
    <3>5. QED BY <3>3, <3>4 DEF f, l, s
  <2>5. ASSUME NEW m \in Pending'
        PROVE  /\ asked'[m.from] = IF m.type = "ClockWaitReq" THEN m.ticks ELSE 0
               /\ elapsed'[m.from] <= busy'
               /\ m.from \notin UrgentClients => /\ 1 <= elapsed'[m.from] + due'
                                                 /\ elapsed'[m.from] + due' <= Quantum
    <3>1. m \in Pending
      BY <2>1, <2>5
    <3>2. m.from \in blocked /\ m.from \in ClockClients
      BY <3>1, PendingIs DEF OneRequestEach
    <3>3. busy' = busy + 1
      BY <2>1, <3>1, NobodyReady
    <3> DEFINE e == elapsed[m.from]  f == elapsed'[m.from]
    <3>4. /\ f = e + 1 /\ e \in Nat /\ e <= busy
          /\ m.from \notin UrgentClients => 1 <= e + due /\ e + due <= Quantum
      BY <1>0, <2>2, <3>1, <3>2 DEF WaitsAddUp
    <3>5. asked'[m.from] = IF m.type = "ClockWaitReq" THEN m.ticks ELSE 0
      BY <2>1, <3>1 DEF WaitsAddUp
    <3> HIDE DEF e, f
    <3>6. f <= busy' /\ (m.from \notin UrgentClients => 1 <= f + due' /\ f + due' <= Quantum)
      BY <1>0, <2>1, <3>3, <3>4
    <3>7. QED BY <3>5, <3>6 DEF f
  <2>6. QED BY <1>0, <2>1, <2>3, <2>4, <2>5 DEF WaitsAddUp
<1>3. CASE ServerArm
  <2>1. /\ server = "arm" /\ UNCHANGED <<asked, elapsed, busy>> /\ due' = due + Quantum
        /\ waits' = {<<w[1] - 1, w[2]>> : w \in waits} /\ Pending' = Pending
    BY <1>3, PendingMoves DEF ServerArm, history
  <2>2. \A m \in Pending : m.from \in UrgentClients
    <3>1. msg = NoMessage
      BY <2>1 DEF Handshake
    <3>2. QED BY <3>1, PendingIs, MessageKinds
  <2>3. ASSUME NEW v \in waits'
        PROVE  /\ asked'[v[2]] * Quantum <= elapsed'[v[2]] + due' + v[1] * Quantum + Slack(v[2])
               /\ elapsed'[v[2]] + due' + v[1] * Quantum
                    <= asked'[v[2]] * Quantum + Quantum + Slack(v[2])
    <3>1. PICK w \in waits : v = <<w[1] - 1, w[2]>>
      BY <2>1
    <3> DEFINE e == elapsed[w[2]]  a == asked[w[2]] * Quantum  s == Slack(w[2])
               k == w[1] * Quantum  l == v[1] * Quantum
    <3>2. /\ e \in Nat /\ a \in Nat /\ k \in Nat /\ w[1] \in 0..MaxTicks /\ s \in Nat
          /\ a <= e + due + k + s /\ e + due + k <= a + Quantum + s
      BY WaitTerms
    <3>3. l = k - Quantum
      <4>1. \A n \in 0..MaxTicks : n \in Int
        BY ClockAssumption
      <4>2. w[1] \in Int /\ v[1] = w[1] - 1
        BY <3>1, <3>2, <4>1
      <4>3. QED BY <4>2, OneTickLess
    <3>4. elapsed'[v[2]] = e /\ asked'[v[2]] * Quantum = a /\ Slack(v[2]) = s
      BY <2>1, <3>1
    <3> HIDE DEF e, a, k, l, s
    <3>5. a <= e + due' + l + s /\ e + due' + l <= a + Quantum + s
      BY <1>0, <2>1, <3>2, <3>3
    <3>6. QED BY <3>4, <3>5 DEF l
  <2>4. \A m \in Pending' : /\ asked'[m.from] = IF m.type = "ClockWaitReq" THEN m.ticks ELSE 0
                            /\ elapsed'[m.from] <= busy'
                            /\ m.from \in UrgentClients
    BY <2>1, <2>2 DEF WaitsAddUp
  <2>5. QED BY <1>0, <2>1, <2>3, <2>4 DEF WaitsAddUp
<1>4. CASE ServerWake
  <2>1. UNCHANGED <<due, asked, elapsed, busy>> /\ waits' \subseteq waits /\ Pending' = Pending
    BY <1>4, WakeStep, PendingMoves
  <2>2. QED BY <1>0, <2>1 DEF WaitsAddUp
<1>5. CASE HandleWait \/ HandleCurTick
  <2>1. /\ UNCHANGED <<due, asked, elapsed, busy>> /\ Pending' \subseteq Pending /\ msg \in Pending
        /\ \/ waits' = waits
           \/ /\ waits' = waits \cup {<<msg.ticks, msg.from>>} /\ msg.type = "ClockWaitReq"
    BY <1>5, HandleStep, PendingMoves
  <2>2. msg.from \in ClockClients
    BY <2>1, PendingIs
  <2>3. ASSUME NEW w \in waits', w \notin waits
        PROVE  /\ asked'[w[2]] * Quantum <= elapsed'[w[2]] + due' + w[1] * Quantum + Slack(w[2])
               /\ elapsed'[w[2]] + due' + w[1] * Quantum
                    <= asked'[w[2]] * Quantum + Quantum + Slack(w[2])
    <3>1. w = <<msg.ticks, msg.from>> /\ msg.type = "ClockWaitReq"
      BY <2>1, <2>3
    <3> DEFINE e == elapsed[msg.from]  a == asked[msg.from] * Quantum  s == Slack(msg.from)
    <3>2. /\ asked[msg.from] = msg.ticks /\ e <= busy /\ e \in Nat
          /\ msg.from \notin UrgentClients => 1 <= e + due /\ e + due <= Quantum
      BY <1>0, <2>1, <2>2, <3>1 DEF WaitsAddUp
    <3>3. /\ a \in Nat /\ s \in Nat /\ due + busy >= 0 /\ due <= Quantum
          /\ msg.from \in UrgentClients => s = MaxBusy
      BY <1>0, <2>2, LongestWait, DeadlineRange DEF Slack
    <3>4. /\ w[1] * Quantum = a /\ asked'[w[2]] * Quantum = a /\ elapsed'[w[2]] = e
          /\ due' = due /\ Slack(w[2]) = s
      BY <2>1, <3>1, <3>2
    <3> HIDE DEF e, a, s
    <3>5. a <= e + due + a + s /\ e + due + a <= a + Quantum + s
      <4>1. CASE msg.from \in UrgentClients
        BY <1>0, <3>2, <3>3, <4>1
      <4>2. CASE msg.from \notin UrgentClients
        BY <1>0, <3>2, <3>3, <4>2
      <4>3. QED BY <4>1, <4>2
    <3>6. QED BY <3>4, <3>5
  <2>4. ASSUME NEW w \in waits
        PROVE  /\ asked'[w[2]] * Quantum <= elapsed'[w[2]] + due' + w[1] * Quantum + Slack(w[2])
               /\ elapsed'[w[2]] + due' + w[1] * Quantum
                    <= asked'[w[2]] * Quantum + Quantum + Slack(w[2])
    BY <2>1 DEF WaitsAddUp
  <2>5. \A m \in Pending' :
          /\ asked'[m.from] = IF m.type = "ClockWaitReq" THEN m.ticks ELSE 0
          /\ elapsed'[m.from] <= busy'
          /\ m.from \notin UrgentClients => /\ 1 <= elapsed'[m.from] + due'
                                            /\ elapsed'[m.from] + due' <= Quantum
    BY <2>1 DEF WaitsAddUp
  <2>6. QED BY <1>0, <2>1, <2>3, <2>4, <2>5 DEF WaitsAddUp
<1>6. ASSUME NEW c \in ClockClients, wait_ticks(c) \/ get_cur_tick(c)
      PROVE  WaitsAddUp'
  <2>1. PICK n \in 0..MaxTicks, m \in Requests :
          /\ ClockSend(c, m, n) /\ m.from = c
          /\ n = IF m.type = "ClockWaitReq" THEN m.ticks ELSE 0
    BY <1>6, SendStep
  <2>2. /\ c \notin blocked /\ UNCHANGED <<waits, due>>
        /\ asked' = [asked EXCEPT ![c] = n] /\ elapsed' = [elapsed EXCEPT ![c] = 0]
        /\ Pending' = Pending \cup {m}
        /\ busy' = IF ready = <<>> THEN 0 ELSE busy
        /\ c \notin UrgentClients => ready = <<>>
    BY <2>1, PendingMoves DEF ClockSend
  <2>3. c \notin UrgentClients => 1 <= due /\ due <= Quantum
    BY <2>2, DeadlineRange DEF DeadlineKept
  <2>4. \A w \in waits : /\ asked'[w[2]] = asked[w[2]] /\ elapsed'[w[2]] = elapsed[w[2]]
    <3>1. \A w \in waits : w[2] # c /\ w[2] \in ClockClients
      BY <2>2, WaitTerms
    <3>2. QED BY <1>0, <2>2, <3>1
  <2>5. /\ asked' \in [ClockClients -> 0..MaxTicks] /\ elapsed' \in [ClockClients -> Nat]
        /\ asked'[c] = n /\ elapsed'[c] = 0
    BY <1>0, <2>2
  <2>6. ASSUME NEW w \in waits'
        PROVE  /\ asked'[w[2]] * Quantum <= elapsed'[w[2]] + due' + w[1] * Quantum + Slack(w[2])
               /\ elapsed'[w[2]] + due' + w[1] * Quantum
                    <= asked'[w[2]] * Quantum + Quantum + Slack(w[2])
    BY <2>2, <2>4 DEF WaitsAddUp
  <2>7. /\ asked'[m.from] = IF m.type = "ClockWaitReq" THEN m.ticks ELSE 0
        /\ elapsed'[m.from] <= busy'
        /\ m.from \notin UrgentClients => /\ 1 <= elapsed'[m.from] + due'
                                          /\ elapsed'[m.from] + due' <= Quantum
    BY <1>0, <2>1, <2>2, <2>3, <2>5
  <2>8. ASSUME NEW l \in Pending
        PROVE  /\ asked'[l.from] = IF l.type = "ClockWaitReq" THEN l.ticks ELSE 0
               /\ elapsed'[l.from] <= busy'
               /\ l.from \notin UrgentClients => /\ 1 <= elapsed'[l.from] + due'
                                                 /\ elapsed'[l.from] + due' <= Quantum
    <3>1. l.from # c /\ l.from \in ClockClients /\ ready # <<>>
      BY <2>2, PendingIs, NobodyReady DEF OneRequestEach
    <3>2. asked'[l.from] = asked[l.from] /\ elapsed'[l.from] = elapsed[l.from]
          /\ busy' = busy /\ due' = due
      BY <1>0, <2>2, <3>1
    <3>3. QED BY <3>2 DEF WaitsAddUp
  <2>9. QED BY <2>2, <2>5, <2>6, <2>7, <2>8 DEF WaitsAddUp
<1>7. QED
  BY <1>1, <1>2, <1>3, <1>4, <1>5, <1>6 DEF ClockNext, ClockServer

-----------------------------------------------------------------------------
(* The results.                                                            *)

\* The invariant implies what the run checks.
LEMMA InvariantOnTime ==
  ASSUME ClockInv, SoonBlocked
  PROVE  ClockOnTime
<1>1. ClockTypeOK
  <2>1. /\ \A i \in 1..Len(ready) : ready[i] \in {ServerTask, NotifierTask} \cup UrgentClients
        /\ \A i, j \in 1..Len(ready) : ready[i] = ready[j] => i = j
    <3>1. Members(ready) \subseteq Tasks
      BY QueueOps DEF ClockInv, ReadyAgrees
    <3>2. QED BY <3>1 DEF ClockInv, ReadyAgrees, Holds, Members, Tasks
  <2>2. /\ server \in {"start", "recv", "blocked", "handle", "arm", "wake"}
        /\ notifier \in {"send", "replying", "await", "event"}
    BY DEF ClockInv, Handshake
  <2>3. \A i \in 1..Len(clock_inbox) : clock_inbox[i].from \in {NotifierTask} \cup UrgentClients
    <3>1. Members(clock_inbox) \subseteq Queued
      BY QueueOps DEF ClockInv, Handshake
    <3>2. Notification.from = NotifierTask
      BY DEF Notification
    <3>3. QED BY <3>1, <3>2, MessageKinds DEF Members
  <2>4. ASSUME NEW i \in 1..Len(clock_inbox), NEW j \in 1..Len(clock_inbox),
               clock_inbox[i].from = clock_inbox[j].from
        PROVE  i = j
    <3>1. clock_inbox[i] \in Queued /\ clock_inbox[j] \in Queued
      <4>1. Members(clock_inbox) \subseteq Queued
        BY QueueOps DEF ClockInv, Handshake
      <4>2. QED BY <4>1 DEF Members
    <3>2. Notification.from = NotifierTask
      BY DEF Notification
    <3>3. \A m \in Requests : m.from # NotifierTask
      BY MessageKinds, TaskKinds
    <3>4. clock_inbox[i] = clock_inbox[j]
      <4>1. CASE clock_inbox[i] = Notification \/ clock_inbox[j] = Notification
        BY <2>4, <3>1, <3>2, <3>3, <4>1, MessageKinds
      <4>2. CASE clock_inbox[i] \in Requests /\ clock_inbox[j] \in Requests
        <5>1. clock_inbox[i] \in Pending /\ clock_inbox[j] \in Pending
          BY <4>2 DEF Pending, Members
        <5>2. QED BY <2>4, <5>1 DEF ClockInv, OneRequestEach
      <4>3. QED BY <3>1, <4>1, <4>2, MessageKinds
    <3>5. QED BY <3>4 DEF ClockInv, Handshake, Holds
  <2>5. due \in -MaxBusy..Quantum
    BY DeadlineRange
  <2>6. armed \in BOOLEAN /\ busy \in 0..MaxBusy
    BY DEF ClockInv, DeadlineKept
  <2>7. waits \subseteq (0..MaxTicks) \X ClockClients
    BY DEF ClockInv, OneRequestEach
  <2>8. blocked \subseteq ClockClients
    BY WaitBounded
  <2>9. QED BY <2>1, <2>2, <2>3, <2>4, <2>5, <2>6, <2>7, <2>8 DEF ClockTypeOK
<1>2. ClockAlive
  BY DeadlineRange DEF ClockAlive
<1>3. NotLate
  BY WaitBounded DEF NotLate
<1>4. QED BY <1>1, <1>2, <1>3 DEF ClockOnTime

\* A step answers a client's wait no sooner than one QUANTUM less than it asked
\* for, less its slack.
LEMMA AnsweredNotEarly ==
  ASSUME ClockInv, SoonBlocked, ClockNext, NEW c \in blocked \ blocked'
  PROVE  elapsed[c] >= (asked[c] - 1) * Quantum - Slack(c)
<1>0. Quantum \in Nat /\ due \in Int /\ due <= Quantum /\ Slack(c) \in Nat
  BY ClockAssumption, DeadlineRange, SlackIs DEF ClockInv, DeadlineKept
<1>1. c \in ClockClients /\ asked[c] \in 0..MaxTicks /\ asked[c] \in Int
  <2>1. c \in ClockClients
    BY WaitBounded
  <2>2. \A n \in 0..MaxTicks : n \in Int
    BY ClockAssumption
  <2>3. QED BY <2>1, <2>2 DEF ClockInv, WaitsAddUp
<1> DEFINE e == elapsed[c]  a == asked[c] * Quantum  b == (asked[c] - 1) * Quantum
           s == Slack(c)
<1>2. b = a - Quantum /\ a \in Nat /\ e \in Nat
  BY <1>1, OneTickLess, WaitBounded
<1>3. CASE ServerWake
  <2>1. PICK w \in waits : w[1] = 0 /\ blocked' = blocked \ {w[2]}
    BY <1>3, WakeStep
  <2>2. w[2] = c /\ w[1] * Quantum = 0
    BY <2>1, WaitTerms
  <2> DEFINE l == w[1] * Quantum
  <2>3. a <= e + due + l + s /\ l = 0
    BY <2>1, <2>2, WaitTerms
  <2>4. s \in Nat
    BY <1>0
  <2> HIDE DEF e, a, b, l, s
  <2>5. e >= b - s
    BY <1>0, <1>2, <2>3, <2>4
  <2>6. QED BY <2>5 DEF e, b, s
<1>4. CASE HandleWait \/ HandleCurTick
  <2>1. /\ msg \in Pending /\ msg.from = c
        /\ msg.type = "ClockWaitReq" => msg.ticks = 0
    <3>1. blocked' # blocked
      OBVIOUS
    <3>2. QED BY <1>4, <3>1, HandleStep
  <2>2. asked[c] = 0
    BY <2>1 DEF ClockInv, WaitsAddUp
  <2>3. a = 0 /\ s \in Nat
    BY <1>0, <2>2
  <2> HIDE DEF e, a, b, s
  <2>4. e >= b - s
    BY <1>0, <1>2, <2>3
  <2>5. QED BY <2>4 DEF e, b, s
<1>5. CASE \/ Notifier \/ ServerStart \/ ServerRecv \/ HandleNotifier
           \/ \E d \in UrgentClients : OtherCall(d) \/ OtherWake(d)
  BY <1>5, RequestsUntouched
<1>6. CASE Tick \/ ServerArm
  BY <1>6 DEF Tick, ServerArm
<1>7. CASE \E d \in ClockClients : wait_ticks(d) \/ get_cur_tick(d)
  BY <1>7 DEF wait_ticks, get_cur_tick, ClockSend
<1>8. QED
  BY <1>3, <1>4, <1>5, <1>6, <1>7 DEF ClockNext, ClockServer

\* Two tasks in a queue of two.
LEMMA PairOfTasks ==
  ASSUME NEW a, NEW b
  PROVE  <<a>> \o <<b>> = <<a, b>>
<1> DEFINE c == <<a>> \o <<b>>  d == <<a, b>>
<1>1. c \in Seq({a, b}) /\ Len(c) = 2 /\ c[1] = a /\ c[2] = b
  OBVIOUS
<1>2. d \in Seq({a, b}) /\ Len(d) = 2 /\ d[1] = a /\ d[2] = b
  OBVIOUS
<1> HIDE DEF c, d
<1>3. \A i \in 1..2 : c[i] = d[i]
  BY <1>1, <1>2
<1>4. c = d
  BY <1>1, <1>2, <1>3, SeqEqual
<1>5. QED BY <1>4 DEF c, d

\* The notifier and the server come behind the urgent clients that are ready.
LEMMA FirstQueue ==
  ASSUME NEW q \in Orders
  PROVE  \E S \in SUBSET UrgentClients :
           Holds(Tasks, q \o <<NotifierTask, ServerTask>>, S \cup {NotifierTask, ServerTask})
<1>1. PICK n \in 0..Cardinality(UrgentClients) :
        q \in [1..n -> UrgentClients] /\ \A i, j \in 1..n : q[i] = q[j] => i = j
  BY DEF Orders
<1>2. n \in Nat
  <2>1. Cardinality(UrgentClients) \in Nat
    BY ClockAssumption, FS_CardinalityType
  <2>2. QED BY <2>1
<1>3. q \in Seq(UrgentClients) /\ Len(q) = n
  BY <1>1, <1>2
<1> DEFINE S == Members(q)
<1>4. S \subseteq UrgentClients
  BY <1>1, <1>2, <1>3 DEF Members
<1>5. q \in Seq(Tasks)
  BY <1>3, TaskKinds
<1>6. Holds(Tasks, q, S)
  BY <1>1, <1>3, <1>5 DEF Holds
<1>7. q \o <<NotifierTask, ServerTask>> = Append(Append(q, NotifierTask), ServerTask)
  <2> DEFINE a == NotifierTask  b == ServerTask
  <2>1. a \in Tasks /\ b \in Tasks
    BY TaskKinds
  <2> HIDE DEF a, b
  <2>2. <<a>> \in Seq(Tasks) /\ <<b>> \in Seq(Tasks) /\ Append(q, a) \in Seq(Tasks)
    BY <1>5, <2>1
  <2>3. q \o <<a, b>> = q \o (<<a>> \o <<b>>)
    BY PairOfTasks
  <2>4. q \o (<<a>> \o <<b>>) = (q \o <<a>>) \o <<b>>
    BY <1>5, <2>2, ConcatAssociative
  <2>5. q \o <<a>> = Append(q, a) /\ Append(q, a) \o <<b>> = Append(Append(q, a), b)
    BY <1>5, <2>1, <2>2
  <2>6. QED BY <2>3, <2>4, <2>5 DEF a, b
<1> HIDE DEF S
<1>8. NotifierTask \in Tasks \ S /\ ServerTask \in Tasks \ (S \cup {NotifierTask})
  BY <1>4, TaskKinds
<1>9. Holds(Tasks, Append(q, NotifierTask), S \cup {NotifierTask})
  BY <1>6, <1>8, QueueOps
<1> DEFINE u == Append(q, NotifierTask)  U == S \cup {NotifierTask}
<1>10. Holds(Tasks, u, U) /\ ServerTask \in Tasks \ U
  BY <1>8, <1>9
<1> HIDE DEF u, U
<1>11. Holds(Tasks, Append(u, ServerTask), U \cup {ServerTask})
  BY <1>10, QueueOps
<1>12. U \cup {ServerTask} = S \cup {NotifierTask, ServerTask}
  BY DEF U
<1>13. QED BY <1>4, <1>7, <1>11, <1>12 DEF u

\* The invariant holds initially, _start having created the notifier, and is
\* kept by every step of clock_server.rs, clock_notifier.rs, the timer and the
\* clients.
LEMMA ClockInvariance ==
  ASSUME SoonBlocked
  PROVE  ClockInit /\ [][ClockNext]_clockvars => []ClockInv
<1>1. ClockInit => ClockInv
  <2> SUFFICES ASSUME ClockInit
               PROVE  ClockInv
    OBVIOUS
  <2>1. /\ server = "start" /\ notifier = "send"
        /\ clock_inbox = <<>> /\ msg = NoMessage /\ due = 0 /\ armed = FALSE
        /\ waits = {} /\ blocked = {} /\ busy = 0
        /\ asked = [c \in ClockClients |-> 0] /\ elapsed = [c \in ClockClients |-> 0]
    BY DEF ClockInit
  <2>2. Members(clock_inbox) = {} /\ Holds(Queued, clock_inbox, Members(clock_inbox))
    BY <2>1, SmallQueues DEF Holds
  <2>3. ReadyAgrees
    <3>1. PICK S \in SUBSET UrgentClients :
            Holds(Tasks, ready, S \cup {NotifierTask, ServerTask})
      BY FirstQueue DEF ClockInit
    <3>2. Members(ready) = S \cup {NotifierTask, ServerTask}
      BY <3>1 DEF Holds
    <3>3. QED BY <2>1, <3>1, <3>2 DEF ReadyAgrees
  <2>4. Handshake
    BY <2>1, <2>2, MessageKinds DEF Handshake
  <2>5. DeadlineKept
    <3>1. 0 \in 0..MaxBusy
      BY ClockAssumption
    <3>2. Late
      BY <2>1 DEF Late
    <3>3. due \in Int /\ due <= 0 /\ due + busy >= 0
      BY <2>1
    <3>4. armed \in BOOLEAN /\ ~armed /\ notifier # "await" /\ server # "wake"
      BY <2>1
    <3>5. QED BY <2>1, <3>1, <3>2, <3>3, <3>4 DEF DeadlineKept
  <2>6. Pending = {}
    BY <2>1, <2>2, MessageKinds DEF Pending
  <2>7. OneRequestEach
    BY <2>1, <2>6 DEF OneRequestEach
  <2>8. WaitsAddUp
    <3>1. 0 \in 0..MaxTicks
      BY ClockAssumption
    <3>2. QED BY <2>1, <2>6, <3>1 DEF WaitsAddUp
  <2>9. QED BY <2>3, <2>4, <2>5, <2>7, <2>8 DEF ClockInv
<1>2. ClockInv /\ [ClockNext]_clockvars => ClockInv'
  <2> SUFFICES ASSUME ClockInv, [ClockNext]_clockvars
               PROVE  ClockInv'
    OBVIOUS
  <2>1. CASE ClockNext
    BY <2>1, ControlKept, DeadlineStays, RequestsStay, SumsStay DEF ClockInv
  <2>2. CASE UNCHANGED clockvars
    BY <2>2 DEF clockvars, history, ClockInv, ReadyAgrees, Handshake, DeadlineKept, Late,
                OneRequestEach, WaitsAddUp, Pending
  <2>3. QED BY <2>1, <2>2
<1>3. QED BY <1>1, <1>2, PTL

\* The clock never stops, and no wait_ticks ends late: clock_server.rs counts
\* every deadline from the one before it, so that its lateness with a tick is
\* made up for before the next.
THEOREM OnTimeTheorem ==
  ASSUME SoonBlocked
  PROVE  ClockSpec => []ClockOnTime
<1>1. ClockInv => ClockOnTime
  BY InvariantOnTime
<1>2. QED BY <1>1, ClockInvariance, PTL DEF ClockSpec

\* No wait_ticks ends more than a QUANTUM early, and at the clock's own priority
\* no more than a QUANTUM and the slack: the loop of clock_server.rs that answers
\* the clients answers none whose time is not up.
THEOREM NotEarlyTheorem ==
  ASSUME SoonBlocked
  PROVE  ClockSpec => NotEarly
<1>1. ClockInv /\ [ClockNext]_clockvars
        => [\A c \in blocked \ blocked' :
              elapsed[c] >= (asked[c] - 1) * Quantum - Slack(c)]_clockvars
  BY AnsweredNotEarly
<1>2. QED BY <1>1, ClockInvariance, PTL DEF ClockSpec, NotEarly

-----------------------------------------------------------------------------
(* The inductive invariant.                                                *)

IntrMsg  == [type |-> "RpiUartIntr"]
RxMsgs   == [type : {"RpiUartRxReq"}, from : SerialClients, len : RxLens]
TxMsgs   == [type : {"RpiUartTxReq"}, from : SerialClients, len : TxLens,
             blocking : BOOLEAN]
SerialMessages == {IntrMsg} \cup RxMsgs \cup TxMsgs

\* What handle_intr has left to do, from its reply to the broker onwards; the
\* other handlers run the ends of it.
FromReply == <<"reply", "arm_rx", "read", "write">>
FromArmRx == <<"arm_rx", "read", "write">>
FromSetRx == <<"set_rx", "read", "write">>
Writes    == {FromReply, FromArmRx, FromSetRx, <<"read", "write">>, <<"answer", "write">>,
              <<"write">>, <<"arm_tx">>, <<"set_tx">>}
Todos     == Writes \cup {<<>>, <<"read">>, <<"answer">>}

Inputs == serial_inbox \in Seq(SerialMessages) /\ todo \in Todos

NoIntr(s)     == \A i \in 1..Len(s) : s[i] # IntrMsg
SingleIntr(s) == \A i, j \in 1..Len(s) : s[i] = IntrMsg /\ s[j] = IntrMsg => i = j

\* The broker waits for the reply to one message, which is in the inbox or which
\* the server handles; it is on its way to the kernel only while the server has
\* not armed the receive interrupt.
BrokerOwed ==
  /\ SingleIntr(serial_inbox)
  /\ ~NoIntr(serial_inbox) => broker = "sent" /\ todo # FromReply
  /\ todo = FromReply => broker = "sent"
  /\ broker = "await" => ~dead /\ todo = FromArmRx

\* While the broker waits for an interrupt, the receive interrupt is armed or is
\* the next thing the server arms, and the server that is arming the transmit
\* interrupt has read that it is: the kernel cannot have masked the device since
\* without waking the broker.  If bytes are left, the transmit interrupt is armed
\* or the server is still to write.
ArmedOrBusy ==
  ~dead /\ broker = "event" =>
    /\ rx_armed \/ todo = FromArmRx \/ todo = FromSetRx
    /\ todo = <<"set_tx">> => status
    /\ tx_buf > 0 => tx_armed \/ todo \in Writes

SerialInv == TxQueueInOrder /\ Inputs /\ BrokerOwed /\ ArmedOrBusy

-----------------------------------------------------------------------------
(* Inbox and program.                                                      *)

\* ker_recv takes the oldest message out of the inbox.
LEMMA InboxTail ==
  ASSUME NEW s \in Seq(SerialMessages), s # <<>>, SingleIntr(s)
  PROVE  /\ Head(s) \in SerialMessages /\ Tail(s) \in Seq(SerialMessages)
         /\ SingleIntr(Tail(s))
         /\ Head(s) = IntrMsg => ~NoIntr(s) /\ NoIntr(Tail(s))
         /\ NoIntr(s) => NoIntr(Tail(s))
<1> DEFINE t == Tail(s)
<1>1. /\ Len(s) \in Nat /\ Len(s) >= 1 /\ Head(s) = s[1] /\ s[1] \in SerialMessages
      /\ t \in Seq(SerialMessages) /\ Len(t) = Len(s) - 1
      /\ \A i \in 1..Len(t) : t[i] = s[i + 1]
  BY HeadTailProperties, EmptySeq
<1> HIDE DEF t
<1>2. \A i \in 1..Len(t) : i + 1 \in 1..Len(s) /\ t[i] = s[i + 1] /\ i + 1 # 1
  BY <1>1
<1>3. 1 \in 1..Len(s)
  BY <1>1
<1>4. SingleIntr(t)
  <2> SUFFICES ASSUME NEW i \in 1..Len(t), NEW j \in 1..Len(t), t[i] = IntrMsg, t[j] = IntrMsg
               PROVE  i = j
    BY DEF SingleIntr
  <2>1. i + 1 = j + 1
    BY <1>2 DEF SingleIntr
  <2>2. QED BY <2>1
<1>5. ASSUME Head(s) = IntrMsg
      PROVE  ~NoIntr(s) /\ NoIntr(t)
  BY <1>1, <1>2, <1>3, <1>5 DEF SingleIntr, NoIntr
<1>6. NoIntr(s) => NoIntr(t)
  BY <1>2 DEF NoIntr
<1>7. QED BY <1>1, <1>4, <1>5, <1>6 DEF t

\* ker_send puts a message behind those in the inbox.
LEMMA InboxAppend ==
  ASSUME NEW s \in Seq(SerialMessages), NEW m \in SerialMessages,
         SingleIntr(s), m = IntrMsg => NoIntr(s)
  PROVE  /\ Append(s, m) \in Seq(SerialMessages)
         /\ SingleIntr(Append(s, m))
         /\ m # IntrMsg /\ NoIntr(s) => NoIntr(Append(s, m))
         /\ m = IntrMsg => ~NoIntr(Append(s, m))
<1> DEFINE t == Append(s, m)
<1>1. /\ Len(s) \in Nat /\ t \in Seq(SerialMessages) /\ Len(t) = Len(s) + 1
      /\ \A i \in 1..Len(s) : t[i] = s[i]
      /\ t[Len(s) + 1] = m
  BY AppendProperties
<1> HIDE DEF t
<1>2. /\ \A i \in 1..Len(t) : i = Len(s) + 1 \/ i \in 1..Len(s)
      /\ Len(s) + 1 \in 1..Len(t)
  BY <1>1
<1>3. SingleIntr(t)
  BY <1>1, <1>2 DEF SingleIntr, NoIntr
<1>4. m # IntrMsg /\ NoIntr(s) => NoIntr(t)
  BY <1>1, <1>2 DEF NoIntr
<1>5. m = IntrMsg => ~NoIntr(t)
  BY <1>1, <1>2 DEF NoIntr
<1>6. QED BY <1>1, <1>3, <1>4, <1>5 DEF t

\* A message says by its type whose it is.
LEMMA MessageTypes ==
  \A m \in SerialMessages :
    /\ m.type = "RpiUartIntr" <=> m = IntrMsg
    /\ m.type = "RpiUartRxReq" <=> m \in RxMsgs
    /\ m.type = "RpiUartTxReq" <=> m \in TxMsgs
BY DEF SerialMessages, IntrMsg, RxMsgs, TxMsgs

\* A step put before the one that is left.
LEMMA PairOfSteps ==
  ASSUME NEW a, NEW b
  PROVE  <<a>> \o <<b>> = <<a, b>>
<1> DEFINE c == <<a>> \o <<b>>  d == <<a, b>>
<1>1. c \in Seq({a, b}) /\ Len(c) = 2 /\ c[1] = a /\ c[2] = b
  OBVIOUS
<1>2. d \in Seq({a, b}) /\ Len(d) = 2 /\ d[1] = a /\ d[2] = b
  OBVIOUS
<1> HIDE DEF c, d
<1>3. \A i \in 1..2 : c[i] = d[i]
  BY <1>1, <1>2
<1>4. c = d
  BY <1>1, <1>2, <1>3, SeqEqual
<1>5. QED BY <1>4 DEF c, d

\* The same before two that are left.
LEMMA StepBeforeTwo ==
  ASSUME NEW a, NEW b, NEW c
  PROVE  <<a>> \o <<b, c>> = <<a, b, c>>
<1> DEFINE x == <<a>> \o <<b, c>>  y == <<a, b, c>>
<1>1. x \in Seq({a, b, c}) /\ Len(x) = 3 /\ x[1] = a /\ x[2] = b /\ x[3] = c
  OBVIOUS
<1>2. y \in Seq({a, b, c}) /\ Len(y) = 3 /\ y[1] = a /\ y[2] = b /\ y[3] = c
  OBVIOUS
<1> HIDE DEF x, y
<1>3. \A i \in 1..3 : x[i] = y[i]
  BY <1>1, <1>2
<1>4. x = y
  BY <1>1, <1>2, <1>3, SeqEqual
<1>5. QED BY <1>4 DEF x, y

\* The step the server is at tells what it has left to do.
LEMMA TodoFrom ==
  ASSUME todo \in Todos, todo # <<>>
  PROVE  /\ Head(todo) = "reply"  => todo = FromReply /\ Tail(todo) = FromArmRx
         /\ Head(todo) = "arm_rx" => todo = FromArmRx /\ <<"set_rx">> \o Tail(todo) = FromSetRx
         /\ Head(todo) = "set_rx" => todo = FromSetRx /\ Tail(todo) = <<"read", "write">>
         /\ Head(todo) = "read"   =>
              \/ todo = <<"read">> /\ <<"answer">> \o Tail(todo) = <<"answer">>
              \/ todo = <<"read", "write">> /\ <<"answer">> \o Tail(todo) = <<"answer", "write">>
         /\ Head(todo) = "answer" =>
              \/ todo = <<"answer">> /\ Tail(todo) = <<>>
              \/ todo = <<"answer", "write">> /\ Tail(todo) = <<"write">>
         /\ Head(todo) = "write"  => /\ todo = <<"write">> /\ Tail(todo) = <<>>
                                    /\ <<"arm_tx">> \o Tail(todo) = <<"arm_tx">>
         /\ Head(todo) = "arm_tx" => /\ todo = <<"arm_tx">>
                                     /\ <<"set_tx">> \o Tail(todo) = <<"set_tx">>
         /\ Head(todo) = "set_tx" => todo = <<"set_tx">> /\ Tail(todo) = <<>>
<1>1. CASE todo = FromReply
  BY <1>1 DEF FromReply, FromArmRx
<1>2. CASE todo = FromArmRx
  <2>1. Head(todo) = "arm_rx" /\ Tail(todo) = <<"read", "write">>
    BY <1>2 DEF FromArmRx
  <2>2. <<"set_rx">> \o <<"read", "write">> = <<"set_rx", "read", "write">>
    BY StepBeforeTwo
  <2>3. QED BY <1>2, <2>1, <2>2 DEF FromSetRx
<1>3. CASE todo = <<"read", "write">>
  <2>1. Head(todo) = "read" /\ Tail(todo) = <<"write">>
    BY <1>3
  <2>2. <<"answer">> \o <<"write">> = <<"answer", "write">>
    BY PairOfSteps
  <2>3. QED BY <1>3, <2>1, <2>2
<1>4. CASE todo = <<"answer", "write">>
  BY <1>4
<1>5. CASE todo = <<"read">>
  <2>1. Head(todo) = "read" /\ Tail(todo) = <<>> /\ <<"answer">> \o <<>> = <<"answer">>
    BY <1>5
  <2>2. QED BY <1>5, <2>1
<1>6. CASE todo = <<"answer">>
  BY <1>6
<1>7. CASE todo = <<"write">>
  <2>1. Head(todo) = "write" /\ Tail(todo) = <<>> /\ <<"arm_tx">> \o <<>> = <<"arm_tx">>
    BY <1>7
  <2>2. QED BY <1>7, <2>1
<1>8. CASE todo = <<"arm_tx">>
  <2>1. Head(todo) = "arm_tx" /\ Tail(todo) = <<>> /\ <<"set_tx">> \o <<>> = <<"set_tx">>
    BY <1>8
  <2>2. QED BY <1>8, <2>1
<1>9. CASE todo = FromSetRx
  BY <1>9 DEF FromSetRx
<1>10. CASE todo = <<"set_tx">>
  BY <1>10
<1>11. QED
  BY <1>1, <1>2, <1>3, <1>4, <1>5, <1>6, <1>7, <1>8, <1>9, <1>10 DEF Todos, Writes

-----------------------------------------------------------------------------
(* What each step does with the inbox, the steps left and the broker.      *)

\* Steps of the device, the kernel, the broker and the clients.
LEMMA OutsideControl ==
  ASSUME SerialInv,
         \/ RxArrive \/ TxDrain \/ process_intr_uart_id \/ Broker
         \/ \E c \in SerialClients : \/ \E n \in RxLens : ClientRx(c, n)
                                    \/ \E n \in TxLens, b \in BOOLEAN : ClientTx(c, n, b)
  PROVE  Inputs' /\ BrokerOwed' /\ ArmedOrBusy'
<1> USE DEF SerialInv
<1>0. serial_inbox \in Seq(SerialMessages) /\ SingleIntr(serial_inbox)
  BY DEF Inputs, BrokerOwed
<1>1. CASE RxArrive \/ TxDrain
  <2>1. UNCHANGED <<status, rx_armed, tx_armed, serial_inbox, todo, dead, broker, tx_buf>>
    BY <1>1 DEF RxArrive, TxDrain, buffers
  <2>2. QED BY <2>1 DEF Inputs, BrokerOwed, ArmedOrBusy
<1>2. CASE process_intr_uart_id
  <2>1. /\ UNCHANGED <<serial_inbox, todo, dead>>
        /\ broker' = IF broker = "event" THEN "send" ELSE broker
    BY <1>2 DEF process_intr_uart_id
  <2>2. broker' # "event"
    BY <2>1
  <2>3. QED BY <2>1, <2>2 DEF Inputs, BrokerOwed, ArmedOrBusy
<1>3. CASE BrokerSend
  <2>1. /\ broker = "send" /\ broker' = "sent" /\ UNCHANGED <<todo, dead>>
        /\ serial_inbox' = Append(serial_inbox, IntrMsg)
    BY <1>3 DEF BrokerSend, IntrMsg
  <2>2. NoIntr(serial_inbox) /\ todo # FromReply
    BY <2>1 DEF BrokerOwed
  <2>3. serial_inbox' \in Seq(SerialMessages) /\ SingleIntr(serial_inbox')
    BY <1>0, <2>1, <2>2, InboxAppend DEF SerialMessages
  <2>4. QED BY <2>1, <2>2, <2>3 DEF Inputs, BrokerOwed, ArmedOrBusy
<1>4. CASE BrokerAwait
  <2>1. /\ broker = "await" /\ broker' = "event"
        /\ UNCHANGED <<status, serial_inbox, todo, dead, rx_armed, tx_armed, tx_buf>>
    BY <1>4 DEF BrokerAwait, device, buffers
  <2>2. todo = FromArmRx
    BY <2>1 DEF BrokerOwed
  <2>3. NoIntr(serial_inbox) /\ todo # FromReply /\ todo \in Writes /\ todo # <<"set_tx">>
    BY <2>1, <2>2 DEF BrokerOwed, FromReply, FromArmRx, Writes
  <2>4. QED BY <2>1, <2>2, <2>3 DEF Inputs, BrokerOwed, ArmedOrBusy
<1>5. ASSUME NEW c \in SerialClients,
             NEW m \in RxMsgs \cup TxMsgs, SerialSend(c, m)
      PROVE  Inputs' /\ BrokerOwed' /\ ArmedOrBusy'
  <2>1. /\ serial_inbox' = Append(serial_inbox, m)
        /\ UNCHANGED <<status, todo, dead, broker, rx_armed, tx_armed, tx_buf>>
    BY <1>5 DEF SerialSend, device, buffers
  <2>2. m \in SerialMessages /\ m # IntrMsg
    BY DEF SerialMessages, IntrMsg, RxMsgs, TxMsgs
  <2>3. /\ serial_inbox' \in Seq(SerialMessages) /\ SingleIntr(serial_inbox')
        /\ NoIntr(serial_inbox) => NoIntr(serial_inbox')
    BY <1>0, <2>1, <2>2, InboxAppend
  <2>4. QED BY <2>1, <2>3 DEF Inputs, BrokerOwed, ArmedOrBusy
<1>6. ASSUME NEW c \in SerialClients, NEW n \in RxLens, ClientRx(c, n)
      PROVE  Inputs' /\ BrokerOwed' /\ ArmedOrBusy'
  <2> DEFINE m == [type |-> "RpiUartRxReq", from |-> c, len |-> n]
  <2>1. m \in RxMsgs \cup TxMsgs /\ SerialSend(c, m)
    BY <1>6 DEF ClientRx, RxMsgs
  <2> HIDE DEF m
  <2>2. QED BY <1>5, <2>1
<1>7. ASSUME NEW c \in SerialClients, NEW n \in TxLens, NEW b \in BOOLEAN, ClientTx(c, n, b)
      PROVE  Inputs' /\ BrokerOwed' /\ ArmedOrBusy'
  <2> DEFINE m == [type |-> "RpiUartTxReq", from |-> c, len |-> n, blocking |-> b]
  <2>1. m \in RxMsgs \cup TxMsgs /\ SerialSend(c, m)
    BY <1>7 DEF ClientTx, TxMsgs
  <2> HIDE DEF m
  <2>2. QED BY <1>5, <2>1
<1>8. QED BY <1>1, <1>2, <1>3, <1>4, <1>6, <1>7 DEF Broker

\* Handlers of the main loop.
LEMMA HandlerControl ==
  ASSUME SerialInv, handle_rx_req \/ handle_tx_req \/ handle_intr
  PROVE  Inputs' /\ BrokerOwed' /\ ArmedOrBusy'
<1> USE DEF SerialInv
<1>0. /\ ~dead /\ broker \in {"sent", "event"} /\ todo = <<>> /\ serial_inbox # <<>>
      /\ serial_inbox' = Tail(serial_inbox) /\ broker' = broker
      /\ UNCHANGED <<rx_armed, tx_armed>>
  BY DEF handle_rx_req, handle_tx_req, handle_intr, Receive, device
<1>1. serial_inbox \in Seq(SerialMessages) /\ SingleIntr(serial_inbox)
  BY DEF Inputs, BrokerOwed
<1>2. /\ Head(serial_inbox) \in SerialMessages
      /\ serial_inbox' \in Seq(SerialMessages) /\ SingleIntr(serial_inbox')
      /\ Head(serial_inbox) = IntrMsg => ~NoIntr(serial_inbox) /\ NoIntr(serial_inbox')
      /\ NoIntr(serial_inbox) => NoIntr(serial_inbox')
  BY <1>0, <1>1, InboxTail
<1>3. /\ <<>> \notin Writes /\ <<>> # FromArmRx /\ <<>> # FromSetRx /\ <<>> # FromReply
      /\ FromReply # <<"set_tx">> /\ FromReply # FromArmRx
  BY DEF Writes, FromArmRx, FromSetRx, FromReply
<1>4. CASE handle_rx_req
  <2>1. todo' = <<"read">> /\ UNCHANGED <<dead, tx_buf>>
    BY <1>4 DEF handle_rx_req
  <2>2. todo' \in Todos /\ todo' # FromReply /\ todo' # <<"set_tx">>
    BY <2>1 DEF Todos, FromReply
  <2>3. Inputs' /\ BrokerOwed'
    BY <1>0, <1>2, <2>1, <2>2 DEF Inputs, BrokerOwed
  <2>4. QED BY <1>0, <1>3, <2>1, <2>2, <2>3 DEF ArmedOrBusy
<1>5. CASE handle_tx_req
  <2>1. \/ todo' = <<"write">> /\ dead' = dead
        \/ todo' = <<>> /\ dead' = TRUE
    BY <1>5 DEF handle_tx_req, Panic
  <2>2. /\ todo' \in Todos /\ todo' # FromReply /\ todo' # <<"set_tx">>
        /\ dead' \/ todo' \in Writes
    BY <2>1 DEF Todos, Writes, FromReply
  <2>3. Inputs' /\ BrokerOwed'
    BY <1>0, <1>2, <2>2 DEF Inputs, BrokerOwed
  <2>4. QED BY <1>0, <1>3, <2>1, <2>2, <2>3 DEF ArmedOrBusy
<1>6. CASE handle_intr
  <2>1. todo' = FromReply /\ UNCHANGED <<dead, tx_buf>> /\ Head(serial_inbox) = IntrMsg
    BY <1>2, <1>6, MessageTypes DEF handle_intr, Receive, FromReply, buffers
  <2>2. todo' \in Todos
    BY <2>1 DEF Todos, Writes
  <2>3. broker = "sent" /\ NoIntr(serial_inbox')
    BY <1>2, <2>1 DEF BrokerOwed
  <2>4. QED BY <1>0, <1>2, <1>3, <2>1, <2>2, <2>3 DEF Inputs, BrokerOwed, ArmedOrBusy
<1>7. QED BY <1>4, <1>5, <1>6

\* The steps of rearm, read and write.
LEMMA ServerControl ==
  ASSUME SerialInv,
         \/ RearmReply \/ ReadMask \/ RearmRx \/ GetByte \/ FifoEmpty \/ Answer
         \/ PutByte \/ FifoFull \/ ArmTx \/ WriteDone
  PROVE  Inputs' /\ BrokerOwed' /\ ArmedOrBusy'
<1> USE DEF SerialInv
<1>0. /\ ~dead /\ broker \in {"sent", "event"} /\ todo # <<>> /\ todo \in Todos
      /\ serial_inbox' = serial_inbox
  BY DEF RearmReply, ReadMask, RearmRx, GetByte, FifoEmpty, Answer, PutByte, FifoFull, ArmTx,
         WriteDone, Runs, Inputs
<1>1. /\ \A x \in {<<>>, <<"read">>, <<"answer">>, <<"write">>, <<"arm_tx">>, <<"read", "write">>,
                   <<"answer", "write">>} :
           /\ x \in Todos /\ x # FromReply /\ x # FromArmRx /\ x # FromSetRx
           /\ x # <<"set_tx">>
      /\ FromReply \in Writes /\ FromArmRx \in Writes /\ FromSetRx \in Writes
      /\ FromArmRx # FromReply /\ FromSetRx # FromReply
      /\ FromArmRx # <<"set_tx">> /\ FromSetRx # <<"set_tx">>
      /\ <<"set_tx">> # FromReply /\ <<"set_tx">> # FromArmRx /\ <<"set_tx">> # FromSetRx
      /\ \A x \in {<<"write">>, <<"arm_tx">>, <<"set_tx">>, <<"read", "write">>,
                   <<"answer", "write">>} : x \in Writes
      /\ \A x \in {<<>>, <<"read">>, <<"answer">>} : x \notin Writes
      /\ \A x \in Writes : x \in Todos
  BY DEF Todos, Writes, FromReply, FromArmRx, FromSetRx
<1>2. CASE RearmReply
  <2>1. broker' = "await" /\ todo = FromReply /\ todo' = FromArmRx /\ dead' = dead
    BY <1>0, <1>2, TodoFrom DEF RearmReply, Runs
  <2>2. NoIntr(serial_inbox)
    BY <2>1 DEF BrokerOwed
  <2>3. QED BY <1>0, <1>1, <2>1, <2>2 DEF Inputs, BrokerOwed, ArmedOrBusy
<1>3. CASE RearmRx
  <2>1. /\ todo = FromSetRx /\ todo' = <<"read", "write">> /\ rx_armed' = TRUE
        /\ UNCHANGED <<broker, dead>>
    BY <1>0, <1>3, TodoFrom DEF RearmRx, Runs
  <2>2. QED BY <1>0, <1>1, <2>1 DEF Inputs, BrokerOwed, ArmedOrBusy
<1>4. CASE ReadMask
  <2>1. UNCHANGED <<broker, dead, rx_armed, tx_armed, tx_buf>>
    BY <1>4 DEF ReadMask, device, buffers
  <2>2. \/ todo = FromArmRx /\ todo' = FromSetRx
        \/ todo = <<"arm_tx">> /\ todo' = <<"set_tx">> /\ status' = rx_armed
    <3>1. CASE Head(todo) = "arm_rx"
      <4>1. todo' = <<"set_rx">> \o Tail(todo)
        BY <1>4, <3>1 DEF ReadMask
      <4>2. QED BY <1>0, <3>1, <4>1, TodoFrom
    <3>2. CASE Head(todo) # "arm_rx"
      <4>1. /\ Head(todo) = "arm_tx" /\ todo' = <<"set_tx">> \o Tail(todo)
            /\ status' = rx_armed
        BY <1>4, <3>2 DEF ReadMask, Runs
      <4>2. QED BY <1>0, <4>1, TodoFrom
    <3>3. QED BY <3>1, <3>2
  <2>3. Inputs' /\ BrokerOwed'
    BY <1>0, <1>1, <2>1, <2>2 DEF Inputs, BrokerOwed
  <2>4. CASE todo = FromArmRx /\ todo' = FromSetRx
    BY <1>1, <2>1, <2>3, <2>4 DEF ArmedOrBusy
  <2>5. CASE todo = <<"arm_tx">> /\ todo' = <<"set_tx">> /\ status' = rx_armed
    BY <1>0, <1>1, <2>1, <2>3, <2>5 DEF ArmedOrBusy
  <2>6. QED BY <2>2, <2>4, <2>5
<1>5. CASE GetByte
  <2>1. /\ UNCHANGED <<broker, rx_armed, tx_armed, tx_buf>>
        /\ todo \in {<<"read">>, <<"read", "write">>}
        /\ \/ todo' = todo /\ dead' = dead
           \/ todo' = <<>> /\ dead' = TRUE
    BY <1>0, <1>5, TodoFrom DEF GetByte, Runs, Panic
  <2>2. Inputs' /\ BrokerOwed'
    BY <1>0, <1>1, <2>1 DEF Inputs, BrokerOwed
  <2>3. CASE todo' = todo /\ dead' = dead
    BY <1>1, <2>1, <2>2, <2>3 DEF ArmedOrBusy
  <2>4. CASE dead' = TRUE
    BY <2>2, <2>4 DEF ArmedOrBusy
  <2>5. QED BY <2>1, <2>3, <2>4
<1>6. CASE FifoEmpty \/ Answer
  <2>1. /\ UNCHANGED <<broker, dead, rx_armed, tx_armed, tx_buf>>
        /\ todo' \in Todos /\ todo' # FromReply /\ todo' # <<"set_tx">>
        /\ todo # FromArmRx /\ todo # FromSetRx
        /\ todo \in Writes => todo' \in Writes
    <3>1. CASE FifoEmpty
      BY <1>0, <1>1, <3>1, TodoFrom DEF FifoEmpty, Runs, device, buffers
    <3>2. CASE Answer
      BY <1>0, <1>1, <3>2, TodoFrom DEF Answer, Runs, device
    <3>3. QED BY <1>6, <3>1, <3>2
  <2>2. Inputs' /\ BrokerOwed'
    BY <1>0, <2>1 DEF Inputs, BrokerOwed
  <2>3. QED BY <2>1, <2>2 DEF ArmedOrBusy
<1>7. CASE PutByte \/ FifoFull
  <2>1. /\ UNCHANGED <<broker, dead, rx_armed>>
        /\ todo = <<"write">> /\ todo' \in {<<"write">>, <<"arm_tx">>}
    <3>1. CASE PutByte
      BY <1>0, <3>1, TodoFrom DEF PutByte, Runs
    <3>2. CASE FifoFull
      BY <1>0, <3>2, TodoFrom DEF FifoFull, Runs, device
    <3>3. QED BY <1>7, <3>1, <3>2
  <2>2. Inputs' /\ BrokerOwed'
    BY <1>0, <1>1, <2>1 DEF Inputs, BrokerOwed
  <2>3. QED BY <1>1, <2>1, <2>2 DEF ArmedOrBusy
<1>8. CASE ArmTx
  <2>1. /\ UNCHANGED <<broker, dead>> /\ rx_armed' = status /\ tx_armed' = TRUE
        /\ todo = <<"set_tx">> /\ todo' = <<>>
    BY <1>0, <1>8, TodoFrom DEF ArmTx, Runs
  <2>2. Inputs' /\ BrokerOwed'
    BY <1>0, <1>1, <2>1 DEF Inputs, BrokerOwed
  <2>3. broker = "event" => status
    BY <1>0, <2>1 DEF ArmedOrBusy
  <2>4. QED BY <1>1, <2>1, <2>2, <2>3 DEF ArmedOrBusy
<1>9. CASE WriteDone
  <2>1. /\ UNCHANGED <<broker, dead, rx_armed>>
        /\ todo = <<"write">> /\ todo' = <<>> /\ tx_buf' = 0
    BY <1>0, <1>9, TodoFrom DEF WriteDone, Runs, device, buffers
  <2>2. Inputs' /\ BrokerOwed'
    BY <1>0, <1>1, <2>1 DEF Inputs, BrokerOwed
  <2>3. QED BY <1>1, <2>1, <2>2 DEF ArmedOrBusy
<1>10. QED BY <1>2, <1>3, <1>4, <1>5, <1>6, <1>7, <1>8, <1>9

-----------------------------------------------------------------------------
(* Buffers and queues.                                                     *)

TxOrder(q, n) ==
  /\ q \in Seq(SerialClients \X (1..TxBufCap))
  /\ \A i, j \in DOMAIN q : i < j => q[i][2] < q[j][2]
  /\ q # <<>> => q[Len(q)][2] <= n

\* A blocking write that is queued ends behind all that are: end_at counts the
\* bytes before it.
LEMMA TxAppend ==
  ASSUME NEW q, NEW n \in 0..TxBufCap, TxOrder(q, n),
         NEW c \in SerialClients, NEW k \in Nat \ {0}, n + k <= TxBufCap
  PROVE  TxOrder(Append(q, <<c, n + k>>), n + k)
<1> DEFINE e == <<c, n + k>>  r == Append(q, e)  T == SerialClients \X (1..TxBufCap)
<1>0. TxBufCap \in Nat
  BY UartAssumption
<1>1. e \in T /\ e[2] = n + k
  BY <1>0
<1> HIDE DEF e
<1>2. /\ q \in Seq(T) /\ Len(q) \in Nat
      /\ DOMAIN q = 1..Len(q)
      /\ \A i \in 1..Len(q) : q[i][2] \in 1..TxBufCap
  BY DEF TxOrder
<1> HIDE DEF T
<1>3. /\ r \in Seq(T) /\ Len(r) = Len(q) + 1
      /\ DOMAIN r = 1..Len(r) /\ r # <<>>
      /\ \A i \in 1..Len(q) : r[i] = q[i]
      /\ r[Len(q) + 1] = e
  BY <1>1, <1>2, AppendProperties
<1> HIDE DEF r
<1>4. \A i \in 1..Len(q) : q[i][2] < n + k
  <2> SUFFICES ASSUME NEW i \in 1..Len(q)
               PROVE  q[i][2] < n + k
    OBVIOUS
  <2>1. Len(q) \in 1..Len(q) /\ q # <<>>
    BY <1>2
  <2>2. q[Len(q)][2] <= n /\ q[Len(q)][2] \in 1..TxBufCap /\ q[i][2] \in 1..TxBufCap
    BY <1>2, <2>1 DEF TxOrder
  <2>3. i = Len(q) \/ q[i][2] < q[Len(q)][2]
    <3>1. \A l \in Nat : \A x \in 1..l : x = l \/ x < l
      OBVIOUS
    <3>2. i = Len(q) \/ i < Len(q)
      BY <1>2, <3>1
    <3>3. QED BY <1>2, <2>1, <3>2 DEF TxOrder
  <2>4. QED BY <1>0, <2>2, <2>3
<1>5. ASSUME NEW i \in 1..Len(r), NEW j \in 1..Len(r), i < j
      PROVE  r[i][2] < r[j][2]
  <2>1. i \in 1..Len(q) /\ (j \in 1..Len(q) \/ j = Len(q) + 1)
    <3>1. \A l \in Nat : \A x, y \in 1..(l + 1) :
            x < y => x \in 1..l /\ (y \in 1..l \/ y = l + 1)
      OBVIOUS
    <3>2. QED BY <1>2, <1>3, <1>5, <3>1
  <2>2. CASE j \in 1..Len(q)
    BY <1>2, <1>3, <1>5, <2>1, <2>2 DEF TxOrder
  <2>3. CASE j = Len(q) + 1
    BY <1>1, <1>3, <1>4, <2>1, <2>3
  <2>4. QED BY <2>1, <2>2, <2>3
<1>6. r[Len(r)][2] <= n + k
  BY <1>1, <1>2, <1>3
<1>7. TxOrder(r, n + k)
  BY <1>3, <1>5, <1>6 DEF TxOrder, T
<1>8. QED BY <1>7 DEF r, e

\* With a byte less to send every end is one nearer, and only the first may be
\* reached.
LEMMA TxByte ==
  ASSUME NEW q, NEW n \in 1..TxBufCap, TxOrder(q, n)
  PROVE  LET left == [i \in DOMAIN q |-> <<q[i][1], q[i][2] - 1>>]
             done == left # <<>> /\ left[1][2] = 0
         IN  TxOrder(IF done THEN Tail(left) ELSE left, n - 1)
<1> DEFINE left == [i \in DOMAIN q |-> <<q[i][1], q[i][2] - 1>>]
           done == left # <<>> /\ left[1][2] = 0
           S == SerialClients \X (0..TxBufCap)
           T == SerialClients \X (1..TxBufCap)
<1>0. TxBufCap \in Nat
  BY UartAssumption
<1>1. /\ q \in Seq(T) /\ Len(q) \in Nat /\ DOMAIN q = 1..Len(q)
      /\ \A i \in 1..Len(q) : q[i][1] \in SerialClients /\ q[i][2] \in 1..TxBufCap
  BY DEF TxOrder
<1>2. \A i \in 1..Len(q) : /\ left[i] \in S /\ left[i][1] = q[i][1]
                           /\ left[i][2] = q[i][2] - 1 /\ left[i][2] \in 0..TxBufCap
  BY <1>0, <1>1
<1>3. left \in Seq(S) /\ Len(left) = Len(q) /\ DOMAIN left = 1..Len(q)
  <2>1. left \in [1..Len(q) -> S]
    BY <1>1, <1>2
  <2> HIDE DEF left
  <2>2. QED BY <1>1, <2>1
<1>4. left # <<>> => Len(q) >= 1 /\ 1 \in 1..Len(q) /\ Len(q) \in 1..Len(q) /\ q # <<>>
  <2> HIDE DEF left
  <2>1. left # <<>> => Len(left) # 0
    BY <1>3, EmptySeq
  <2>2. Len(q) # 0 => Len(q) >= 1 /\ 1 \in 1..Len(q) /\ Len(q) \in 1..Len(q) /\ q # <<>>
    BY <1>1
  <2>3. QED BY <1>3, <2>1, <2>2
<1>5. \A i, j \in 1..Len(q) : i < j => left[i][2] < left[j][2]
  <2> SUFFICES ASSUME NEW i \in 1..Len(q), NEW j \in 1..Len(q), i < j
               PROVE  left[i][2] < left[j][2]
    OBVIOUS
  <2>1. q[i][2] < q[j][2]
    BY <1>1 DEF TxOrder
  <2>2. q[i][2] \in Int /\ q[j][2] \in Int
    BY <1>1
  <2>3. left[i][2] = q[i][2] - 1 /\ left[j][2] = q[j][2] - 1
    BY <1>2
  <2> HIDE DEF left
  <2>4. QED BY <2>1, <2>2, <2>3
<1>6. left # <<>> => left[Len(q)][2] <= n - 1
  <2> SUFFICES ASSUME left # <<>>
               PROVE  left[Len(q)][2] <= n - 1
    OBVIOUS
  <2>1. q[Len(q)][2] <= n /\ Len(q) \in 1..Len(q)
    BY <1>4 DEF TxOrder
  <2> HIDE DEF left
  <2>2. QED BY <1>0, <1>1, <1>2, <2>1
<1>7. CASE done
  <2> DEFINE t == Tail(left)
  <2>0. left # <<>> /\ left[1][2] = 0
    BY <1>7
  <2> HIDE DEF left
  <2>1. /\ t \in Seq(S) /\ Len(t) = Len(q) - 1 /\ DOMAIN t = 1..Len(t)
        /\ \A i \in 1..Len(t) : t[i] = left[i + 1]
    BY <1>3, <2>0, HeadTailProperties
  <2> HIDE DEF t
  <2>2. \A i \in 1..Len(t) : i + 1 \in 1..Len(q) /\ 1 < i + 1
    BY <1>1, <2>1
  <2>3. \A i \in 1..Len(t) : t[i] \in T
    <3> SUFFICES ASSUME NEW i \in 1..Len(t)
                 PROVE  t[i] \in T
      OBVIOUS
    <3>1. left[1][2] < left[i + 1][2] /\ left[i + 1] \in S
      BY <1>2, <1>4, <1>5, <2>0, <2>2
    <3>2. left[i + 1][2] \in 1..TxBufCap
      BY <1>0, <1>2, <2>0, <2>2, <3>1
    <3>3. QED BY <2>1, <3>1, <3>2
  <2>4. t \in Seq(T)
    BY <2>1, <2>3
  <2>5. ASSUME NEW i \in 1..Len(t), NEW j \in 1..Len(t), i < j
        PROVE  t[i][2] < t[j][2]
    <3>1. i + 1 < j + 1
      BY <2>5
    <3>2. QED BY <1>5, <2>1, <2>2, <3>1
  <2>6. ASSUME t # <<>>
        PROVE  t[Len(t)][2] <= n - 1
    <3>1. Len(t) \in 1..Len(t) /\ Len(t) + 1 = Len(q)
      BY <1>1, <2>1, <2>6, EmptySeq
    <3>2. t[Len(t)] = left[Len(t) + 1]
      BY <2>1, <3>1
    <3>3. QED BY <1>6, <2>0, <3>1, <3>2
  <2>7. TxOrder(t, n - 1)
    BY <2>1, <2>4, <2>5, <2>6 DEF TxOrder
  <2>8. QED BY <1>7, <2>7 DEF t, left
<1>8. CASE ~done
  <2>1. \A i \in 1..Len(q) : left[i][2] \in 1..TxBufCap
    <3> SUFFICES ASSUME NEW i \in 1..Len(q)
                 PROVE  left[i][2] \in 1..TxBufCap
      OBVIOUS
    <3>1. left # <<>> /\ 1 \in 1..Len(q)
      <4> HIDE DEF left
      <4>1. Len(q) # 0
        BY <1>1
      <4>2. left # <<>>
        BY <1>3, <4>1, EmptySeq
      <4>3. QED BY <1>4, <4>2
    <3>2. left[1][2] # 0
      BY <1>8, <3>1
    <3> HIDE DEF left
    <3>3. i = 1 \/ left[1][2] < left[i][2]
      BY <1>1, <1>5, <3>1
    <3>4. QED BY <1>0, <1>2, <3>1, <3>2, <3>3
  <2>2. left \in Seq(T)
    <3> HIDE DEF left
    <3>1. \A i \in 1..Len(q) : left[i] \in T
      BY <1>2, <2>1
    <3>2. QED BY <1>3, <3>1
  <2>3. TxOrder(left, n - 1)
    <3> HIDE DEF left
    <3>1. QED BY <1>3, <1>5, <1>6, <2>2 DEF TxOrder
  <2>4. QED BY <1>8, <2>3
<1>9. QED BY <1>7, <1>8

\* The queue of blocking writes in the model's terms.
LEMMA TxOrderIsInOrder ==
  TxQueueInOrder <=> SerialTypeOK /\ TxOrder(tx_queue, tx_buf)
BY DEF TxQueueInOrder, SerialTypeOK, TxOrder

\* The device keeps within its FIFOs and the server within its buffers: a byte
\* too many makes it panic, and it answers a read only with bytes it has.
LEMMA BuffersStay ==
  ASSUME SerialInv, SerialNext
  PROVE  TxQueueInOrder'
<1>0. /\ RxFifoCap \in Nat /\ TxFifoCap \in Nat /\ RxBufCap \in Nat /\ TxBufCap \in Nat
      /\ \A n \in RxLens : n \in Nat
      /\ \A n \in TxLens : n \in Nat \ {0}
  BY UartAssumption
<1>1. /\ rx_fifo \in 0..RxFifoCap /\ tx_fifo \in 0..TxFifoCap
      /\ rx_armed \in BOOLEAN /\ tx_armed \in BOOLEAN /\ status \in BOOLEAN
      /\ dead \in BOOLEAN
      /\ broker \in {"send", "sent", "await", "event"}
      /\ rx_buf \in 0..RxBufCap /\ tx_buf \in 0..TxBufCap
      /\ rx_queue \in Seq(SerialClients \X RxLens)
      /\ waiting \subseteq SerialClients
      /\ TxOrder(tx_queue, tx_buf)
      /\ serial_inbox \in Seq(SerialMessages) /\ SingleIntr(serial_inbox)
  BY TxOrderIsInOrder DEF SerialInv, SerialTypeOK, Inputs, BrokerOwed
<1> DEFINE Goal ==
      /\ rx_fifo' \in 0..RxFifoCap /\ tx_fifo' \in 0..TxFifoCap
      /\ rx_armed' \in BOOLEAN /\ tx_armed' \in BOOLEAN /\ status' \in BOOLEAN
      /\ dead' \in BOOLEAN
      /\ broker' \in {"send", "sent", "await", "event"}
      /\ rx_buf' \in 0..RxBufCap /\ tx_buf' \in 0..TxBufCap
      /\ rx_queue' \in Seq(SerialClients \X RxLens)
      /\ waiting' \subseteq SerialClients
      /\ TxOrder(tx_queue', tx_buf')
<1>2. Goal => TxQueueInOrder'
  <2> SUFFICES ASSUME Goal
               PROVE  TxQueueInOrder'
    OBVIOUS
  <2>1. {rx_armed', tx_armed', status', dead'} \subseteq BOOLEAN
    BY Zenon
  <2>2. tx_queue' \in Seq(SerialClients \X (1..TxBufCap))
    BY DEF TxOrder
  <2>3. SerialTypeOK'
    BY <2>1, <2>2 DEF SerialTypeOK
  <2>4. QED BY <2>3 DEF TxQueueInOrder, TxOrder
<1>3. /\ \A k \in 0..RxFifoCap : k < RxFifoCap => k + 1 \in 0..RxFifoCap
      /\ \A k \in 0..RxFifoCap : k > 0 => k - 1 \in 0..RxFifoCap
      /\ \A k \in 0..TxFifoCap : k < TxFifoCap => k + 1 \in 0..TxFifoCap
      /\ \A k \in 0..TxFifoCap : k > 0 => k - 1 \in 0..TxFifoCap
  BY <1>0
<1>4. CASE RxArrive
  BY <1>1, <1>2, <1>3, <1>4 DEF RxArrive, buffers
<1>5. CASE TxDrain
  BY <1>1, <1>2, <1>3, <1>5 DEF TxDrain, buffers
<1>6. CASE process_intr_uart_id \/ Broker \/ RearmReply \/ ReadMask \/ RearmRx \/ ArmTx
  <2>1. /\ UNCHANGED <<rx_fifo, tx_fifo, dead, rx_buf, tx_buf, rx_queue, tx_queue, waiting>>
        /\ broker' \in {"send", "sent", "await", "event"}
        /\ rx_armed' \in {TRUE, FALSE, rx_armed, status}
        /\ tx_armed' \in {TRUE, FALSE, tx_armed, status}
        /\ status' \in {FALSE, status, rx_armed, tx_armed}
    BY <1>1, <1>6 DEF process_intr_uart_id, Broker, BrokerSend, BrokerAwait, RearmReply,
                      ReadMask, RearmRx, ArmTx, device, buffers
  <2>2. rx_armed' \in BOOLEAN /\ tx_armed' \in BOOLEAN /\ status' \in BOOLEAN
    BY <1>1, <2>1, Zenon
  <2>3. QED BY <1>1, <1>2, <2>1, <2>2
<1>7. CASE handle_intr \/ FifoEmpty \/ FifoFull \/ WriteDone
  <2>1. UNCHANGED <<status, device, dead, broker, buffers, waiting>>
    BY <1>7 DEF handle_intr, FifoEmpty, FifoFull, WriteDone
  <2>2. QED BY <1>1, <1>2, <2>1 DEF device, buffers
<1>8. ASSUME Receive
      PROVE  Head(serial_inbox) \in SerialMessages
  BY <1>1, <1>8, InboxTail DEF Receive
<1>9. CASE handle_rx_req
  <2> DEFINE m == Head(serial_inbox)
  <2>1. m \in RxMsgs
    BY <1>8, <1>9, MessageTypes DEF handle_rx_req
  <2>2. <<m.from, m.len>> \in SerialClients \X RxLens
    BY <2>1 DEF RxMsgs
  <2>3. /\ UNCHANGED <<status, rx_fifo, tx_fifo, rx_armed, tx_armed, dead, broker, rx_buf, tx_buf,
                       tx_queue, waiting>>
        /\ rx_queue' = Append(rx_queue, <<m.from, m.len>>)
    BY <1>9 DEF handle_rx_req, device
  <2> HIDE DEF m
  <2>4. rx_queue' \in Seq(SerialClients \X RxLens)
    BY <1>1, <2>2, <2>3, AppendProperties
  <2>5. QED BY <1>1, <1>2, <2>3, <2>4
<1>10. CASE handle_tx_req
  <2> DEFINE m == Head(serial_inbox)
  <2>1. m \in TxMsgs
    BY <1>8, <1>10, MessageTypes DEF handle_tx_req
  <2>2. m.from \in SerialClients /\ m.len \in Nat \ {0}
    BY <1>0, <2>1 DEF TxMsgs
  <2>3. UNCHANGED <<status, rx_fifo, tx_fifo, rx_armed, tx_armed, broker, rx_queue, rx_buf>>
    BY <1>10 DEF handle_tx_req, device
  <2>4. CASE tx_buf + m.len > TxBufCap
    <3>1. dead' = TRUE /\ tx_buf' = TxBufCap /\ UNCHANGED <<tx_queue, waiting>>
      BY <1>10, <2>4 DEF handle_tx_req, Panic
    <3>2. TxBufCap \in 0..TxBufCap /\ tx_buf <= TxBufCap
      BY <1>0, <1>1
    <3>3. TxOrder(tx_queue, TxBufCap)
      <4>1. tx_queue # <<>> => tx_queue[Len(tx_queue)][2] <= TxBufCap
        <5>1. tx_queue # <<>> => Len(tx_queue) \in 1..Len(tx_queue)
          BY <1>1, EmptySeq DEF TxOrder
        <5>2. tx_queue # <<>> => tx_queue[Len(tx_queue)] \in SerialClients \X (1..TxBufCap)
          BY <1>1, <5>1, ElementOfSeq DEF TxOrder
        <5>3. QED BY <1>0, <5>2
      <4>2. QED BY <1>1, <4>1 DEF TxOrder
    <3>4. dead' \in BOOLEAN
      BY <3>1
    <3>5. QED BY <1>1, <1>2, <2>3, <3>1, <3>2, <3>3, <3>4
  <2>5. CASE ~(tx_buf + m.len > TxBufCap)
    <3>1. /\ dead' = dead /\ tx_buf' = tx_buf + m.len
          /\ waiting' \in {waiting, waiting \ {m.from}}
          /\ tx_queue' \in {tx_queue, Append(tx_queue, <<m.from, tx_buf + m.len>>)}
      BY <1>10, <2>5 DEF handle_tx_req
    <3> DEFINE k == m.len  c == m.from
    <3>2. /\ c \in SerialClients /\ k \in Nat \ {0} /\ ~(tx_buf + k > TxBufCap)
          /\ tx_buf' = tx_buf + k
          /\ tx_queue' \in {tx_queue, Append(tx_queue, <<c, tx_buf + k>>)}
      BY <2>2, <2>5, <3>1
    <3> HIDE DEF k, c, m
    <3>3. tx_buf + k \in 0..TxBufCap /\ tx_buf + k <= TxBufCap /\ tx_buf <= tx_buf + k
      BY <1>0, <1>1, <3>2
    <3>4. TxOrder(tx_queue, tx_buf + k)
      <4>1. tx_queue # <<>> => tx_queue[Len(tx_queue)][2] <= tx_buf + k
        <5>1. tx_queue # <<>> => Len(tx_queue) \in 1..Len(tx_queue)
          BY <1>1, EmptySeq DEF TxOrder
        <5>2. tx_queue # <<>> => /\ tx_queue[Len(tx_queue)] \in SerialClients \X (1..TxBufCap)
                                /\ tx_queue[Len(tx_queue)][2] <= tx_buf
          BY <1>1, <5>1, ElementOfSeq DEF TxOrder
        <5>3. QED BY <1>0, <1>1, <3>2, <3>3, <5>2
      <4>2. QED BY <1>1, <4>1 DEF TxOrder
    <3>5. TxOrder(Append(tx_queue, <<c, tx_buf + k>>), tx_buf + k)
      BY <1>1, <3>2, <3>3, TxAppend
    <3>6. TxOrder(tx_queue', tx_buf')
      BY <3>2, <3>4, <3>5
    <3>7. waiting' \subseteq SerialClients
      BY <1>1, <3>1
    <3>8. QED BY <1>1, <1>2, <2>3, <3>1, <3>2, <3>3, <3>6, <3>7
  <2>6. QED BY <2>4, <2>5
<1>11. CASE GetByte
  <2>1. /\ rx_fifo > 0 /\ rx_fifo' = rx_fifo - 1
        /\ UNCHANGED <<status, tx_fifo, rx_armed, tx_armed, broker, rx_queue, tx_buf, tx_queue,
                       waiting>>
        /\ \/ dead' = TRUE /\ rx_buf' = rx_buf
           \/ rx_buf # RxBufCap /\ rx_buf' = rx_buf + 1 /\ dead' = dead
    BY <1>11 DEF GetByte, Panic
  <2>2. rx_buf' \in 0..RxBufCap
    BY <1>0, <1>1, <2>1
  <2>3. dead' \in BOOLEAN
    BY <1>1, <2>1
  <2>4. rx_fifo' \in 0..RxFifoCap
    BY <1>1, <1>3, <2>1
  <2>5. QED BY <1>1, <1>2, <2>1, <2>2, <2>3, <2>4
<1>12. CASE Answer
  <2>1. UNCHANGED <<status, rx_fifo, tx_fifo, rx_armed, tx_armed, dead, broker, tx_buf, tx_queue>>
    BY <1>12 DEF Answer, device
  <2>2. CASE CanAnswer
    <3>1. /\ rx_queue # <<>> /\ rx_queue[1][2] <= rx_buf
          /\ rx_buf' = rx_buf - rx_queue[1][2] /\ rx_queue' = Tail(rx_queue)
          /\ waiting' = waiting \ {rx_queue[1][1]}
      BY <1>12, <2>2 DEF Answer, CanAnswer
    <3>2. 1 \in 1..Len(rx_queue)
      BY <1>1, <3>1, EmptySeq
    <3>3. rx_queue[1] \in SerialClients \X RxLens
      BY <1>1, <3>2, ElementOfSeq
    <3> DEFINE k == rx_queue[1][2]
    <3>4. k \in Nat /\ k <= rx_buf /\ rx_buf' = rx_buf - k
      BY <1>0, <3>1, <3>3
    <3> HIDE DEF k
    <3>5. rx_buf' \in 0..RxBufCap
      BY <1>0, <1>1, <3>4
    <3>6. rx_queue' \in Seq(SerialClients \X RxLens)
      BY <1>1, <3>1, HeadTailProperties
    <3>7. QED BY <1>1, <1>2, <2>1, <3>1, <3>5, <3>6
  <2>3. CASE ~CanAnswer
    <3>1. UNCHANGED <<rx_buf, rx_queue, waiting>>
      BY <1>12, <2>3 DEF Answer
    <3>2. QED BY <1>1, <1>2, <2>1, <3>1
  <2>4. QED BY <2>2, <2>3
<1>13. CASE PutByte
  <2> DEFINE left == [i \in DOMAIN tx_queue |-> <<tx_queue[i][1], tx_queue[i][2] - 1>>]
             done == left # <<>> /\ left[1][2] = 0
  <2>1. /\ tx_buf > 0 /\ tx_fifo < TxFifoCap /\ tx_fifo' = tx_fifo + 1 /\ tx_buf' = tx_buf - 1
        /\ UNCHANGED <<status, rx_fifo, rx_armed, tx_armed, dead, broker, rx_queue, rx_buf>>
        /\ tx_queue' = IF done THEN Tail(left) ELSE left
        /\ waiting' \subseteq waiting
    BY <1>13 DEF PutByte
  <2>2. tx_buf \in 1..TxBufCap /\ tx_buf' \in 0..TxBufCap
    BY <1>0, <1>1, <2>1
  <2>3. TxOrder(IF done THEN Tail(left) ELSE left, tx_buf - 1)
    BY <1>1, <2>2, TxByte
  <2> HIDE DEF left, done
  <2>4. TxOrder(tx_queue', tx_buf')
    BY <2>1, <2>3
  <2>5. tx_fifo' \in 0..TxFifoCap
    BY <1>1, <1>3, <2>1
  <2>6. QED BY <1>1, <1>2, <2>1, <2>2, <2>4, <2>5
<1>14. ASSUME NEW c \in SerialClients, NEW m, SerialSend(c, m)
       PROVE  TxQueueInOrder'
  <2>1. UNCHANGED <<status, device, dead, broker, buffers>> /\ waiting' = waiting \cup {c}
    BY <1>14 DEF SerialSend
  <2>2. QED BY <1>1, <1>2, <2>1 DEF device, buffers
<1>15. QED
  BY <1>4, <1>5, <1>6, <1>7, <1>9, <1>10, <1>11, <1>12, <1>13, <1>14
     DEF SerialNext, Server, ClientRx, ClientTx

-----------------------------------------------------------------------------
(* The results.                                                            *)

\* The invariant holds once State::new has created the broker and is kept by
\* every step of rpi_uart.rs, its broker, the device and the clients.
LEMMA SerialInvariance == SerialInit /\ [][SerialNext]_serialvars => []SerialInv
<1>1. SerialInit => SerialInv
  <2> SUFFICES ASSUME SerialInit
               PROVE  SerialInv
    OBVIOUS
  <2>1. /\ rx_fifo = 0 /\ tx_fifo = 0 /\ rx_armed = FALSE /\ tx_armed = FALSE
        /\ serial_inbox = <<>> /\ todo = <<>> /\ status = FALSE /\ dead = FALSE
        /\ broker = "send"
        /\ rx_queue = <<>> /\ rx_buf = 0 /\ tx_buf = 0 /\ tx_queue = <<>> /\ waiting = {}
    BY DEF SerialInit
  <2>2. /\ 0 \in 0..RxFifoCap /\ 0 \in 0..TxFifoCap /\ 0 \in 0..RxBufCap /\ 0 \in 0..TxBufCap
    BY UartAssumption
  <2>3. /\ <<>> \in Seq(SerialClients \X RxLens) /\ <<>> \in Seq(SerialClients \X (1..TxBufCap))
        /\ <<>> \in Seq(SerialMessages) /\ Len(<<>>) = 0 /\ DOMAIN <<>> = {}
    OBVIOUS
  <2>4. TxQueueInOrder
    <3>1. {rx_armed, tx_armed, status, dead} \subseteq BOOLEAN
      BY <2>1
    <3>2. QED BY <2>1, <2>2, <2>3, <3>1 DEF TxQueueInOrder, SerialTypeOK
  <2>5. Inputs
    BY <2>1, <2>3 DEF Inputs, Todos
  <2>6. BrokerOwed
    BY <2>1, <2>3 DEF BrokerOwed, SingleIntr, NoIntr, FromReply
  <2>7. QED BY <2>1, <2>4, <2>5, <2>6 DEF SerialInv, ArmedOrBusy
<1>2. SerialInv /\ [SerialNext]_serialvars => SerialInv'
  <2> SUFFICES ASSUME SerialInv, [SerialNext]_serialvars
               PROVE  SerialInv'
    OBVIOUS
  <2>1. CASE SerialNext
    <3>1. Inputs' /\ BrokerOwed' /\ ArmedOrBusy'
      BY <2>1, OutsideControl, HandlerControl, ServerControl DEF SerialNext, Server
    <3>2. QED BY <2>1, <3>1, BuffersStay DEF SerialInv
  <2>2. CASE UNCHANGED serialvars
    BY <2>2 DEF serialvars, device, buffers, SerialInv, TxQueueInOrder, SerialTypeOK, Inputs,
                BrokerOwed, ArmedOrBusy
  <2>3. QED BY <2>1, <2>2
<1>3. QED BY <1>1, <1>2, PTL

\* No interrupt that matters is lost: rpi_uart.rs and its broker are never both
\* waiting with bytes left to send and the transmit interrupt masked, or with
\* the receive interrupt masked.
THEOREM QuietMeansArmedTheorem == SerialSpec => []QuietMeansArmed
<1>1. SerialInv => QuietMeansArmed
  BY DEF SerialInv, ArmedOrBusy, QuietMeansArmed, Writes, FromArmRx, FromSetRx, FromReply
<1>2. QED BY <1>1, SerialInvariance, PTL DEF SerialSpec

\* Blocking writes are answered in the order they came and none before its last
\* byte is in the device; no buffer or FIFO overflows.
THEOREM TxQueueInOrderTheorem == SerialSpec => []TxQueueInOrder
<1>1. SerialInv => TxQueueInOrder
  BY DEF SerialInv
<1>2. QED BY <1>1, SerialInvariance, PTL DEF SerialSpec
=============================================================================
