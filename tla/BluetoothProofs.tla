-------------------------- MODULE BluetoothProofs ---------------------------
(***************************************************************************)
(* Proofs about the Bluetooth programs, for any number of connections,     *)
(* commands and other requests and any capacity of the relay's queue.      *)
(***************************************************************************)
EXTENDS Bluetooth, SequenceTheorems, TLAPS

\* What the runs assume of the radio, the peer and the servers cmd asks.
Unhurried == SlowRadio /\ PatientPeer /\ ValidPeer /\ ServersUp

Commands ==
  {"reset", "load_firmware", "firmware", "set_baud", "set_addr", "get_addr", "eventmask", "name",
   "adv_params", "adv_data", "adv_on", "adv_off"}

\* What each task does next or waits for; bt, hci and gatt never panic.
States ==
  [hci : {"read", "to_gatt", "sent", "to_bt", "sent_bt"},
   bt : {"cmd", "tx", "complete", "connection", "loop"},
   gatt : {"recv", "respond", "notify_monitors"},
   monitor : {"register", "registered", "forward", "forwarded", "dead"},
   relay : {"recv", "dead"},
   cmd : {"ask", "asked", "ack", "publishing", "execute", "dead"},
   helper : {"remind", "reminded", "clock"}]

Packets ==
  [type : {"HciCommandComplete"}, op : Commands]
    \cup [type : {"HciLeConnectionComplete"}, handle : Nat]
    \cup [type : {"HciDisconnectionComplete"}]
    \cup [type : {"L2capPacket"}, op : {"write"}, n : Nat]
    \cup [type : {"L2capPacket"}, op : {"read", "subscribe"}]
Messages ==
  Packets
    \cup [type : {"GattServerMonitorReq", "GattServerPublishReq", "ClockWaitResp", "GattMonitorReq"}]
    \cup [type : {"GattMonitorResp"}, n : Nat]
Inboxes == [gatt : Seq(Messages), bt : Seq(Messages), relay : Seq(Messages)]


\* The values of the other variables.
DataTypes ==
  /\ packet \in Packets \cup {NoPacket} /\ request \in Packets \cup {NoPacket}
  /\ {conn, sub, monitors, watcher} \subseteq BOOLEAN /\ emptied = FALSE
  /\ todo \in Seq(Commands) /\ value \in [monitor : Nat, cmd : Nat]
  /\ queue \in Seq(Nat) /\ executed \in Seq(Nat)
  /\ ctl \in [adv : BOOLEAN, conn : Nat, command : Commands \cup {NoCommand}]
  /\ to_host \in Seq(Packets)
  /\ peer \in [conns : Nat, writes : Nat, reads : Nat, pending : BOOLEAN, subscribed : SUBSET Nat,
               garbled : {{}}, nan : {{}}]
  /\ peer.conns <= MaxConns
  /\ handle \in Nat /\ sent \in 0..MaxConns

Types == pc \in States /\ inbox \in Inboxes /\ DataTypes

-----------------------------------------------------------------------------
(* The invariant.  Packets are in to_host, with hci, or handled by gatt.   *)

Queued  == {to_host[i] : i \in 1..Len(to_host)}
Carried == IF pc.hci # "read" THEN {packet} ELSE {}
ToGatt  == IF pc.hci \in {"to_gatt", "sent"} THEN {packet} ELSE {}
Busy    == pc.gatt \in {"respond", "notify_monitors"}
Handled == IF Busy THEN {request} ELSE {}
Stream  == Queued \cup Carried
Ahead   == Queued \cup ToGatt

InStream(k) == \E m \in Stream : m.type = k
InAhead(k)  == \E m \in Ahead : m.type = k

\* hci passes each packet on to the programs it is for.
HciSound ==
  /\ pc.hci # "read" => packet \in Packets
  /\ pc.hci \in {"to_gatt", "sent"}
       => packet.type \in {"L2capPacket", "HciLeConnectionComplete", "HciDisconnectionComplete"}
  /\ pc.hci \in {"to_bt", "sent_bt"}
       => packet.type \in {"HciCommandComplete", "HciLeConnectionComplete", "HciDisconnectionComplete"}
  /\ inbox.bt = IF pc.hci = "sent_bt" THEN <<packet>> ELSE <<>>

\* What a packet may be followed by: there is never more than one of a type.
MayPrecede(k, l) ==
  \/ k = "HciCommandComplete" /\ l \in {"HciLeConnectionComplete", "L2capPacket"}
  \/ k = "L2capPacket" /\ l \in {"HciCommandComplete", "HciDisconnectionComplete"}
  \/ k = "HciLeConnectionComplete" /\ l = "L2capPacket"

HostInOrder ==
  /\ \A j \in 1..Len(to_host) : \A i \in 1..j - 1 : MayPrecede(to_host[i].type, to_host[j].type)
  /\ \A m \in Carried : \A p \in Queued : MayPrecede(m.type, p.type)

\* What packets say is true until they are handled.
Says(m, c, p) ==
  /\ m.type = "HciCommandComplete" => m.op = c
  /\ m.type = "HciLeConnectionComplete" => m.handle = p.conns
  /\ m.type = "L2capPacket" /\ m.op = "subscribe" => p.conns \in p.subscribed
  /\ m.type = "L2capPacket" /\ m.op = "write" => m.n = p.writes

PacketsSound ==
  /\ \A m \in Stream \cup Handled : m \in Packets /\ Says(m, Head(todo), peer)
  /\ Busy => request.type = "L2capPacket"

\* Advertising was enabled, and bt has not heard of a connection since.
Advertised ==
  \/ pc.bt = "connection"
  \/ pc.bt = "complete" /\ Head(todo) = "adv_on" /\ ctl.command = NoCommand

\* The commands left end with the one that enables advertising, or disable it.
ToAdvertise(s) ==
  Len(s) > 0 /\ s[Len(s)] = "adv_on" /\ \A i \in 1..Len(s) - 1 : s[i] \notin {"adv_on", "adv_off"}
ToStop(s) == Len(s) = 1 /\ s[1] = "adv_off"

\* The end of a command is on its way just when bt waits for it; connection
\* and disconnection come when it waits for them.
BtSound ==
  /\ pc.bt \in {"cmd", "tx", "complete"} <=> Len(todo) > 0
  /\ Len(todo) = 0 \/ ToAdvertise(todo) \/ ToStop(todo)
  /\ ctl.command # NoCommand => pc.bt = "complete" /\ ctl.command = Head(todo)
  /\ InStream("HciCommandComplete") <=> pc.bt = "complete" /\ ctl.command = NoCommand
  /\ ctl.adv => Advertised /\ ctl.conn = 0
  /\ InStream("HciLeConnectionComplete") <=> Advertised /\ ctl.conn # 0
  /\ InStream("HciDisconnectionComplete") <=> pc.bt = "loop" /\ ctl.conn = 0
  /\ ToStop(todo) => ctl.conn # 0
  /\ ToAdvertise(todo) /\ ~Advertised => ctl.conn = 0

\* At most one request is under way, and gatt has done with it before it hears
\* that its connection has gone.
OneRequest ==
  /\ InStream("L2capPacket") \/ Busy => ctl.conn # 0 \/ InAhead("HciDisconnectionComplete")
  /\ Busy => ~InStream("L2capPacket") /\ ~InAhead("HciLeConnectionComplete")
  /\ InStream("L2capPacket") \/ pc.gatt = "respond" => peer.pending

\* gatt knows the connection, but for what is on its way to it.
GattSound ==
  /\ ctl.conn \in {0, peer.conns}
  /\ conn <=> \/ InAhead("HciDisconnectionComplete")
              \/ ctl.conn # 0 /\ ~InAhead("HciLeConnectionComplete")
  /\ handle = IF InAhead("HciLeConnectionComplete") THEN peer.conns - 1 ELSE peer.conns
  /\ sub => conn /\ handle \in peer.subscribed

\* What hci, bt, gatt, the controller and the peer know of each other.
LinkInv == HciSound /\ HostInOrder /\ PacketsSound /\ BtSound /\ OneRequest /\ GattSound

\* The tasks gatt has yet to hear.
Sender(m) ==
  CASE m.type = "GattServerMonitorReq" -> "monitor"
    [] m.type = "GattServerPublishReq" -> "cmd"
    [] m.type = "ClockWaitResp"        -> "helper"
    [] OTHER -> "hci"
Clients == {"monitor", "cmd", "helper", "hci"}
Waits(t) ==
  \/ t = "monitor" /\ pc.monitor = "registered" /\ ~monitors
  \/ t = "cmd" /\ pc.cmd = "publishing"
  \/ t = "helper" /\ pc.helper = "reminded"
  \/ t = "hci" /\ pc.hci = "sent"

\* Each task has one message at gatt just while it waits for the answer.
GattInboxSound ==
  /\ \A i, j \in 1..Len(inbox.gatt) : Sender(inbox.gatt[i]) = Sender(inbox.gatt[j]) => i = j
  /\ \A i \in 1..Len(inbox.gatt) : Waits(Sender(inbox.gatt[i]))
  /\ \A t \in Clients : Waits(t) => \E i \in 1..Len(inbox.gatt) : Sender(inbox.gatt[i]) = t
  /\ \A i \in 1..Len(inbox.gatt) : Sender(inbox.gatt[i]) = "hci" => inbox.gatt[i] = packet
  /\ monitors => pc.monitor = "registered"

\* The monitor is registered before a request is looked at, or has gone.
MonitorInTime ==
  /\ pc.monitor = "dead" => pc.relay = "dead"
  /\ Busy => monitors \/ pc.monitor = "dead"
  /\ \A i \in 1..Len(inbox.gatt) :
       inbox.gatt[i].type = "L2capPacket" =>
         \/ monitors \/ pc.monitor = "dead"
         \/ \E j \in 1..i - 1 : inbox.gatt[j].type = "GattServerMonitorReq"

\* The relay's two clients, by their requests.
Requests(k) ==
  \/ k = "GattMonitorResp" /\ pc.monitor = "forwarded"
  \/ k = "GattMonitorReq" /\ pc.cmd = "asked" /\ ~watcher

RelaySound ==
  /\ \A i, j \in 1..Len(inbox.relay) : inbox.relay[i].type = inbox.relay[j].type => i = j
  /\ \A i \in 1..Len(inbox.relay) : Requests(inbox.relay[i].type)
  /\ Requests("GattMonitorResp") => \E i \in 1..Len(inbox.relay) : inbox.relay[i].type = "GattMonitorResp"
  /\ \A i \in 1..Len(inbox.relay) :
       inbox.relay[i].type = "GattMonitorResp" => inbox.relay[i].n = value.monitor
  /\ watcher => pc.cmd = "asked" /\ Len(queue) = 0
  /\ pc.relay = "dead" => pc.monitor # "forwarded"

\* Commands between the peer and their execution.
IsWrite(m) == m.type = "L2capPacket" /\ m.op = "write"
Written == IF \E m \in Ahead \cup Handled : IsWrite(m) THEN 1 ELSE 0
Passed  == IF pc.monitor \in {"forward", "forwarded"} THEN 1 ELSE 0
Held    == IF pc.cmd \in {"ack", "publishing", "execute"} THEN 1 ELSE 0

\* They are executed, held, queued and passed on in the order of the writes,
\* and none is missing while the relay lives.
InSequence ==
  /\ \A i \in 1..Len(executed) : executed[i] = i
  /\ Held = 1 => value.cmd = Len(executed) + 1
  /\ \A i \in 1..Len(queue) : queue[i] = Len(executed) + Held + i
  /\ Len(queue) <= RelayCap
  /\ pc.relay # "dead" =>
       /\ Passed = 1 => value.monitor = Len(executed) + Held + Len(queue) + 1
       /\ Len(executed) + Held + Len(queue) + Passed + Written = peer.writes

BtInv ==
  /\ Types /\ LinkInv /\ NotifyOnlySubscribers
  /\ GattInboxSound /\ MonitorInTime /\ RelaySound /\ InSequence

\* The steps of a valid peer and of the programs as they serve it.
ValidNext ==
  \/ HciRead \/ HciToGatt \/ HciToBt
  \/ BtCmd \/ BtComplete \/ BtConnection \/ BtLoop
  \/ GattL2cap \/ GattRespond \/ GattNotifyMonitors \/ GattMonitorReq
  \/ GattPublish \/ GattReminder \/ GattConnected \/ GattDisconnected
  \/ MonitorRegister \/ MonitorForward
  \/ RelayUpdate \/ RelayRequest
  \/ CmdAsk \/ CmdAck \/ CmdExecute
  \/ HelperRemind \/ HelperWake
  \/ TxDone \/ CommandComplete
  \/ PeerConnect \/ PeerDisconnect \/ PeerWrite \/ PeerRead \/ PeerSubscribe

-----------------------------------------------------------------------------
(* Sequences.                                                              *)

\* A message sent.
LEMMA Appended ==
  ASSUME NEW S, NEW s \in Seq(S), NEW e \in S
  PROVE  /\ Append(s, e) \in Seq(S) /\ Len(Append(s, e)) = Len(s) + 1 /\ Append(s, e) # <<>>
         /\ \A i \in 1..Len(s) : Append(s, e)[i] = s[i]
         /\ Append(s, e)[Len(s) + 1] = e
OBVIOUS

\* A message taken.
LEMMA Popped ==
  ASSUME NEW S, NEW s \in Seq(S), s # <<>>
  PROVE  /\ Len(s) \in Nat /\ Len(s) >= 1 /\ Head(s) = s[1] /\ Head(s) \in S
         /\ Tail(s) \in Seq(S) /\ Len(Tail(s)) = Len(s) - 1
         /\ \A i \in 1..Len(s) - 1 : Tail(s)[i] = s[i + 1]
OBVIOUS

-----------------------------------------------------------------------------
(* What the peer and the servers spare the programs.                       *)

\* A valid peer sends nothing that makes a program panic.
LEMMA NothingInvalid ==
  ASSUME Unhurried, Types, LinkInv, [Next]_vars
  PROVE  [ValidNext]_vars
<1>1. ~HciUnreadable
  <2> SUFFICES ASSUME HciUnreadable PROVE FALSE
    OBVIOUS
  <2>1. to_host # <<>> /\ Unreadable(Head(to_host))
    BY DEF HciUnreadable, Runs, Ready, Blocked, Receiving
  <2>2. Head(to_host) \in Packets
    BY <2>1, Popped DEF Types, DataTypes
  <2>3. QED BY <2>1, <2>2 DEF Unreadable, Packets
<1>2. ~GattInvalid
  <2> SUFFICES ASSUME GattInvalid PROVE FALSE
    OBVIOUS
  <2>1. request \in Packets /\ request.type = "L2capPacket" /\ request.op = "invalid"
    BY DEF GattInvalid, LinkInv, PacketsSound, Handled, Busy
  <2>2. QED BY <2>1 DEF Packets
<1>3. ~GattTrigger /\ ~GattClears
  BY DEF GattTrigger, GattClears, Types, DataTypes
<1>4. ~CmdUnwraps
  <2>1. peer.garbled = {} /\ peer.nan = {}
    BY DEF Types, DataTypes
  <2>2. QED BY <2>1 DEF CmdUnwraps, Unhurried
<1>5. ~PeerMisspell /\ ~PeerMalform
  BY DEF PeerMisspell, PeerMalform, Unhurried
<1>6. QED BY <1>1, <1>2, <1>3, <1>4, <1>5 DEF Next, System, ValidNext

-----------------------------------------------------------------------------
(* Packets on their way.                                                   *)

\* What is on its way, on its way to gatt, and in what order.
FlowKept ==
  /\ HostInOrder' /\ Stream' = Stream
  /\ \A k : InStream(k)' <=> InStream(k)

\* hci takes the oldest packet.
LEMMA PacketRead ==
  ASSUME to_host \in Seq(Packets), HostInOrder, pc.hci = "read", to_host # <<>>,
         packet' = Head(to_host), to_host' = Tail(to_host), pc'.hci \in {"to_bt", "to_gatt"},
         pc'.hci = "to_bt" => Head(to_host).type = "HciCommandComplete"
  PROVE  /\ FlowKept
         /\ \A k : k # "HciCommandComplete" => (InAhead(k)' <=> InAhead(k))
         /\ \A m : m.type # "HciCommandComplete" => (m \in Ahead' <=> m \in Ahead)
<1>1. /\ Len(to_host) \in Nat /\ Len(to_host) >= 1 /\ packet' = to_host[1] /\ Len(to_host') = Len(to_host) - 1
      /\ \A i \in 1..Len(to_host) - 1 : to_host'[i] = to_host[i + 1]
  BY Popped
<1>2. Carried' = {to_host[1]} /\ Carried = {}
  BY <1>1 DEF Carried
<1>3. Queued = Queued' \cup {to_host[1]}
  <2>1. ASSUME NEW m \in Queued
        PROVE  m \in Queued' \cup {to_host[1]}
    <3>1. PICK i \in 1..Len(to_host) : m = to_host[i]
      BY <2>1 DEF Queued
    <3>2. CASE i # 1
      <4>1. i - 1 \in 1..Len(to_host') /\ to_host'[i - 1] = m
        BY <1>1, <3>1, <3>2
      <4>2. QED BY <4>1 DEF Queued
    <3>3. QED BY <3>1, <3>2
  <2>2. ASSUME NEW m \in Queued'
        PROVE  m \in Queued
    <3>1. PICK i \in 1..Len(to_host') : m = to_host'[i]
      BY <2>2 DEF Queued
    <3>2. i + 1 \in 1..Len(to_host) /\ m = to_host[i + 1]
      BY <1>1, <3>1
    <3>3. QED BY <3>2 DEF Queued
  <2>3. to_host[1] \in Queued
    BY <1>1 DEF Queued
  <2>4. QED BY <2>1, <2>2, <2>3
<1>4. Stream' = Stream
  BY <1>2, <1>3 DEF Stream
<1>5. \A k : InStream(k)' <=> InStream(k)
  BY <1>4 DEF InStream
<1>6. HostInOrder'
  <2>1. ASSUME NEW j \in 1..Len(to_host'), NEW i \in 1..j - 1
        PROVE  MayPrecede(to_host'[i].type, to_host'[j].type)
    <3>1. /\ j + 1 \in 1..Len(to_host) /\ i + 1 \in 1..(j + 1) - 1
          /\ to_host'[i] = to_host[i + 1] /\ to_host'[j] = to_host[j + 1]
      BY <1>1
    <3>2. QED BY <3>1 DEF HostInOrder
  <2>2. ASSUME NEW p \in Queued'
        PROVE  MayPrecede(to_host[1].type, p.type)
    <3>1. PICK i \in 1..Len(to_host') : p = to_host'[i]
      BY <2>2 DEF Queued
    <3>2. i + 1 \in 1..Len(to_host) /\ p = to_host[i + 1] /\ 1 \in 1..(i + 1) - 1
      BY <1>1, <3>1
    <3>3. QED BY <3>2 DEF HostInOrder
  <2>3. QED BY <1>2, <2>1, <2>2 DEF HostInOrder
<1>7. ASSUME NEW m, m.type # "HciCommandComplete"
      PROVE  m \in Ahead' <=> m \in Ahead
  <2>1. ToGatt = {}
    BY DEF ToGatt
  <2>2. CASE pc'.hci = "to_gatt"
    <3>1. ToGatt' = {to_host[1]}
      BY <1>1, <2>2 DEF ToGatt
    <3>2. QED BY <1>3, <2>1, <3>1 DEF Ahead
  <2>3. CASE pc'.hci = "to_bt"
    <3>1. ToGatt' = {} /\ to_host[1].type = "HciCommandComplete"
      BY <1>1, <2>3 DEF ToGatt
    <3>2. QED BY <1>3, <1>7, <2>1, <3>1 DEF Ahead
  <2>4. QED BY <2>2, <2>3
<1>8. \A k : k # "HciCommandComplete" => (InAhead(k)' <=> InAhead(k))
  BY <1>7 DEF InAhead
<1>9. QED BY <1>4, <1>5, <1>6, <1>7, <1>8 DEF FlowKept

\* hci goes on with the packet, or rests, and gatt has not answered it.
LEMMA PacketKept ==
  ASSUME HostInOrder, packet' = packet, to_host' = to_host, pc.hci = "read" <=> pc'.hci = "read",
         pc.hci \in {"to_gatt", "sent"} <=> pc'.hci \in {"to_gatt", "sent"}
  PROVE  FlowKept /\ Ahead' = Ahead /\ \A k : InAhead(k)' <=> InAhead(k)
<1>1. Queued' = Queued /\ Carried' = Carried /\ ToGatt' = ToGatt
  BY DEF Queued, Carried, ToGatt
<1>2. Stream' = Stream /\ Ahead' = Ahead
  BY <1>1 DEF Stream, Ahead
<1>3. HostInOrder'
  BY <1>1 DEF HostInOrder
<1>4. QED BY <1>2, <1>3 DEF FlowKept, InStream, InAhead

\* gatt has told hci that bt is next.
LEMMA PacketHeard ==
  ASSUME HostInOrder, packet' = packet, to_host' = to_host, pc.hci = "sent", pc'.hci = "to_bt"
  PROVE  /\ FlowKept /\ Ahead = Ahead' \cup {packet}
         /\ \A k : InAhead(k)' <=> InAhead(k) /\ k # packet.type
<1>1. Queued' = Queued /\ Carried' = Carried /\ ToGatt' = {} /\ ToGatt = {packet} /\ Carried = {packet}
  BY DEF Queued, Carried, ToGatt
<1>2. Stream' = Stream /\ Ahead' = Queued /\ Ahead = Queued \cup {packet}
  BY <1>1 DEF Stream, Ahead
<1>3. HostInOrder'
  BY <1>1 DEF HostInOrder
<1>4. \A p \in Queued : p.type # packet.type
  BY <1>1 DEF HostInOrder, MayPrecede
<1>5. QED BY <1>2, <1>3, <1>4 DEF FlowKept, InStream, InAhead

\* The packet hci carries has been dealt with.
LEMMA PacketDone ==
  ASSUME HostInOrder, packet' = packet, to_host' = to_host, pc.hci # "read", pc'.hci = "read"
  PROVE  /\ HostInOrder' /\ Stream' \subseteq Stream
         /\ Ahead = Ahead' \cup IF pc.hci \in {"to_gatt", "sent"} THEN {packet} ELSE {}
         /\ \A k : InStream(k)' <=> InStream(k) /\ k # packet.type
         /\ \A k : InAhead(k)' <=> InAhead(k) /\ (pc.hci \in {"to_gatt", "sent"} => k # packet.type)
<1>1. Queued' = Queued /\ Carried' = {} /\ Carried = {packet} /\ ToGatt' = {}
      /\ ToGatt = IF pc.hci \in {"to_gatt", "sent"} THEN {packet} ELSE {}
  BY DEF Queued, Carried, ToGatt
<1>2. Stream' = Queued /\ Stream = Queued \cup {packet} /\ Ahead' = Queued /\ Ahead = Queued \cup ToGatt
  BY <1>1 DEF Stream, Ahead
<1>3. HostInOrder'
  BY <1>1 DEF HostInOrder
<1>4. \A p \in Queued : p.type # packet.type
  BY <1>1 DEF HostInOrder, MayPrecede
<1>5. \A k : InStream(k)' <=> InStream(k) /\ k # packet.type
  BY <1>2, <1>4 DEF InStream
<1>6. \A k : InAhead(k)' <=> InAhead(k) /\ (pc.hci \in {"to_gatt", "sent"} => k # packet.type)
  BY <1>1, <1>2, <1>4 DEF InAhead
<1>7. Ahead = Ahead' \cup IF pc.hci \in {"to_gatt", "sent"} THEN {packet} ELSE {}
  BY <1>1, <1>2
<1>8. QED BY <1>2, <1>3, <1>5, <1>6, <1>7

\* The controller sends a packet.
LEMMA PacketSent ==
  ASSUME to_host \in Seq(Packets), HostInOrder, NEW e \in Packets, to_host' = Append(to_host, e),
         packet' = packet, pc'.hci = pc.hci, \A m \in Stream : MayPrecede(m.type, e.type)
  PROVE  /\ HostInOrder' /\ Stream' = Stream \cup {e} /\ Ahead' = Ahead \cup {e}
         /\ \A k : InStream(k)' <=> InStream(k) \/ k = e.type
         /\ \A k : InAhead(k)' <=> InAhead(k) \/ k = e.type
<1>1. /\ Len(to_host) \in Nat /\ Len(to_host') = Len(to_host) + 1 /\ to_host'[Len(to_host) + 1] = e
      /\ \A i \in 1..Len(to_host) : to_host'[i] = to_host[i]
  BY Appended
<1>2. Queued' = Queued \cup {e}
  <2>1. ASSUME NEW m \in Queued'
        PROVE  m \in Queued \cup {e}
    <3>1. PICK i \in 1..Len(to_host') : m = to_host'[i]
      BY <2>1 DEF Queued
    <3>2. i \in 1..Len(to_host) \/ i = Len(to_host) + 1
      BY <1>1, <3>1
    <3>3. QED BY <1>1, <3>1, <3>2 DEF Queued
  <2>2. ASSUME NEW m \in Queued
        PROVE  m \in Queued'
    <3>1. PICK i \in 1..Len(to_host) : m = to_host[i]
      BY <2>2 DEF Queued
    <3>2. i \in 1..Len(to_host') /\ m = to_host'[i]
      BY <1>1, <3>1
    <3>3. QED BY <3>2 DEF Queued
  <2>3. Len(to_host) + 1 \in 1..Len(to_host')
    BY <1>1
  <2>4. e \in Queued'
    BY <1>1, <2>3 DEF Queued
  <2>5. QED BY <2>1, <2>2, <2>4
<1>3. Carried' = Carried /\ ToGatt' = ToGatt
  BY DEF Carried, ToGatt
<1>4. Stream' = Stream \cup {e} /\ Ahead' = Ahead \cup {e}
  BY <1>2, <1>3 DEF Stream, Ahead
<1>5. HostInOrder'
  <2>1. ASSUME NEW j \in 1..Len(to_host'), NEW i \in 1..j - 1
        PROVE  MayPrecede(to_host'[i].type, to_host'[j].type)
    <3>1. CASE j = Len(to_host) + 1
      <4>1. i \in 1..Len(to_host) /\ to_host'[i] = to_host[i] /\ to_host'[j] = e
        BY <1>1, <3>1
      <4>2. to_host[i] \in Stream
        BY <4>1 DEF Stream, Queued
      <4>3. QED BY <4>1, <4>2
    <3>2. CASE j # Len(to_host) + 1
      <4>1. j \in 1..Len(to_host) /\ i \in 1..Len(to_host) /\ to_host'[i] = to_host[i] /\ to_host'[j] = to_host[j]
        BY <1>1, <3>2
      <4>2. QED BY <4>1 DEF HostInOrder
    <3>3. QED BY <3>1, <3>2
  <2>2. \A m \in Carried' : \A p \in Queued' : MayPrecede(m.type, p.type)
    <3>1. Carried \subseteq Stream
      BY DEF Stream
    <3>2. QED BY <1>2, <1>3, <3>1 DEF HostInOrder
  <2>3. QED BY <2>1, <2>2 DEF HostInOrder
<1>6. QED BY <1>4, <1>5 DEF InStream, InAhead

-----------------------------------------------------------------------------
(* What a step leaves alone.                                               *)

Kinds == {"HciCommandComplete", "HciLeConnectionComplete", "HciDisconnectionComplete", "L2capPacket"}

\* hci parses four kinds of packets.
LEMMA PacketKinds == \A m \in Packets : m.type \in Kinds
BY DEF Packets, Kinds

\* No new packet comes, and what those there are speak of does not change.
LEMMA PacketsKept ==
  ASSUME PacketsSound, Stream' \subseteq Stream, Busy' => Busy /\ request' = request,
         peer'.conns = peer.conns, peer'.subscribed = peer.subscribed, peer'.writes = peer.writes,
         todo' = todo \/ ~InStream("HciCommandComplete")'
  PROVE  PacketsSound'
<1>1. ASSUME NEW m \in Stream'
      PROVE  m \in Packets /\ Says(m, Head(todo), peer)'
  <2>1. m \in Packets /\ Says(m, Head(todo), peer)
    BY <1>1 DEF PacketsSound
  <2>2. todo' = todo \/ m.type # "HciCommandComplete"
    BY <1>1 DEF InStream
  <2>3. QED BY <2>1, <2>2 DEF Says
<1>2. ASSUME NEW m \in Handled'
      PROVE  m \in Packets /\ Says(m, Head(todo), peer)'
  <2>1. m \in Handled /\ m = request /\ Busy
    BY <1>2 DEF Handled
  <2>2. m \in Packets /\ Says(m, Head(todo), peer) /\ m.type = "L2capPacket"
    BY <2>1 DEF PacketsSound
  <2>3. QED BY <2>2 DEF Says
<1>3. QED BY <1>1, <1>2 DEF PacketsSound

\* Neither bt nor the controller makes a step.
LEMMA BtKept ==
  ASSUME BtSound, pc'.bt = pc.bt, todo' = todo, ctl' = ctl,
         \A k \in Kinds \ {"L2capPacket"} : InStream(k)' <=> InStream(k)
  PROVE  BtSound'
<1>1. /\ InStream("HciCommandComplete")' <=> InStream("HciCommandComplete")
      /\ InStream("HciLeConnectionComplete")' <=> InStream("HciLeConnectionComplete")
      /\ InStream("HciDisconnectionComplete")' <=> InStream("HciDisconnectionComplete")
  BY DEF Kinds
<1>2. Advertised' <=> Advertised
  BY DEF Advertised
<1>3. ToAdvertise(todo)' = ToAdvertise(todo) /\ ToStop(todo)' = ToStop(todo)
  BY DEF ToAdvertise, ToStop
<1>4. QED BY <1>1, <1>2, <1>3 DEF BtSound

\* Neither gatt nor the peer makes a step.
LEMMA OneKept ==
  ASSUME OneRequest, pc'.gatt = pc.gatt, ctl'.conn = ctl.conn, peer'.pending = peer.pending,
         InStream("L2capPacket")' => InStream("L2capPacket"),
         InAhead("HciDisconnectionComplete")' <=> InAhead("HciDisconnectionComplete"),
         InAhead("HciLeConnectionComplete")' <=> InAhead("HciLeConnectionComplete")
  PROVE  OneRequest'
BY DEF OneRequest, Busy

\* gatt's connection and what it may hear of it stay as they are.
LEMMA GattKept ==
  ASSUME GattSound, ctl'.conn = ctl.conn, peer'.conns = peer.conns, peer'.subscribed = peer.subscribed,
         conn' = conn, handle' = handle, sub' = sub,
         InAhead("HciDisconnectionComplete")' <=> InAhead("HciDisconnectionComplete"),
         InAhead("HciLeConnectionComplete")' <=> InAhead("HciLeConnectionComplete")
  PROVE  GattSound'
BY DEF GattSound

\* Nothing of what the link's programs know of each other changes.
LinkSame ==
  /\ pc'.hci = pc.hci /\ pc'.bt = pc.bt /\ pc'.gatt = pc.gatt /\ packet' = packet
  /\ request' = request /\ to_host' = to_host /\ todo' = todo /\ ctl' = ctl /\ peer' = peer
  /\ conn' = conn /\ handle' = handle /\ sub' = sub /\ inbox'.bt = inbox.bt

\* A step of none of the link's programs keeps the link's invariant.
LEMMA LinkKept ==
  ASSUME LinkInv, LinkSame
  PROVE  /\ LinkInv' /\ Ahead' = Ahead /\ Handled' = Handled
         /\ InStream("L2capPacket")' <=> InStream("L2capPacket")
<1>1. HciSound'
  BY DEF LinkInv, LinkSame, HciSound
<1>2. FlowKept /\ \A k : InAhead(k)' <=> InAhead(k)
  BY PacketKept DEF LinkInv, LinkSame
<1>3. PacketsSound'
  BY <1>2, PacketsKept DEF LinkInv, LinkSame, FlowKept, Busy
<1>4. BtSound'
  BY <1>2, BtKept DEF LinkInv, LinkSame, FlowKept
<1>5. OneRequest'
  BY <1>2, OneKept DEF LinkInv, LinkSame, FlowKept
<1>6. GattSound'
  BY <1>2, GattKept DEF LinkInv, LinkSame
<1>7. Ahead' = Ahead /\ Handled' = Handled
  BY DEF LinkSame, Ahead, Queued, ToGatt, Handled, Busy
<1>8. QED BY <1>1, <1>2, <1>3, <1>4, <1>5, <1>6, <1>7 DEF LinkInv, FlowKept

-----------------------------------------------------------------------------
(* The link.                                                               *)

\* The packet gatt takes is the one hci waits with.
LEMMA GattHears ==
  ASSUME Types, GattInboxSound, NEW k \in Kinds, Received("gatt", k)
  PROVE  /\ pc.hci = "sent" /\ pc.gatt = "recv" /\ inbox.gatt # <<>>
         /\ Head(inbox.gatt) = packet /\ packet.type = k
         /\ inbox' = [inbox EXCEPT !.gatt = Tail(@)]
<1>1. /\ inbox.gatt # <<>> /\ inbox.gatt \in Seq(Messages) /\ Head(inbox.gatt).type = k
      /\ pc.gatt \in Receiving /\ inbox' = [inbox EXCEPT !.gatt = Tail(@)]
  BY DEF Received, Types, Inboxes
<1>2. Len(inbox.gatt) >= 1 /\ Head(inbox.gatt) = inbox.gatt[1] /\ 1 \in 1..Len(inbox.gatt)
  BY <1>1, Popped
<1>3. Sender(inbox.gatt[1]) = "hci"
  BY <1>1, <1>2 DEF Sender, Kinds
<1>4. Waits("hci") /\ inbox.gatt[1] = packet
  BY <1>2, <1>3 DEF GattInboxSound
<1>5. pc.hci = "sent" /\ pc.gatt = "recv"
  BY <1>1, <1>4 DEF Waits, Types, States, Receiving
<1>6. QED BY <1>1, <1>2, <1>4, <1>5

\* The packet bt takes is the one hci waits with.
LEMMA BtHears ==
  ASSUME Types, HciSound, inbox.bt # <<>>
  PROVE  pc.hci = "sent_bt" /\ inbox.bt = <<packet>> /\ Head(inbox.bt) = packet /\ Tail(inbox.bt) = <<>>
<1>1. pc.hci = "sent_bt" /\ inbox.bt = <<packet>>
  BY DEF HciSound
<1>2. QED BY <1>1

\* hci reads a packet.
LEMMA HciReadLink ==
  ASSUME Types, LinkInv, HciRead
  PROVE  LinkInv'
<1>1. /\ pc \in States /\ pc.hci = "read" /\ Ready("hci") /\ to_host \in Seq(Packets)
      /\ packet' = Head(to_host) /\ to_host' = Tail(to_host)
      /\ pc' = [pc EXCEPT !.hci = IF Head(to_host).type = "HciCommandComplete" THEN "to_bt" ELSE "to_gatt"]
      /\ UNCHANGED <<inbox, request, conn, handle, sub, todo, ctl, peer>>
  BY DEF Types, DataTypes, HciRead, Runs, gattVars
<1>2. to_host # <<>>
  BY <1>1 DEF Ready, Blocked, Receiving
<1>3. /\ pc'.hci = IF Head(to_host).type = "HciCommandComplete" THEN "to_bt" ELSE "to_gatt"
      /\ pc'.bt = pc.bt /\ pc'.gatt = pc.gatt
  BY <1>1 DEF States
<1>4. packet' \in Packets /\ packet'.type \in Kinds
  BY <1>1, <1>2, Popped, PacketKinds
<1>5. FlowKept /\ \A k : k # "HciCommandComplete" => (InAhead(k)' <=> InAhead(k))
  BY <1>1, <1>2, <1>3, PacketRead DEF LinkInv
<1>6. HciSound'
  BY <1>1, <1>3, <1>4 DEF LinkInv, HciSound, Kinds
<1>7. PacketsSound' /\ BtSound' /\ OneRequest' /\ GattSound'
  <2>1. PacketsSound'
    BY <1>1, <1>3, <1>5, PacketsKept DEF LinkInv, FlowKept, Busy
  <2>2. BtSound'
    BY <1>1, <1>3, <1>5, BtKept DEF LinkInv, FlowKept
  <2>3. OneRequest'
    BY <1>1, <1>3, <1>5, OneKept DEF LinkInv, FlowKept
  <2>4. GattSound'
    BY <1>1, <1>5, GattKept DEF LinkInv
  <2>5. QED BY <2>1, <2>2, <2>3, <2>4
<1>8. QED BY <1>5, <1>6, <1>7 DEF LinkInv, FlowKept

\* hci passes it on.
LEMMA HciSendsLink ==
  ASSUME Types, LinkInv, HciToGatt \/ HciToBt
  PROVE  LinkInv'
<1>1. /\ pc \in States /\ inbox \in Inboxes
      /\ UNCHANGED <<packet, request, conn, handle, sub, todo, ctl, to_host, peer>>
  BY DEF Types, HciToGatt, HciToBt, gattVars, env
<1>2. /\ \/ pc.hci = "to_gatt" /\ pc'.hci = "sent" /\ inbox'.bt = inbox.bt
         \/ pc.hci = "to_bt" /\ pc'.hci = "sent_bt" /\ inbox'.bt = Append(inbox.bt, packet)
      /\ pc'.bt = pc.bt /\ pc'.gatt = pc.gatt
  BY <1>1 DEF HciToGatt, HciToBt, ker_send, States, Inboxes
<1>3. FlowKept /\ \A k : InAhead(k)' <=> InAhead(k)
  BY <1>1, <1>2, PacketKept DEF LinkInv
<1>4. HciSound'
  <2>1. pc.hci = "to_bt" => inbox.bt = <<>>
    BY DEF LinkInv, HciSound
  <2>2. Append(<<>>, packet) = <<packet>>
    OBVIOUS
  <2>3. QED BY <1>1, <1>2, <2>1, <2>2 DEF LinkInv, HciSound
<1>5. PacketsSound'
  BY <1>1, <1>2, <1>3, PacketsKept DEF LinkInv, FlowKept, Busy
<1>6. BtSound' /\ OneRequest' /\ GattSound'
  <2>1. BtSound'
    BY <1>1, <1>2, <1>3, BtKept DEF LinkInv, FlowKept
  <2>2. OneRequest'
    BY <1>1, <1>2, <1>3, OneKept DEF LinkInv, FlowKept
  <2>3. GattSound'
    BY <1>1, <1>3, GattKept DEF LinkInv
  <2>4. QED BY <2>1, <2>2, <2>3
<1>7. QED BY <1>3, <1>4, <1>5, <1>6 DEF LinkInv, FlowKept

\* bt has an answer of the controller to its command, and sends the next, or
\* waits for a connection or the end of one.
LEMMA BtCompleteLink ==
  ASSUME Types, LinkInv, BtComplete
  PROVE  LinkInv' /\ pc'.hci = "read" /\ pc'.bt \in {"cmd", "connection", "loop"}
<1> DEFINE next == IF Len(todo) > 1 THEN "cmd"
                   ELSE IF Head(todo) = "adv_on" THEN "connection" ELSE "loop"
           ok == Head(inbox.bt).type = "HciCommandComplete" /\ Head(inbox.bt).op = Head(todo)
<1>1. /\ pc \in States /\ inbox \in Inboxes /\ pc.bt = "complete" /\ Ready("bt") /\ todo \in Seq(Commands)
      /\ pc' = [pc EXCEPT !.hci = "read", !.bt = IF ok THEN next ELSE "dead"]
      /\ todo' = IF ok THEN Tail(todo) ELSE todo
      /\ inbox' = [inbox EXCEPT !.bt = Tail(@)]
      /\ UNCHANGED <<packet, request, conn, handle, sub, ctl, to_host, peer>>
  BY DEF Types, DataTypes, BtComplete, Runs, gattVars, env
<1>2. inbox.bt # <<>>
  BY <1>1 DEF Ready, Blocked, Receiving
<1>3. pc.hci = "sent_bt" /\ Head(inbox.bt) = packet /\ Tail(inbox.bt) = <<>>
  BY <1>2, BtHears DEF LinkInv
<1>4. packet \in Stream
  BY <1>3 DEF Stream, Carried
<1>5. packet.type \in Kinds /\ InStream(packet.type) /\ Says(packet, Head(todo), peer)
  BY <1>4, PacketKinds DEF InStream, LinkInv, PacketsSound
<1>6. packet.type = "HciCommandComplete" /\ ctl.command = NoCommand
  <2>1. ~(Advertised /\ ctl.conn # 0 /\ packet.type = "HciLeConnectionComplete")
    <3>1. ASSUME Advertised, ctl.conn # 0, packet.type = "HciLeConnectionComplete"
          PROVE  FALSE
      <4>1. Head(todo) = "adv_on" /\ ctl.command = NoCommand
        BY <1>1, <3>1 DEF Advertised
      <4>2. InStream("HciCommandComplete")
        BY <1>1, <4>1 DEF LinkInv, BtSound
      <4>3. PICK m \in Stream : m.type = "HciCommandComplete"
        BY <4>2 DEF InStream
      <4>4. m \in Queued
        BY <1>3, <3>1, <4>3 DEF Stream, Carried
      <4>5. MayPrecede(packet.type, m.type)
        BY <1>3, <4>4 DEF LinkInv, HostInOrder, Carried
      <4>6. QED BY <3>1, <4>3, <4>5 DEF MayPrecede
    <3>2. QED BY <3>1
  <2>2. packet.type # "HciDisconnectionComplete"
    BY <1>1, <1>5 DEF LinkInv, BtSound
  <2>3. packet.type # "HciLeConnectionComplete"
    BY <1>5, <2>1 DEF LinkInv, BtSound
  <2>4. packet.type = "HciCommandComplete"
    BY <1>3, <2>2, <2>3 DEF LinkInv, HciSound
  <2>5. QED BY <1>5, <2>4 DEF LinkInv, BtSound
<1>7. ok
  BY <1>3, <1>5, <1>6 DEF Says
<1>8. /\ pc'.hci = "read" /\ pc'.bt = next /\ pc'.gatt = pc.gatt /\ inbox'.bt = <<>> /\ todo' = Tail(todo)
  BY <1>1, <1>3, <1>7 DEF States, Inboxes
<1> HIDE DEF ok, next
<1>9. /\ HostInOrder' /\ Stream' \subseteq Stream
      /\ \A k : InStream(k)' <=> InStream(k) /\ k # "HciCommandComplete"
      /\ \A k : InAhead(k)' <=> InAhead(k)
  <2>1. pc.hci \notin {"to_gatt", "sent"} /\ pc.hci # "read"
    BY <1>3
  <2>2. QED BY <1>1, <1>6, <1>8, <2>1, PacketDone DEF LinkInv
<1>10. HciSound'
  BY <1>8 DEF HciSound
<1>11. PacketsSound' /\ OneRequest' /\ GattSound'
  <2>1. PacketsSound'
    BY <1>1, <1>8, <1>9, PacketsKept DEF LinkInv, Busy
  <2>2. OneRequest'
    BY <1>1, <1>8, <1>9, OneKept DEF LinkInv
  <2>3. GattSound'
    BY <1>1, <1>9, GattKept DEF LinkInv
  <2>4. QED BY <2>1, <2>2, <2>3
<1>12. /\ todo # <<>> /\ Len(todo) \in Nat /\ Len(todo) > 0 /\ Len(Tail(todo)) = Len(todo) - 1 /\ Head(todo) = todo[1]
       /\ \A i \in 1..Len(todo) - 1 : Tail(todo)[i] = todo[i + 1]
  <2>1. Len(todo) > 0
    BY <1>1 DEF LinkInv, BtSound
  <2>2. todo # <<>>
    BY <2>1
  <2>3. QED BY <1>1, <2>1, <2>2, Popped
<1>13. BtSound'
  <2>1. ToAdvertise(todo) \/ ToStop(todo)
    BY <1>12 DEF LinkInv, BtSound
  <2>2. /\ ~InStream("HciCommandComplete")'
        /\ InStream("HciLeConnectionComplete")' <=> InStream("HciLeConnectionComplete")
        /\ InStream("HciDisconnectionComplete")' <=> InStream("HciDisconnectionComplete")
    BY <1>9
  <2>3. CASE Len(todo) > 1
    <3>1. ToAdvertise(todo) /\ Head(todo) # "adv_on"
      BY <1>12, <2>1, <2>3 DEF ToAdvertise, ToStop
    <3>2. ToAdvertise(todo') /\ Len(todo') > 0 /\ ~ToStop(todo')
      <4>1. Len(todo') = Len(todo) - 1 /\ todo'[Len(todo')] = "adv_on"
        BY <1>8, <1>12, <2>3, <3>1 DEF ToAdvertise
      <4>2. \A i \in 1..Len(todo') - 1 : todo'[i] \notin {"adv_on", "adv_off"}
        BY <1>8, <1>12, <3>1, <4>1 DEF ToAdvertise
      <4>3. QED BY <1>12, <2>3, <4>1, <4>2 DEF ToAdvertise, ToStop
    <3>3. pc'.bt = "cmd" /\ ~Advertised /\ ~Advertised'
      BY <1>1, <1>8, <2>3, <3>1 DEF next, Advertised
    <3>4. ctl.conn = 0 /\ ~ctl.adv
      BY <3>1, <3>3 DEF LinkInv, BtSound
    <3>5. QED BY <1>1, <1>6, <2>2, <3>2, <3>3, <3>4 DEF LinkInv, BtSound
  <2>4. CASE Len(todo) = 1
    <3>1. Len(todo') = 0 /\ ~ToAdvertise(todo') /\ ~ToStop(todo')
      <4>1. Len(todo') = 0
        BY <1>8, <1>12, <2>4
      <4>2. QED BY <4>1 DEF ToAdvertise, ToStop
    <3>2. CASE Head(todo) = "adv_on"
      <4>1. pc'.bt = "connection" /\ Advertised /\ Advertised'
        BY <1>1, <1>6, <1>8, <2>4, <3>2 DEF next, Advertised
      <4>2. QED BY <1>1, <1>6, <2>2, <3>1, <4>1 DEF LinkInv, BtSound
    <3>3. CASE Head(todo) # "adv_on"
      <4>1. ToStop(todo) /\ ~Advertised /\ pc'.bt = "loop" /\ ~Advertised'
        BY <1>1, <1>8, <1>12, <2>1, <2>4, <3>3 DEF next, Advertised, ToAdvertise
      <4>2. QED BY <1>1, <1>6, <2>2, <3>1, <4>1 DEF LinkInv, BtSound
    <3>4. QED BY <3>2, <3>3
  <2>5. QED BY <1>12, <2>3, <2>4
<1>14. pc'.bt \in {"cmd", "connection", "loop"}
  BY <1>8 DEF next
<1>15. QED BY <1>8, <1>9, <1>10, <1>11, <1>13, <1>14 DEF LinkInv

\* bt hears of a connection, or of its end.
LEMMA BtHearsLink ==
  ASSUME Types, LinkInv, BtConnection \/ BtLoop
  PROVE  LinkInv' /\ pc'.hci = "read" /\ pc'.bt = "cmd"
<1>1. /\ pc \in States /\ inbox \in Inboxes
      /\ inbox.bt # <<>> /\ inbox' = [inbox EXCEPT !.bt = Tail(@)]
      /\ pc' = [pc EXCEPT !.hci = "read", !.bt = "cmd"]
      /\ \/ /\ pc.bt = "connection" /\ Head(inbox.bt).type = "HciLeConnectionComplete"
            /\ todo' = stop_active_advertising
         \/ /\ pc.bt = "loop" /\ Head(inbox.bt).type = "HciDisconnectionComplete"
            /\ todo' = start_active_advertising
      /\ UNCHANGED <<packet, request, conn, handle, sub, ctl, to_host, peer>>
  BY DEF Types, BtConnection, BtLoop, Received, gattVars, env
<1>2. pc.hci = "sent_bt" /\ Head(inbox.bt) = packet /\ Tail(inbox.bt) = <<>>
  BY <1>1, BtHears DEF LinkInv
<1>3. /\ pc'.hci = "read" /\ pc'.bt = "cmd" /\ pc'.gatt = pc.gatt /\ inbox'.bt = <<>>
  BY <1>1, <1>2 DEF States, Inboxes
<1>4. /\ \/ pc.bt = "connection" /\ packet.type = "HciLeConnectionComplete" /\ ToStop(todo')
         \/ pc.bt = "loop" /\ packet.type = "HciDisconnectionComplete" /\ ToAdvertise(todo')
      /\ Len(todo') > 0 /\ ~(ToStop(todo') /\ ToAdvertise(todo'))
  <2>1. /\ Len(stop_active_advertising) > 0 /\ ToStop(stop_active_advertising)
        /\ ~ToAdvertise(stop_active_advertising)
    BY DEF ToStop, ToAdvertise, stop_active_advertising
  <2>2. /\ Len(start_active_advertising) > 0 /\ ToAdvertise(start_active_advertising)
        /\ ~ToStop(start_active_advertising)
    BY DEF ToStop, ToAdvertise, start_active_advertising
  <2>3. CASE pc.bt = "connection"
    <3>1. todo' = stop_active_advertising /\ packet.type = "HciLeConnectionComplete"
      BY <1>1, <1>2, <2>3
    <3>2. Len(todo') > 0
      BY <2>1, <3>1, Zenon
    <3>3. QED BY <2>1, <2>3, <3>1, <3>2, Zenon
  <2>4. CASE pc.bt = "loop"
    <3>1. todo' = start_active_advertising /\ packet.type = "HciDisconnectionComplete"
      BY <1>1, <1>2, <2>4
    <3>2. Len(todo') > 0
      BY <2>2, <3>1, Zenon
    <3>3. QED BY <2>2, <2>4, <3>1, <3>2, Zenon
  <2>5. QED BY <1>1, <2>3, <2>4
<1>5. /\ HostInOrder' /\ Stream' \subseteq Stream
      /\ \A k : InStream(k)' <=> InStream(k) /\ k # packet.type
      /\ \A k : InAhead(k)' <=> InAhead(k)
  <2>1. pc.hci \notin {"to_gatt", "sent"} /\ pc.hci # "read"
    BY <1>2
  <2>2. QED BY <1>1, <1>3, <2>1, PacketDone DEF LinkInv
<1>6. InStream(packet.type)
  BY <1>2 DEF InStream, Stream, Carried
<1>7. HciSound'
  BY <1>3 DEF HciSound
<1>8. ~InStream("HciCommandComplete")
  BY <1>4 DEF LinkInv, BtSound
<1>9. PacketsSound'
  BY <1>1, <1>3, <1>5, <1>8, PacketsKept DEF LinkInv, Busy
<1>10. OneRequest' /\ GattSound'
  BY <1>1, <1>3, <1>5, OneKept, GattKept DEF LinkInv
<1>11. BtSound'
  <2>1. ~InStream("HciCommandComplete")'
    BY <1>5, <1>8
  <2>2. ~Advertised'
    BY <1>3 DEF Advertised
  <2>3. ctl.command = NoCommand
    BY <1>4 DEF LinkInv, BtSound
  <2>4. CASE packet.type = "HciLeConnectionComplete"
    <3>1. Advertised /\ ctl.conn # 0 /\ ~ctl.adv
      BY <1>6, <2>4 DEF LinkInv, BtSound
    <3>2. ~InStream("HciLeConnectionComplete")' /\ ~InStream("HciDisconnectionComplete")'
      BY <1>5, <2>4, <3>1 DEF LinkInv, BtSound
    <3>3. ToStop(todo')
      BY <1>4, <2>4
    <3>4. QED BY <1>1, <1>3, <1>4, <2>1, <2>2, <2>3, <3>1, <3>2, <3>3 DEF BtSound
  <2>5. CASE packet.type = "HciDisconnectionComplete"
    <3>1. ctl.conn = 0 /\ pc.bt = "loop"
      BY <1>6, <2>5 DEF LinkInv, BtSound
    <3>2. ~Advertised
      BY <3>1 DEF Advertised
    <3>3. ~InStream("HciLeConnectionComplete")' /\ ~InStream("HciDisconnectionComplete")' /\ ~ctl.adv
      BY <1>5, <2>5, <3>2 DEF LinkInv, BtSound
    <3>4. ToAdvertise(todo')
      BY <1>4, <2>5
    <3>5. QED BY <1>1, <1>3, <1>4, <2>1, <2>2, <2>3, <3>1, <3>3, <3>4 DEF BtSound
  <2>6. QED BY <1>4, <2>4, <2>5
<1>12. QED BY <1>3, <1>5, <1>7, <1>9, <1>10, <1>11 DEF LinkInv

\* bt writes a command, and the last byte leaves.
LEMMA BtSendsLink ==
  ASSUME Types, LinkInv, BtCmd \/ TxDone
  PROVE  LinkInv' /\ pc'.bt \in {"tx", "complete"}
<1>1. /\ pc \in States
      /\ \/ pc.bt = "cmd" /\ pc' = [pc EXCEPT !.bt = "tx"] /\ ctl' = ctl
         \/ pc.bt = "tx" /\ pc' = [pc EXCEPT !.bt = "complete"] /\ ctl' = [ctl EXCEPT !.command = Head(todo)]
      /\ UNCHANGED <<inbox, packet, request, conn, handle, sub, todo, to_host, peer>>
      /\ todo \in Seq(Commands)
      /\ ctl \in [adv : BOOLEAN, conn : Nat, command : Commands \cup {NoCommand}]
  BY DEF Types, DataTypes, BtCmd, TxDone, gattVars, env
<1>2. /\ pc'.hci = pc.hci /\ pc'.gatt = pc.gatt /\ pc.bt \in {"cmd", "tx"}
      /\ \/ pc'.bt = "tx" /\ ctl'.command = ctl.command
         \/ pc'.bt = "complete" /\ ctl'.command = Head(todo)
      /\ ctl'.conn = ctl.conn /\ ctl'.adv = ctl.adv
  BY <1>1 DEF States
<1>3. FlowKept /\ \A k : InAhead(k)' <=> InAhead(k)
  BY <1>1, <1>2, PacketKept DEF LinkInv
<1>4. HciSound'
  BY <1>1, <1>2 DEF LinkInv, HciSound
<1>5. PacketsSound'
  BY <1>1, <1>2, <1>3, PacketsKept DEF LinkInv, FlowKept, Busy
<1>6. OneRequest' /\ GattSound'
  BY <1>1, <1>2, <1>3, OneKept, GattKept DEF LinkInv, FlowKept
<1>7. BtSound'
  <2>1. Len(todo) > 0 /\ ctl.command = NoCommand /\ ~InStream("HciCommandComplete") /\ ~Advertised
    BY <1>2 DEF LinkInv, BtSound, Advertised
  <2>2. Head(todo) \in Commands /\ Head(todo) # NoCommand
    <3>1. todo # <<>>
      BY <2>1
    <3>2. Head(todo) \in Commands
      BY <1>1, <3>1, Popped
    <3>3. QED BY <3>2 DEF Commands, NoCommand
  <2>3. ~Advertised'
    BY <1>1, <1>2, <2>2 DEF Advertised
  <2>4. /\ ~InStream("HciCommandComplete")'
        /\ InStream("HciLeConnectionComplete")' <=> InStream("HciLeConnectionComplete")
        /\ InStream("HciDisconnectionComplete")' <=> InStream("HciDisconnectionComplete")
    BY <1>3, <2>1 DEF FlowKept
  <2>5. todo' = todo
    BY <1>1
  <2>6. QED BY <1>2, <2>1, <2>2, <2>3, <2>4, <2>5 DEF LinkInv, BtSound
<1>8. QED BY <1>2, <1>3, <1>4, <1>5, <1>6, <1>7 DEF LinkInv, FlowKept

\* The controller has executed a command.
LEMMA CommandCompleteLink ==
  ASSUME Types, LinkInv, CommandComplete
  PROVE  /\ LinkInv' /\ Handled' = Handled
         /\ Ahead' = Ahead \cup {[type |-> "HciCommandComplete", op |-> ctl.command]}
<1> DEFINE e == [type |-> "HciCommandComplete", op |-> ctl.command]
<1>1. /\ ctl.command # NoCommand /\ to_host' = Append(to_host, e) /\ to_host \in Seq(Packets)
      /\ ctl \in [adv : BOOLEAN, conn : Nat, command : Commands \cup {NoCommand}]
      /\ ctl' = [ctl EXCEPT !.command = NoCommand,
                            !.adv = CASE ctl.command = "adv_on"  -> TRUE
                                      [] ctl.command = "adv_off" -> FALSE
                                      [] OTHER -> @]
      /\ UNCHANGED <<pc, inbox, packet, request, conn, handle, sub, todo, peer>>
  BY DEF Types, DataTypes, CommandComplete, gattVars
<1>2. e \in Packets /\ e.type = "HciCommandComplete" /\ e.op = ctl.command
  BY <1>1 DEF Packets
<1>3. /\ ctl'.command = NoCommand /\ ctl'.conn = ctl.conn
      /\ ctl'.adv = CASE ctl.command = "adv_on"  -> TRUE
                     [] ctl.command = "adv_off" -> FALSE
                     [] OTHER -> ctl.adv
  BY <1>1
<1>4. pc.bt = "complete" /\ ctl.command = Head(todo) /\ ~Advertised /\ ~ctl.adv
  BY <1>1 DEF LinkInv, BtSound, Advertised
<1>5. \A k \in Kinds : k # "L2capPacket" => ~InStream(k)
  BY <1>1, <1>4 DEF Kinds, LinkInv, BtSound
<1> HIDE DEF e
<1>6. \A m \in Stream : MayPrecede(m.type, e.type)
  <2>1. ASSUME NEW m \in Stream
        PROVE  m.type = "L2capPacket"
    <3>1. m.type \in Kinds /\ InStream(m.type)
      BY <2>1, PacketKinds DEF LinkInv, PacketsSound, InStream
    <3>2. QED BY <1>5, <3>1
  <2>2. QED BY <1>2, <2>1 DEF MayPrecede
<1>7. /\ HostInOrder' /\ Stream' = Stream \cup {e} /\ Ahead' = Ahead \cup {e}
      /\ \A k : InStream(k)' <=> InStream(k) \/ k = "HciCommandComplete"
      /\ \A k : InAhead(k)' <=> InAhead(k) \/ k = "HciCommandComplete"
  BY <1>1, <1>2, <1>6, PacketSent DEF LinkInv
<1>8. HciSound'
  BY <1>1 DEF LinkInv, HciSound
<1>9. PacketsSound'
  <2>1. Says(e, Head(todo), peer)
    BY <1>2, <1>4 DEF Says
  <2>2. Handled' = Handled /\ (Busy' <=> Busy) /\ request' = request /\ todo' = todo /\ peer' = peer
    BY <1>1 DEF Handled, Busy
  <2>3. QED BY <1>2, <1>7, <2>1, <2>2 DEF LinkInv, PacketsSound
<1>10. OneRequest' /\ GattSound'
  BY <1>1, <1>3, <1>7, OneKept, GattKept DEF LinkInv
<1>11. BtSound'
  <2>1. /\ InStream("HciCommandComplete")' /\ ~InStream("HciLeConnectionComplete")'
        /\ ~InStream("HciDisconnectionComplete")'
    BY <1>5, <1>7 DEF Kinds
  <2>2. pc' = pc /\ todo' = todo
    BY <1>1
  <2>3. Advertised' <=> Head(todo) = "adv_on"
    BY <1>3, <1>4, <2>2 DEF Advertised
  <2>4. Len(todo) > 0 /\ (ToAdvertise(todo) \/ ToStop(todo))
    BY <1>4 DEF LinkInv, BtSound, ToAdvertise, ToStop
  <2>5. Head(todo) = "adv_on" => ToAdvertise(todo)
    BY <2>4 DEF ToStop
  <2>6. ToAdvertise(todo) => ctl.conn = 0
    BY <1>4 DEF LinkInv, BtSound
  <2>7. ctl'.adv <=> Head(todo) = "adv_on"
    BY <1>3, <1>4
  <2>8. ToStop(todo) => ctl.conn # 0
    BY DEF LinkInv, BtSound
  <2>9. QED BY <1>3, <1>4, <2>1, <2>2, <2>3, <2>4, <2>5, <2>6, <2>7, <2>8 DEF BtSound
<1>12. Ahead' = Ahead \cup {e} /\ Handled' = Handled
  <2>1. Handled' = Handled
    BY <1>1 DEF Handled, Busy
  <2>2. QED BY <1>7, <2>1
<1>13. QED BY <1>7, <1>8, <1>9, <1>10, <1>11, <1>12 DEF LinkInv, e

\* gatt takes a request, and hci goes on.
LEMMA GattL2capLink ==
  ASSUME Types, LinkInv, GattInboxSound, GattL2cap
  PROVE  /\ LinkInv' /\ Busy' /\ ~Busy /\ request' = packet /\ packet.type = "L2capPacket" /\ pc.hci = "sent"
         /\ Ahead = Ahead' \cup {packet}
<1>1. /\ pc \in States /\ inbox \in Inboxes /\ Received("gatt", "L2capPacket")
      /\ request' = Head(inbox.gatt)
      /\ pc' = [pc EXCEPT !.hci = "read", !.gatt = "respond"]
      /\ UNCHANGED <<packet, conn, handle, sub, todo, ctl, to_host, peer>>
  BY DEF Types, GattL2cap, env
<1>2. /\ pc.hci = "sent" /\ pc.gatt = "recv" /\ packet.type = "L2capPacket"
      /\ request' = packet /\ inbox' = [inbox EXCEPT !.gatt = Tail(@)]
  BY <1>1, GattHears DEF Kinds
<1>3. pc'.hci = "read" /\ pc'.gatt = "respond" /\ pc'.bt = pc.bt /\ inbox'.bt = inbox.bt
  BY <1>1, <1>2 DEF States, Inboxes
<1>4. Busy' /\ ~Busy /\ Handled' = {packet}
  BY <1>2, <1>3 DEF Busy, Handled
<1>5. /\ HostInOrder' /\ Stream' \subseteq Stream /\ Ahead = Ahead' \cup {packet}
      /\ \A k : InStream(k)' <=> InStream(k) /\ k # "L2capPacket"
      /\ \A k : InAhead(k)' <=> InAhead(k) /\ k # "L2capPacket"
  BY <1>1, <1>2, <1>3, PacketDone DEF LinkInv
<1>6. packet \in Stream /\ packet \in Carried
  BY <1>2 DEF Stream, Carried
<1>7. packet \in Packets /\ Says(packet, Head(todo), peer) /\ InStream("L2capPacket")
  BY <1>2, <1>6 DEF LinkInv, PacketsSound, InStream
<1>8. HciSound'
  BY <1>2, <1>3 DEF LinkInv, HciSound
<1>9. PacketsSound'
  <2>1. todo' = todo /\ peer' = peer
    BY <1>1
  <2>2. QED BY <1>2, <1>4, <1>5, <1>7, <2>1 DEF LinkInv, PacketsSound
<1>10. BtSound' /\ GattSound'
  BY <1>1, <1>3, <1>5, BtKept, GattKept DEF LinkInv, Kinds
<1>11. OneRequest'
  <2>1. ~InAhead("HciLeConnectionComplete")
    <3>1. ASSUME NEW m \in Ahead, m.type = "HciLeConnectionComplete"
          PROVE  FALSE
      <4>1. m \in Queued
        BY <1>2, <3>1 DEF Ahead, ToGatt
      <4>2. MayPrecede(packet.type, m.type)
        BY <1>6, <4>1 DEF LinkInv, HostInOrder
      <4>3. QED BY <1>2, <3>1, <4>2 DEF MayPrecede
    <3>2. QED BY <3>1 DEF InAhead
  <2>2. /\ ~InStream("L2capPacket")' /\ ~InAhead("HciLeConnectionComplete")'
        /\ InAhead("HciDisconnectionComplete")' <=> InAhead("HciDisconnectionComplete")
    BY <1>5, <2>1
  <2>3. peer' = peer /\ ctl' = ctl
    BY <1>1
  <2>4. QED BY <1>4, <1>7, <2>2, <2>3 DEF LinkInv, OneRequest
<1>12. QED BY <1>2, <1>4, <1>5, <1>8, <1>9, <1>10, <1>11 DEF LinkInv

\* gatt answers the request and is ready for the next message.
LEMMA GattAnswersLink ==
  ASSUME Types, LinkInv, GattRespond \/ GattNotifyMonitors
  PROVE  /\ LinkInv' /\ Busy /\ Ahead' = Ahead
         /\ GattRespond => Busy' /\ Handled' = Handled
         /\ GattNotifyMonitors => ~Busy'
<1>1. /\ pc \in States
      /\ UNCHANGED <<inbox, packet, request, conn, handle, todo, ctl, to_host>>
      /\ peer \in [conns : Nat, writes : Nat, reads : Nat, pending : BOOLEAN, subscribed : SUBSET Nat,
                   garbled : {{}}, nan : {{}}]
  BY DEF Types, DataTypes, GattRespond, GattNotifyMonitors, env
<1>2. /\ pc'.hci = pc.hci /\ pc'.bt = pc.bt
      /\ GattRespond => pc.gatt = "respond" /\ pc'.gatt = "notify_monitors"
      /\ GattNotifyMonitors => pc.gatt = "notify_monitors" /\ pc'.gatt = "recv"
  BY <1>1 DEF GattRespond, GattNotifyMonitors, States
<1>3. /\ peer'.conns = peer.conns /\ peer'.subscribed = peer.subscribed /\ peer'.writes = peer.writes
      /\ GattNotifyMonitors => sub' = sub /\ peer' = peer
      /\ GattRespond => /\ sub' = (sub \/ request.op = "subscribe")
                        /\ peer'.pending = (peer.pending /\ handle # ctl.conn)
  BY <1>1 DEF GattRespond, GattNotifyMonitors, env
<1>4. Busy /\ (GattRespond => Busy' /\ Handled' = Handled) /\ (GattNotifyMonitors => ~Busy')
  BY <1>1, <1>2 DEF Busy, Handled
<1>5. FlowKept /\ Ahead' = Ahead /\ \A k : InAhead(k)' <=> InAhead(k)
  BY <1>1, <1>2, PacketKept DEF LinkInv
<1>6. HciSound'
  BY <1>1, <1>2 DEF LinkInv, HciSound
<1>7. PacketsSound' /\ BtSound'
  BY <1>1, <1>2, <1>3, <1>4, <1>5, PacketsKept, BtKept DEF LinkInv, FlowKept
<1>8. /\ InAhead("HciLeConnectionComplete")' <=> InAhead("HciLeConnectionComplete")
      /\ InAhead("HciDisconnectionComplete")' <=> InAhead("HciDisconnectionComplete")
      /\ InStream("L2capPacket")' <=> InStream("L2capPacket")
  BY <1>5 DEF FlowKept
<1>9. OneRequest'
  <2>1. ~InStream("L2capPacket") /\ ~InAhead("HciLeConnectionComplete") /\ pc'.gatt # "respond"
    BY <1>2, <1>4 DEF LinkInv, OneRequest
  <2>2. ctl.conn # 0 \/ InAhead("HciDisconnectionComplete")
    BY <1>4 DEF LinkInv, OneRequest
  <2>3. ctl' = ctl
    BY <1>1
  <2>4. QED BY <1>8, <2>1, <2>2, <2>3 DEF OneRequest
<1>10. GattSound'
  <2>1. CASE GattNotifyMonitors
    BY <1>1, <1>3, <1>8, <2>1, GattKept DEF LinkInv
  <2>2. CASE GattRespond
    <3>1. conn /\ handle = peer.conns
      BY <1>4 DEF LinkInv, OneRequest, GattSound
    <3>2. Says(request, Head(todo), peer) /\ request.type = "L2capPacket"
      BY <1>4 DEF LinkInv, PacketsSound, Handled
    <3>3. sub' => handle \in peer.subscribed
      BY <1>3, <2>2, <3>1, <3>2 DEF LinkInv, GattSound, Says
    <3>4. conn' = conn /\ handle' = handle /\ ctl' = ctl
      BY <1>1
    <3>5. QED BY <1>3, <1>8, <3>1, <3>3, <3>4 DEF LinkInv, GattSound
  <2>3. QED BY <2>1, <2>2
<1>11. QED BY <1>4, <1>5, <1>6, <1>7, <1>9, <1>10 DEF LinkInv, FlowKept

\* gatt hears of a connection, or of its end, and hci goes on to bt.
LEMMA GattConnectionLink ==
  ASSUME Types, LinkInv, GattInboxSound, GattConnected \/ GattDisconnected
  PROVE  /\ LinkInv' /\ pc.hci = "sent" /\ packet.type # "L2capPacket" /\ Ahead = Ahead' \cup {packet}
         /\ ~Busy /\ ~Busy' /\ Handled' = Handled
<1>1. /\ pc \in States /\ inbox \in Inboxes
      /\ pc' = [pc EXCEPT !.hci = "to_bt"]
      /\ \/ /\ Received("gatt", "HciLeConnectionComplete")
            /\ conn' = TRUE /\ handle' = Head(inbox.gatt).handle /\ sub' = sub
         \/ /\ Received("gatt", "HciDisconnectionComplete")
            /\ conn' = FALSE /\ handle' = handle /\ sub' = FALSE
      /\ UNCHANGED <<packet, request, todo, ctl, to_host, peer>>
  BY DEF Types, GattConnected, GattDisconnected, env
<1>2. /\ pc.hci = "sent" /\ pc.gatt = "recv" /\ inbox' = [inbox EXCEPT !.gatt = Tail(@)]
      /\ \/ /\ packet.type = "HciLeConnectionComplete"
            /\ conn' = TRUE /\ handle' = packet.handle /\ sub' = sub
         \/ /\ packet.type = "HciDisconnectionComplete"
            /\ conn' = FALSE /\ handle' = handle /\ sub' = FALSE
  BY <1>1, GattHears DEF Kinds
<1>3. pc'.hci = "to_bt" /\ pc'.gatt = pc.gatt /\ pc'.bt = pc.bt /\ inbox'.bt = inbox.bt
  BY <1>1, <1>2 DEF States, Inboxes
<1>4. ~Busy /\ ~Busy' /\ Handled' = Handled
  BY <1>2, <1>3 DEF Busy, Handled
<1>5. /\ FlowKept /\ Ahead = Ahead' \cup {packet}
      /\ \A k : InAhead(k)' <=> InAhead(k) /\ k # packet.type
  BY <1>1, <1>2, <1>3, PacketHeard DEF LinkInv
<1>6. packet \in Stream /\ packet \in Carried /\ packet \in Ahead /\ InAhead(packet.type) /\ InStream(packet.type)
  BY <1>2 DEF Stream, Carried, Ahead, ToGatt, InAhead, InStream
<1>7. Says(packet, Head(todo), peer)
  BY <1>6 DEF LinkInv, PacketsSound
<1>8. HciSound'
  BY <1>1, <1>2, <1>3 DEF LinkInv, HciSound
<1>9. PacketsSound' /\ BtSound'
  BY <1>1, <1>3, <1>4, <1>5, PacketsKept, BtKept DEF LinkInv, FlowKept
<1>10. ctl' = ctl /\ peer' = peer
  BY <1>1
<1>11. CASE packet.type = "HciLeConnectionComplete"
  <2>1. /\ ~InAhead("HciLeConnectionComplete")'
        /\ InAhead("HciDisconnectionComplete")' <=> InAhead("HciDisconnectionComplete")
        /\ InStream("L2capPacket")' <=> InStream("L2capPacket")
    BY <1>5, <1>11 DEF FlowKept
  <2>2. ctl.conn # 0 /\ conn' = TRUE /\ handle' = peer.conns /\ sub' = sub
    <3>1. ctl.conn # 0
      BY <1>6, <1>11 DEF LinkInv, BtSound
    <3>2. QED BY <1>2, <1>7, <1>11, <3>1 DEF Says
  <2>3. ~sub
    <3>1. ~InAhead("HciDisconnectionComplete")
      <4>1. ASSUME NEW m \in Ahead, m.type = "HciDisconnectionComplete"
            PROVE  FALSE
        <5>1. m \in Queued
          BY <1>2, <1>11, <4>1 DEF Ahead, ToGatt
        <5>2. MayPrecede(packet.type, m.type)
          BY <1>6, <5>1 DEF LinkInv, HostInOrder
        <5>3. QED BY <1>11, <4>1, <5>2 DEF MayPrecede
      <4>2. QED BY <4>1 DEF InAhead
    <3>2. ~conn
      BY <1>6, <1>11, <3>1 DEF LinkInv, GattSound
    <3>3. QED BY <3>2 DEF LinkInv, GattSound
  <2>4. GattSound'
    BY <1>10, <2>1, <2>2, <2>3 DEF LinkInv, GattSound
  <2>5. OneRequest'
    BY <1>3, <1>4, <1>10, <2>1, <2>2 DEF LinkInv, OneRequest
  <2>6. QED BY <1>2, <1>4, <1>5, <1>8, <1>9, <1>11, <2>4, <2>5 DEF LinkInv, FlowKept
<1>12. CASE packet.type = "HciDisconnectionComplete"
  <2>1. /\ ~InAhead("HciDisconnectionComplete")'
        /\ InAhead("HciLeConnectionComplete")' <=> InAhead("HciLeConnectionComplete")
        /\ InStream("L2capPacket")' <=> InStream("L2capPacket")
    BY <1>5, <1>12 DEF FlowKept
  <2>2. ctl.conn = 0 /\ conn' = FALSE /\ handle' = handle /\ sub' = FALSE
    <3>1. ctl.conn = 0
      BY <1>6, <1>12 DEF LinkInv, BtSound
    <3>2. QED BY <1>2, <1>12, <3>1
  <2>3. GattSound'
    BY <1>10, <2>1, <2>2 DEF LinkInv, GattSound
  <2>4. ~InStream("L2capPacket")
    <3>1. ASSUME NEW m \in Stream, m.type = "L2capPacket"
          PROVE  FALSE
      <4>1. m \in Queued
        BY <1>2, <1>12, <3>1 DEF Stream, Carried
      <4>2. MayPrecede(packet.type, m.type)
        BY <1>6, <4>1 DEF LinkInv, HostInOrder
      <4>3. QED BY <1>12, <3>1, <4>2 DEF MayPrecede
    <3>2. QED BY <3>1 DEF InStream
  <2>5. OneRequest'
    BY <1>2, <1>3, <1>4, <1>10, <2>1, <2>4 DEF OneRequest
  <2>6. QED BY <1>2, <1>4, <1>5, <1>8, <1>9, <1>12, <2>3, <2>5 DEF LinkInv, FlowKept
<1>13. QED BY <1>2, <1>11, <1>12

\* A peer connects.
LEMMA PeerConnectLink ==
  ASSUME Types, LinkInv, PeerConnect
  PROVE  /\ LinkInv' /\ ~Busy /\ ~Busy' /\ ~InStream("L2capPacket")
         /\ \E e \in Packets : e.type = "HciLeConnectionComplete" /\ Ahead' = Ahead \cup {e}
<1>0. PICK e : e = [type |-> "HciLeConnectionComplete", handle |-> peer.conns + 1]
  OBVIOUS
<1>1. /\ ctl.adv /\ ctl.conn = 0 /\ to_host \in Seq(Packets) /\ to_host' = Append(to_host, e)
      /\ ctl' = [ctl EXCEPT !.adv = FALSE, !.conn = peer.conns + 1]
      /\ peer' = [peer EXCEPT !.conns = @ + 1, !.pending = FALSE]
      /\ ctl \in [adv : BOOLEAN, conn : Nat, command : Commands \cup {NoCommand}]
      /\ peer \in [conns : Nat, writes : Nat, reads : Nat, pending : BOOLEAN, subscribed : SUBSET Nat,
                   garbled : {{}}, nan : {{}}]
      /\ UNCHANGED <<pc, inbox, packet, request, conn, handle, sub, todo>>
  BY <1>0 DEF Types, DataTypes, PeerConnect, gattVars
<1>2. e \in Packets /\ e.type = "HciLeConnectionComplete" /\ e.handle = peer.conns + 1
  BY <1>0, <1>1 DEF Packets
<1>3. /\ ctl'.adv = FALSE /\ ctl'.conn = peer.conns + 1 /\ ctl'.command = ctl.command /\ ctl'.conn # 0
      /\ peer'.conns = peer.conns + 1 /\ peer'.pending = FALSE /\ peer'.subscribed = peer.subscribed
      /\ peer'.writes = peer.writes /\ peer.conns \in Nat
  BY <1>1
<1>4. Advertised /\ pc.bt # "loop"
  BY <1>1 DEF LinkInv, BtSound, Advertised
<1>5. ~InStream("HciLeConnectionComplete") /\ ~InStream("HciDisconnectionComplete")
  BY <1>1, <1>4 DEF LinkInv, BtSound
<1>6. ~InAhead("HciLeConnectionComplete") /\ ~InAhead("HciDisconnectionComplete")
  <2>1. Ahead \subseteq Stream
    BY DEF Ahead, Stream, ToGatt, Carried
  <2>2. QED BY <1>5, <2>1 DEF InStream, InAhead
<1>7. ~InStream("L2capPacket") /\ ~Busy
  BY <1>1, <1>6 DEF LinkInv, OneRequest
<1>8. \A m \in Stream : m.type = "HciCommandComplete"
  <2>1. ASSUME NEW m \in Stream
        PROVE  m.type = "HciCommandComplete"
    <3>1. m.type \in Kinds /\ InStream(m.type)
      BY <2>1, PacketKinds DEF LinkInv, PacketsSound, InStream
    <3>2. QED BY <1>5, <1>7, <3>1 DEF Kinds
  <2>2. QED BY <2>1
<1>9. /\ HostInOrder' /\ Stream' = Stream \cup {e} /\ Ahead' = Ahead \cup {e}
      /\ \A k : InStream(k)' <=> InStream(k) \/ k = "HciLeConnectionComplete"
      /\ \A k : InAhead(k)' <=> InAhead(k) \/ k = "HciLeConnectionComplete"
  <2>1. \A m \in Stream : MayPrecede(m.type, e.type)
    BY <1>2, <1>8 DEF MayPrecede
  <2>2. pc'.hci = pc.hci
    BY <1>1
  <2>3. QED BY <1>1, <1>2, <2>1, <2>2, PacketSent DEF LinkInv
<1>10. HciSound' /\ ~Busy' /\ Handled' = {}
  BY <1>1, <1>7 DEF LinkInv, HciSound, Busy, Handled
<1>11. PacketsSound'
  <2>1. \A m \in Stream : m \in Packets /\ Says(m, Head(todo), peer)'
    BY <1>1, <1>8 DEF LinkInv, PacketsSound, Says
  <2>2. Says(e, Head(todo), peer)'
    BY <1>2, <1>3 DEF Says
  <2>3. QED BY <1>2, <1>9, <1>10, <2>1, <2>2 DEF PacketsSound
<1>12. BtSound'
  <2>1. /\ InStream("HciCommandComplete")' <=> InStream("HciCommandComplete")
        /\ InStream("HciLeConnectionComplete")'
        /\ ~InStream("HciDisconnectionComplete")'
    BY <1>5, <1>9
  <2>2. pc' = pc /\ todo' = todo
    BY <1>1
  <2>3. Advertised'
    BY <1>3, <1>4, <2>2 DEF Advertised
  <2>4. QED BY <1>3, <1>4, <2>1, <2>2, <2>3 DEF LinkInv, BtSound
<1>13. OneRequest'
  <2>1. ~InStream("L2capPacket")'
    BY <1>7, <1>9
  <2>2. QED BY <1>10, <2>1 DEF OneRequest, Busy
<1>14. GattSound'
  <2>1. InAhead("HciLeConnectionComplete")' /\ ~InAhead("HciDisconnectionComplete")'
    BY <1>6, <1>9
  <2>2. ~conn /\ handle = peer.conns /\ ~sub
    BY <1>1, <1>6 DEF LinkInv, GattSound
  <2>3. conn' = conn /\ handle' = handle /\ sub' = sub
    BY <1>1
  <2>4. peer'.conns - 1 = peer.conns
    BY <1>3
  <2>5. QED BY <1>3, <2>1, <2>2, <2>3, <2>4 DEF GattSound
<1>15. QED BY <1>2, <1>7, <1>9, <1>10, <1>11, <1>12, <1>13, <1>14 DEF LinkInv

\* The peer leaves, once advertising has stopped.
LEMMA PeerDisconnectLink ==
  ASSUME Types, LinkInv, PatientPeer, PeerDisconnect
  PROVE  /\ LinkInv' /\ Handled' = Handled
         /\ \E e \in Packets : e.type = "HciDisconnectionComplete" /\ Ahead' = Ahead \cup {e}
<1> DEFINE e == [type |-> "HciDisconnectionComplete"]
<1>1. /\ ctl.conn # 0 /\ pc.bt = "loop" /\ to_host \in Seq(Packets) /\ to_host' = Append(to_host, e)
      /\ ctl' = [ctl EXCEPT !.conn = 0]
      /\ ctl \in [adv : BOOLEAN, conn : Nat, command : Commands \cup {NoCommand}]
      /\ UNCHANGED <<pc, inbox, packet, request, conn, handle, sub, todo, peer>>
  BY DEF Types, DataTypes, PeerDisconnect, gattVars
<1>2. e \in Packets /\ e.type = "HciDisconnectionComplete"
  BY DEF Packets
<1>3. ctl'.adv = ctl.adv /\ ctl'.conn = 0 /\ ctl'.command = ctl.command
  BY <1>1
<1> HIDE DEF e
<1>4. ~Advertised /\ ~Advertised'
  BY <1>1 DEF Advertised
<1>5. /\ ~InStream("HciCommandComplete") /\ ~InStream("HciLeConnectionComplete")
      /\ ~InStream("HciDisconnectionComplete") /\ ~ctl.adv /\ ctl.command = NoCommand
  BY <1>1, <1>4 DEF LinkInv, BtSound
<1>6. ~InAhead("HciLeConnectionComplete") /\ ~InAhead("HciDisconnectionComplete")
  <2>1. Ahead \subseteq Stream
    BY DEF Ahead, Stream, ToGatt, Carried
  <2>2. QED BY <1>5, <2>1 DEF InStream, InAhead
<1>7. /\ HostInOrder' /\ Stream' = Stream \cup {e} /\ Ahead' = Ahead \cup {e}
      /\ \A k : InStream(k)' <=> InStream(k) \/ k = "HciDisconnectionComplete"
      /\ \A k : InAhead(k)' <=> InAhead(k) \/ k = "HciDisconnectionComplete"
  <2>1. ASSUME NEW m \in Stream
        PROVE  MayPrecede(m.type, e.type)
    <3>1. m.type \in Kinds /\ InStream(m.type)
      BY <2>1, PacketKinds DEF LinkInv, PacketsSound, InStream
    <3>2. m.type = "L2capPacket"
      BY <1>5, <3>1 DEF Kinds
    <3>3. QED BY <1>2, <3>2 DEF MayPrecede
  <2>2. pc'.hci = pc.hci
    BY <1>1
  <2>3. QED BY <1>1, <1>2, <2>1, <2>2, PacketSent DEF LinkInv
<1>8. HciSound' /\ (Busy' <=> Busy) /\ Handled' = Handled
  BY <1>1 DEF LinkInv, HciSound, Busy, Handled
<1>9. PacketsSound'
  <2>1. \A m \in Stream \cup Handled : m \in Packets /\ Says(m, Head(todo), peer)'
    BY <1>1 DEF LinkInv, PacketsSound, Says
  <2>2. Says(e, Head(todo), peer)'
    BY <1>2 DEF Says
  <2>3. request' = request
    BY <1>1
  <2>4. QED BY <1>2, <1>7, <1>8, <2>1, <2>2, <2>3 DEF LinkInv, PacketsSound
<1>10. BtSound'
  <2>1. /\ ~InStream("HciCommandComplete")' /\ ~InStream("HciLeConnectionComplete")'
        /\ InStream("HciDisconnectionComplete")'
    BY <1>5, <1>7
  <2>2. pc' = pc /\ todo' = todo
    BY <1>1
  <2>3. Len(todo) = 0 \/ Len(todo) > 0
    <3>1. Len(todo) \in Nat
      BY DEF Types, DataTypes
    <3>2. QED BY <3>1
  <2>4. ~(Len(todo) > 0)
    BY <1>1 DEF LinkInv, BtSound
  <2>5. ~ToStop(todo) /\ ~ToAdvertise(todo)
    BY <2>3, <2>4 DEF ToStop, ToAdvertise
  <2>6. QED BY <1>1, <1>3, <1>4, <1>5, <2>1, <2>2, <2>3, <2>4, <2>5 DEF BtSound
<1>11. OneRequest'
  <2>1. /\ InAhead("HciDisconnectionComplete")' /\ ~InAhead("HciLeConnectionComplete")'
        /\ InStream("L2capPacket")' <=> InStream("L2capPacket")
    BY <1>6, <1>7
  <2>2. pc' = pc /\ peer' = peer
    BY <1>1
  <2>3. QED BY <1>8, <2>1, <2>2 DEF LinkInv, OneRequest
<1>12. GattSound'
  <2>1. InAhead("HciDisconnectionComplete")' /\ ~InAhead("HciLeConnectionComplete")'
    BY <1>6, <1>7
  <2>2. conn /\ handle = peer.conns
    BY <1>1, <1>6 DEF LinkInv, GattSound
  <2>3. conn' = conn /\ handle' = handle /\ sub' = sub /\ peer' = peer
    BY <1>1
  <2>4. QED BY <1>3, <2>1, <2>2, <2>3 DEF LinkInv, GattSound
<1>13. QED BY <1>2, <1>7, <1>8, <1>9, <1>10, <1>11, <1>12 DEF LinkInv

\* The peer makes a request, once gatt has done with the one before.
LEMMA PeerRequestLink ==
  ASSUME Types, LinkInv, SlowRadio, NEW m \in Packets, PeerRequest(m), m.type = "L2capPacket",
         peer'.conns = peer.conns, peer.subscribed \subseteq peer'.subscribed, peer'.pending = TRUE,
         Says(m, Head(todo), peer)'
  PROVE  LinkInv' /\ ~Busy /\ ~Busy' /\ ~InStream("L2capPacket") /\ Ahead' = Ahead \cup {m}
<1>1. /\ ctl.conn # 0 /\ ~peer.pending /\ pc.gatt = "recv"
      /\ to_host \in Seq(Packets) /\ to_host' = Append(to_host, m)
      /\ UNCHANGED <<pc, inbox, packet, request, conn, handle, sub, todo, ctl>>
  BY DEF Types, DataTypes, PeerRequest, gattVars
<1>2. ~Busy /\ ~Busy' /\ Handled' = {}
  BY <1>1 DEF Busy, Handled
<1>3. ~InStream("L2capPacket")
  BY <1>1 DEF LinkInv, OneRequest
<1>4. ~InStream("HciDisconnectionComplete")
  BY <1>1 DEF LinkInv, BtSound
<1>5. ~InAhead("HciDisconnectionComplete")
  <2>1. Ahead \subseteq Stream
    BY DEF Ahead, Stream, ToGatt, Carried
  <2>2. QED BY <1>4, <2>1 DEF InStream, InAhead
<1>6. \A x \in Stream : x.type \in {"HciCommandComplete", "HciLeConnectionComplete"}
  <2>1. ASSUME NEW x \in Stream
        PROVE  x.type \in {"HciCommandComplete", "HciLeConnectionComplete"}
    <3>1. x.type \in Kinds /\ InStream(x.type)
      BY <2>1, PacketKinds DEF LinkInv, PacketsSound, InStream
    <3>2. QED BY <1>3, <1>4, <3>1 DEF Kinds
  <2>2. QED BY <2>1
<1>7. /\ HostInOrder' /\ Stream' = Stream \cup {m} /\ Ahead' = Ahead \cup {m}
      /\ \A k : InStream(k)' <=> InStream(k) \/ k = "L2capPacket"
      /\ \A k : InAhead(k)' <=> InAhead(k) \/ k = "L2capPacket"
  <2>1. \A x \in Stream : MayPrecede(x.type, m.type)
    BY <1>6 DEF MayPrecede
  <2>2. pc'.hci = pc.hci
    BY <1>1
  <2>3. QED BY <1>1, <2>1, <2>2, PacketSent DEF LinkInv
<1>8. HciSound'
  BY <1>1 DEF LinkInv, HciSound
<1>9. PacketsSound'
  <2>1. \A x \in Stream : x \in Packets /\ Says(x, Head(todo), peer)'
    BY <1>1, <1>6 DEF LinkInv, PacketsSound, Says
  <2>2. QED BY <1>2, <1>7, <2>1 DEF PacketsSound
<1>10. BtSound'
  <2>1. pc'.bt = pc.bt /\ todo' = todo /\ ctl' = ctl
    BY <1>1
  <2>2. QED BY <1>7, <2>1, BtKept DEF LinkInv, Kinds
<1>11. OneRequest'
  <2>1. pc' = pc /\ ctl' = ctl
    BY <1>1
  <2>2. QED BY <1>1, <1>2, <2>1 DEF OneRequest
<1>12. GattSound'
  <2>1. /\ InAhead("HciDisconnectionComplete")' <=> InAhead("HciDisconnectionComplete")
        /\ InAhead("HciLeConnectionComplete")' <=> InAhead("HciLeConnectionComplete")
    BY <1>7
  <2>2. conn' = conn /\ handle' = handle /\ sub' = sub /\ ctl' = ctl
    BY <1>1
  <2>3. QED BY <2>1, <2>2 DEF LinkInv, GattSound
<1>13. QED BY <1>2, <1>3, <1>7, <1>8, <1>9, <1>10, <1>11, <1>12 DEF LinkInv

\* Writes, other requests and subscriptions say what is true.
LEMMA PeerAsksLink ==
  ASSUME Types, LinkInv, SlowRadio, PeerWrite \/ PeerRead \/ PeerSubscribe
  PROVE  /\ LinkInv' /\ ~Busy /\ ~Busy' /\ ~InStream("L2capPacket")
         /\ \E m \in Packets :
              /\ m.type = "L2capPacket" /\ Ahead' = Ahead \cup {m}
              /\ PeerWrite => m.op = "write" /\ peer'.writes = peer.writes + 1
              /\ ~PeerWrite => m.op # "write" /\ peer'.writes = peer.writes
<1>1. /\ peer \in [conns : Nat, writes : Nat, reads : Nat, pending : BOOLEAN, subscribed : SUBSET Nat,
                   garbled : {{}}, nan : {{}}]
      /\ todo' = todo
  BY DEF Types, DataTypes, PeerWrite, PeerRead, PeerSubscribe, PeerRequest
<1>2. CASE PeerWrite
  <2>0. PICK m : m = [type |-> "L2capPacket", op |-> "write", n |-> peer.writes + 1]
    OBVIOUS
  <2>1. PeerRequest(m) /\ peer' = [peer EXCEPT !.writes = @ + 1, !.pending = TRUE]
    BY <1>2, <2>0 DEF PeerWrite
  <2>2. m \in Packets /\ m.type = "L2capPacket" /\ m.op = "write" /\ m.n = peer.writes + 1
    BY <1>1, <2>0 DEF Packets
  <2>3. /\ peer'.conns = peer.conns /\ peer'.subscribed = peer.subscribed /\ peer'.pending = TRUE
        /\ peer'.writes = peer.writes + 1
    BY <1>1, <2>1
  <2>4. Says(m, Head(todo), peer)'
    BY <2>2, <2>3 DEF Says
  <2>5. QED BY <1>2, <2>1, <2>2, <2>3, <2>4, PeerRequestLink
<1>3. CASE ~PeerWrite /\ PeerRead
  <2>0. PICK m : m = [type |-> "L2capPacket", op |-> "read"]
    OBVIOUS
  <2>1. PeerRequest(m) /\ peer' = [peer EXCEPT !.reads = @ + 1, !.pending = TRUE]
    BY <1>3, <2>0 DEF PeerRead
  <2>2. m \in Packets /\ m.type = "L2capPacket" /\ m.op = "read"
    BY <1>1, <2>0 DEF Packets
  <2>3. /\ peer'.conns = peer.conns /\ peer'.subscribed = peer.subscribed /\ peer'.pending = TRUE
        /\ peer'.writes = peer.writes
    BY <1>1, <2>1
  <2>4. Says(m, Head(todo), peer)'
    BY <2>2, <2>3 DEF Says
  <2>5. QED BY <1>3, <2>1, <2>2, <2>3, <2>4, PeerRequestLink
<1>4. CASE ~PeerWrite /\ PeerSubscribe
  <2>0. PICK m : m = [type |-> "L2capPacket", op |-> "subscribe"]
    OBVIOUS
  <2>1. PeerRequest(m) /\ peer' = [peer EXCEPT !.subscribed = @ \cup {ctl.conn}, !.pending = TRUE]
    BY <1>4, <2>0 DEF PeerSubscribe
  <2>2. m \in Packets /\ m.type = "L2capPacket" /\ m.op = "subscribe"
    BY <1>1, <2>0 DEF Packets
  <2>3. /\ peer'.conns = peer.conns /\ peer'.subscribed = peer.subscribed \cup {ctl.conn}
        /\ peer'.pending = TRUE /\ peer'.writes = peer.writes
    BY <1>1, <2>1
  <2>4. ctl.conn = peer.conns
    BY <2>1 DEF PeerRequest, LinkInv, GattSound
  <2>5. Says(m, Head(todo), peer)'
    BY <2>2, <2>3, <2>4 DEF Says
  <2>6. QED BY <1>4, <2>1, <2>2, <2>3, <2>5, PeerRequestLink
<1>5. QED BY <1>2, <1>3, <1>4

-----------------------------------------------------------------------------
(* Every step: the link.                                                   *)

\* The steps of the other programs, and those of gatt that only answer them.
Apart ==
  \/ GattMonitorReq \/ GattPublish \/ GattReminder
  \/ MonitorRegister \/ MonitorForward \/ RelayUpdate \/ RelayRequest
  \/ CmdAsk \/ CmdAck \/ CmdExecute \/ HelperRemind \/ HelperWake

\* They do not touch what the link's programs know of each other.
LEMMA ApartLink ==
  ASSUME Types, Apart
  PROVE  LinkSame
<1> USE DEF LinkSame, gattVars, env
<1>1. /\ pc \in States /\ inbox \in Inboxes
      /\ \A r \in {"gatt", "relay"} : \A m :
           LET i == [inbox EXCEPT ![r] = m] IN i.bt = inbox.bt
      /\ \A t \in {"monitor", "relay", "cmd", "helper"} : \A s :
           LET p == [pc EXCEPT ![t] = s] IN p.hci = pc.hci /\ p.bt = pc.bt /\ p.gatt = pc.gatt
  BY DEF Types, States, Inboxes
<1>0. ASSUME NEW t \in {"monitor", "cmd", "helper"}, NEW r \in {"gatt", "relay"}, NEW m, NEW b,
             ker_send(t, r, m, b)
      PROVE  pc'.hci = pc.hci /\ pc'.bt = pc.bt /\ pc'.gatt = pc.gatt /\ inbox'.bt = inbox.bt
  <2>1. CASE pc[r] = "dead"
    <3>1. pc' = [pc EXCEPT ![t] = "dead"] /\ inbox' = inbox
      BY <1>0, <2>1 DEF ker_send
    <3>2. QED BY <1>1, <3>1 DEF States
  <2>2. CASE pc[r] # "dead"
    <3>1. pc' = [pc EXCEPT ![t] = b] /\ inbox' = [inbox EXCEPT ![r] = Append(@, m)]
      BY <1>0, <2>2 DEF ker_send
    <3>2. pc'.hci = pc.hci /\ pc'.bt = pc.bt /\ pc'.gatt = pc.gatt
      BY <1>1, <3>1 DEF States
    <3>3. inbox'.bt = inbox.bt
      BY <1>1, <3>1 DEF Inboxes
    <3>4. QED BY <3>2, <3>3
  <2>3. QED BY <2>1, <2>2
<1>2. CASE GattMonitorReq
  BY <1>1, <1>2 DEF GattMonitorReq, Received
<1>3. CASE GattPublish
  BY <1>1, <1>3 DEF GattPublish, Received
<1>4. CASE GattReminder
  BY <1>1, <1>4 DEF GattReminder, Received
<1>5. CASE MonitorRegister
  BY <1>0, <1>5 DEF MonitorRegister
<1>6. CASE MonitorForward
  BY <1>0, <1>6 DEF MonitorForward
<1>7. CASE RelayUpdate
  <2>1. pc'.hci = pc.hci /\ pc'.bt = pc.bt /\ pc'.gatt = pc.gatt
    BY <1>1, <1>7 DEF RelayUpdate, States
  <2>2. inbox'.bt = inbox.bt
    BY <1>1, <1>7 DEF RelayUpdate, Received
  <2>3. QED BY <1>7, <2>1, <2>2 DEF RelayUpdate
<1>8. CASE RelayRequest
  <2>1. pc'.hci = pc.hci /\ pc'.bt = pc.bt /\ pc'.gatt = pc.gatt
    BY <1>1, <1>8 DEF RelayRequest, States
  <2>2. inbox'.bt = inbox.bt
    BY <1>1, <1>8 DEF RelayRequest, Received
  <2>3. QED BY <1>8, <2>1, <2>2 DEF RelayRequest
<1>9. CASE CmdAsk
  BY <1>0, <1>9 DEF CmdAsk
<1>10. CASE CmdAck
  BY <1>0, <1>10 DEF CmdAck
<1>11. CASE CmdExecute
  BY <1>1, <1>11 DEF CmdExecute
<1>12. CASE HelperRemind
  BY <1>0, <1>12 DEF HelperRemind
<1>13. CASE HelperWake
  BY <1>1, <1>13 DEF HelperWake
<1>14. QED BY <1>2, <1>3, <1>4, <1>5, <1>6, <1>7, <1>8, <1>9, <1>10, <1>11, <1>12, <1>13 DEF Apart

\* Every step keeps what the programs of the link know of each other.
LEMMA LinkStep ==
  ASSUME Unhurried, Types, LinkInv, GattInboxSound, [ValidNext]_vars
  PROVE  LinkInv'
<1>1. CASE HciRead
  BY <1>1, HciReadLink
<1>2. CASE HciToGatt \/ HciToBt
  BY <1>2, HciSendsLink
<1>3. CASE BtComplete
  BY <1>3, BtCompleteLink
<1>4. CASE BtConnection \/ BtLoop
  BY <1>4, BtHearsLink
<1>5. CASE BtCmd \/ TxDone
  BY <1>5, BtSendsLink
<1>6. CASE CommandComplete
  BY <1>6, CommandCompleteLink
<1>7. CASE GattL2cap
  BY <1>7, GattL2capLink
<1>8. CASE GattRespond \/ GattNotifyMonitors
  BY <1>8, GattAnswersLink
<1>9. CASE GattConnected \/ GattDisconnected
  BY <1>9, GattConnectionLink
<1>10. CASE PeerConnect
  BY <1>10, PeerConnectLink
<1>11. CASE PeerDisconnect
  BY <1>11, PeerDisconnectLink DEF Unhurried
<1>12. CASE PeerWrite \/ PeerRead \/ PeerSubscribe
  BY <1>12, PeerAsksLink DEF Unhurried
<1>13. CASE Apart
  BY <1>13, ApartLink, LinkKept
<1>14. CASE UNCHANGED vars
  BY <1>14, LinkKept DEF LinkSame, vars, gattVars, env
<1>15. QED BY <1>1, <1>2, <1>3, <1>4, <1>5, <1>6, <1>7, <1>8, <1>9, <1>10, <1>11, <1>12, <1>13, <1>14
  DEF ValidNext, Apart

-----------------------------------------------------------------------------
(* Every step: types.                                                      *)

\* A message is taken.
LEMMA InboxTaken ==
  ASSUME inbox \in Inboxes, NEW t \in {"gatt", "bt", "relay"}, inbox[t] # <<>>,
         inbox' = [inbox EXCEPT ![t] = Tail(@)]
  PROVE  inbox' \in Inboxes /\ Head(inbox[t]) \in Messages
<1>1. inbox[t] \in Seq(Messages)
  BY DEF Inboxes
<1>2. Tail(inbox[t]) \in Seq(Messages) /\ Head(inbox[t]) \in Messages
  BY <1>1, Popped
<1>3. QED BY <1>2 DEF Inboxes

\* A message is sent.
LEMMA InboxSent ==
  ASSUME inbox \in Inboxes, NEW t \in {"gatt", "bt", "relay"}, NEW m \in Messages,
         inbox' = [inbox EXCEPT ![t] = Append(@, m)]
  PROVE  inbox' \in Inboxes
<1>1. inbox[t] \in Seq(Messages)
  BY DEF Inboxes
<1>2. Append(inbox[t], m) \in Seq(Messages)
  BY <1>1, Appended
<1>3. QED BY <1>2 DEF Inboxes

\* hci's steps.
LEMMA HciTypes ==
  ASSUME Types, LinkInv, HciRead \/ HciToGatt \/ HciToBt
  PROVE  Types'
<1>1. pc \in States /\ inbox \in Inboxes /\ to_host \in Seq(Packets)
  BY DEF Types, DataTypes
<1>2. CASE HciRead
  <2>1. to_host # <<>>
    BY <1>2 DEF HciRead, Runs, Ready, Blocked, Receiving
  <2>2. Head(to_host) \in Packets /\ Tail(to_host) \in Seq(Packets)
    BY <1>1, <2>1, Popped
  <2>3. pc' \in States
    BY <1>1, <1>2 DEF HciRead, States
  <2>4. DataTypes'
    BY <1>2, <2>2 DEF Types, DataTypes, HciRead, gattVars, relayVars
  <2>5. QED BY <1>1, <1>2, <2>3, <2>4 DEF Types, HciRead
<1>3. CASE HciToGatt \/ HciToBt
  <2>1. packet \in Messages
    BY <1>3 DEF HciToGatt, HciToBt, LinkInv, HciSound, Messages
  <2>2. pc' \in States /\ inbox' \in Inboxes
    <3>1. CASE HciToGatt
      <4>1. pc' = [pc EXCEPT !.hci = "sent"] /\ inbox' = [inbox EXCEPT !.gatt = Append(@, packet)]
        BY <1>1, <3>1 DEF HciToGatt, ker_send, States
      <4>2. QED BY <1>1, <2>1, <4>1, InboxSent DEF States
    <3>2. CASE HciToBt
      <4>1. pc' = [pc EXCEPT !.hci = "sent_bt"] /\ inbox' = [inbox EXCEPT !.bt = Append(@, packet)]
        BY <1>1, <3>2 DEF HciToBt, ker_send, States
      <4>2. QED BY <1>1, <2>1, <4>1, InboxSent DEF States
    <3>3. QED BY <1>3, <3>1, <3>2
  <2>3. DataTypes'
    BY <1>3 DEF Types, DataTypes, HciToGatt, HciToBt, gattVars, relayVars, env
  <2>4. QED BY <2>2, <2>3 DEF Types
<1>4. QED BY <1>2, <1>3

\* bt's steps, and the end of its write.
LEMMA BtTypes ==
  ASSUME Types, LinkInv, BtCmd \/ BtComplete \/ BtConnection \/ BtLoop \/ TxDone
  PROVE  Types'
<1>1. /\ pc \in States /\ inbox \in Inboxes /\ todo \in Seq(Commands)
      /\ ctl \in [adv : BOOLEAN, conn : Nat, command : Commands \cup {NoCommand}]
  BY DEF Types, DataTypes
<1>2. CASE BtCmd
  <2>1. pc' \in States /\ inbox' \in Inboxes
    BY <1>1, <1>2 DEF BtCmd, States
  <2>2. DataTypes'
    BY <1>2 DEF Types, DataTypes, BtCmd, gattVars, relayVars, env
  <2>3. QED BY <2>1, <2>2 DEF Types
<1>3. CASE BtComplete
  <2>1. PICK b : pc' = [pc EXCEPT !.hci = "read", !.bt = b]
    BY <1>3 DEF BtComplete
  <2>2. pc' \in States
    <3>1. pc'.bt = b
      BY <1>1, <2>1 DEF States
    <3>2. b \in {"cmd", "connection", "loop"}
      BY <1>3, <3>1, BtCompleteLink
    <3>3. QED BY <1>1, <2>1, <3>2 DEF States
  <2>3. inbox.bt # <<>> /\ inbox' = [inbox EXCEPT !.bt = Tail(@)]
    BY <1>3 DEF BtComplete, Runs, Ready, Blocked, Receiving
  <2>4. inbox' \in Inboxes
    BY <1>1, <2>3, InboxTaken
  <2>5. todo' \in Seq(Commands)
    <3>1. Len(todo) > 0
      BY <1>3 DEF BtComplete, LinkInv, BtSound
    <3>2. Tail(todo) \in Seq(Commands)
      BY <1>1, <3>1
    <3>3. QED BY <1>1, <1>3, <3>2 DEF BtComplete
  <2>6. DataTypes'
    BY <1>3, <2>5 DEF Types, DataTypes, BtComplete, gattVars, relayVars, env
  <2>7. QED BY <2>2, <2>4, <2>6 DEF Types
<1>4. CASE BtConnection \/ BtLoop
  <2>1. pc' = [pc EXCEPT !.hci = "read", !.bt = "cmd"]
    BY <1>4 DEF BtConnection, BtLoop
  <2>2. pc' \in States
    BY <1>1, <2>1 DEF States
  <2>3. inbox.bt # <<>> /\ inbox' = [inbox EXCEPT !.bt = Tail(@)]
    BY <1>4 DEF BtConnection, BtLoop, Received
  <2>4. inbox' \in Inboxes
    BY <1>1, <2>3, InboxTaken
  <2>5. todo' \in Seq(Commands)
    <3>1. stop_active_advertising \in Seq(Commands)
      BY DEF stop_active_advertising, Commands
    <3>2. start_active_advertising \in Seq(Commands)
      BY DEF start_active_advertising, Commands
    <3>3. QED BY <1>4, <3>1, <3>2 DEF BtConnection, BtLoop
  <2>6. DataTypes'
    BY <1>4, <2>5 DEF Types, DataTypes, BtConnection, BtLoop, gattVars, relayVars, env
  <2>7. QED BY <2>2, <2>4, <2>6 DEF Types
<1>5. CASE TxDone
  <2>1. pc' \in States /\ inbox' \in Inboxes
    BY <1>1, <1>5 DEF TxDone, States
  <2>2. Len(todo) > 0
    BY <1>5 DEF TxDone, LinkInv, BtSound
  <2>3. Head(todo) \in Commands
    BY <1>1, <2>2
  <2>4. ctl' \in [adv : BOOLEAN, conn : Nat, command : Commands \cup {NoCommand}]
    BY <1>1, <1>5, <2>3 DEF TxDone
  <2>5. DataTypes'
    BY <1>5, <2>4 DEF Types, DataTypes, TxDone, gattVars, relayVars
  <2>6. QED BY <2>1, <2>5 DEF Types
<1>6. QED BY <1>2, <1>3, <1>4, <1>5

\* The controller and the peer.
LEMMA PeerTypes ==
  ASSUME Types, CommandComplete \/ PeerConnect \/ PeerDisconnect \/ PeerWrite \/ PeerRead \/ PeerSubscribe
  PROVE  Types'
<1>1. /\ pc \in States /\ inbox \in Inboxes /\ to_host \in Seq(Packets) /\ peer.conns <= MaxConns
      /\ ctl \in [adv : BOOLEAN, conn : Nat, command : Commands \cup {NoCommand}]
      /\ peer \in [conns : Nat, writes : Nat, reads : Nat, pending : BOOLEAN, subscribed : SUBSET Nat,
                   garbled : {{}}, nan : {{}}]
  BY DEF Types, DataTypes
<1>2. pc' = pc /\ inbox' = inbox
  BY DEF CommandComplete, PeerConnect, PeerDisconnect, PeerWrite, PeerRead, PeerSubscribe, PeerRequest
<1>3. ctl' \in [adv : BOOLEAN, conn : Nat, command : Commands \cup {NoCommand}]
  <2>1. CASE CommandComplete
    <3>1. PICK b \in BOOLEAN : ctl' = [ctl EXCEPT !.command = NoCommand, !.adv = b]
      BY <1>1, <2>1 DEF CommandComplete
    <3>2. QED BY <1>1, <3>1
  <2>2. CASE ~CommandComplete
    <3>1. \/ ctl' = ctl
          \/ ctl' = [ctl EXCEPT !.conn = 0]
          \/ ctl' = [ctl EXCEPT !.adv = FALSE, !.conn = peer.conns + 1]
      BY <2>2 DEF PeerConnect, PeerDisconnect, PeerWrite, PeerRead, PeerSubscribe, PeerRequest
    <3>2. \/ ctl' = ctl
          \/ ctl' = [adv |-> ctl.adv, conn |-> 0, command |-> ctl.command]
          \/ ctl' = [adv |-> FALSE, conn |-> peer.conns + 1, command |-> ctl.command]
      BY <1>1, <3>1
    <3>3. peer.conns + 1 \in Nat /\ ctl.adv \in BOOLEAN /\ ctl.command \in Commands \cup {NoCommand}
      BY <1>1
    <3>4. CASE ctl' = [adv |-> ctl.adv, conn |-> 0, command |-> ctl.command]
      BY <3>3, <3>4
    <3>5. CASE ctl' = [adv |-> FALSE, conn |-> peer.conns + 1, command |-> ctl.command]
      BY <3>3, <3>5
    <3>6. QED BY <1>1, <3>2, <3>4, <3>5
  <2>3. QED BY <2>1, <2>2
<1>4. \E e \in Packets : to_host' = Append(to_host, e)
  <2>1. CASE CommandComplete
    BY <1>1, <2>1 DEF CommandComplete, Packets
  <2>2. CASE PeerConnect
    BY <1>1, <2>2 DEF PeerConnect, Packets
  <2>3. CASE PeerDisconnect
    BY <2>3 DEF PeerDisconnect, Packets
  <2>4. CASE PeerWrite
    BY <1>1, <2>4 DEF PeerWrite, PeerRequest, Packets
  <2>5. CASE PeerRead
    BY <2>5 DEF PeerRead, PeerRequest, Packets
  <2>6. CASE PeerSubscribe
    BY <2>6 DEF PeerSubscribe, PeerRequest, Packets
  <2>7. QED BY <2>1, <2>2, <2>3, <2>4, <2>5, <2>6
<1>5. to_host' \in Seq(Packets)
  BY <1>1, <1>4, Appended
<1>6. /\ peer' \in [conns : Nat, writes : Nat, reads : Nat, pending : BOOLEAN, subscribed : SUBSET Nat,
                    garbled : {{}}, nan : {{}}]
      /\ peer'.conns <= MaxConns
  <2>1. CASE CommandComplete \/ PeerDisconnect
    BY <1>1, <2>1 DEF CommandComplete, PeerDisconnect
  <2>2. CASE PeerConnect
    <3>1. /\ peer' = [peer EXCEPT !.conns = @ + 1, !.pending = FALSE] /\ peer.conns < MaxConns
          /\ MaxConns \in Nat
      BY <2>2, BluetoothAssumption DEF PeerConnect
    <3>2. peer' = [conns |-> peer.conns + 1, writes |-> peer.writes, reads |-> peer.reads,
                    pending |-> FALSE, subscribed |-> peer.subscribed,
                    garbled |-> peer.garbled, nan |-> peer.nan]
      BY <1>1, <3>1
    <3>3. peer.conns + 1 <= MaxConns
      BY <1>1, <3>1
    <3>4. QED BY <1>1, <3>2, <3>3
  <2>3. CASE PeerWrite
    <3>1. peer' = [peer EXCEPT !.writes = @ + 1, !.pending = TRUE]
      BY <2>3 DEF PeerWrite
    <3>2. peer' = [conns |-> peer.conns, writes |-> peer.writes + 1, reads |-> peer.reads,
                    pending |-> TRUE, subscribed |-> peer.subscribed,
                    garbled |-> peer.garbled, nan |-> peer.nan]
      BY <1>1, <3>1
    <3>3. QED BY <1>1, <3>2
  <2>4. CASE PeerRead
    <3>1. peer' = [peer EXCEPT !.reads = @ + 1, !.pending = TRUE]
      BY <2>4 DEF PeerRead
    <3>2. peer' = [conns |-> peer.conns, writes |-> peer.writes, reads |-> peer.reads + 1,
                    pending |-> TRUE, subscribed |-> peer.subscribed,
                    garbled |-> peer.garbled, nan |-> peer.nan]
      BY <1>1, <3>1
    <3>3. QED BY <1>1, <3>2
  <2>5. CASE PeerSubscribe
    BY <1>1, <2>5 DEF PeerSubscribe
  <2>6. QED BY <2>1, <2>2, <2>3, <2>4, <2>5
<1>7. UNCHANGED <<packet, gattVars, todo, value, relayVars, executed>>
  BY DEF CommandComplete, PeerConnect, PeerDisconnect, PeerWrite, PeerRead, PeerSubscribe, PeerRequest
<1>8. DataTypes'
  BY <1>3, <1>5, <1>6, <1>7 DEF Types, DataTypes, gattVars, relayVars
<1>9. QED BY <1>1, <1>2, <1>8 DEF Types

\* gatt's steps.
LEMMA GattTypes ==
  ASSUME Types, LinkInv, GattInboxSound,
         \/ GattL2cap \/ GattRespond \/ GattNotifyMonitors \/ GattMonitorReq \/ GattPublish
         \/ GattReminder \/ GattConnected \/ GattDisconnected
  PROVE  Types'
<1>1. /\ pc \in States /\ inbox \in Inboxes
      /\ value \in [monitor : Nat, cmd : Nat]
      /\ peer \in [conns : Nat, writes : Nat, reads : Nat, pending : BOOLEAN, subscribed : SUBSET Nat,
                   garbled : {{}}, nan : {{}}]
      /\ MaxConns \in Nat /\ peer.conns <= MaxConns
  BY BluetoothAssumption DEF Types, DataTypes
<1>2. ASSUME NEW k, Received("gatt", k)
      PROVE  inbox' \in Inboxes
  BY <1>1, <1>2, InboxTaken DEF Received
<1>3. sent' \in 0..MaxConns \/ sent' = sent
  <2>1. CASE GattPublish \/ GattReminder
    <3>1. sent' = handle \/ sent' = sent
      BY <2>1 DEF GattPublish, GattReminder, update_trigger
    <3>2. handle \in Nat /\ handle <= peer.conns
      BY <1>1 DEF Types, DataTypes, LinkInv, GattSound
    <3>3. QED BY <1>1, <3>1, <3>2
  <2>2. CASE ~(GattPublish \/ GattReminder)
    BY <2>2 DEF GattL2cap, GattRespond, GattNotifyMonitors, GattMonitorReq, GattConnected, GattDisconnected
  <2>3. QED BY <2>1, <2>2
<1>4. CASE GattL2cap
  <2>1. pc' = [pc EXCEPT !.hci = "read", !.gatt = "respond"]
    BY <1>4 DEF GattL2cap
  <2>2. pc' \in States
    BY <1>1, <2>1 DEF States
  <2>3. request' \in Packets
    <3>1. packet \in Packets
      BY <1>4, GattL2capLink DEF LinkInv, HciSound
    <3>2. QED BY <1>4, <3>1, GattL2capLink
  <2>4. DataTypes'
    BY <1>4, <2>3 DEF Types, DataTypes, GattL2cap, relayVars, env
  <2>5. QED BY <1>2, <1>4, <2>2, <2>4 DEF Types, GattL2cap
<1>5. CASE GattRespond
  <2>1. pc' \in States /\ inbox' = inbox
    BY <1>1, <1>5 DEF GattRespond, States
  <2>2. PICK b \in BOOLEAN : peer' = [peer EXCEPT !.pending = b]
    BY <1>1, <1>5 DEF GattRespond
  <2>3. /\ peer' \in [conns : Nat, writes : Nat, reads : Nat, pending : BOOLEAN, subscribed : SUBSET Nat,
                      garbled : {{}}, nan : {{}}]
        /\ peer'.conns <= MaxConns
    BY <1>1, <2>2
  <2>4. sub' \in BOOLEAN /\ emptied' = FALSE
    <3>1. request \in Packets /\ request.type = "L2capPacket"
      BY <1>5 DEF GattRespond, LinkInv, PacketsSound, Handled, Busy
    <3>2. request.op # "empty" /\ emptied = FALSE
      BY <3>1 DEF Types, DataTypes, Packets
    <3>3. QED BY <1>5, <3>2 DEF GattRespond
  <2>5. DataTypes'
    BY <1>5, <2>3, <2>4 DEF Types, DataTypes, GattRespond, relayVars
  <2>6. QED BY <1>1, <2>1, <2>5 DEF Types
<1>6. CASE GattNotifyMonitors
  <2>1. pc' \in States /\ inbox' = inbox
    <3>1. /\ \/ pc' = [pc EXCEPT !.gatt = "recv"]
             \/ pc' = [pc EXCEPT !.gatt = "recv", !.monitor = "forward"]
          /\ inbox' = inbox
      BY <1>6 DEF GattNotifyMonitors
    <3>2. QED BY <1>1, <3>1 DEF States
  <2>2. value' \in [monitor : Nat, cmd : Nat]
    <3>1. CASE monitors /\ request.op = "write"
      <4>1. request \in Packets /\ request.type = "L2capPacket" /\ request.op = "write"
        BY <1>6, <3>1 DEF GattNotifyMonitors, LinkInv, PacketsSound, Handled, Busy
      <4>2. request.n \in Nat
        BY <4>1 DEF Packets
      <4>3. value' = [value EXCEPT !.monitor = request.n]
        BY <1>6, <3>1 DEF GattNotifyMonitors
      <4>4. QED BY <1>1, <4>2, <4>3
    <3>2. CASE ~(monitors /\ request.op = "write")
      BY <1>1, <1>6, <3>2 DEF GattNotifyMonitors
    <3>3. QED BY <3>1, <3>2
  <2>3. monitors' \in BOOLEAN
    BY <1>6 DEF GattNotifyMonitors, Types, DataTypes
  <2>4. DataTypes'
    BY <1>6, <2>2, <2>3 DEF Types, DataTypes, GattNotifyMonitors, relayVars, env
  <2>5. QED BY <1>1, <2>1, <2>4 DEF Types
<1>7. CASE GattMonitorReq
  <2>1. DataTypes'
    BY <1>7 DEF Types, DataTypes, GattMonitorReq, relayVars, env
  <2>2. QED BY <1>1, <1>2, <1>7, <2>1 DEF Types, GattMonitorReq
<1>8. CASE GattPublish \/ GattReminder
  <2>1. pc' \in States
    BY <1>1, <1>8 DEF GattPublish, GattReminder, States
  <2>2. inbox' \in Inboxes
    BY <1>2, <1>8 DEF GattPublish, GattReminder
  <2>3. DataTypes'
    BY <1>3, <1>8 DEF Types, DataTypes, GattPublish, GattReminder, relayVars, env
  <2>4. QED BY <2>1, <2>2, <2>3 DEF Types
<1>9. CASE GattConnected
  <2>1. pc' \in States
    BY <1>1, <1>9 DEF GattConnected, States
  <2>2. Received("gatt", "HciLeConnectionComplete")
    BY <1>9 DEF GattConnected
  <2>3. /\ pc.hci = "sent" /\ Head(inbox.gatt) = packet /\ packet.type = "HciLeConnectionComplete"
    BY <2>2, GattHears DEF Kinds
  <2>4. packet \in Packets
    BY <2>3 DEF LinkInv, HciSound
  <2>5. handle' \in Nat
    BY <1>9, <2>3, <2>4 DEF GattConnected, Packets
  <2>6. DataTypes'
    BY <1>9, <2>5 DEF Types, DataTypes, GattConnected, relayVars, env
  <2>7. QED BY <1>2, <2>1, <2>2, <2>6 DEF Types
<1>10. CASE GattDisconnected
  <2>1. pc' \in States
    BY <1>1, <1>10 DEF GattDisconnected, States
  <2>2. DataTypes'
    BY <1>10 DEF Types, DataTypes, GattDisconnected, relayVars, env
  <2>3. QED BY <1>2, <1>10, <2>1, <2>2 DEF Types, GattDisconnected
<1>11. QED BY <1>4, <1>5, <1>6, <1>7, <1>8, <1>9, <1>10

\* The steps of the monitor, the relay, cmd and the helper.
LEMMA ClientTypes ==
  ASSUME Types, MonitorRegister \/ MonitorForward \/ CmdAsk \/ CmdAck \/ HelperRemind
  PROVE  Types'
<1>1. pc \in States /\ inbox \in Inboxes /\ value \in [monitor : Nat, cmd : Nat]
  BY DEF Types, DataTypes
<1>2. DataTypes'
  BY DEF Types, DataTypes, MonitorRegister, MonitorForward, CmdAsk, CmdAck, HelperRemind, gattVars, relayVars, env
<1>3. ASSUME NEW t, NEW r \in {"gatt", "relay"}, NEW m \in Messages, NEW b, ker_send(t, r, m, b)
      PROVE  /\ inbox' \in Inboxes
             /\ \/ pc' = [pc EXCEPT ![t] = b]
                \/ r = "relay" /\ pc' = [pc EXCEPT ![t] = "dead"]
  <2>1. CASE pc[r] = "dead"
    BY <1>1, <1>3, <2>1 DEF ker_send, States
  <2>2. CASE pc[r] # "dead"
    <3>1. pc' = [pc EXCEPT ![t] = b] /\ inbox' = [inbox EXCEPT ![r] = Append(@, m)]
      BY <1>3, <2>2 DEF ker_send
    <3>2. QED BY <1>1, <3>1, InboxSent
  <2>3. QED BY <2>1, <2>2
<1>4. CASE MonitorRegister
  <2>1. [type |-> "GattServerMonitorReq"] \in Messages
    BY DEF Messages
  <2>2. inbox' \in Inboxes /\ pc' = [pc EXCEPT !.monitor = "registered"]
    BY <1>3, <1>4, <2>1 DEF MonitorRegister
  <2>3. QED BY <1>1, <1>2, <2>2 DEF Types, States
<1>5. CASE MonitorForward
  <2>1. [type |-> "GattMonitorResp", n |-> value.monitor] \in Messages
    BY <1>1 DEF Messages
  <2>2. inbox' \in Inboxes /\ (pc' = [pc EXCEPT !.monitor = "forwarded"] \/ pc' = [pc EXCEPT !.monitor = "dead"])
    BY <1>3, <1>5, <2>1 DEF MonitorForward
  <2>3. QED BY <1>1, <1>2, <2>2 DEF Types, States
<1>6. CASE CmdAsk
  <2>1. [type |-> "GattMonitorReq"] \in Messages
    BY DEF Messages
  <2>2. inbox' \in Inboxes /\ (pc' = [pc EXCEPT !.cmd = "asked"] \/ pc' = [pc EXCEPT !.cmd = "dead"])
    BY <1>3, <1>6, <2>1 DEF CmdAsk
  <2>3. QED BY <1>1, <1>2, <2>2 DEF Types, States
<1>7. CASE CmdAck
  <2>1. [type |-> "GattServerPublishReq"] \in Messages
    BY DEF Messages
  <2>2. inbox' \in Inboxes /\ pc' = [pc EXCEPT !.cmd = "publishing"]
    BY <1>3, <1>7, <2>1 DEF CmdAck
  <2>3. QED BY <1>1, <1>2, <2>2 DEF Types, States
<1>8. CASE HelperRemind
  <2>1. [type |-> "ClockWaitResp"] \in Messages
    BY DEF Messages
  <2>2. inbox' \in Inboxes /\ pc' = [pc EXCEPT !.helper = "reminded"]
    BY <1>3, <1>8, <2>1 DEF HelperRemind
  <2>3. QED BY <1>1, <1>2, <2>2 DEF Types, States
<1>9. QED BY <1>4, <1>5, <1>6, <1>7, <1>8

\* The relay's steps, cmd's execution, and the helper's waking.
LEMMA RelayTypes ==
  ASSUME Types, RelayUpdate \/ RelayRequest \/ CmdExecute \/ HelperWake
  PROVE  Types'
<1>1. /\ pc \in States /\ inbox \in Inboxes /\ value \in [monitor : Nat, cmd : Nat]
      /\ queue \in Seq(Nat) /\ executed \in Seq(Nat) /\ watcher \in BOOLEAN
  BY DEF Types, DataTypes
<1>2. CASE RelayUpdate
  <2>1. inbox.relay # <<>> /\ inbox' = [inbox EXCEPT !.relay = Tail(@)] /\ Head(inbox.relay).type = "GattMonitorResp"
    BY <1>2 DEF RelayUpdate, Received
  <2>2. inbox' \in Inboxes /\ Head(inbox.relay).n \in Nat
    BY <1>1, <2>1, InboxTaken DEF Messages, Packets
  <2>3. pc' \in States
    <3>1. \/ pc' = [pc EXCEPT !.monitor = "register", !.cmd = "ack"]
          \/ pc' = [pc EXCEPT !.monitor = "register"]
          \/ pc' = [pc EXCEPT !.monitor = "register", !.relay = "dead"]
      BY <1>2 DEF RelayUpdate
    <3>2. CASE pc' = [pc EXCEPT !.monitor = "register", !.cmd = "ack"]
      <4>1. PICK q : q = [pc EXCEPT !.monitor = "register"]
        OBVIOUS
      <4>2. q \in States
        BY <1>1, <4>1 DEF States
      <4>3. pc' = [q EXCEPT !.cmd = "ack"]
        BY <1>1, <3>2, <4>1 DEF States
      <4>4. QED BY <4>2, <4>3 DEF States
    <3>3. CASE pc' = [pc EXCEPT !.monitor = "register"]
      BY <1>1, <3>3 DEF States
    <3>4. CASE pc' = [pc EXCEPT !.monitor = "register", !.relay = "dead"]
      BY <1>1, <3>4 DEF States
    <3>5. QED BY <3>1, <3>2, <3>3, <3>4
  <2>4. value' \in [monitor : Nat, cmd : Nat]
    BY <1>1, <1>2, <2>2 DEF RelayUpdate
  <2>5. queue' \in Seq(Nat) /\ watcher' \in BOOLEAN
    <3>1. Append(queue, Head(inbox.relay).n) \in Seq(Nat)
      BY <1>1, <2>2, Appended
    <3>2. QED BY <1>1, <1>2, <3>1 DEF RelayUpdate
  <2>6. DataTypes'
    BY <1>2, <2>4, <2>5 DEF Types, DataTypes, RelayUpdate, gattVars, env
  <2>7. QED BY <2>2, <2>3, <2>6 DEF Types
<1>3. CASE RelayRequest
  <2>1. inbox.relay # <<>> /\ inbox' = [inbox EXCEPT !.relay = Tail(@)]
    BY <1>3 DEF RelayRequest, Received
  <2>2. inbox' \in Inboxes
    BY <1>1, <2>1, InboxTaken
  <2>3. pc' \in States
    BY <1>1, <1>3 DEF RelayRequest, States
  <2>4. queue # <<>> => Head(queue) \in Nat /\ Tail(queue) \in Seq(Nat)
    BY <1>1, Popped
  <2>5. value' \in [monitor : Nat, cmd : Nat] /\ queue' \in Seq(Nat) /\ watcher' \in BOOLEAN
    BY <1>1, <1>3, <2>4 DEF RelayRequest
  <2>6. DataTypes'
    BY <1>3, <2>5 DEF Types, DataTypes, RelayRequest, gattVars, env
  <2>7. QED BY <2>2, <2>3, <2>6 DEF Types
<1>4. CASE CmdExecute
  <2>1. pc' \in States /\ inbox' = inbox
    BY <1>1, <1>4 DEF CmdExecute, States
  <2>2. executed' \in Seq(Nat)
    BY <1>1, <1>4, Appended DEF CmdExecute
  <2>3. DataTypes'
    BY <1>4, <2>2 DEF Types, DataTypes, CmdExecute, gattVars, relayVars, env
  <2>4. QED BY <1>1, <2>1, <2>3 DEF Types
<1>5. CASE HelperWake
  <2>1. pc' \in States /\ inbox' = inbox
    BY <1>1, <1>5 DEF HelperWake, States
  <2>2. DataTypes'
    BY <1>5 DEF Types, DataTypes, HelperWake, gattVars, relayVars, env
  <2>3. QED BY <1>1, <2>1, <2>2 DEF Types
<1>6. QED BY <1>2, <1>3, <1>4, <1>5

\* Every step keeps the types; bt, hci and gatt never panic.
LEMMA TypesStep ==
  ASSUME Types, LinkInv, GattInboxSound, [ValidNext]_vars
  PROVE  Types'
<1>1. CASE HciRead \/ HciToGatt \/ HciToBt
  BY <1>1, HciTypes
<1>2. CASE BtCmd \/ BtComplete \/ BtConnection \/ BtLoop \/ TxDone
  BY <1>2, BtTypes
<1>3. CASE CommandComplete \/ PeerConnect \/ PeerDisconnect \/ PeerWrite \/ PeerRead \/ PeerSubscribe
  BY <1>3, PeerTypes
<1>4. CASE \/ GattL2cap \/ GattRespond \/ GattNotifyMonitors \/ GattMonitorReq \/ GattPublish
           \/ GattReminder \/ GattConnected \/ GattDisconnected
  BY <1>4, GattTypes
<1>5. CASE MonitorRegister \/ MonitorForward \/ CmdAsk \/ CmdAck \/ HelperRemind
  BY <1>5, ClientTypes
<1>6. CASE RelayUpdate \/ RelayRequest \/ CmdExecute \/ HelperWake
  BY <1>6, RelayTypes
<1>7. CASE UNCHANGED vars
  BY <1>7 DEF Types, DataTypes, vars, gattVars, relayVars, env
<1>8. QED BY <1>1, <1>2, <1>3, <1>4, <1>5, <1>6, <1>7 DEF ValidNext

-----------------------------------------------------------------------------
(* Every step: whom gatt has yet to hear.                                  *)

\* gatt's inbox, and those who wait for it, stay as they are.
LEMMA InboxStill ==
  ASSUME GattInboxSound, inbox'.gatt = inbox.gatt, pc.hci = "sent" => packet' = packet,
         \A t \in Clients : Waits(t)' <=> Waits(t), monitors' => pc'.monitor = "registered"
  PROVE  GattInboxSound'
<1>1. \A m : Sender(m) \in Clients
  BY DEF Sender, Clients
<1>2. \A i \in 1..Len(inbox.gatt) :
        Waits(Sender(inbox.gatt[i]))' /\ (Sender(inbox.gatt[i]) = "hci" => inbox.gatt[i] = packet')
  <2>1. ASSUME NEW i \in 1..Len(inbox.gatt)
        PROVE  Waits(Sender(inbox.gatt[i])) /\ (Sender(inbox.gatt[i]) = "hci" => inbox.gatt[i] = packet)
    BY DEF GattInboxSound
  <2>2. Waits("hci") => pc.hci = "sent"
    BY DEF Waits
  <2>3. ASSUME NEW i \in 1..Len(inbox.gatt), Sender(inbox.gatt[i]) = "hci"
        PROVE  inbox.gatt[i] = packet'
    BY <2>1, <2>2, <2>3
  <2>4. ASSUME NEW i \in 1..Len(inbox.gatt)
        PROVE  Waits(Sender(inbox.gatt[i]))'
    <3>1. PICK t \in Clients : t = Sender(inbox.gatt[i])
      BY <1>1
    <3>2. Waits(t)'
      BY <2>1, <3>1
    <3>3. inbox'.gatt[i] = inbox.gatt[i]
      OBVIOUS
    <3>4. QED BY <3>1, <3>2, <3>3
  <2>5. QED BY <2>3, <2>4
<1>3. QED BY <1>2 DEF GattInboxSound

\* A task sends gatt a message, and waits.
LEMMA InboxSaid ==
  ASSUME Types, GattInboxSound, NEW m \in Messages, NEW t \in Clients, Sender(m) = t,
         inbox'.gatt = Append(inbox.gatt, m), ~Waits(t), Waits(t)', t = "hci" => m = packet',
         pc.hci = "sent" => packet' = packet,
         \A u \in Clients : u # t => (Waits(u)' <=> Waits(u)), monitors' => pc'.monitor = "registered"
  PROVE  GattInboxSound'
<1>1. PICK s, r : s = inbox.gatt /\ r = inbox'.gatt
  OBVIOUS
<1>2. PICK n \in Nat : n = Len(s)
  BY <1>1 DEF Types, Inboxes
<1>3. /\ s \in Seq(Messages) /\ Len(r) = n + 1 /\ r[n + 1] = m
      /\ \A i \in 1..n : r[i] = s[i]
  BY <1>1, <1>2, Appended DEF Types, Inboxes
<1>4. /\ \A i, j \in 1..n : Sender(s[i]) = Sender(s[j]) => i = j
      /\ \A i \in 1..n : Waits(Sender(s[i]))
      /\ \A u \in Clients : Waits(u) => \E i \in 1..n : Sender(s[i]) = u
      /\ \A i \in 1..n : Sender(s[i]) = "hci" => s[i] = packet
  BY <1>1, <1>2 DEF GattInboxSound
<1>5. \A i \in 1..n : Sender(s[i]) \in Clients /\ Sender(s[i]) # t
  BY <1>4 DEF Sender, Clients
<1>6. \A i, j \in 1..Len(r) : Sender(r[i]) = Sender(r[j]) => i = j
  <2>1. ASSUME NEW i \in 1..Len(r), NEW j \in 1..Len(r), Sender(r[i]) = Sender(r[j]), i # j
        PROVE  FALSE
    <3>1. CASE i \in 1..n /\ j \in 1..n
      BY <1>3, <1>4, <2>1, <3>1
    <3>2. CASE i \in 1..n /\ j = n + 1
      BY <1>3, <1>5, <2>1, <3>2
    <3>3. CASE i = n + 1 /\ j \in 1..n
      BY <1>3, <1>5, <2>1, <3>3
    <3>4. (i \in 1..n \/ i = n + 1) /\ (j \in 1..n \/ j = n + 1)
      BY <1>3
    <3>5. QED BY <2>1, <3>1, <3>2, <3>3, <3>4
  <2>2. QED BY <2>1
<1>7. ASSUME NEW i \in 1..Len(r), NEW u \in Clients, u = Sender(r[i])
      PROVE  Waits(u)' /\ (u = "hci" => r[i] = packet')
  <2>1. CASE i \in 1..n
    <3>1. u # t /\ Waits(u) /\ r[i] = s[i]
      BY <1>3, <1>4, <1>5, <1>7, <2>1
    <3>2. Waits(u)'
      BY <3>1
    <3>3. ASSUME u = "hci"
          PROVE  r[i] = packet'
      <4>1. pc.hci = "sent"
        BY <3>1, <3>3 DEF Waits
      <4>2. r[i] = packet
        BY <1>4, <1>7, <2>1, <3>1, <3>3
      <4>3. QED BY <4>1, <4>2
    <3>4. QED BY <3>2, <3>3
  <2>2. CASE i = n + 1
    <3>1. u = t /\ r[i] = m
      BY <1>3, <1>7, <2>2
    <3>2. QED BY <3>1
  <2>3. QED BY <1>3, <2>1, <2>2
<1>8. ASSUME NEW u \in Clients, Waits(u)'
      PROVE  \E i \in 1..Len(r) : Sender(r[i]) = u
  <2>1. CASE u = t
    <3>1. n + 1 \in 1..Len(r) /\ Sender(r[n + 1]) = u
      BY <1>3, <2>1
    <3>2. QED BY <3>1
  <2>2. CASE u # t
    <3>1. PICK i \in 1..n : Sender(s[i]) = u
      BY <1>4, <1>8, <2>2
    <3>2. i \in 1..Len(r) /\ Sender(r[i]) = u
      BY <1>3, <3>1
    <3>3. QED BY <3>2
  <2>3. QED BY <2>1, <2>2
<1>9. ASSUME NEW i \in 1..Len(r)
      PROVE  Waits(Sender(r[i]))' /\ (Sender(r[i]) = "hci" => r[i] = packet')
  <2>1. PICK u \in Clients : u = Sender(r[i])
    BY DEF Sender, Clients
  <2>2. Waits(u)' /\ (u = "hci" => r[i] = packet')
    BY <1>7, <2>1
  <2>3. QED BY <2>1, <2>2
<1>10. QED BY <1>1, <1>6, <1>8, <1>9 DEF GattInboxSound

\* gatt hears a task, which no longer waits.
LEMMA InboxHeard ==
  ASSUME Types, GattInboxSound, inbox.gatt # <<>>, inbox'.gatt = Tail(inbox.gatt),
         NEW t \in Clients, Sender(Head(inbox.gatt)) = t, ~Waits(t)', packet' = packet,
         \A u \in Clients : u # t => (Waits(u)' <=> Waits(u)), monitors' => pc'.monitor = "registered"
  PROVE  GattInboxSound'
<1>1. PICK s, r : s = inbox.gatt /\ r = inbox'.gatt
  OBVIOUS
<1>2. /\ s \in Seq(Messages) /\ s # <<>> /\ r = Tail(s) /\ Sender(Head(s)) = t
  BY <1>1 DEF Types, Inboxes
<1>3. PICK n \in Nat : n = Len(r)
  BY <1>2, Popped
<1>4. /\ Len(s) = n + 1 /\ s[1] = Head(s) /\ \A i \in 1..n : r[i] = s[i + 1]
  BY <1>2, <1>3, Popped
<1>5. /\ \A i, j \in 1..n + 1 : Sender(s[i]) = Sender(s[j]) => i = j
      /\ \A i \in 1..n + 1 : Waits(Sender(s[i]))
      /\ \A u \in Clients : Waits(u) => \E i \in 1..n + 1 : Sender(s[i]) = u
      /\ \A i \in 1..n + 1 : Sender(s[i]) = "hci" => s[i] = packet
  BY <1>1, <1>4 DEF GattInboxSound
<1>6. \A i \in 1..n : i + 1 \in 1..n + 1 /\ 1 \in 1..n + 1 /\ i + 1 # 1
  OBVIOUS
<1>7. \A i, j \in 1..n : Sender(r[i]) = Sender(r[j]) => i = j
  <2>1. ASSUME NEW i \in 1..n, NEW j \in 1..n, Sender(r[i]) = Sender(r[j])
        PROVE  i = j
    <3>1. Sender(s[i + 1]) = Sender(s[j + 1])
      BY <1>4, <2>1
    <3>2. i + 1 = j + 1
      BY <1>5, <1>6, <3>1
    <3>3. QED BY <3>2
  <2>2. QED BY <2>1
<1>8. ASSUME NEW i \in 1..n
      PROVE  Waits(Sender(r[i]))' /\ (Sender(r[i]) = "hci" => r[i] = packet')
  <2>1. PICK u \in Clients : u = Sender(r[i])
    BY DEF Sender, Clients
  <2>2. u = Sender(s[i + 1]) /\ r[i] = s[i + 1]
    BY <1>4, <2>1
  <2>3. u # t
    BY <1>2, <1>4, <1>5, <1>6, <2>2
  <2>4. Waits(u) /\ (u = "hci" => r[i] = packet)
    BY <1>5, <1>6, <2>2
  <2>5. Waits(u)'
    BY <2>3, <2>4
  <2>6. QED BY <2>1, <2>4, <2>5
<1>9. ASSUME NEW u \in Clients, Waits(u)'
      PROVE  \E i \in 1..n : Sender(r[i]) = u
  <2>1. u # t /\ Waits(u)
    BY <1>9
  <2>2. PICK i \in 1..n + 1 : Sender(s[i]) = u
    BY <1>5, <2>1
  <2>3. i # 1
    BY <1>2, <1>4, <2>1, <2>2
  <2>4. i - 1 \in 1..n /\ r[i - 1] = s[i]
    BY <1>4, <2>3
  <2>5. QED BY <2>2, <2>4
<1>10. QED BY <1>1, <1>3, <1>7, <1>8, <1>9 DEF GattInboxSound

\* The relay hears a client that waits for it.
LEMMA RelayHears ==
  ASSUME Types, RelaySound, NEW k \in {"GattMonitorResp", "GattMonitorReq"}, Received("relay", k)
  PROVE  /\ pc.relay = "recv" /\ inbox.relay # <<>> /\ inbox' = [inbox EXCEPT !.relay = Tail(@)]
         /\ Head(inbox.relay).type = k /\ Requests(k)
         /\ k = "GattMonitorResp" => pc.monitor = "forwarded" /\ Head(inbox.relay).n = value.monitor
         /\ k = "GattMonitorReq" => pc.cmd = "asked" /\ ~watcher
<1>1. /\ inbox.relay # <<>> /\ inbox.relay \in Seq(Messages) /\ Head(inbox.relay).type = k
      /\ pc.relay \in Receiving /\ inbox' = [inbox EXCEPT !.relay = Tail(@)]
  BY DEF Received, Types, Inboxes
<1>2. Len(inbox.relay) >= 1 /\ Head(inbox.relay) = inbox.relay[1] /\ 1 \in 1..Len(inbox.relay)
  BY <1>1, Popped
<1>3. Requests(k) /\ (k = "GattMonitorResp" => Head(inbox.relay).n = value.monitor)
  BY <1>1, <1>2 DEF RelaySound
<1>4. pc.relay = "recv"
  BY <1>1 DEF Types, States, Receiving
<1>5. QED BY <1>1, <1>3, <1>4 DEF Requests

\* A message to gatt is sent.
LEMMA SaysToGatt ==
  ASSUME Types, NEW t, NEW m, NEW b, ker_send(t, "gatt", m, b)
  PROVE  pc' = [pc EXCEPT ![t] = b] /\ inbox' = [inbox EXCEPT !.gatt = Append(@, m)]
                /\ inbox'.gatt = Append(inbox.gatt, m)
<1>1. pc.gatt # "dead" /\ inbox \in Inboxes
  BY DEF Types, States
<1>2. QED BY <1>1 DEF ker_send, Inboxes

\* Every step: who waits for gatt has one message there, and nobody else.
LEMMA GattInboxStep ==
  ASSUME Types, LinkInv, GattInboxSound, RelaySound, [ValidNext]_vars
  PROVE  GattInboxSound'
<1>1. pc \in States /\ inbox \in Inboxes /\ (monitors => pc.monitor = "registered") /\ monitors \in BOOLEAN
  BY DEF Types, DataTypes, GattInboxSound
<1>2. CASE HciRead
  <2>1. pc.hci = "read" /\ pc'.hci # "sent" /\ (\E b : pc' = [pc EXCEPT !.hci = b]) /\ UNCHANGED <<inbox, monitors>>
    BY <1>1, <1>2 DEF HciRead, States, gattVars
  <2>2. /\ pc'.monitor = pc.monitor /\ pc'.cmd = pc.cmd /\ pc'.helper = pc.helper
    BY <1>1, <2>1 DEF States
  <2>3. \A t \in Clients : Waits(t)' <=> Waits(t)
    BY <2>1, <2>2 DEF Waits, Clients
  <2>4. QED BY <1>1, <2>1, <2>2, <2>3, InboxStill
<1>3. CASE HciToGatt
  <2>1. pc.hci = "to_gatt" /\ packet \in Messages /\ Sender(packet) = "hci"
    BY <1>3 DEF HciToGatt, LinkInv, HciSound, Messages, Sender
  <2>2. pc' = [pc EXCEPT !.hci = "sent"] /\ inbox'.gatt = Append(inbox.gatt, packet) /\ UNCHANGED <<packet, monitors>>
    BY <1>3, SaysToGatt DEF HciToGatt, gattVars
  <2>3. pc'.hci = "sent" /\ pc'.monitor = pc.monitor /\ pc'.cmd = pc.cmd /\ pc'.helper = pc.helper
    BY <1>1, <2>2 DEF States
  <2>4. ~Waits("hci") /\ Waits("hci")' /\ \A t \in Clients : t # "hci" => (Waits(t)' <=> Waits(t))
    BY <2>1, <2>2, <2>3 DEF Waits, Clients
  <2>5. QED BY <1>1, <2>1, <2>2, <2>3, <2>4, InboxSaid DEF Clients
<1>4. CASE HciToBt
  <2>1. /\ pc.hci = "to_bt" /\ pc' = [pc EXCEPT !.hci = "sent_bt"] /\ inbox'.gatt = inbox.gatt
        /\ UNCHANGED <<packet, monitors>>
    BY <1>1, <1>4 DEF HciToBt, ker_send, gattVars, States, Inboxes
  <2>2. pc'.hci = "sent_bt" /\ pc'.monitor = pc.monitor /\ pc'.cmd = pc.cmd /\ pc'.helper = pc.helper
    BY <1>1, <2>1 DEF States
  <2>3. \A t \in Clients : Waits(t)' <=> Waits(t)
    BY <2>1, <2>2 DEF Waits, Clients
  <2>4. QED BY <1>1, <2>1, <2>2, <2>3, InboxStill
<1>5. CASE BtComplete \/ BtConnection \/ BtLoop
  <2>1. /\ inbox.bt # <<>> /\ inbox' = [inbox EXCEPT !.bt = Tail(@)] /\ UNCHANGED <<packet, monitors>>
        /\ \E b : pc' = [pc EXCEPT !.hci = "read", !.bt = b]
    BY <1>5 DEF BtComplete, BtConnection, BtLoop, Received, Runs, Ready, Blocked, Receiving, gattVars
  <2>2. pc.hci = "sent_bt"
    BY <2>1, BtHears DEF LinkInv
  <2>3. /\ pc'.hci = "read" /\ pc'.monitor = pc.monitor /\ pc'.cmd = pc.cmd /\ pc'.helper = pc.helper
        /\ inbox'.gatt = inbox.gatt
    BY <1>1, <2>1 DEF States, Inboxes
  <2>4. \A t \in Clients : Waits(t)' <=> Waits(t)
    BY <2>1, <2>2, <2>3 DEF Waits, Clients
  <2>5. QED BY <1>1, <2>1, <2>2, <2>3, <2>4, InboxStill
<1>6. CASE BtCmd \/ TxDone \/ GattRespond \/ HelperWake
  <2>1. /\ UNCHANGED <<inbox, packet, monitors>>
        /\ \/ \E b : pc' = [pc EXCEPT !.bt = b]
           \/ \E b : pc' = [pc EXCEPT !.gatt = b]
           \/ pc.helper = "clock" /\ pc' = [pc EXCEPT !.helper = "remind"]
    BY <1>6 DEF BtCmd, TxDone, GattRespond, HelperWake, gattVars
  <2>2. /\ pc'.hci = pc.hci /\ pc'.monitor = pc.monitor /\ pc'.cmd = pc.cmd
        /\ pc'.helper = "reminded" <=> pc.helper = "reminded"
    BY <1>1, <2>1 DEF States
  <2>3. \A t \in Clients : Waits(t)' <=> Waits(t)
    BY <2>1, <2>2 DEF Waits, Clients
  <2>4. QED BY <1>1, <2>1, <2>2, <2>3, InboxStill
<1>7. CASE GattNotifyMonitors
  <2>1. /\ UNCHANGED <<inbox, packet>>
        /\ \/ monitors /\ ~monitors' /\ pc' = [pc EXCEPT !.gatt = "recv", !.monitor = "forward"]
           \/ monitors' = monitors /\ pc' = [pc EXCEPT !.gatt = "recv"]
    BY <1>7 DEF GattNotifyMonitors
  <2>2. /\ pc'.hci = pc.hci /\ pc'.cmd = pc.cmd /\ pc'.helper = pc.helper
        /\ \/ monitors /\ ~monitors' /\ pc'.monitor = "forward"
           \/ monitors' = monitors /\ pc'.monitor = pc.monitor
    BY <1>1, <2>1 DEF States
  <2>3. \A t \in Clients : Waits(t)' <=> Waits(t)
    BY <2>2 DEF Waits, Clients
  <2>4. QED BY <1>1, <2>1, <2>2, <2>3, InboxStill
<1>8. CASE GattL2cap \/ GattConnected \/ GattDisconnected
  <2>1. /\ \E k \in Kinds : Received("gatt", k)
        /\ UNCHANGED <<packet, monitors>>
        /\ \/ pc' = [pc EXCEPT !.hci = "read", !.gatt = "respond"]
           \/ pc' = [pc EXCEPT !.hci = "to_bt"]
    BY <1>8 DEF GattL2cap, GattConnected, GattDisconnected, Kinds
  <2>2. /\ pc.hci = "sent" /\ inbox.gatt # <<>> /\ Head(inbox.gatt) = packet /\ packet.type \in Kinds
        /\ inbox' = [inbox EXCEPT !.gatt = Tail(@)]
    BY <2>1, GattHears
  <2>3. /\ pc'.hci # "sent" /\ pc'.monitor = pc.monitor /\ pc'.cmd = pc.cmd /\ pc'.helper = pc.helper
        /\ inbox'.gatt = Tail(inbox.gatt)
    BY <1>1, <2>1, <2>2 DEF States, Inboxes
  <2>4. Sender(Head(inbox.gatt)) = "hci"
    BY <2>2 DEF Sender, Kinds
  <2>5. ~Waits("hci")' /\ \A t \in Clients : t # "hci" => (Waits(t)' <=> Waits(t))
    BY <2>1, <2>3 DEF Waits, Clients
  <2>6. QED BY <1>1, <2>1, <2>2, <2>3, <2>4, <2>5, InboxHeard DEF Clients
<1>9. CASE GattMonitorReq \/ GattPublish \/ GattReminder
  <2>1. /\ \/ GattMonitorReq /\ Received("gatt", "GattServerMonitorReq") /\ pc' = pc /\ monitors' = TRUE
           \/ GattPublish /\ Received("gatt", "GattServerPublishReq") /\ pc' = [pc EXCEPT !.cmd = "execute"]
              /\ monitors' = monitors
           \/ GattReminder /\ Received("gatt", "ClockWaitResp") /\ pc' = [pc EXCEPT !.helper = "clock"]
              /\ monitors' = monitors
        /\ packet' = packet
    BY <1>9 DEF GattMonitorReq, GattPublish, GattReminder
  <2>2. inbox.gatt # <<>> /\ inbox'.gatt = Tail(inbox.gatt)
    BY <1>1, <2>1 DEF Received, Inboxes
  <2>3. 1 \in 1..Len(inbox.gatt) /\ Head(inbox.gatt) = inbox.gatt[1]
    BY <1>1, <2>2, Popped DEF Inboxes
  <2>4. Waits(Sender(Head(inbox.gatt)))
    BY <2>3 DEF GattInboxSound
  <2>5. CASE GattMonitorReq
    <3>1. Sender(Head(inbox.gatt)) = "monitor"
      BY <2>5 DEF GattMonitorReq, Received, Sender
    <3>2. pc.monitor = "registered" /\ pc' = pc /\ monitors' = TRUE
      BY <2>4, <2>5, <3>1 DEF GattMonitorReq, Waits
    <3>3. ~Waits("monitor")' /\ \A t \in Clients : t # "monitor" => (Waits(t)' <=> Waits(t))
      BY <3>2 DEF Waits, Clients
    <3>4. QED BY <2>1, <2>2, <3>1, <3>2, <3>3, InboxHeard DEF Clients
  <2>6. CASE GattPublish
    <3>1. Sender(Head(inbox.gatt)) = "cmd"
      BY <2>6 DEF GattPublish, Received, Sender
    <3>2. pc' = [pc EXCEPT !.cmd = "execute"] /\ monitors' = monitors
      BY <2>6 DEF GattPublish
    <3>3. pc'.cmd = "execute" /\ pc'.hci = pc.hci /\ pc'.monitor = pc.monitor /\ pc'.helper = pc.helper
      BY <1>1, <3>2 DEF States
    <3>4. ~Waits("cmd")' /\ \A t \in Clients : t # "cmd" => (Waits(t)' <=> Waits(t))
      BY <3>2, <3>3 DEF Waits, Clients
    <3>5. QED BY <1>1, <2>1, <2>2, <3>1, <3>2, <3>3, <3>4, InboxHeard DEF Clients
  <2>7. CASE GattReminder
    <3>1. Sender(Head(inbox.gatt)) = "helper"
      BY <2>7 DEF GattReminder, Received, Sender
    <3>2. pc' = [pc EXCEPT !.helper = "clock"] /\ monitors' = monitors
      BY <2>7 DEF GattReminder
    <3>3. pc'.helper = "clock" /\ pc'.hci = pc.hci /\ pc'.monitor = pc.monitor /\ pc'.cmd = pc.cmd
      BY <1>1, <3>2 DEF States
    <3>4. ~Waits("helper")' /\ \A t \in Clients : t # "helper" => (Waits(t)' <=> Waits(t))
      BY <3>2, <3>3 DEF Waits, Clients
    <3>5. QED BY <1>1, <2>1, <2>2, <3>1, <3>2, <3>3, <3>4, InboxHeard DEF Clients
  <2>8. QED BY <1>9, <2>5, <2>6, <2>7
<1>10. CASE MonitorRegister
  <2> DEFINE m == [type |-> "GattServerMonitorReq"]
  <2>1. m \in Messages /\ Sender(m) = "monitor"
    BY DEF Messages, Sender
  <2>2. /\ pc.monitor = "register" /\ pc' = [pc EXCEPT !.monitor = "registered"]
        /\ inbox'.gatt = Append(inbox.gatt, m) /\ UNCHANGED <<packet, monitors>>
    BY <1>10, SaysToGatt DEF MonitorRegister, gattVars
  <2>3. pc'.monitor = "registered" /\ pc'.hci = pc.hci /\ pc'.cmd = pc.cmd /\ pc'.helper = pc.helper
    BY <1>1, <2>2 DEF States
  <2>4. ~monitors
    BY <1>1, <2>2
  <2>5. ~Waits("monitor") /\ Waits("monitor")' /\ \A t \in Clients : t # "monitor" => (Waits(t)' <=> Waits(t))
    BY <2>2, <2>3, <2>4 DEF Waits, Clients
  <2> HIDE DEF m
  <2>6. QED BY <2>1, <2>2, <2>3, <2>5, InboxSaid DEF Clients
<1>11. CASE CmdAck
  <2> DEFINE m == [type |-> "GattServerPublishReq"]
  <2>1. m \in Messages /\ Sender(m) = "cmd"
    BY DEF Messages, Sender
  <2>2. /\ pc.cmd = "ack" /\ pc' = [pc EXCEPT !.cmd = "publishing"]
        /\ inbox'.gatt = Append(inbox.gatt, m) /\ UNCHANGED <<packet, monitors>>
    BY <1>11, SaysToGatt DEF CmdAck, gattVars
  <2>3. pc'.cmd = "publishing" /\ pc'.hci = pc.hci /\ pc'.monitor = pc.monitor /\ pc'.helper = pc.helper
    BY <1>1, <2>2 DEF States
  <2>4. ~Waits("cmd") /\ Waits("cmd")' /\ \A t \in Clients : t # "cmd" => (Waits(t)' <=> Waits(t))
    BY <2>2, <2>3 DEF Waits, Clients
  <2> HIDE DEF m
  <2>5. QED BY <1>1, <2>1, <2>2, <2>3, <2>4, InboxSaid DEF Clients
<1>12. CASE HelperRemind
  <2> DEFINE m == [type |-> "ClockWaitResp"]
  <2>1. m \in Messages /\ Sender(m) = "helper"
    BY DEF Messages, Sender
  <2>2. /\ pc.helper = "remind" /\ pc' = [pc EXCEPT !.helper = "reminded"]
        /\ inbox'.gatt = Append(inbox.gatt, m) /\ UNCHANGED <<packet, monitors>>
    BY <1>12, SaysToGatt DEF HelperRemind, gattVars
  <2>3. pc'.helper = "reminded" /\ pc'.hci = pc.hci /\ pc'.monitor = pc.monitor /\ pc'.cmd = pc.cmd
    BY <1>1, <2>2 DEF States
  <2>4. ~Waits("helper") /\ Waits("helper")' /\ \A t \in Clients : t # "helper" => (Waits(t)' <=> Waits(t))
    BY <2>2, <2>3 DEF Waits, Clients
  <2> HIDE DEF m
  <2>5. QED BY <1>1, <2>1, <2>2, <2>3, <2>4, InboxSaid DEF Clients
<1>13. CASE MonitorForward \/ CmdAsk \/ CmdExecute
  <2>1. /\ UNCHANGED <<packet, monitors>> /\ inbox'.gatt = inbox.gatt
        /\ \/ pc.monitor = "forward" /\ \E b \in {"forwarded", "dead"} : pc' = [pc EXCEPT !.monitor = b]
           \/ /\ pc.cmd \in {"ask", "execute"}
              /\ \E b \in {"asked", "ask", "dead"} : pc' = [pc EXCEPT !.cmd = b]
    <3>1. CASE pc.relay = "dead"
      BY <1>1, <1>13, <3>1 DEF MonitorForward, CmdAsk, CmdExecute, ker_send, gattVars, Inboxes
    <3>2. CASE pc.relay # "dead"
      BY <1>1, <1>13, <3>2 DEF MonitorForward, CmdAsk, CmdExecute, ker_send, gattVars, Inboxes
    <3>3. QED BY <3>1, <3>2
  <2>2. /\ pc'.hci = pc.hci /\ pc'.helper = pc.helper
        /\ pc'.cmd = "publishing" <=> pc.cmd = "publishing"
        /\ pc'.monitor = "registered" <=> pc.monitor = "registered"
    BY <1>1, <2>1 DEF States
  <2>3. \A t \in Clients : Waits(t)' <=> Waits(t)
    BY <2>1, <2>2 DEF Waits, Clients
  <2>4. QED BY <1>1, <2>1, <2>2, <2>3, InboxStill
<1>14. CASE RelayUpdate \/ RelayRequest
  <2>1. /\ \/ RelayUpdate /\ Received("relay", "GattMonitorResp")
              /\ \/ /\ watcher
                    /\ pc' = [pc EXCEPT !.monitor = "register", !.cmd = "ack"]
                 \/ pc' = [pc EXCEPT !.monitor = "register"]
                 \/ pc' = [pc EXCEPT !.monitor = "register", !.relay = "dead"]
           \/ /\ RelayRequest /\ Received("relay", "GattMonitorReq")
              /\ pc' = pc \/ pc' = [pc EXCEPT !.cmd = "ack"]
        /\ UNCHANGED <<packet, monitors>>
    BY <1>14 DEF RelayUpdate, RelayRequest, gattVars
  <2>2. inbox'.gatt = inbox.gatt
    BY <1>1, <2>1 DEF Received, Inboxes
  <2>3. /\ pc'.hci = pc.hci /\ pc'.helper = pc.helper
        /\ pc'.cmd = "publishing" <=> pc.cmd = "publishing"
        /\ pc'.monitor = "registered" <=> pc.monitor = "registered"
    <3>1. CASE RelayUpdate
      <4>1. Received("relay", "GattMonitorResp")
        BY <3>1 DEF RelayUpdate
      <4>2. pc.monitor = "forwarded" /\ (watcher => pc.cmd = "asked")
        BY <4>1, RelayHears DEF RelaySound
      <4>3. \/ watcher /\ pc' = [pc EXCEPT !.monitor = "register", !.cmd = "ack"]
            \/ pc' = [pc EXCEPT !.monitor = "register"]
            \/ pc' = [pc EXCEPT !.monitor = "register", !.relay = "dead"]
        BY <3>1 DEF RelayUpdate
      <4>4. QED BY <1>1, <4>2, <4>3 DEF States
    <3>2. CASE RelayRequest
      <4>1. Received("relay", "GattMonitorReq")
        BY <3>2 DEF RelayRequest
      <4>2. pc.cmd = "asked"
        BY <4>1, RelayHears
      <4>3. pc' = pc \/ pc' = [pc EXCEPT !.cmd = "ack"]
        BY <3>2 DEF RelayRequest
      <4>4. QED BY <1>1, <4>2, <4>3 DEF States
    <3>3. QED BY <1>14, <3>1, <3>2
  <2>4. \A t \in Clients : Waits(t)' <=> Waits(t)
    BY <2>1, <2>3 DEF Waits, Clients
  <2>5. QED BY <1>1, <2>1, <2>2, <2>3, <2>4, InboxStill
<1>15. CASE \/ CommandComplete \/ PeerConnect \/ PeerDisconnect \/ PeerWrite \/ PeerRead \/ PeerSubscribe
            \/ UNCHANGED vars
  <2>1. UNCHANGED <<pc, inbox, packet, monitors>>
    BY <1>15 DEF CommandComplete, PeerConnect, PeerDisconnect, PeerWrite, PeerRead, PeerSubscribe, PeerRequest,
                 vars, gattVars
  <2>2. \A t \in Clients : Waits(t)' <=> Waits(t)
    BY <2>1 DEF Waits, Clients
  <2>3. QED BY <1>1, <2>1, <2>2, InboxStill
<1>16. QED
  BY <1>2, <1>3, <1>4, <1>5, <1>6, <1>7, <1>8, <1>9, <1>10, <1>11, <1>12, <1>13, <1>14, <1>15 DEF ValidNext

-----------------------------------------------------------------------------
(* Every step: notifications, and the monitor.                             *)

\* Every step: gatt's notifications go where the peer has subscribed.
LEMMA NotifyStep ==
  ASSUME Types, LinkInv, NotifyOnlySubscribers, [ValidNext]_vars
  PROVE  NotifyOnlySubscribers'
<1>1. peer \in [conns : Nat, writes : Nat, reads : Nat, pending : BOOLEAN, subscribed : SUBSET Nat,
                garbled : {{}}, nan : {{}}]
  BY DEF Types, DataTypes
<1>2. CASE GattPublish \/ GattReminder
  <2>1. peer' = peer /\ (sent' = sent \/ (conn /\ sub /\ sent' = handle))
    BY <1>2 DEF GattPublish, GattReminder, update_trigger, env
  <2>2. sub => handle \in peer.subscribed
    BY DEF LinkInv, GattSound
  <2>3. QED BY <2>1, <2>2 DEF NotifyOnlySubscribers
<1>3. CASE GattRespond \/ PeerConnect \/ PeerWrite \/ PeerRead \/ PeerSubscribe
  <2>1. sent' = sent
    BY <1>3 DEF GattRespond, PeerConnect, PeerWrite, PeerRead, PeerSubscribe, PeerRequest, gattVars
  <2>2. \/ \E b : peer' = [peer EXCEPT !.pending = b]
        \/ \E n : peer' = [peer EXCEPT !.conns = n, !.pending = FALSE]
        \/ \E n : peer' = [peer EXCEPT !.writes = n, !.pending = TRUE]
        \/ \E n : peer' = [peer EXCEPT !.reads = n, !.pending = TRUE]
        \/ \E n : peer' = [peer EXCEPT !.subscribed = @ \cup {n}, !.pending = TRUE]
    <3>1. CASE GattRespond
      BY <3>1 DEF GattRespond
    <3>2. CASE PeerConnect
      BY <3>2 DEF PeerConnect
    <3>3. CASE PeerWrite
      BY <3>3 DEF PeerWrite
    <3>4. CASE PeerRead
      BY <3>4 DEF PeerRead
    <3>5. CASE PeerSubscribe
      BY <3>5 DEF PeerSubscribe
    <3>6. QED BY <1>3, <3>1, <3>2, <3>3, <3>4, <3>5
  <2>3. peer.subscribed \subseteq peer'.subscribed
    BY <1>1, <2>2
  <2>4. QED BY <2>1, <2>3 DEF NotifyOnlySubscribers
<1>4. CASE ~(GattPublish \/ GattReminder \/ GattRespond \/ PeerConnect \/ PeerWrite \/ PeerRead \/ PeerSubscribe)
  <2>1. sent' = sent /\ peer' = peer
    BY <1>4 DEF ValidNext, HciRead, HciToGatt, HciToBt, BtCmd, BtComplete, BtConnection, BtLoop, GattL2cap,
      GattNotifyMonitors, GattMonitorReq, GattConnected, GattDisconnected, MonitorRegister, MonitorForward,
      RelayUpdate, RelayRequest, CmdAsk, CmdAck, CmdExecute, HelperRemind, TxDone, CommandComplete, HelperWake,
      PeerDisconnect, vars, gattVars, env
  <2>2. QED BY <2>1 DEF NotifyOnlySubscribers
<1>5. QED BY <1>2, <1>3, <1>4

\* No request is at gatt while it handles one, and only hci brings them.
LEMMA RequestAtGatt ==
  ASSUME GattInboxSound, NEW i \in 1..Len(inbox.gatt), inbox.gatt[i].type \in Kinds
  PROVE  inbox.gatt[i] = packet /\ pc.hci = "sent" /\ packet \in Stream
<1>1. Sender(inbox.gatt[i]) = "hci"
  BY DEF Sender, Kinds
<1>2. inbox.gatt[i] = packet /\ Waits("hci")
  BY <1>1 DEF GattInboxSound
<1>3. pc.hci = "sent"
  BY <1>2 DEF Waits
<1>4. QED BY <1>2, <1>3 DEF Stream, Carried

\* Steps that leave gatt's inbox alone, or make it a request shorter.
LEMMA MonitorStill ==
  ASSUME MonitorInTime, inbox'.gatt = inbox.gatt, Busy' => Busy,
         monitors => monitors' \/ pc'.monitor = "dead", pc.monitor = "dead" => pc'.monitor = "dead",
         pc'.monitor = "dead" => pc'.relay = "dead"
  PROVE  MonitorInTime'
BY DEF MonitorInTime

\* A message that is no request, or finds the monitor registered or its
\* registration before it.
LEMMA MonitorSaid ==
  ASSUME Types, MonitorInTime, NEW m \in Messages, inbox'.gatt = Append(inbox.gatt, m), pc'.gatt = pc.gatt,
         monitors' = monitors, pc.monitor = "dead" <=> pc'.monitor = "dead", pc'.relay = pc.relay,
         \/ m.type # "L2capPacket" \/ monitors \/ pc.monitor = "dead"
         \/ \E j \in 1..Len(inbox.gatt) : inbox.gatt[j].type = "GattServerMonitorReq"
  PROVE  MonitorInTime'
<1>1. PICK s, r : s = inbox.gatt /\ r = inbox'.gatt
  OBVIOUS
<1>2. PICK n \in Nat : n = Len(s)
  BY <1>1 DEF Types, Inboxes
<1>3. Len(r) = n + 1 /\ r[n + 1] = m /\ \A i \in 1..n : r[i] = s[i]
  BY <1>1, <1>2, Appended DEF Types, Inboxes
<1>4. ASSUME NEW i \in 1..Len(r), r[i].type = "L2capPacket", ~monitors, pc.monitor # "dead"
      PROVE  \E j \in 1..i - 1 : r[j].type = "GattServerMonitorReq"
  <2>1. CASE i = n + 1
    <3>1. PICK j \in 1..n : s[j].type = "GattServerMonitorReq"
      BY <1>1, <1>2, <1>3, <1>4, <2>1
    <3>2. j \in 1..i - 1 /\ r[j] = s[j]
      BY <1>3, <2>1
    <3>3. QED BY <3>1, <3>2
  <2>2. CASE i # n + 1
    <3>1. i \in 1..n /\ s[i] = r[i]
      BY <1>3, <2>2
    <3>2. PICK j \in 1..i - 1 : s[j].type = "GattServerMonitorReq"
      BY <1>1, <1>2, <1>4, <3>1 DEF MonitorInTime
    <3>3. r[j] = s[j]
      BY <1>3, <3>1
    <3>4. QED BY <3>2, <3>3
  <2>3. QED BY <2>1, <2>2
<1>5. Busy' <=> Busy
  BY DEF Busy
<1>6. /\ pc'.monitor = "dead" => pc'.relay = "dead"
      /\ Busy' => monitors' \/ pc'.monitor = "dead"
  BY <1>5 DEF MonitorInTime
<1>7. \A i \in 1..Len(r) :
        r[i].type = "L2capPacket" =>
          \/ monitors' \/ pc'.monitor = "dead"
          \/ \E j \in 1..i - 1 : r[j].type = "GattServerMonitorReq"
  BY <1>4
<1>8. QED BY <1>1, <1>6, <1>7 DEF MonitorInTime

\* gatt takes a message; a request it takes finds the monitor registered.
LEMMA MonitorHeard ==
  ASSUME Types, MonitorInTime, inbox.gatt # <<>>, inbox'.gatt = Tail(inbox.gatt),
         Busy' => Busy \/ Head(inbox.gatt).type = "L2capPacket",
         monitors => monitors', Head(inbox.gatt).type = "GattServerMonitorReq" => monitors',
         pc'.monitor = pc.monitor, pc'.relay = pc.relay
  PROVE  MonitorInTime'
<1>1. PICK s, r : s = inbox.gatt /\ r = inbox'.gatt
  OBVIOUS
<1>2. s \in Seq(Messages) /\ s # <<>> /\ r = Tail(s)
  BY <1>1 DEF Types, Inboxes
<1>3. PICK n \in Nat : n = Len(r)
  BY <1>2, Popped
<1>4. Len(s) = n + 1 /\ s[1] = Head(s) /\ \A i \in 1..n : r[i] = s[i + 1]
  BY <1>2, <1>3, Popped
<1>5. Head(s).type = "L2capPacket" => monitors \/ pc.monitor = "dead"
  <2>1. 1 \in 1..n + 1 /\ 1..1 - 1 = {}
    OBVIOUS
  <2>2. QED BY <1>1, <1>4, <2>1 DEF MonitorInTime
<1>6. Busy' => monitors' \/ pc'.monitor = "dead"
  BY <1>1, <1>5 DEF MonitorInTime
<1>7. ASSUME NEW i \in 1..n, r[i].type = "L2capPacket", ~monitors', pc.monitor # "dead"
      PROVE  \E j \in 1..i - 1 : r[j].type = "GattServerMonitorReq"
  <2>1. i + 1 \in 1..n + 1 /\ s[i + 1].type = "L2capPacket" /\ ~monitors
    BY <1>4, <1>7
  <2>2. PICK j \in 1..(i + 1) - 1 : s[j].type = "GattServerMonitorReq"
    BY <1>1, <1>4, <1>7, <2>1 DEF MonitorInTime
  <2>3. j # 1
    BY <1>1, <1>4, <1>7, <2>2
  <2>4. j - 1 \in 1..i - 1 /\ r[j - 1] = s[j]
    BY <1>4, <2>2, <2>3
  <2>5. QED BY <2>2, <2>4
<1>8. \A i \in 1..Len(r) :
        r[i].type = "L2capPacket" =>
          \/ monitors' \/ pc'.monitor = "dead"
          \/ \E j \in 1..i - 1 : r[j].type = "GattServerMonitorReq"
  BY <1>3, <1>7
<1>9. pc'.monitor = "dead" => pc'.relay = "dead"
  BY DEF MonitorInTime
<1>10. QED BY <1>1, <1>6, <1>8, <1>9 DEF MonitorInTime

\* When hci may pass on a request, the monitor is registered, or will be as
\* soon as gatt has read what came before, or has gone.
LEMMA MonitorFirst ==
  ASSUME Types, GattInboxSound, RelaySound, Runs("hci")
  PROVE  \/ monitors \/ pc.monitor = "dead"
         \/ \E j \in 1..Len(inbox.gatt) : inbox.gatt[j].type = "GattServerMonitorReq"
<1>1. pc \in States /\ inbox \in Inboxes
  BY DEF Types
<1>2. ~Ready("monitor") /\ ~Ready("relay")
  BY DEF Runs, Prio, Tasks
<1>3. pc.monitor \in {"registered", "forwarded", "dead"}
  BY <1>1, <1>2 DEF Ready, Blocked, Receiving, States
<1>4. pc.monitor # "forwarded"
  <2>1. SUFFICES ASSUME pc.monitor = "forwarded"
                 PROVE  FALSE
    OBVIOUS
  <2>2. Requests("GattMonitorResp") /\ pc.relay # "dead"
    BY <2>1 DEF Requests, RelaySound
  <2>3. \E i \in 1..Len(inbox.relay) : inbox.relay[i].type = "GattMonitorResp"
    BY <2>2 DEF RelaySound
  <2>4. inbox.relay # <<>>
    <3>1. Len(<<>>) = 0
      OBVIOUS
    <3>2. inbox.relay # <<>>
      BY <2>3, <3>1
    <3>3. QED BY <3>2
  <2>5. pc.relay = "recv"
    BY <1>1, <2>2 DEF States
  <2>6. QED BY <1>2, <2>4, <2>5 DEF Ready, Receiving
<1>5. CASE pc.monitor = "registered" /\ ~monitors
  <2>1. Waits("monitor")
    BY <1>5 DEF Waits
  <2>2. PICK j \in 1..Len(inbox.gatt) : Sender(inbox.gatt[j]) = "monitor"
    BY <2>1 DEF GattInboxSound, Clients
  <2>3. inbox.gatt[j].type = "GattServerMonitorReq"
    BY <2>2 DEF Sender
  <2>4. QED BY <2>3
<1>6. QED BY <1>3, <1>4, <1>5

\* Every step: the monitor registers before gatt looks at a request.
LEMMA MonitorStep ==
  ASSUME Types, LinkInv, GattInboxSound, MonitorInTime, RelaySound, [ValidNext]_vars
  PROVE  MonitorInTime'
<1>1. pc \in States /\ inbox \in Inboxes /\ (pc.monitor = "dead" => pc.relay = "dead")
  BY DEF Types, MonitorInTime
<1>2. CASE HciToGatt
  <2>1. packet \in Messages /\ Runs("hci")
    BY <1>2 DEF HciToGatt, LinkInv, HciSound, Messages
  <2>2. pc' = [pc EXCEPT !.hci = "sent"] /\ inbox'.gatt = Append(inbox.gatt, packet) /\ monitors' = monitors
    BY <1>2, SaysToGatt DEF HciToGatt, gattVars
  <2>3. pc'.gatt = pc.gatt /\ pc'.monitor = pc.monitor /\ pc'.relay = pc.relay
    BY <1>1, <2>2 DEF States
  <2>4. QED BY <2>1, <2>2, <2>3, MonitorFirst, MonitorSaid
<1>3. CASE MonitorRegister \/ CmdAck \/ HelperRemind
  <2>1. PICK m : /\ m \in {[type |-> "GattServerMonitorReq"], [type |-> "GattServerPublishReq"],
                           [type |-> "ClockWaitResp"]}
                 /\ inbox'.gatt = Append(inbox.gatt, m) /\ monitors' = monitors
                 /\ \/ pc.monitor = "register" /\ pc' = [pc EXCEPT !.monitor = "registered"]
                    \/ pc' = [pc EXCEPT !.cmd = "publishing"]
                    \/ pc' = [pc EXCEPT !.helper = "reminded"]
    <3>1. CASE MonitorRegister
      BY <3>1, SaysToGatt DEF MonitorRegister, gattVars
    <3>2. CASE CmdAck
      BY <3>2, SaysToGatt DEF CmdAck, gattVars
    <3>3. CASE HelperRemind
      BY <3>3, SaysToGatt DEF HelperRemind, gattVars
    <3>4. QED BY <1>3, <3>1, <3>2, <3>3
  <2>2. m \in Messages /\ m.type # "L2capPacket"
    BY <2>1 DEF Messages
  <2>3. pc'.gatt = pc.gatt /\ (pc.monitor = "dead" <=> pc'.monitor = "dead") /\ pc'.relay = pc.relay
    BY <1>1, <2>1 DEF States
  <2>4. QED BY <2>1, <2>2, <2>3, MonitorSaid
<1>4. CASE GattL2cap \/ GattMonitorReq \/ GattPublish \/ GattReminder \/ GattConnected \/ GattDisconnected
  <2>1. /\ \E k : Received("gatt", k)
        /\ \/ monitors' = monitors
           \/ monitors' = TRUE
        /\ Head(inbox.gatt).type = "GattServerMonitorReq" => monitors'
        /\ \/ Head(inbox.gatt).type = "L2capPacket" /\ pc' = [pc EXCEPT !.hci = "read", !.gatt = "respond"]
           \/ pc' = [pc EXCEPT !.hci = "to_bt"]
           \/ pc' = [pc EXCEPT !.cmd = "execute"]
           \/ pc' = [pc EXCEPT !.helper = "clock"]
           \/ pc' = pc
    <3>1. CASE GattL2cap
      BY <3>1 DEF GattL2cap, Received
    <3>2. CASE GattMonitorReq
      BY <3>2 DEF GattMonitorReq, Received
    <3>3. CASE GattPublish
      BY <3>3 DEF GattPublish, Received
    <3>4. CASE GattReminder
      BY <3>4 DEF GattReminder, Received
    <3>5. CASE GattConnected \/ GattDisconnected
      BY <3>5 DEF GattConnected, GattDisconnected, Received
    <3>6. QED BY <1>4, <3>1, <3>2, <3>3, <3>4, <3>5
  <2>2. inbox.gatt # <<>> /\ inbox'.gatt = Tail(inbox.gatt)
    BY <1>1, <2>1 DEF Received, Inboxes
  <2>3. /\ pc'.monitor = pc.monitor /\ pc'.relay = pc.relay
        /\ pc'.gatt = pc.gatt \/ Head(inbox.gatt).type = "L2capPacket"
    BY <1>1, <2>1 DEF States
  <2>4. Busy' => Busy \/ Head(inbox.gatt).type = "L2capPacket"
    BY <2>3 DEF Busy
  <2>5. QED BY <2>1, <2>2, <2>3, <2>4, MonitorHeard
<1>5. CASE GattNotifyMonitors
  <2>1. /\ pc.gatt = "notify_monitors" /\ inbox' = inbox
        /\ \/ monitors /\ pc' = [pc EXCEPT !.gatt = "recv", !.monitor = "forward"]
           \/ monitors' = monitors /\ pc' = [pc EXCEPT !.gatt = "recv"]
    BY <1>5 DEF GattNotifyMonitors
  <2>2. pc'.gatt = "recv" /\ pc'.relay = pc.relay /\ (pc'.monitor = pc.monitor \/ pc'.monitor = "forward")
    BY <1>1, <2>1 DEF States
  <2>3. ~Busy'
    BY <2>2 DEF Busy
  <2>4. ~InStream("L2capPacket")
    BY <2>1 DEF LinkInv, OneRequest, Busy
  <2>5. \A i \in 1..Len(inbox.gatt) : inbox.gatt[i].type # "L2capPacket"
    BY <2>4, RequestAtGatt DEF InStream, Kinds
  <2>6. pc'.monitor = "dead" => pc'.relay = "dead"
    BY <1>1, <2>2
  <2>7. \A i \in 1..Len(inbox'.gatt) : inbox'.gatt[i].type # "L2capPacket"
    BY <2>1, <2>5
  <2>8. QED BY <2>3, <2>6, <2>7 DEF MonitorInTime
<1>6. CASE MonitorForward \/ CmdAsk \/ CmdExecute \/ HelperWake \/ BtCmd \/ TxDone \/ GattRespond
  <2>1. /\ inbox'.gatt = inbox.gatt /\ monitors' = monitors
        /\ \/ pc.monitor = "forward" /\ pc' = [pc EXCEPT !.monitor = "forwarded"]
           \/ pc.monitor = "forward" /\ pc.relay = "dead" /\ pc' = [pc EXCEPT !.monitor = "dead"]
           \/ \E b : pc' = [pc EXCEPT !.cmd = b]
           \/ \E b : pc' = [pc EXCEPT !.helper = b]
           \/ \E b : pc' = [pc EXCEPT !.bt = b]
           \/ pc.gatt = "respond" /\ pc' = [pc EXCEPT !.gatt = "notify_monitors"]
    <3>1. CASE MonitorForward \/ CmdAsk
      <4>1. CASE pc.relay = "dead"
        BY <1>1, <3>1, <4>1 DEF MonitorForward, CmdAsk, ker_send, gattVars, Inboxes
      <4>2. CASE pc.relay # "dead"
        BY <1>1, <3>1, <4>2 DEF MonitorForward, CmdAsk, ker_send, gattVars, Inboxes
      <4>3. QED BY <4>1, <4>2
    <3>2. CASE CmdExecute \/ HelperWake
      BY <3>2 DEF CmdExecute, HelperWake, gattVars
    <3>3. CASE BtCmd \/ TxDone \/ GattRespond
      BY <3>3 DEF BtCmd, TxDone, GattRespond, gattVars
    <3>4. QED BY <1>6, <3>1, <3>2, <3>3
  <2>2. /\ pc'.gatt = pc.gatt \/ pc.gatt = "respond"
        /\ pc'.relay = pc.relay
        /\ pc.monitor = "dead" => pc'.monitor = "dead"
        /\ pc'.monitor = "dead" => pc'.relay = "dead"
    BY <1>1, <2>1 DEF States
  <2>3. Busy' => Busy
    BY <2>2 DEF Busy
  <2>4. QED BY <2>1, <2>2, <2>3, MonitorStill
<1>7. CASE RelayUpdate \/ RelayRequest
  <2>1. /\ \/ /\ Received("relay", "GattMonitorResp")
              /\ \/ pc' = [pc EXCEPT !.monitor = "register", !.cmd = "ack"]
                 \/ pc' = [pc EXCEPT !.monitor = "register"]
                 \/ pc' = [pc EXCEPT !.monitor = "register", !.relay = "dead"]
           \/ /\ Received("relay", "GattMonitorReq")
              /\ pc' = pc \/ pc' = [pc EXCEPT !.cmd = "ack"]
        /\ monitors' = monitors
    BY <1>7 DEF RelayUpdate, RelayRequest, gattVars
  <2>2. Received("relay", "GattMonitorResp") => pc.monitor = "forwarded"
    BY RelayHears
  <2>3. inbox'.gatt = inbox.gatt
    BY <1>1, <2>1 DEF Received, Inboxes
  <2>4. /\ pc'.gatt = pc.gatt /\ (pc.monitor = "dead" => pc'.monitor = "dead")
        /\ pc'.monitor = "dead" => pc'.relay = "dead"
    BY <1>1, <2>1, <2>2 DEF States
  <2>5. Busy' => Busy
    BY <2>4 DEF Busy
  <2>6. QED BY <2>1, <2>3, <2>4, <2>5, MonitorStill
<1>8. CASE \/ HciRead \/ HciToBt \/ BtComplete \/ BtConnection \/ BtLoop
           \/ CommandComplete \/ PeerConnect \/ PeerDisconnect \/ PeerWrite \/ PeerRead \/ PeerSubscribe
           \/ UNCHANGED vars
  <2>1. /\ inbox'.gatt = inbox.gatt /\ monitors' = monitors
        /\ \/ \E b : pc' = [pc EXCEPT !.hci = b]
           \/ \E b : pc' = [pc EXCEPT !.hci = "read", !.bt = b]
           \/ pc' = pc
    <3>1. CASE HciRead \/ HciToBt
      BY <1>1, <3>1 DEF HciRead, HciToBt, ker_send, gattVars, Inboxes, States
    <3>2. CASE BtComplete \/ BtConnection \/ BtLoop
      <4>1. inbox' = [inbox EXCEPT !.bt = Tail(@)] /\ monitors' = monitors
        BY <3>2 DEF BtComplete, BtConnection, BtLoop, Received, gattVars
      <4>2. \E b : pc' = [pc EXCEPT !.hci = "read", !.bt = b]
        BY <3>2 DEF BtComplete, BtConnection, BtLoop
      <4>3. QED BY <1>1, <4>1, <4>2 DEF Inboxes
    <3>3. CASE ~(HciRead \/ HciToBt \/ BtComplete \/ BtConnection \/ BtLoop)
      BY <1>8, <3>3 DEF CommandComplete, PeerConnect, PeerDisconnect, PeerWrite, PeerRead, PeerSubscribe,
        PeerRequest, vars, gattVars
    <3>4. QED BY <3>1, <3>2, <3>3
  <2>2. pc'.gatt = pc.gatt /\ pc'.monitor = pc.monitor /\ pc'.relay = pc.relay
    BY <1>1, <2>1 DEF States
  <2>3. Busy' => Busy
    BY <2>2 DEF Busy
  <2>4. QED BY <1>1, <2>1, <2>2, <2>3, MonitorStill
<1>9. QED BY <1>2, <1>3, <1>4, <1>5, <1>6, <1>7, <1>8 DEF ValidNext

-----------------------------------------------------------------------------
(* Every step: the relay.                                                  *)

\* The relay's inbox, and those who wait for it, stay as they are.
LEMMA RelayStill ==
  ASSUME RelaySound, inbox'.relay = inbox.relay, \A k : Requests(k)' <=> Requests(k),
         pc.monitor = "forwarded" => value'.monitor = value.monitor,
         watcher' => pc'.cmd = "asked" /\ Len(queue') = 0,
         pc'.relay = "dead" => pc'.monitor # "forwarded"
  PROVE  RelaySound'
<1>1. PICK r : r = inbox.relay
  OBVIOUS
<1>2. \A i \in 1..Len(r) : Requests(r[i].type)'
  BY <1>1 DEF RelaySound
<1>3. ASSUME NEW i \in 1..Len(r), r[i].type = "GattMonitorResp"
      PROVE  r[i].n = value'.monitor
  <2>1. Requests("GattMonitorResp") /\ r[i].n = value.monitor
    BY <1>1, <1>3 DEF RelaySound
  <2>2. pc.monitor = "forwarded"
    BY <2>1 DEF Requests
  <2>3. QED BY <2>1, <2>2
<1>4. QED BY <1>1, <1>2, <1>3 DEF RelaySound

\* The monitor or cmd sends the relay its request.
LEMMA RelaySaid ==
  ASSUME Types, RelaySound, NEW m \in Messages, inbox'.relay = Append(inbox.relay, m),
         ~Requests(m.type), Requests(m.type)', \A k : k # m.type => (Requests(k)' <=> Requests(k)),
         m.type = "GattMonitorResp" => m.n = value'.monitor, value' = value,
         watcher' => pc'.cmd = "asked" /\ Len(queue') = 0,
         pc'.relay # "dead"
  PROVE  RelaySound'
<1>1. PICK s, r : s = inbox.relay /\ r = inbox'.relay
  OBVIOUS
<1>2. PICK n \in Nat : n = Len(s)
  BY <1>1 DEF Types, Inboxes
<1>3. Len(r) = n + 1 /\ r[n + 1] = m /\ \A i \in 1..n : r[i] = s[i]
  BY <1>1, <1>2, Appended DEF Types, Inboxes
<1>4. /\ \A i, j \in 1..n : s[i].type = s[j].type => i = j
      /\ \A i \in 1..n : Requests(s[i].type)
      /\ Requests("GattMonitorResp") => \E i \in 1..n : s[i].type = "GattMonitorResp"
      /\ \A i \in 1..n : s[i].type = "GattMonitorResp" => s[i].n = value.monitor
  BY <1>1, <1>2 DEF RelaySound
<1>5. \A i \in 1..n : s[i].type # m.type
  BY <1>4
<1>6. \A i \in 1..Len(r) : i \in 1..n \/ i = n + 1
  BY <1>3
<1>7. \A i, j \in 1..Len(r) : r[i].type = r[j].type => i = j
  BY <1>3, <1>4, <1>5, <1>6
<1>8. \A i \in 1..Len(r) : Requests(r[i].type)'
  <2>1. ASSUME NEW i \in 1..Len(r), NEW k, k = r[i].type
        PROVE  Requests(k)'
    <3>1. CASE i = n + 1
      BY <1>3, <2>1, <3>1
    <3>2. CASE i # n + 1
      BY <1>3, <1>4, <1>5, <1>6, <2>1, <3>2
    <3>3. QED BY <3>1, <3>2
  <2>2. QED BY <2>1
<1>9. Requests("GattMonitorResp")' => \E i \in 1..Len(r) : r[i].type = "GattMonitorResp"
  <2>1. CASE m.type = "GattMonitorResp"
    <3>1. n + 1 \in 1..Len(r)
      BY <1>3
    <3>2. QED BY <1>3, <2>1, <3>1
  <2>2. CASE m.type # "GattMonitorResp"
    <3>1. ASSUME Requests("GattMonitorResp")'
          PROVE  \E i \in 1..n : s[i].type = "GattMonitorResp"
      BY <1>4, <2>2, <3>1
    <3>2. \A i \in 1..n : i \in 1..Len(r)
      BY <1>3
    <3>3. QED BY <1>3, <3>1, <3>2
  <2>3. QED BY <2>1, <2>2
<1>10. \A i \in 1..Len(r) : r[i].type = "GattMonitorResp" => r[i].n = value'.monitor
  BY <1>3, <1>4, <1>6
<1>11. QED BY <1>1, <1>7, <1>8, <1>9, <1>10 DEF RelaySound

\* The relay hears one of them.
LEMMA RelayHeard ==
  ASSUME Types, RelaySound, inbox.relay # <<>>, inbox'.relay = Tail(inbox.relay),
         NEW k, Head(inbox.relay).type = k, ~Requests(k)',
         \A l : l # k => (Requests(l)' <=> Requests(l)),
         k # "GattMonitorResp" => value'.monitor = value.monitor,
         watcher' => pc'.cmd = "asked" /\ Len(queue') = 0,
         pc'.relay = "dead" => pc'.monitor # "forwarded"
  PROVE  RelaySound'
<1>1. PICK s, r : s = inbox.relay /\ r = inbox'.relay
  OBVIOUS
<1>2. s \in Seq(Messages) /\ s # <<>> /\ r = Tail(s) /\ Head(s).type = k
  BY <1>1 DEF Types, Inboxes
<1>3. PICK n \in Nat : n = Len(r)
  BY <1>2, Popped
<1>4. Len(s) = n + 1 /\ s[1] = Head(s) /\ \A i \in 1..n : r[i] = s[i + 1]
  BY <1>2, <1>3, Popped
<1>5. /\ \A i, j \in 1..n + 1 : s[i].type = s[j].type => i = j
      /\ \A i \in 1..n + 1 : Requests(s[i].type)
      /\ Requests("GattMonitorResp") => \E i \in 1..n + 1 : s[i].type = "GattMonitorResp"
      /\ \A i \in 1..n + 1 : s[i].type = "GattMonitorResp" => s[i].n = value.monitor
  BY <1>1, <1>4 DEF RelaySound
<1>6. \A i \in 1..n : i + 1 \in 1..n + 1 /\ 1 \in 1..n + 1 /\ i + 1 # 1
  OBVIOUS
<1>7. \A i \in 1..n : r[i].type # k
  BY <1>2, <1>4, <1>5, <1>6
<1>8. \A i, j \in 1..n : r[i].type = r[j].type => i = j
  <2>1. ASSUME NEW i \in 1..n, NEW j \in 1..n, r[i].type = r[j].type
        PROVE  i = j
    <3>1. s[i + 1].type = s[j + 1].type
      BY <1>4, <2>1
    <3>2. i + 1 = j + 1
      BY <1>5, <1>6, <3>1
    <3>3. QED BY <3>2
  <2>2. QED BY <2>1
<1>9. \A i \in 1..n : Requests(r[i].type)'
  <2>1. ASSUME NEW i \in 1..n, NEW l, l = r[i].type
        PROVE  Requests(l)'
    <3>1. l # k /\ l = s[i + 1].type
      BY <1>4, <1>7, <2>1
    <3>2. Requests(l)
      BY <1>5, <1>6, <3>1
    <3>3. QED BY <3>1, <3>2
  <2>2. QED BY <2>1
<1>10. Requests("GattMonitorResp")' => \E i \in 1..n : r[i].type = "GattMonitorResp"
  <2>1. ASSUME Requests("GattMonitorResp")'
        PROVE  \E i \in 1..n : r[i].type = "GattMonitorResp"
    <3>1. k # "GattMonitorResp" /\ Requests("GattMonitorResp")
      BY <2>1
    <3>2. PICK i \in 1..n + 1 : s[i].type = "GattMonitorResp"
      BY <1>5, <3>1
    <3>3. i # 1
      BY <1>2, <1>4, <3>1, <3>2
    <3>4. i - 1 \in 1..n /\ r[i - 1] = s[i]
      BY <1>4, <3>3
    <3>5. QED BY <3>2, <3>4
  <2>2. QED BY <2>1
<1>11. \A i \in 1..n : r[i].type = "GattMonitorResp" => r[i].n = value'.monitor
  BY <1>4, <1>5, <1>6, <1>7
<1>12. QED BY <1>1, <1>3, <1>8, <1>9, <1>10, <1>11 DEF RelaySound

\* Every step: the relay's clients have one request there while they wait.
LEMMA RelayStep ==
  ASSUME Types, LinkInv, GattInboxSound, RelaySound, [ValidNext]_vars
  PROVE  RelaySound'
<1>1. /\ pc \in States /\ inbox \in Inboxes /\ value \in [monitor : Nat, cmd : Nat] /\ watcher \in BOOLEAN
      /\ queue \in Seq(Nat)
  BY DEF Types, DataTypes
<1>2. /\ watcher => pc.cmd = "asked" /\ Len(queue) = 0
      /\ pc.relay = "dead" => pc.monitor # "forwarded"
  BY DEF RelaySound
<1>3. CASE MonitorForward
  <2>1. PICK m : m = [type |-> "GattMonitorResp", n |-> value.monitor]
    OBVIOUS
  <2>2. m \in Messages /\ m.type = "GattMonitorResp" /\ m.n = value.monitor
    BY <1>1, <2>1 DEF Messages
  <2>3. pc.monitor = "forward" /\ value' = value /\ watcher' = watcher /\ queue' = queue
    BY <1>3 DEF MonitorForward, relayVars
  <2>4. CASE pc.relay = "dead"
    <3>1. pc' = [pc EXCEPT !.monitor = "dead"] /\ inbox' = inbox
      BY <1>3, <2>4 DEF MonitorForward, ker_send
    <3>2. pc'.monitor = "dead" /\ pc'.cmd = pc.cmd /\ pc'.relay = pc.relay
      BY <1>1, <3>1 DEF States
    <3>3. \A k : Requests(k)' <=> Requests(k)
      BY <2>3, <3>2 DEF Requests
    <3>4. QED BY <1>2, <2>3, <3>1, <3>2, <3>3, RelayStill
  <2>5. CASE pc.relay # "dead"
    <3>1. pc' = [pc EXCEPT !.monitor = "forwarded"] /\ inbox'.relay = Append(inbox.relay, m)
      BY <1>1, <1>3, <2>1, <2>5 DEF MonitorForward, ker_send, Inboxes
    <3>2. pc'.monitor = "forwarded" /\ pc'.cmd = pc.cmd /\ pc'.relay = pc.relay
      BY <1>1, <3>1 DEF States
    <3>3. /\ ~Requests(m.type) /\ Requests(m.type)'
          /\ \A k : k # m.type => (Requests(k)' <=> Requests(k))
      BY <2>2, <2>3, <3>2 DEF Requests
    <3>4. QED BY <1>2, <2>2, <2>3, <2>5, <3>1, <3>2, <3>3, RelaySaid
  <2>6. QED BY <2>4, <2>5
<1>4. CASE CmdAsk
  <2>1. PICK m : m = [type |-> "GattMonitorReq"]
    OBVIOUS
  <2>2. m \in Messages /\ m.type = "GattMonitorReq"
    BY <2>1 DEF Messages
  <2>3. pc.cmd = "ask" /\ value' = value /\ watcher' = watcher /\ queue' = queue /\ ~watcher
    BY <1>2, <1>4 DEF CmdAsk, relayVars
  <2>4. CASE pc.relay = "dead"
    <3>1. pc' = [pc EXCEPT !.cmd = "dead"] /\ inbox' = inbox
      BY <1>4, <2>4 DEF CmdAsk, ker_send
    <3>2. pc'.cmd = "dead" /\ pc'.monitor = pc.monitor /\ pc'.relay = pc.relay
      BY <1>1, <3>1 DEF States
    <3>3. \A k : Requests(k)' <=> Requests(k)
      BY <2>3, <3>2 DEF Requests
    <3>4. QED BY <1>2, <2>3, <3>1, <3>2, <3>3, RelayStill
  <2>5. CASE pc.relay # "dead"
    <3>1. pc' = [pc EXCEPT !.cmd = "asked"] /\ inbox'.relay = Append(inbox.relay, m)
      BY <1>1, <1>4, <2>1, <2>5 DEF CmdAsk, ker_send, Inboxes
    <3>2. pc'.cmd = "asked" /\ pc'.monitor = pc.monitor /\ pc'.relay = pc.relay
      BY <1>1, <3>1 DEF States
    <3>3. /\ ~Requests(m.type) /\ Requests(m.type)'
          /\ \A k : k # m.type => (Requests(k)' <=> Requests(k))
      BY <2>2, <2>3, <3>2 DEF Requests
    <3>4. QED BY <1>2, <2>2, <2>3, <2>5, <3>1, <3>2, <3>3, RelaySaid
  <2>6. QED BY <2>4, <2>5
<1>5. CASE RelayUpdate
  <2>1. Received("relay", "GattMonitorResp")
    BY <1>5 DEF RelayUpdate
  <2>2. /\ pc.relay = "recv" /\ pc.monitor = "forwarded" /\ inbox.relay # <<>>
        /\ Head(inbox.relay).type = "GattMonitorResp" /\ inbox' = [inbox EXCEPT !.relay = Tail(@)]
    BY <2>1, RelayHears
  <2>3. inbox'.relay = Tail(inbox.relay)
    BY <1>1, <2>2 DEF Inboxes
  <2>4. \/ watcher /\ ~watcher' /\ pc' = [pc EXCEPT !.monitor = "register", !.cmd = "ack"]
        \/ ~watcher /\ watcher' = watcher /\ pc' = [pc EXCEPT !.monitor = "register"]
        \/ ~watcher /\ watcher' = watcher /\ pc' = [pc EXCEPT !.monitor = "register", !.relay = "dead"]
    BY <1>5 DEF RelayUpdate
  <2>5. /\ pc'.monitor = "register" /\ ~watcher'
        /\ \/ pc'.cmd = pc.cmd /\ ~watcher
           \/ pc'.cmd = "ack" /\ watcher
    <3>1. CASE watcher
      <4>1. ~watcher' /\ pc' = [pc EXCEPT !.monitor = "register", !.cmd = "ack"]
        BY <2>4, <3>1
      <4>2. pc'.monitor = "register" /\ pc'.cmd = "ack"
        BY <1>1, <4>1 DEF States
      <4>3. QED BY <3>1, <4>1, <4>2
    <3>2. CASE ~watcher
      <4>1. /\ ~watcher'
            /\ \/ pc' = [pc EXCEPT !.monitor = "register"]
               \/ pc' = [pc EXCEPT !.monitor = "register", !.relay = "dead"]
        BY <2>4, <3>2
      <4>2. pc'.monitor = "register" /\ pc'.cmd = pc.cmd
        BY <1>1, <4>1 DEF States
      <4>3. QED BY <3>2, <4>1, <4>2
    <3>3. QED BY <3>1, <3>2
  <2>6. ~Requests("GattMonitorResp")' /\ \A l : l # "GattMonitorResp" => (Requests(l)' <=> Requests(l))
    BY <2>5 DEF Requests
  <2>7. QED BY <2>2, <2>3, <2>5, <2>6, RelayHeard
<1>6. CASE RelayRequest
  <2>1. Received("relay", "GattMonitorReq")
    BY <1>6 DEF RelayRequest
  <2>2. /\ pc.relay = "recv" /\ pc.cmd = "asked" /\ ~watcher /\ inbox.relay # <<>>
        /\ Head(inbox.relay).type = "GattMonitorReq" /\ inbox' = [inbox EXCEPT !.relay = Tail(@)]
    BY <2>1, RelayHears
  <2>3. inbox'.relay = Tail(inbox.relay)
    BY <1>1, <2>2 DEF Inboxes
  <2>4. \/ /\ pc' = [pc EXCEPT !.cmd = "ack"] /\ watcher' = watcher /\ value' = [value EXCEPT !.cmd = Head(queue)]
        \/ queue = <<>> /\ watcher' = TRUE /\ pc' = pc /\ value' = value /\ queue' = queue
    BY <1>6 DEF RelayRequest
  <2>5. /\ pc'.monitor = pc.monitor /\ pc'.relay = pc.relay /\ value'.monitor = value.monitor
        /\ \/ pc'.cmd = "ack" /\ ~watcher'
           \/ pc'.cmd = "asked" /\ watcher' /\ Len(queue') = 0
    BY <1>1, <2>2, <2>4 DEF States
  <2>6. ~Requests("GattMonitorReq")' /\ \A l : l # "GattMonitorReq" => (Requests(l)' <=> Requests(l))
    BY <2>2, <2>5 DEF Requests
  <2>7. QED BY <2>2, <2>3, <2>5, <2>6, RelayHeard
<1>7. CASE GattNotifyMonitors
  <2>1. /\ inbox' = inbox /\ watcher' = watcher /\ queue' = queue
        /\ \/ monitors /\ pc' = [pc EXCEPT !.gatt = "recv", !.monitor = "forward"]
           \/ pc' = [pc EXCEPT !.gatt = "recv"] /\ value' = value
    BY <1>7 DEF GattNotifyMonitors, relayVars
  <2>2. monitors => pc.monitor = "registered"
    BY DEF GattInboxSound
  <2>3. /\ pc'.cmd = pc.cmd /\ pc'.relay = pc.relay
        /\ \/ pc.monitor = "registered" /\ pc'.monitor = "forward"
           \/ pc'.monitor = pc.monitor /\ value' = value
    BY <1>1, <2>1, <2>2 DEF States
  <2>4. \A k : Requests(k)' <=> Requests(k)
    BY <2>1, <2>3 DEF Requests
  <2>5. QED BY <1>2, <2>1, <2>3, <2>4, RelayStill
<1>8. CASE MonitorRegister \/ CmdAck \/ HelperRemind \/ CmdExecute \/ HelperWake \/ GattPublish \/ GattReminder
  <2>1. /\ inbox'.relay = inbox.relay /\ UNCHANGED <<value, watcher, queue>>
        /\ \/ pc.monitor = "register" /\ pc' = [pc EXCEPT !.monitor = "registered"]
           \/ /\ pc.cmd \in {"ack", "publishing", "execute"}
              /\ \E b \in {"publishing", "execute", "ask"} : pc' = [pc EXCEPT !.cmd = b]
           \/ \E b : pc' = [pc EXCEPT !.helper = b]
    <3>1. CASE MonitorRegister
      BY <1>1, <3>1, SaysToGatt DEF MonitorRegister, relayVars, Inboxes
    <3>2. CASE CmdAck
      BY <1>1, <3>2, SaysToGatt DEF CmdAck, relayVars, Inboxes
    <3>3. CASE HelperRemind
      <4>1. /\ pc' = [pc EXCEPT !.helper = "reminded"]
            /\ \E m : inbox' = [inbox EXCEPT !.gatt = Append(@, m)]
            /\ UNCHANGED <<value, watcher, queue>>
        BY <3>3, SaysToGatt DEF HelperRemind, relayVars
      <4>2. inbox'.relay = inbox.relay
        BY <1>1, <4>1 DEF Inboxes
      <4>3. QED BY <4>1, <4>2
    <3>4. CASE CmdExecute \/ HelperWake
      BY <3>4 DEF CmdExecute, HelperWake, relayVars
    <3>5. CASE GattPublish
      <4>1. Received("gatt", "GattServerPublishReq")
        BY <3>5 DEF GattPublish
      <4>2. 1 \in 1..Len(inbox.gatt) /\ Head(inbox.gatt) = inbox.gatt[1] /\ inbox'.relay = inbox.relay
        BY <1>1, <4>1, Popped DEF Received, Inboxes
      <4>3. Waits(Sender(inbox.gatt[1]))
        BY <4>2 DEF GattInboxSound
      <4>4. Sender(inbox.gatt[1]) = "cmd"
        BY <4>1, <4>2 DEF Received, Sender
      <4>5. pc.cmd = "publishing"
        BY <4>3, <4>4 DEF Waits
      <4>6. QED BY <3>5, <4>2, <4>5 DEF GattPublish, relayVars
    <3>6. CASE GattReminder
      BY <1>1, <3>6 DEF GattReminder, Received, relayVars, Inboxes
    <3>7. QED BY <1>8, <3>1, <3>2, <3>3, <3>4, <3>5, <3>6
  <2>2. /\ pc'.relay = pc.relay
        /\ pc'.cmd = "asked" <=> pc.cmd = "asked"
        /\ pc'.monitor = "forwarded" <=> pc.monitor = "forwarded"
    BY <1>1, <2>1 DEF States
  <2>3. \A k : Requests(k)' <=> Requests(k)
    BY <2>1, <2>2 DEF Requests
  <2>4. QED BY <1>2, <2>1, <2>2, <2>3, RelayStill
<1>9. CASE \/ HciRead \/ HciToGatt \/ HciToBt \/ BtCmd \/ BtComplete \/ BtConnection \/ BtLoop \/ TxDone
           \/ GattL2cap \/ GattRespond \/ GattMonitorReq \/ GattConnected \/ GattDisconnected
           \/ CommandComplete \/ PeerConnect \/ PeerDisconnect \/ PeerWrite \/ PeerRead \/ PeerSubscribe
           \/ UNCHANGED vars
  <2>1. UNCHANGED <<value, watcher, queue>>
    BY <1>9 DEF HciRead, HciToGatt, HciToBt, BtCmd, BtComplete, BtConnection, BtLoop, TxDone, GattL2cap, GattRespond,
      GattMonitorReq, GattConnected, GattDisconnected, CommandComplete, PeerConnect, PeerDisconnect, PeerWrite,
      PeerRead, PeerSubscribe, PeerRequest, vars, relayVars
  <2>2. inbox'.relay = inbox.relay
    <3>1. \/ inbox' = inbox
          \/ \E r \in {"gatt", "bt"} : \E s : inbox' = [inbox EXCEPT ![r] = s]
      <4>1. CASE HciToGatt
        BY <4>1, SaysToGatt DEF HciToGatt
      <4>2. CASE HciToBt
        BY <4>2 DEF HciToBt, ker_send
      <4>3. CASE BtComplete \/ BtConnection \/ BtLoop
        BY <4>3 DEF BtComplete, BtConnection, BtLoop, Received
      <4>4. CASE GattL2cap \/ GattMonitorReq \/ GattConnected \/ GattDisconnected
        BY <4>4 DEF GattL2cap, GattMonitorReq, GattConnected, GattDisconnected, Received
      <4>5. CASE \/ HciRead \/ BtCmd \/ TxDone \/ GattRespond \/ CommandComplete \/ PeerConnect \/ PeerDisconnect
                 \/ PeerWrite \/ PeerRead \/ PeerSubscribe \/ UNCHANGED vars
        BY <4>5 DEF HciRead, BtCmd, TxDone, GattRespond, CommandComplete, PeerConnect, PeerDisconnect, PeerWrite,
          PeerRead, PeerSubscribe, PeerRequest, vars
      <4>6. QED BY <1>9, <4>1, <4>2, <4>3, <4>4, <4>5
    <3>2. QED BY <1>1, <3>1 DEF Inboxes
  <2>3. pc'.relay = pc.relay /\ pc'.monitor = pc.monitor /\ pc'.cmd = pc.cmd
    <3>1. \/ pc' = pc
          \/ \E t \in {"hci", "bt", "gatt"} : \E b : pc' = [pc EXCEPT ![t] = b]
          \/ \E t \in {"bt", "gatt"} : \E b : pc' = [pc EXCEPT !.hci = "read", ![t] = b]
      <4>1. CASE HciRead \/ HciToGatt
        BY <4>1, SaysToGatt DEF HciRead, HciToGatt
      <4>2. CASE HciToBt
        BY <4>2 DEF HciToBt, ker_send
      <4>3. CASE BtComplete \/ BtConnection \/ BtLoop
        BY <4>3 DEF BtComplete, BtConnection, BtLoop
      <4>4. CASE BtCmd \/ TxDone \/ GattRespond
        BY <4>4 DEF BtCmd, TxDone, GattRespond
      <4>5. CASE GattL2cap \/ GattMonitorReq \/ GattConnected \/ GattDisconnected
        BY <4>5 DEF GattL2cap, GattMonitorReq, GattConnected, GattDisconnected
      <4>6. CASE \/ CommandComplete \/ PeerConnect \/ PeerDisconnect
                 \/ PeerWrite \/ PeerRead \/ PeerSubscribe \/ UNCHANGED vars
        BY <4>6 DEF CommandComplete, PeerConnect, PeerDisconnect, PeerWrite, PeerRead, PeerSubscribe, PeerRequest, vars
      <4>7. QED BY <1>9, <4>1, <4>2, <4>3, <4>4, <4>5, <4>6
    <3>2. QED BY <1>1, <3>1 DEF States
  <2>4. \A k : Requests(k)' <=> Requests(k)
    BY <2>1, <2>3 DEF Requests
  <2>5. QED BY <1>2, <2>1, <2>2, <2>3, <2>4, RelayStill
<1>10. QED BY <1>3, <1>4, <1>5, <1>6, <1>7, <1>8, <1>9 DEF ValidNext

-----------------------------------------------------------------------------
(* Every step: commands.                                                   *)

\* The command on its way to the monitor stays on its way.
LEMMA WrittenSame ==
  ASSUME \A m : IsWrite(m) => (m \in Ahead' \cup Handled' <=> m \in Ahead \cup Handled)
  PROVE  Written' = Written
<1>1. (\E m \in Ahead' \cup Handled' : IsWrite(m)) <=> (\E m \in Ahead \cup Handled : IsWrite(m))
  OBVIOUS
<1>2. QED BY <1>1 DEF Written

\* Only the peer's write puts one on its way, and only gatt takes it off.
LEMMA WrittenKept ==
  ASSUME Types, LinkInv, GattInboxSound, [ValidNext]_vars, ~PeerWrite, ~GattNotifyMonitors
  PROVE  Written' = Written
<1>1. pc \in States
  BY DEF Types
<1>2. CASE HciRead
  <2>1. /\ pc.hci = "read" /\ to_host # <<>> /\ to_host \in Seq(Packets)
        /\ packet' = Head(to_host) /\ to_host' = Tail(to_host) /\ request' = request
        /\ pc' = [pc EXCEPT !.hci = IF Head(to_host).type = "HciCommandComplete" THEN "to_bt" ELSE "to_gatt"]
    BY <1>2 DEF HciRead, Runs, Ready, Blocked, Receiving, Types, DataTypes, gattVars
  <2>2. /\ pc'.hci = IF Head(to_host).type = "HciCommandComplete" THEN "to_bt" ELSE "to_gatt"
        /\ pc'.gatt = pc.gatt
    BY <1>1, <2>1 DEF States
  <2>3. \A m : m.type # "HciCommandComplete" => (m \in Ahead' <=> m \in Ahead)
    BY <2>1, <2>2, PacketRead DEF LinkInv
  <2>4. Handled' = Handled
    BY <2>1, <2>2 DEF Handled, Busy
  <2>5. QED BY <2>3, <2>4, WrittenSame DEF IsWrite
<1>3. CASE HciToGatt \/ HciToBt \/ BtComplete \/ BtConnection \/ BtLoop \/ BtCmd \/ TxDone
  <2>1. to_host' = to_host /\ packet' = packet /\ request' = request
    BY <1>3 DEF HciToGatt, HciToBt, BtComplete, BtConnection, BtLoop, BtCmd, TxDone, gattVars, env
  <2>2. /\ pc'.gatt = pc.gatt
        /\ pc'.hci \in {"to_gatt", "sent"} <=> pc.hci \in {"to_gatt", "sent"}
    <3>1. CASE HciToGatt
      BY <1>1, <3>1, SaysToGatt DEF HciToGatt, States
    <3>2. CASE HciToBt
      BY <1>1, <3>2 DEF HciToBt, ker_send, States
    <3>3. CASE BtComplete \/ BtConnection \/ BtLoop
      <4>1. /\ inbox.bt # <<>>
            /\ \E b : pc' = [pc EXCEPT !.hci = "read", !.bt = b]
        BY <3>3 DEF BtComplete, BtConnection, BtLoop, Received, Runs, Ready, Blocked, Receiving
      <4>2. pc.hci = "sent_bt"
        BY <4>1, BtHears DEF LinkInv
      <4>3. QED BY <1>1, <4>1, <4>2 DEF States
    <3>4. CASE BtCmd \/ TxDone
      BY <1>1, <3>4 DEF BtCmd, TxDone, States
    <3>5. QED BY <1>3, <3>1, <3>2, <3>3, <3>4
  <2>3. Ahead' = Ahead /\ Handled' = Handled
    BY <2>1, <2>2 DEF Ahead, Queued, ToGatt, Handled, Busy
  <2>4. QED BY <2>3, WrittenSame
<1>4. CASE CommandComplete \/ PeerConnect \/ PeerDisconnect \/ PeerRead \/ PeerSubscribe
  <2>1. UNCHANGED <<pc, request, packet>> /\ to_host \in Seq(Packets)
    BY <1>4 DEF CommandComplete, PeerConnect, PeerDisconnect, PeerRead, PeerSubscribe, PeerRequest, gattVars,
      Types, DataTypes
  <2>2. PICK e \in Packets : to_host' = Append(to_host, e) /\ ~IsWrite(e)
    <3>1. /\ ctl \in [adv : BOOLEAN, conn : Nat, command : Commands \cup {NoCommand}]
          /\ peer \in [conns : Nat, writes : Nat, reads : Nat, pending : BOOLEAN, subscribed : SUBSET Nat,
                       garbled : {{}}, nan : {{}}]
      BY DEF Types, DataTypes
    <3>2. CASE CommandComplete
      BY <3>1, <3>2 DEF CommandComplete, Packets, IsWrite
    <3>3. CASE PeerConnect
      BY <3>1, <3>3 DEF PeerConnect, Packets, IsWrite
    <3>4. CASE PeerDisconnect
      BY <3>4 DEF PeerDisconnect, Packets, IsWrite
    <3>5. CASE PeerRead
      BY <3>5 DEF PeerRead, PeerRequest, Packets, IsWrite
    <3>6. CASE PeerSubscribe
      BY <3>6 DEF PeerSubscribe, PeerRequest, Packets, IsWrite
    <3>7. QED BY <1>4, <3>2, <3>3, <3>4, <3>5, <3>6
  <2>3. /\ Len(to_host') = Len(to_host) + 1 /\ to_host'[Len(to_host) + 1] = e /\ Len(to_host) \in Nat
        /\ \A i \in 1..Len(to_host) : to_host'[i] = to_host[i]
    BY <2>1, <2>2, Appended
  <2>4. ASSUME NEW m, IsWrite(m)
        PROVE  m \in Queued' <=> m \in Queued
    <3>1. ASSUME m \in Queued
          PROVE  m \in Queued'
      <4>1. PICK i \in 1..Len(to_host) : m = to_host[i]
        BY <3>1 DEF Queued
      <4>2. i \in 1..Len(to_host') /\ m = to_host'[i]
        BY <2>3, <4>1
      <4>3. QED BY <4>2 DEF Queued
    <3>2. ASSUME m \in Queued'
          PROVE  m \in Queued
      <4>1. PICK i \in 1..Len(to_host') : m = to_host'[i]
        BY <3>2 DEF Queued
      <4>2. i # Len(to_host) + 1
        BY <2>2, <2>3, <2>4, <4>1
      <4>3. i \in 1..Len(to_host) /\ m = to_host[i]
        BY <2>3, <4>1, <4>2
      <4>4. QED BY <4>3 DEF Queued
    <3>3. QED BY <3>1, <3>2
  <2>5. ToGatt' = ToGatt /\ Handled' = Handled
    BY <2>1 DEF ToGatt, Handled, Busy
  <2>6. QED BY <2>4, <2>5, WrittenSame DEF Ahead
<1>5. CASE GattL2cap
  <2>1. /\ Busy' /\ ~Busy /\ request' = packet /\ Ahead = Ahead' \cup {packet}
    BY <1>5, GattL2capLink
  <2>2. Handled' = {packet} /\ Handled = {}
    BY <2>1 DEF Handled
  <2>3. QED BY <2>1, <2>2, WrittenSame
<1>6. CASE GattRespond
  BY <1>6, GattAnswersLink, WrittenSame
<1>7. CASE GattConnected \/ GattDisconnected
  <2>1. packet.type # "L2capPacket" /\ Ahead = Ahead' \cup {packet} /\ Handled' = Handled
    BY <1>7, GattConnectionLink
  <2>2. QED BY <2>1, WrittenSame DEF IsWrite
<1>8. CASE Apart
  BY <1>8, ApartLink, LinkKept, WrittenSame
<1>9. CASE UNCHANGED vars
  BY <1>9, LinkKept, WrittenSame DEF LinkSame, vars, gattVars, env
<1>10. QED
  BY <1>2, <1>3, <1>4, <1>5, <1>6, <1>7, <1>8, <1>9 DEF ValidNext, Apart

\* Nothing of what InSequence counts changes.
LEMMA SequenceStill ==
  ASSUME InSequence, executed' = executed, queue' = queue, Held' = Held, pc'.relay = pc.relay,
         peer'.writes = peer.writes, Held = 1 => value'.cmd = value.cmd,
         pc.relay # "dead" => Written' = Written /\ Passed' = Passed,
         pc.relay # "dead" /\ Passed = 1 => value'.monitor = value.monitor
  PROVE  InSequence'
BY DEF InSequence

\* gatt hands a write on to the monitor.
LEMMA NotifySequence ==
  ASSUME Types, LinkInv, GattInboxSound, MonitorInTime, InSequence, GattNotifyMonitors
  PROVE  InSequence'
<1>1. pc \in States /\ value \in [monitor : Nat, cmd : Nat] /\ executed \in Seq(Nat) /\ queue \in Seq(Nat)
  BY DEF Types, DataTypes
<1>2. /\ executed' = executed /\ queue' = queue /\ peer' = peer
      /\ \/ /\ monitors /\ request.op = "write" /\ value' = [value EXCEPT !.monitor = request.n]
            /\ pc' = [pc EXCEPT !.gatt = "recv", !.monitor = "forward"]
         \/ /\ ~(monitors /\ request.op = "write") /\ value' = value
            /\ pc' = [pc EXCEPT !.gatt = "recv"]
  BY DEF GattNotifyMonitors, relayVars, env
<1>3. Busy /\ ~Busy' /\ Ahead' = Ahead
  BY GattAnswersLink
<1>4. Handled = {request} /\ Handled' = {}
  BY <1>3 DEF Handled
<1>5. \A m \in Ahead : ~IsWrite(m)
  <2>1. Ahead \subseteq Stream
    BY DEF Ahead, Stream, ToGatt, Carried
  <2>2. ~InStream("L2capPacket")
    BY <1>3 DEF LinkInv, OneRequest
  <2>3. QED BY <2>1, <2>2 DEF InStream, IsWrite
<1>6. Written' = 0 /\ Written = IF IsWrite(request) THEN 1 ELSE 0
  BY <1>3, <1>4, <1>5 DEF Written
<1>7. request.type = "L2capPacket" /\ (IsWrite(request) => request.n = peer.writes)
  BY <1>3, <1>4 DEF LinkInv, PacketsSound, Says, IsWrite
<1>8. pc'.cmd = pc.cmd /\ pc'.relay = pc.relay
  BY <1>1, <1>2 DEF States
<1>9. Held' = Held
  BY <1>8 DEF Held
<1>10. CASE monitors /\ request.op = "write"
  <2>1. pc.monitor = "registered"
    BY <1>10 DEF GattInboxSound
  <2>2. pc'.monitor = "forward" /\ value'.monitor = request.n /\ value'.cmd = value.cmd
    BY <1>1, <1>2, <1>10 DEF States
  <2>3. Passed = 0 /\ Passed' = 1
    BY <2>1, <2>2 DEF Passed
  <2>4. Written = 1 /\ value'.monitor = peer.writes
    BY <1>6, <1>7, <1>10, <2>2 DEF IsWrite
  <2>5. PICK l, h, q : l = Len(executed) /\ h = Held /\ q = Len(queue)
    OBVIOUS
  <2>6. l \in Nat /\ h \in {0, 1} /\ q \in Nat
    BY <1>1, <2>5 DEF Held
  <2>7. /\ Held = 1 => value.cmd = Len(executed) + 1
        /\ \A i \in 1..Len(executed) : executed[i] = i
        /\ \A i \in 1..Len(queue) : queue[i] = Len(executed) + Held + i
        /\ Len(queue) <= RelayCap
    BY DEF InSequence
  <2>8. pc.relay # "dead" => l + h + q + 1 = peer.writes
    <3>1. pc.relay # "dead" => l + h + q + 0 + 1 = peer.writes
      BY <2>3, <2>4, <2>5 DEF InSequence
    <3>2. QED BY <2>6, <3>1
  <2>9. pc'.relay # "dead" =>
          /\ value'.monitor = l + h + q + 1
          /\ l + h + q + 1 + 0 = peer.writes
    BY <1>8, <2>4, <2>6, <2>8
  <2>10. QED BY <1>2, <1>6, <1>9, <2>2, <2>3, <2>5, <2>7, <2>9 DEF InSequence
<1>11. CASE ~(monitors /\ request.op = "write")
  <2>1. pc.relay # "dead" => monitors
    BY <1>3 DEF MonitorInTime
  <2>2. pc.relay # "dead" => Written' = Written
    BY <1>6, <1>11, <2>1 DEF IsWrite
  <2>3. pc'.monitor = pc.monitor
    BY <1>1, <1>2, <1>11 DEF States
  <2>4. Passed' = Passed
    BY <2>3 DEF Passed
  <2>5. QED BY <1>2, <1>8, <1>9, <1>11, <2>2, <2>4, SequenceStill
<1>12. QED BY <1>10, <1>11

\* The peer writes the next command.
LEMMA WriteSequence ==
  ASSUME Unhurried, Types, LinkInv, InSequence, PeerWrite
  PROVE  InSequence'
<1>1. executed \in Seq(Nat) /\ queue \in Seq(Nat)
  BY DEF Types, DataTypes
<1>2. UNCHANGED <<executed, queue, value, pc>>
  BY DEF PeerWrite, PeerRequest, relayVars
<1>3. PICK m : /\ m.type = "L2capPacket" /\ m.op = "write" /\ Ahead' = Ahead \cup {m}
               /\ peer'.writes = peer.writes + 1
  BY PeerAsksLink DEF Unhurried
<1>4. Written' = 1
  BY <1>3 DEF Written, IsWrite
<1>5. Written = 0
  <2>1. ~Busy /\ ~InStream("L2capPacket")
    BY PeerAsksLink DEF Unhurried
  <2>2. Ahead \subseteq Stream /\ Handled = {}
    BY <2>1 DEF Ahead, Stream, ToGatt, Carried, Handled
  <2>3. \A x \in Ahead \cup Handled : ~IsWrite(x)
    BY <2>1, <2>2 DEF InStream, IsWrite
  <2>4. QED BY <2>3 DEF Written
<1>6. Held' = Held /\ Passed' = Passed /\ Held \in Nat /\ Passed \in Nat
  BY <1>2 DEF Held, Passed
<1>7. PICK l, h, q, p : l = Len(executed) /\ h = Held /\ q = Len(queue) /\ p = Passed
  OBVIOUS
<1>8. pc.relay # "dead" => l + h + q + p + 0 = peer.writes
  BY <1>5, <1>7 DEF InSequence
<1>9. l \in Nat /\ h \in Nat /\ q \in Nat /\ p \in Nat
  BY <1>1, <1>6, <1>7
<1>10. pc'.relay # "dead" => l + h + q + p + 1 = peer'.writes
  BY <1>2, <1>3, <1>8, <1>9
<1>11. QED BY <1>2, <1>4, <1>6, <1>7, <1>10 DEF InSequence

\* cmd executes the command it holds.
LEMMA ExecuteSequence ==
  ASSUME Types, InSequence, CmdExecute, Written' = Written
  PROVE  InSequence'
<1>1. pc \in States /\ executed \in Seq(Nat) /\ queue \in Seq(Nat) /\ value \in [monitor : Nat, cmd : Nat]
  BY DEF Types, DataTypes
<1>2. /\ pc.cmd = "execute" /\ pc' = [pc EXCEPT !.cmd = "ask"] /\ executed' = Append(executed, value.cmd)
      /\ UNCHANGED <<queue, value, peer>>
  BY DEF CmdExecute, relayVars, env
<1>3. pc'.cmd = "ask" /\ pc'.monitor = pc.monitor /\ pc'.relay = pc.relay
  BY <1>1, <1>2 DEF States
<1>4. Held = 1 /\ Held' = 0 /\ Passed' = Passed /\ Passed \in Nat
  BY <1>2, <1>3 DEF Held, Passed
<1>5. PICK l, q, p : l = Len(executed) /\ q = Len(queue) /\ p = Passed
  OBVIOUS
<1>6. l \in Nat /\ q \in Nat /\ p \in Nat
  BY <1>1, <1>4, <1>5
<1>7. /\ Len(executed') = l + 1 /\ executed'[l + 1] = value.cmd
      /\ \A i \in 1..l : executed'[i] = executed[i]
  BY <1>1, <1>2, <1>5, Appended
<1>8. /\ value.cmd = l + 1
      /\ \A i \in 1..l : executed[i] = i
      /\ \A i \in 1..q : queue[i] = l + 1 + i
      /\ q <= RelayCap
      /\ pc.relay # "dead" /\ Passed = 1 => value.monitor = l + 1 + q + 1
      /\ pc.relay # "dead" => l + 1 + q + p + Written = peer.writes
  BY <1>4, <1>5 DEF InSequence
<1>9. \A i \in 1..l + 1 : executed'[i] = i
  BY <1>6, <1>7, <1>8
<1>10. \A i \in 1..q : queue[i] = (l + 1) + 0 + i
  BY <1>6, <1>8
<1>11. Written \in Nat
  BY DEF Written
<1>12. pc.relay # "dead" =>
         /\ Passed = 1 => value.monitor = (l + 1) + 0 + q + 1
         /\ (l + 1) + 0 + q + p + Written = peer.writes
  BY <1>6, <1>8, <1>11
<1>13. QED BY <1>2, <1>3, <1>4, <1>5, <1>7, <1>8, <1>9, <1>10, <1>12 DEF InSequence

\* The relay gives the command to its watcher, or queues it, or panics.
LEMMA UpdateSequence ==
  ASSUME Types, RelaySound, InSequence, RelayUpdate, Written' = Written
  PROVE  InSequence'
<1>1. /\ pc \in States /\ executed \in Seq(Nat) /\ queue \in Seq(Nat) /\ value \in [monitor : Nat, cmd : Nat]
  BY DEF Types, DataTypes
<1>2. /\ pc.relay = "recv" /\ pc.monitor = "forwarded" /\ Head(inbox.relay).n = value.monitor
  BY RelayHears DEF RelayUpdate
<1>3. /\ executed' = executed /\ peer' = peer
      /\ \/ /\ watcher /\ queue' = queue /\ value' = [value EXCEPT !.cmd = value.monitor]
            /\ pc' = [pc EXCEPT !.monitor = "register", !.cmd = "ack"]
         \/ /\ Len(queue) < RelayCap /\ queue' = Append(queue, value.monitor) /\ value' = value
            /\ pc' = [pc EXCEPT !.monitor = "register"]
         \/ /\ queue' = queue /\ value' = value
            /\ pc' = [pc EXCEPT !.monitor = "register", !.relay = "dead"]
  BY <1>2 DEF RelayUpdate, env
<1>4. PICK l, h, q, w : l = Len(executed) /\ h = Held /\ q = Len(queue) /\ w = Written
  OBVIOUS
<1>5. l \in Nat /\ h \in {0, 1} /\ q \in Nat /\ w \in Nat /\ Passed = 1
  BY <1>1, <1>2, <1>4 DEF Held, Written, Passed
<1>6. /\ \A i \in 1..l : executed[i] = i
      /\ h = 1 => value.cmd = l + 1
      /\ \A i \in 1..q : queue[i] = l + h + i
      /\ q <= RelayCap
      /\ value.monitor = l + h + q + 1
      /\ l + h + q + 1 + w = peer.writes
  BY <1>2, <1>4, <1>5 DEF InSequence
<1>7. CASE /\ watcher /\ queue' = queue /\ value' = [value EXCEPT !.cmd = value.monitor]
           /\ pc' = [pc EXCEPT !.monitor = "register", !.cmd = "ack"]
  <2>1. pc.cmd = "asked" /\ q = 0
    BY <1>4, <1>7 DEF RelaySound
  <2>2. pc'.monitor = "register" /\ pc'.cmd = "ack" /\ value'.cmd = value.monitor
    BY <1>1, <1>7 DEF States
  <2>3. h = 0 /\ Held' = 1 /\ Passed' = 0
    BY <1>4, <2>1, <2>2 DEF Held, Passed
  <2>4. value'.cmd = l + 1 /\ l + 1 + q + 0 + w = peer.writes
    BY <1>5, <1>6, <2>1, <2>2, <2>3
  <2>5. \A i \in 1..q : queue[i] = l + 1 + i
    BY <2>1
  <2>6. QED BY <1>3, <1>4, <1>6, <1>7, <2>3, <2>4, <2>5 DEF InSequence
<1>8. CASE /\ Len(queue) < RelayCap /\ queue' = Append(queue, value.monitor) /\ value' = value
           /\ pc' = [pc EXCEPT !.monitor = "register"]
  <2>1. /\ Len(queue') = q + 1 /\ queue'[q + 1] = value.monitor
        /\ \A i \in 1..q : queue'[i] = queue[i]
    BY <1>1, <1>4, <1>8, Appended
  <2>2. pc'.monitor = "register" /\ pc'.cmd = pc.cmd
    BY <1>1, <1>8 DEF States
  <2>3. Held' = h /\ Passed' = 0
    BY <1>4, <2>2 DEF Held, Passed
  <2>4. \A i \in 1..q + 1 : queue'[i] = l + h + i
    <3>1. \A i \in 1..q + 1 : i \in 1..q \/ i = q + 1
      BY <1>5
    <3>2. l + h + q + 1 = l + h + (q + 1)
      BY <1>5
    <3>3. QED BY <1>6, <2>1, <3>1, <3>2
  <2>5. l + h + (q + 1) + 0 + w = peer.writes
    BY <1>5, <1>6
  <2>6. q + 1 <= RelayCap
    BY <1>4, <1>5, <1>8, BluetoothAssumption
  <2>7. QED BY <1>3, <1>4, <1>6, <1>8, <2>1, <2>3, <2>4, <2>5, <2>6 DEF InSequence
<1>9. CASE /\ queue' = queue /\ value' = value
           /\ pc' = [pc EXCEPT !.monitor = "register", !.relay = "dead"]
  <2>1. pc'.relay = "dead" /\ pc'.cmd = pc.cmd
    BY <1>1, <1>9 DEF States
  <2>2. Held' = h
    BY <1>4, <2>1 DEF Held
  <2>3. QED BY <1>3, <1>4, <1>6, <1>9, <2>1, <2>2 DEF InSequence
<1>10. QED BY <1>3, <1>7, <1>8, <1>9

\* The relay gives cmd the oldest command it holds, or notes it as watcher.
LEMMA RequestSequence ==
  ASSUME Types, RelaySound, InSequence, RelayRequest, Written' = Written
  PROVE  InSequence'
<1>1. /\ pc \in States /\ executed \in Seq(Nat) /\ queue \in Seq(Nat) /\ value \in [monitor : Nat, cmd : Nat]
  BY DEF Types, DataTypes
<1>2. pc.relay = "recv" /\ pc.cmd = "asked"
  BY RelayHears DEF RelayRequest
<1>3. executed' = executed /\ peer' = peer
  BY DEF RelayRequest, env
<1>4. CASE queue # <<>>
  <2>1. /\ value' = [value EXCEPT !.cmd = Head(queue)] /\ queue' = Tail(queue) /\ pc' = [pc EXCEPT !.cmd = "ack"]
    BY <1>4 DEF RelayRequest
  <2>2. pc'.cmd = "ack" /\ pc'.monitor = pc.monitor /\ pc'.relay = pc.relay
        /\ value'.cmd = Head(queue) /\ value'.monitor = value.monitor
    BY <1>1, <2>1 DEF States
  <2>3. Held = 0 /\ Held' = 1 /\ Passed' = Passed
    BY <1>2, <2>2 DEF Held, Passed
  <2>4. PICK l, q, p, w : l = Len(executed) /\ q = Len(queue) /\ p = Passed /\ w = Written
    OBVIOUS
  <2>5. l \in Nat /\ q \in Nat /\ p \in Nat /\ w \in Nat
    BY <1>1, <2>4 DEF Written, Passed
  <2>6. /\ q >= 1 /\ Head(queue) = queue[1] /\ Len(queue') = q - 1
        /\ \A i \in 1..q - 1 : queue'[i] = queue[i + 1]
    BY <1>1, <1>4, <2>1, <2>4, Popped
  <2>7. /\ \A i \in 1..l : executed[i] = i
        /\ \A i \in 1..q : queue[i] = l + 0 + i
        /\ q <= RelayCap
        /\ p = 1 => value.monitor = l + 0 + q + 1
        /\ l + 0 + q + p + w = peer.writes
    BY <1>2, <2>3, <2>4 DEF InSequence
  <2>8. value'.cmd = l + 1
    BY <2>2, <2>5, <2>6, <2>7
  <2>9. \A i \in 1..q - 1 : queue'[i] = l + 1 + i
    BY <2>5, <2>6, <2>7
  <2>10. q - 1 <= RelayCap
    <3>1. RelayCap \in Nat
      BY BluetoothAssumption
    <3>2. QED BY <2>5, <2>7, <3>1
  <2>11. /\ p = 1 => value'.monitor = l + 1 + (q - 1) + 1
         /\ l + 1 + (q - 1) + p + w = peer.writes
    BY <2>2, <2>5, <2>7
  <2>12. QED BY <1>3, <2>3, <2>4, <2>6, <2>7, <2>8, <2>9, <2>10, <2>11 DEF InSequence
<1>5. CASE queue = <<>>
  <2>1. UNCHANGED <<value, queue, pc>>
    BY <1>5 DEF RelayRequest
  <2>2. Held' = Held /\ Passed' = Passed
    BY <2>1 DEF Held, Passed
  <2>3. QED BY <1>3, <2>1, <2>2, SequenceStill
<1>6. QED BY <1>4, <1>5

\* Every step: no command is lost, doubled or overtaken.
LEMMA SequenceStep ==
  ASSUME Unhurried, Types, LinkInv, GattInboxSound, MonitorInTime, RelaySound, InSequence, [ValidNext]_vars
  PROVE  InSequence'
<1>1. pc \in States /\ inbox \in Inboxes /\ value \in [monitor : Nat, cmd : Nat]
      /\ peer \in [conns : Nat, writes : Nat, reads : Nat, pending : BOOLEAN, subscribed : SUBSET Nat,
                   garbled : {{}}, nan : {{}}]
  BY DEF Types, DataTypes
<1>2. CASE GattNotifyMonitors
  BY <1>2, NotifySequence
<1>3. CASE PeerWrite
  BY <1>3, WriteSequence
<1>4. CASE ~GattNotifyMonitors /\ ~PeerWrite
  <2>1. Written' = Written
    BY <1>4, WrittenKept
  <2>2. CASE CmdExecute
    BY <2>1, <2>2, ExecuteSequence
  <2>3. CASE RelayUpdate
    BY <2>1, <2>3, UpdateSequence
  <2>4. CASE RelayRequest
    BY <2>1, <2>4, RequestSequence
  <2>5. CASE MonitorRegister \/ MonitorForward \/ CmdAsk \/ CmdAck \/ HelperRemind \/ HelperWake \/ GattPublish
             \/ GattReminder
    <3>1. UNCHANGED <<executed, queue, value, peer>>
      BY <2>5 DEF MonitorRegister, MonitorForward, CmdAsk, CmdAck, HelperRemind, HelperWake, GattPublish,
        GattReminder, relayVars, env
    <3>2. /\ pc'.relay = pc.relay
          /\ pc'.cmd \in {"ack", "publishing", "execute"} <=> pc.cmd \in {"ack", "publishing", "execute"}
          /\ pc.relay # "dead" =>
               (pc'.monitor \in {"forward", "forwarded"} <=> pc.monitor \in {"forward", "forwarded"})
      <4>1. CASE MonitorRegister
        BY <1>1, <4>1, SaysToGatt DEF MonitorRegister, States
      <4>2. CASE MonitorForward
        BY <1>1, <4>2 DEF MonitorForward, ker_send, States
      <4>3. CASE CmdAsk
        BY <1>1, <4>3 DEF CmdAsk, ker_send, States
      <4>4. CASE CmdAck
        BY <1>1, <4>4, SaysToGatt DEF CmdAck, States
      <4>5. CASE HelperRemind
        BY <1>1, <4>5, SaysToGatt DEF HelperRemind, States
      <4>6. CASE HelperWake \/ GattReminder
        BY <1>1, <4>6 DEF HelperWake, GattReminder, States
      <4>7. CASE GattPublish
        <5>1. Received("gatt", "GattServerPublishReq")
          BY <4>7 DEF GattPublish
        <5>2. 1 \in 1..Len(inbox.gatt) /\ Head(inbox.gatt) = inbox.gatt[1]
          BY <1>1, <5>1, Popped DEF Received, Inboxes
        <5>3. Waits(Sender(inbox.gatt[1])) /\ Sender(inbox.gatt[1]) = "cmd"
          BY <5>1, <5>2 DEF GattInboxSound, Received, Sender
        <5>4. pc.cmd = "publishing"
          BY <5>3 DEF Waits
        <5>5. QED BY <1>1, <4>7, <5>4 DEF GattPublish, States
      <4>8. QED BY <2>5, <4>1, <4>2, <4>3, <4>4, <4>5, <4>6, <4>7
    <3>3. Held' = Held /\ (pc.relay # "dead" => Passed' = Passed)
      BY <3>2 DEF Held, Passed
    <3>4. QED BY <2>1, <3>1, <3>2, <3>3, SequenceStill
  <2>6. CASE \/ HciRead \/ HciToGatt \/ HciToBt \/ BtCmd \/ BtComplete \/ BtConnection \/ BtLoop \/ TxDone
             \/ GattL2cap \/ GattRespond \/ GattMonitorReq \/ GattConnected \/ GattDisconnected
             \/ CommandComplete \/ PeerConnect \/ PeerDisconnect \/ PeerRead \/ PeerSubscribe
             \/ UNCHANGED vars
    <3>1. UNCHANGED <<executed, queue, value>>
      BY <2>6 DEF HciRead, HciToGatt, HciToBt, BtCmd, BtComplete, BtConnection, BtLoop, TxDone, GattL2cap, GattRespond,
        GattMonitorReq, GattConnected, GattDisconnected, CommandComplete, PeerConnect, PeerDisconnect,
        PeerRead, PeerSubscribe, PeerRequest, vars, relayVars
    <3>2. pc'.relay = pc.relay /\ pc'.monitor = pc.monitor /\ pc'.cmd = pc.cmd
      <4>1. \/ pc' = pc
            \/ \E t \in {"hci", "bt", "gatt"} : \E b : pc' = [pc EXCEPT ![t] = b]
            \/ \E t \in {"bt", "gatt"} : \E b : pc' = [pc EXCEPT !.hci = "read", ![t] = b]
        <5>1. CASE HciRead \/ HciToGatt
          BY <5>1, SaysToGatt DEF HciRead, HciToGatt
        <5>2. CASE HciToBt
          BY <5>2 DEF HciToBt, ker_send
        <5>3. CASE BtComplete \/ BtConnection \/ BtLoop
          BY <5>3 DEF BtComplete, BtConnection, BtLoop
        <5>4. CASE BtCmd \/ TxDone \/ GattRespond
          BY <5>4 DEF BtCmd, TxDone, GattRespond
        <5>5. CASE GattL2cap \/ GattMonitorReq \/ GattConnected \/ GattDisconnected
          BY <5>5 DEF GattL2cap, GattMonitorReq, GattConnected, GattDisconnected
        <5>6. CASE \/ CommandComplete \/ PeerConnect \/ PeerDisconnect \/ PeerRead \/ PeerSubscribe
                   \/ UNCHANGED vars
          BY <5>6 DEF CommandComplete, PeerConnect, PeerDisconnect, PeerRead, PeerSubscribe, PeerRequest, vars
        <5>7. QED BY <2>6, <5>1, <5>2, <5>3, <5>4, <5>5, <5>6
      <4>2. QED BY <1>1, <4>1 DEF States
    <3>3. peer'.writes = peer.writes
      <4>1. \/ peer' = peer
            \/ \E b : peer' = [peer EXCEPT !.pending = b]
            \/ \E f \in {"conns", "reads", "subscribed"} : \E b, n :
                 peer' = [peer EXCEPT ![f] = n, !.pending = b]
        <5>1. CASE GattRespond
          BY <5>1 DEF GattRespond
        <5>2. CASE PeerConnect
          BY <5>2 DEF PeerConnect
        <5>3. CASE PeerRead
          BY <5>3 DEF PeerRead
        <5>4. CASE PeerSubscribe
          BY <5>4 DEF PeerSubscribe
        <5>5. CASE ~(GattRespond \/ PeerConnect \/ PeerRead \/ PeerSubscribe)
          BY <2>6, <5>5 DEF HciRead, HciToGatt, HciToBt, BtCmd, BtComplete, BtConnection, BtLoop, TxDone, GattL2cap,
            GattMonitorReq, GattConnected, GattDisconnected, CommandComplete, PeerDisconnect, vars, env
        <5>6. QED BY <5>1, <5>2, <5>3, <5>4, <5>5
      <4>2. QED BY <1>1, <4>1
    <3>4. Held' = Held /\ Passed' = Passed
      BY <3>2 DEF Held, Passed
    <3>5. QED BY <2>1, <3>1, <3>2, <3>3, <3>4, SequenceStill
  <2>7. QED BY <1>4, <2>2, <2>3, <2>4, <2>5, <2>6 DEF ValidNext
<1>5. QED BY <1>2, <1>3, <1>4

-----------------------------------------------------------------------------
(* The theorems.                                                           *)

\* Before the first command, nothing is on its way and nobody waits.
LEMMA BtInit == Init => BtInv
<1> SUFFICES ASSUME Init PROVE BtInv
  OBVIOUS
<1>0. /\ Len(<<>>) = 0 /\ 1..0 = {}
      /\ \A S : <<>> \in Seq(S)
  BY EmptySeq
<1>1. /\ pc.hci = "read" /\ pc.bt = "cmd" /\ pc.gatt = "recv" /\ pc.relay = "recv" /\ pc.monitor = "register"
      /\ pc.cmd = "ask" /\ pc.helper = "remind" /\ pc \in States
  BY DEF Init, Tasks, States
<1>2. inbox.gatt = <<>> /\ inbox.bt = <<>> /\ inbox.relay = <<>> /\ inbox \in Inboxes
  <2>1. inbox = [t \in {"gatt", "bt", "relay"} |-> <<>>]
    BY DEF Init
  <2>2. <<>> \in Seq(Messages)
    BY <1>0
  <2>3. inbox = [gatt |-> <<>>, bt |-> <<>>, relay |-> <<>>]
    BY <2>1
  <2>4. QED BY <2>2, <2>3 DEF Inboxes
<1>3. /\ todo \in Seq(Commands) /\ Len(todo) = 11 /\ todo[11] = "adv_on"
      /\ \A i \in 1..10 : todo[i] \notin {"adv_on", "adv_off"}
  BY DEF Init, Setup, start_active_advertising, Commands
<1>4. Types
  <2>1. MaxConns \in Nat /\ 0 <= MaxConns /\ 0 \in 0..MaxConns
    BY BluetoothAssumption
  <2>2. /\ packet = NoPacket /\ request = NoPacket /\ ~conn /\ ~sub /\ ~monitors /\ ~watcher
        /\ emptied = FALSE
        /\ {conn, sub, monitors, watcher} \subseteq BOOLEAN
        /\ queue = <<>> /\ executed = <<>> /\ to_host = <<>> /\ handle = 0 /\ sent = 0
    BY DEF Init
  <2>3. value \in [monitor : Nat, cmd : Nat]
    <3>1. value = [t \in {"monitor", "cmd"} |-> 0]
      BY DEF Init
    <3>2. value = [monitor |-> 0, cmd |-> 0]
      BY <3>1
    <3>3. QED BY <3>2
  <2>4. ctl \in [adv : BOOLEAN, conn : Nat, command : Commands \cup {NoCommand}]
    BY DEF Init
  <2>5. /\ peer \in [conns : Nat, writes : Nat, reads : Nat, pending : BOOLEAN, subscribed : SUBSET Nat,
                     garbled : {{}}, nan : {{}}]
        /\ peer.conns <= MaxConns
    BY <2>1 DEF Init
  <2>6. DataTypes
    BY <1>0, <1>3, <2>1, <2>2, <2>3, <2>4, <2>5 DEF DataTypes
  <2>7. QED BY <1>1, <1>2, <2>6 DEF Types
<1>5. Queued = {} /\ Carried = {} /\ ToGatt = {} /\ ~Busy /\ Handled = {}
  <2>1. to_host = <<>>
    BY DEF Init
  <2>2. QED BY <1>0, <1>1, <2>1 DEF Queued, Carried, ToGatt, Busy, Handled
<1>6. /\ Stream = {} /\ Ahead = {} /\ \A k : ~InStream(k) /\ ~InAhead(k)
  BY <1>5 DEF Stream, Ahead, InStream, InAhead
<1>7. ToAdvertise(todo) /\ ~ToStop(todo) /\ ~Advertised
  <2>1. Len(todo) - 1 = 10 /\ Len(todo) > 0 /\ Len(todo) # 1
    BY <1>3
  <2>2. ToAdvertise(todo)
    BY <1>3, <2>1 DEF ToAdvertise
  <2>3. QED BY <1>1, <2>1, <2>2 DEF ToStop, Advertised
<1>8. LinkInv
  <2>1. HciSound
    BY <1>1, <1>2 DEF HciSound
  <2>2. HostInOrder /\ PacketsSound
    <3>1. to_host = <<>>
      BY DEF Init
    <3>2. QED BY <1>0, <1>5, <1>6, <3>1 DEF HostInOrder, PacketsSound
  <2>3. BtSound
    <3>1. ~ctl.adv /\ ctl.conn = 0 /\ ctl.command = NoCommand
      BY DEF Init
    <3>2. Len(todo) > 0
      BY <1>3
    <3>3. QED BY <1>1, <1>6, <1>7, <3>1, <3>2 DEF BtSound
  <2>4. OneRequest
    BY <1>1, <1>5, <1>6 DEF OneRequest
  <2>5. GattSound
    BY <1>6 DEF Init, GattSound
  <2>6. QED BY <2>1, <2>2, <2>3, <2>4, <2>5 DEF LinkInv
<1>9. NotifyOnlySubscribers
  BY DEF Init, NotifyOnlySubscribers
<1>10. GattInboxSound
  <2>1. \A t : ~Waits(t)
    BY <1>1 DEF Waits
  <2>2. ~monitors /\ \A i : i \notin 1..Len(inbox.gatt)
    BY <1>0, <1>2 DEF Init
  <2>3. QED BY <2>1, <2>2 DEF GattInboxSound
<1>11. MonitorInTime
  <2>1. \A i : i \notin 1..Len(inbox.gatt)
    BY <1>0, <1>2
  <2>2. QED BY <1>1, <1>5, <2>1 DEF MonitorInTime
<1>12. RelaySound
  <2>1. \A i : i \notin 1..Len(inbox.relay)
    BY <1>0, <1>2
  <2>2. ~Requests("GattMonitorResp") /\ ~watcher
    BY <1>1 DEF Init, Requests
  <2>3. QED BY <1>1, <2>1, <2>2 DEF RelaySound
<1>13. InSequence
  <2>1. Held = 0 /\ Passed = 0 /\ Written = 0
    BY <1>1, <1>5, <1>6 DEF Held, Passed, Written
  <2>2. Len(queue) = 0 /\ Len(executed) = 0 /\ peer.writes = 0
    BY <1>0 DEF Init
  <2>3. RelayCap \in Nat
    BY BluetoothAssumption
  <2>4. QED BY <1>0, <2>1, <2>2, <2>3 DEF InSequence
<1>14. QED BY <1>4, <1>8, <1>9, <1>10, <1>11, <1>12, <1>13 DEF BtInv

\* The invariant holds as long as the radio is slow, the peer patient and valid,
\* and the servers are up.
THEOREM BtInvHolds ==
  ASSUME Unhurried
  PROVE  Spec => []BtInv
<1>1. ASSUME BtInv, [Next]_vars
      PROVE  BtInv'
  <2>0. [ValidNext]_vars
    BY <1>1, NothingInvalid DEF BtInv
  <2>1. Types' /\ LinkInv'
    BY <1>1, <2>0, TypesStep, LinkStep DEF BtInv
  <2>2. NotifyOnlySubscribers'
    BY <1>1, <2>0, NotifyStep DEF BtInv
  <2>3. GattInboxSound' /\ MonitorInTime' /\ RelaySound'
    BY <1>1, <2>0, GattInboxStep, MonitorStep, RelayStep DEF BtInv
  <2>4. InSequence'
    BY <1>1, <2>0, SequenceStep DEF BtInv
  <2>5. QED BY <2>1, <2>2, <2>3, <2>4 DEF BtInv
<1>2. QED BY <1>1, BtInit, PTL DEF Spec

\* Of different senders, gatt can only have four.
LEMMA GattInboxBounded ==
  ASSUME Types, GattInboxSound
  PROVE  Len(inbox.gatt) <= 4
<1>1. PICK s : s = inbox.gatt
  OBVIOUS
<1>2. Len(s) \in Nat
  BY <1>1 DEF Types, Inboxes
<1>3. SUFFICES ASSUME Len(s) >= 5
               PROVE  FALSE
  BY <1>1, <1>2
<1>4. 1 \in 1..Len(s) /\ 2 \in 1..Len(s) /\ 3 \in 1..Len(s) /\ 4 \in 1..Len(s) /\ 5 \in 1..Len(s)
  BY <1>2, <1>3
<1>5. \A i, j \in 1..Len(s) : Sender(s[i]) = Sender(s[j]) => i = j
  BY <1>1 DEF GattInboxSound
<1>6. PICK a, b, c, d, e :
        a = Sender(s[1]) /\ b = Sender(s[2]) /\ c = Sender(s[3]) /\ d = Sender(s[4]) /\ e = Sender(s[5])
  OBVIOUS
<1>7. {a, b, c, d, e} \subseteq {"monitor", "cmd", "helper", "hci"}
  BY <1>6 DEF Sender
<1>8. a # b /\ a # c /\ a # d /\ a # e /\ b # c /\ b # d /\ b # e /\ c # d /\ c # e /\ d # e
  BY <1>4, <1>5, <1>6
<1>9. QED BY <1>7, <1>8

\* The relay has two clients.
LEMMA RelayInboxBounded ==
  ASSUME Types, RelaySound
  PROVE  Len(inbox.relay) <= 2
<1>1. PICK s : s = inbox.relay
  OBVIOUS
<1>2. Len(s) \in Nat
  BY <1>1 DEF Types, Inboxes
<1>3. SUFFICES ASSUME Len(s) >= 3
               PROVE  FALSE
  BY <1>1, <1>2
<1>4. 1 \in 1..Len(s) /\ 2 \in 1..Len(s) /\ 3 \in 1..Len(s)
  BY <1>2, <1>3
<1>5. \A i \in 1..Len(s) : s[i].type \in {"GattMonitorResp", "GattMonitorReq"}
  BY <1>1 DEF RelaySound, Requests
<1>6. \A i, j \in 1..Len(s) : s[i].type = s[j].type => i = j
  BY <1>1 DEF RelaySound
<1>7. QED BY <1>4, <1>5, <1>6

\* Commands are executed in the order they were written, each once; no inbox
\* holds two messages of one client, and the relay's queue never overflows.
THEOREM CommandsStayInOrder ==
  ASSUME Unhurried
  PROVE  Spec => []CommandsInOrder
<1>1. BtInv => CommandsInOrder
  <2> SUFFICES ASSUME BtInv PROVE CommandsInOrder
    OBVIOUS
  <2>1. Types /\ LinkInv /\ GattInboxSound /\ RelaySound /\ InSequence
    BY DEF BtInv
  <2>2. /\ {conn, sub, emptied, monitors, watcher} \subseteq BOOLEAN /\ sent \in 0..MaxConns
        /\ executed \in Seq(Nat) /\ handle \in Nat /\ peer.conns <= MaxConns /\ peer.conns \in Nat
    BY <2>1 DEF Types, DataTypes
  <2>3. Len(inbox.bt) <= 1
    <3>1. inbox.bt = <<packet>> \/ inbox.bt = <<>>
      BY <2>1 DEF LinkInv, HciSound
    <3>2. Len(inbox.bt) \in {0, 1}
      <4>1. CASE inbox.bt = <<packet>>
        BY <4>1
      <4>2. CASE inbox.bt = <<>>
        BY <4>2, EmptySeq
      <4>3. QED BY <3>1, <4>1, <4>2
    <3>3. \A n \in {0, 1} : n <= 1
      OBVIOUS
    <3>4. QED BY <3>2, <3>3, Zenon
  <2>4. handle \in 0..MaxConns
    <3>1. handle <= peer.conns /\ MaxConns \in Nat
      BY <2>1, <2>2, BluetoothAssumption DEF LinkInv, GattSound
    <3>2. QED BY <2>2, <3>1
  <2>5. Len(queue) <= RelayCap /\ \A i \in 1..Len(executed) : executed[i] = i
    BY <2>1 DEF InSequence
  <2>6. TypeOK
    BY <2>1, <2>2, <2>3, <2>4, <2>5, GattInboxBounded, RelayInboxBounded DEF TypeOK
  <2>7. executed = [i \in 1..Len(executed) |-> i]
    BY <2>2, <2>5
  <2>8. QED BY <2>6, <2>7 DEF CommandsInOrder
<1>2. QED BY <1>1, BtInvHolds, PTL

\* With a valid and patient peer the programs of the link do not panic: bt is told
\* of the end of the command it waits for, and every task they send to is there.
THEOREM LinkSurvives ==
  ASSUME Unhurried
  PROVE  Spec => []BluetoothSurvives
<1>1. BtInv => BluetoothSurvives
  BY DEF BtInv, Types, States, BluetoothSurvives
<1>2. QED BY <1>1, BtInvHolds, PTL

\* What gatt keeps of a connection begins and ends with it: it knows whether
\* and how the peer is connected, and notifies only a connection on which the
\* peer has asked for it.
THEOREM GattStaysWithConnection ==
  ASSUME Unhurried
  PROVE  Spec => []GattFollowsConnection
<1>1. BtInv => GattFollowsConnection
  <2> SUFFICES ASSUME BtInv PROVE GattFollowsConnection
    OBVIOUS
  <2>1. NotifyOnlySubscribers /\ GattSound /\ conn \in BOOLEAN
    BY DEF BtInv, LinkInv, Types, DataTypes
  <2>2. ASSUME to_host = <<>>, pc.hci = "read", pc.gatt = "recv"
        PROVE  conn = (ctl.conn # 0) /\ (conn => handle = ctl.conn)
    <3>1. Queued = {} /\ ToGatt = {}
      BY <2>2 DEF Queued, ToGatt
    <3>2. ~InAhead("HciDisconnectionComplete") /\ ~InAhead("HciLeConnectionComplete")
      BY <3>1 DEF InAhead, Ahead
    <3>3. (conn <=> ctl.conn # 0) /\ handle = peer.conns /\ ctl.conn \in {0, peer.conns}
      BY <2>1, <3>2 DEF GattSound
    <3>4. conn = (ctl.conn # 0)
      BY <2>1, <3>3
    <3>5. QED BY <3>3, <3>4
  <2>3. QED BY <2>1, <2>2 DEF GattFollowsConnection, GattKnowsConnection
<1>2. QED BY <1>1, BtInvHolds, PTL
=============================================================================
