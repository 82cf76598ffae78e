----------------------------- MODULE Bluetooth -----------------------------
(***************************************************************************)
(* The Bluetooth programs and the commands that come in through them:      *)
(*                                                                         *)
(*   rpi_bluetooth_hci_rx.rs     hci    reads packets, sends them on       *)
(*   rpi_bluetooth_commander.rs  bt     sets the controller up, advertises *)
(*   rpi_bluetooth_gatt.rs       gatt   the attribute server               *)
(*   gatt_monitor.rs             monitor  waits for writes of an attribute *)
(*   gatt_monitor_relay.rs       relay    queues them for its watcher      *)
(*   commander.rs                cmd      the watcher; executes commands   *)
(*   clock_server_helper.rs      helper   reminds gatt of the time         *)
(*                                                                         *)
(* Each is a task that blocks in ker_send until it is answered and in      *)
(* ker_recv until it is sent something.  Only the most urgent of the ready *)
(* tasks runs; among tasks of one priority any may, since an interrupt can *)
(* reorder them at any time.  The serial server is more urgent than all of *)
(* them and answers at once, except that a blocking write waits for the    *)
(* device.  The controller and the peer are the environment: packets and   *)
(* commands are taken as units, and a connection is known by its number.   *)
(* Where the programs unwrap what the peer sends, one that is not a        *)
(* ValidPeer makes them panic.                                             *)
(***************************************************************************)
EXTENDS Naturals, Sequences, FiniteSets

CONSTANTS
  MaxConns,     \* bound: connections the peer makes
  MaxWrites,    \* bound: commands the peer writes
  MaxReads,     \* bound: other requests of the peer
  MaxReminders, \* bound: messages of the helper
  RelayCap,     \* capacity of the relay's queue (64)
  SlowRadio,    \* assumption: the peer's next request takes longer than gatt
                \* needs to handle the one before
  PatientPeer,  \* assumption: the peer stays until advertising is stopped
  ValidPeer,    \* assumption: each request of the peer is one whole packet that
                \* gatt can parse and serve, a client configuration it writes is
                \* not empty, a command is UTF-8 and a number follows "pwm"
  ServersUp     \* assumption: imu_server and motor_server have registered
                \* before a command is executed

ASSUME BluetoothAssumption ==
  /\ {MaxConns, MaxWrites, MaxReads, MaxReminders, RelayCap} \subseteq Nat
  /\ {SlowRadio, PatientPeer, ValidPeer, ServersUp} \subseteq BOOLEAN

Tasks == {"helper", "monitor", "relay", "hci", "bt", "gatt", "cmd"}

\* Mutant of Prio: the monitor is less urgent than gatt.
MutMonitorLate(t) ==
  CASE t = "helper"                -> 2
    [] t \in {"hci", "bt", "gatt"} -> 4
    [] t \in {"monitor", "relay"}  -> 5
    [] t = "cmd"                   -> 10

\* The priorities the tasks are created with.
Prio(t) ==
  CASE t = "helper"               -> 2
    [] t \in {"monitor", "relay"} -> 3
    [] t \in {"hci", "bt", "gatt"} -> 4
    [] t = "cmd"                  -> 10

VARIABLES
  pc,        \* for each task what it does next, or waits for, or "dead"
  inbox,     \* for gatt, bt and relay the messages of blocked senders
  packet,    \* the packet hci passes on
  request,   \* the attribute request gatt handles
  conn,      \* gatt: acl_state, the connection or 0
  handle,    \* gatt: acl_state.handle
  sub,       \* gatt: client_config of the attributes gatt notifies
  emptied,   \* gatt: one of them has been written without a byte
  monitors,  \* gatt: whether the monitor is registered
  todo,      \* bt: HCI commands to be sent before it waits
  value,     \* for monitor and cmd the command each has been given
  queue,     \* relay: commands nobody has asked for
  watcher,   \* relay: cmd waits for a command
  executed,  \* history: what cmd has executed
  ctl,       \* the controller: adv, conn, and the command it works on
  to_host,   \* packets the controller has sent
  peer,      \* the peer: connections, writes, reads, whether a request is
             \* pending, on which connections it has subscribed, and which
             \* commands are not UTF-8 (garbled) or have no number (nan)
  sent,      \* history: the last notification's connection, or 0
  reminders  \* bounded: messages of the helper

gattVars == <<request, conn, handle, sub, emptied, monitors, sent>>
relayVars == <<queue, watcher>>
env == <<ctl, to_host, peer>>
vars == <<pc, inbox, packet, gattVars, todo, value, relayVars, executed, env,
          reminders>>

NoPacket == [type |-> "none"]
NoCommand == "none"

\* _start of the commander, and start_active_advertising; a firmware chunk
\* is one command, there may be any number of them.
Setup == <<"reset", "load_firmware", "firmware", "set_baud", "set_addr",
           "get_addr", "eventmask", "name">>
start_active_advertising == <<"adv_params", "adv_data", "adv_on">>
stop_active_advertising == <<"adv_off">>

Init ==
  /\ pc = [t \in Tasks |->
       CASE t = "hci" -> "read"
         [] t = "bt" -> "cmd"
         [] t \in {"gatt", "relay"} -> "recv"
         [] t = "monitor" -> "register"
         [] t = "cmd" -> "ask"
         [] t = "helper" -> "remind"]
  /\ inbox = [t \in {"gatt", "bt", "relay"} |-> <<>>]
  /\ packet = NoPacket
  /\ request = NoPacket
  /\ conn = FALSE /\ handle = 0 /\ sub = FALSE /\ emptied = FALSE
  /\ monitors = FALSE
  /\ todo = Setup \o start_active_advertising
  /\ value = [t \in {"monitor", "cmd"} |-> 0]
  /\ queue = <<>> /\ watcher = FALSE
  /\ executed = <<>>
  /\ ctl = [adv |-> FALSE, conn |-> 0, command |-> NoCommand]
  /\ to_host = <<>>
  /\ peer = [conns |-> 0, writes |-> 0, reads |-> 0, pending |-> FALSE,
             subscribed |-> {}, garbled |-> {}, nan |-> {}]
  /\ sent = 0
  /\ reminders = 0

-----------------------------------------------------------------------------
(* Scheduling and messages.                                                *)

Receiving == {"recv", "complete", "connection", "loop"}
Blocked   == {"read", "sent", "sent_bt", "tx", "registered", "forwarded", "asked",
              "publishing", "clock", "reminded", "dead"}

Ready(t) ==
  \/ pc[t] \notin Blocked \cup Receiving
  \/ pc[t] \in Receiving /\ inbox[t] # <<>>
  \/ pc[t] = "read" /\ to_host # <<>>

Runs(t) == Ready(t) /\ \A u \in Tasks : Prio(u) < Prio(t) => ~Ready(u)

\* ker_send(...).unwrap(): the task blocks, or panics if there is no receiver.
ker_send(t, to, m, blocked) ==
  IF pc[to] = "dead"
    THEN pc' = [pc EXCEPT ![t] = "dead"] /\ UNCHANGED inbox
    ELSE /\ pc' = [pc EXCEPT ![t] = blocked]
         /\ inbox' = [inbox EXCEPT ![to] = Append(@, m)]

Received(t, type) ==
  /\ pc[t] \in Receiving /\ inbox[t] # <<>>
  /\ Head(inbox[t]).type = type
  /\ Runs(t)
  /\ inbox' = [inbox EXCEPT ![t] = Tail(@)]

-----------------------------------------------------------------------------
(* rpi_bluetooth_hci_rx.rs                                                 *)

\* The parts of a request that is split over packets, and a packet with fewer
\* bytes than its header.
Unreadable(m) == m.type = "L2capPacket" /\ m.op \in {"split", "short"}

\* A packet is read from the serial port and parsed: events of commands go
\* to bt, attribute requests to gatt, those of connections to gatt, then bt.
HciRead ==
  /\ pc.hci = "read" /\ Runs("hci")
  /\ ~Unreadable(Head(to_host))
  /\ packet' = Head(to_host)
  /\ to_host' = Tail(to_host)
  /\ pc' = [pc EXCEPT !.hci = IF Head(to_host).type = "HciCommandComplete"
                              THEN "to_bt" ELSE "to_gatt"]
  /\ UNCHANGED <<inbox, gattVars, todo, value, relayVars, executed, ctl, peer,
                 reminders>>

\* A part of a request is logged and dropped; a short packet is indexed
\* beyond its end.
HciUnreadable ==
  /\ pc.hci = "read" /\ Runs("hci")
  /\ Unreadable(Head(to_host))
  /\ to_host' = Tail(to_host)
  /\ pc' = [pc EXCEPT !.hci = IF Head(to_host).op = "short" THEN "dead" ELSE @]
  /\ UNCHANGED <<inbox, packet, gattVars, todo, value, relayVars, executed,
                 ctl, peer, reminders>>

HciToGatt ==
  /\ pc.hci = "to_gatt" /\ Runs("hci")
  /\ ker_send("hci", "gatt", packet, "sent")
  /\ UNCHANGED <<packet, gattVars, todo, value, relayVars, executed, env,
                 reminders>>

HciToBt ==
  /\ pc.hci = "to_bt" /\ Runs("hci")
  /\ ker_send("hci", "bt", packet, "sent_bt")
  /\ UNCHANGED <<packet, gattVars, todo, value, relayVars, executed, env,
                 reminders>>

-----------------------------------------------------------------------------
(* rpi_bluetooth_commander.rs                                              *)

\* cmd: a blocking write to the serial port.
BtCmd ==
  /\ pc.bt = "cmd" /\ Runs("bt")
  /\ pc' = [pc EXCEPT !.bt = "tx"]
  /\ UNCHANGED <<inbox, packet, gattVars, todo, value, relayVars, executed,
                 env, reminders>>

\* wait_command_complete: the message is answered first; another than the
\* expected one is a panic.
BtComplete ==
  /\ pc.bt = "complete" /\ Runs("bt")
  /\ LET m == Head(inbox.bt)
         ok == m.type = "HciCommandComplete" /\ m.op = Head(todo)
         next == IF Len(todo) > 1 THEN "cmd"
                 ELSE IF Head(todo) = "adv_on" THEN "connection" ELSE "loop"
     IN  /\ pc' = [pc EXCEPT !.hci = "read", !.bt = IF ok THEN next ELSE "dead"]
         /\ todo' = IF ok THEN Tail(todo) ELSE todo
         /\ inbox' = [inbox EXCEPT !.bt = Tail(@)]
  /\ UNCHANGED <<packet, gattVars, value, relayVars, executed, env, reminders>>

\* Mutant of BtConnection: the end of the command adv_off is not awaited.
MutNotAwaited ==
  /\ pc.bt = "connection" /\ Received("bt", "HciLeConnectionComplete")
  /\ pc' = [pc EXCEPT !.hci = "read", !.bt = "loop"]
  /\ ctl' = [ctl EXCEPT !.command = "adv_off"]
  /\ UNCHANGED <<packet, gattVars, todo, value, relayVars, executed, to_host,
                 peer, reminders>>

\* wait_connection_complete; between two connections nothing else is sent.
BtConnection ==
  /\ pc.bt = "connection" /\ Received("bt", "HciLeConnectionComplete")
  /\ pc' = [pc EXCEPT !.hci = "read", !.bt = "cmd"]
  /\ todo' = stop_active_advertising
  /\ UNCHANGED <<packet, gattVars, value, relayVars, executed, env, reminders>>

\* Mutant of BtLoop: advertising is not enabled again.
MutNoAdvertising ==
  /\ pc.bt = "loop" /\ Received("bt", "HciDisconnectionComplete")
  /\ pc' = [pc EXCEPT !.hci = "read", !.bt = "cmd"]
  /\ todo' = <<"adv_params", "adv_data">>
  /\ UNCHANGED <<packet, gattVars, value, relayVars, executed, env, reminders>>

\* The main loop: after a disconnection the car advertises again.
BtLoop ==
  /\ pc.bt = "loop" /\ Received("bt", "HciDisconnectionComplete")
  /\ pc' = [pc EXCEPT !.hci = "read", !.bt = "cmd"]
  /\ todo' = start_active_advertising
  /\ UNCHANGED <<packet, gattVars, value, relayVars, executed, env, reminders>>

-----------------------------------------------------------------------------
(* rpi_bluetooth_gatt.rs                                                   *)

\* An attribute request: hci is answered first.
GattL2cap ==
  /\ Received("gatt", "L2capPacket")
  /\ request' = Head(inbox.gatt)
  /\ pc' = [pc EXCEPT !.hci = "read", !.gatt = "respond"]
  /\ UNCHANGED <<packet, conn, handle, sub, emptied, monitors, sent, todo,
                 value, relayVars, executed, env, reminders>>

\* att_write if the request is one, then the response goes out; a peer still
\* there may go on.  A subscription may be to the attribute whose configuration
\* was empty.
GattRespond ==
  /\ pc.gatt = "respond" /\ Runs("gatt")
  /\ request.op # "invalid"
  /\ sub' = (sub \/ request.op = "subscribe")
  /\ emptied' \in IF request.op = "subscribe" THEN {emptied, FALSE}
                  ELSE {emptied \/ request.op = "empty"}
  /\ peer' = [peer EXCEPT !.pending = @ /\ handle # ctl.conn]
  /\ pc' = [pc EXCEPT !.gatt = "notify_monitors"]
  /\ UNCHANGED <<inbox, packet, request, conn, handle, monitors, sent, todo,
                 value, relayVars, executed, ctl, to_host, reminders>>

\* A write to a handle that does not exist, a type that is no UUID, a value
\* that is too long, a request that ends early: gatt unwraps the error.
GattInvalid ==
  /\ pc.gatt = "respond" /\ Runs("gatt")
  /\ request.op = "invalid"
  /\ pc' = [pc EXCEPT !.gatt = "dead"]
  /\ UNCHANGED <<inbox, packet, gattVars, todo, value, relayVars, executed,
                 env, reminders>>

\* Those registered for the attribute are answered and forgotten.
GattNotifyMonitors ==
  /\ pc.gatt = "notify_monitors" /\ Runs("gatt")
  /\ IF monitors /\ request.op = "write"
       THEN /\ pc' = [pc EXCEPT !.gatt = "recv", !.monitor = "forward"]
            /\ value' = [value EXCEPT !.monitor = request.n]
            /\ monitors' = FALSE
       ELSE /\ pc' = [pc EXCEPT !.gatt = "recv"]
            /\ UNCHANGED <<value, monitors>>
  /\ UNCHANGED <<inbox, packet, request, conn, handle, sub, emptied, sent,
                 todo, relayVars, executed, env, reminders>>

GattMonitorReq ==
  /\ Received("gatt", "GattServerMonitorReq")
  /\ monitors' = TRUE
  /\ UNCHANGED <<pc, packet, request, conn, handle, sub, emptied, sent, todo,
                 value, relayVars, executed, env, reminders>>

\* update_trigger: a notification of the new value, if the peer asked for it.
update_trigger == sent' = IF conn /\ sub THEN handle ELSE sent

GattPublish ==
  /\ Received("gatt", "GattServerPublishReq")
  /\ pc' = [pc EXCEPT !.cmd = "execute"]
  /\ update_trigger
  /\ UNCHANGED <<packet, request, conn, handle, sub, emptied, monitors, todo,
                 value, relayVars, executed, env, reminders>>

\* The helper's message: the attributes Clock and CPU Usage are published,
\* and the helper is told how long to wait.
GattReminder ==
  /\ Received("gatt", "ClockWaitResp")
  /\ pc' = [pc EXCEPT !.helper = "clock"]
  /\ update_trigger
  /\ UNCHANGED <<packet, request, conn, handle, sub, emptied, monitors, todo,
                 value, relayVars, executed, env, reminders>>

\* update_trigger looks at the first byte of a configuration that has none:
\* cmd has been answered, the helper has not.
GattTrigger ==
  /\ Received("gatt", "GattServerPublishReq") \/ Received("gatt", "ClockWaitResp")
  /\ conn /\ emptied
  /\ pc' = [pc EXCEPT !.gatt = "dead",
              !.cmd = IF Head(inbox.gatt).type = "GattServerPublishReq" THEN "execute" ELSE @]
  /\ UNCHANGED <<packet, gattVars, todo, value, relayVars, executed, env,
                 reminders>>

GattConnected ==
  /\ Received("gatt", "HciLeConnectionComplete")
  /\ pc' = [pc EXCEPT !.hci = "to_bt"]
  /\ conn' = TRUE
  /\ handle' = Head(inbox.gatt).handle
  /\ UNCHANGED <<packet, request, sub, emptied, monitors, sent, todo, value,
                 relayVars, executed, env, reminders>>

\* Mutant of GattDisconnected: clear_subscription is not called.
MutKeepsSubscription ==
  /\ Received("gatt", "HciDisconnectionComplete")
  /\ pc' = [pc EXCEPT !.hci = "to_bt"]
  /\ conn' = FALSE
  /\ UNCHANGED <<packet, request, handle, sub, emptied, monitors, sent, todo,
                 value, relayVars, executed, env, reminders>>

GattDisconnected ==
  /\ Received("gatt", "HciDisconnectionComplete")
  /\ ~emptied
  /\ pc' = [pc EXCEPT !.hci = "to_bt"]
  /\ conn' = FALSE /\ sub' = FALSE
  /\ UNCHANGED <<packet, request, handle, emptied, monitors, sent, todo, value,
                 relayVars, executed, env, reminders>>

\* clear_subscription writes the first byte of a configuration that has none.
GattClears ==
  /\ Received("gatt", "HciDisconnectionComplete")
  /\ emptied
  /\ pc' = [pc EXCEPT !.hci = "to_bt", !.gatt = "dead"]
  /\ conn' = FALSE
  /\ UNCHANGED <<packet, request, handle, sub, emptied, monitors, sent, todo,
                 value, relayVars, executed, env, reminders>>

-----------------------------------------------------------------------------
(* gatt_monitor.rs, gatt_monitor_relay.rs, commander.rs                    *)

MonitorRegister ==
  /\ pc.monitor = "register" /\ Runs("monitor")
  /\ ker_send("monitor", "gatt", [type |-> "GattServerMonitorReq"], "registered")
  /\ UNCHANGED <<packet, gattVars, todo, value, relayVars, executed, env,
                 reminders>>

MonitorForward ==
  /\ pc.monitor = "forward" /\ Runs("monitor")
  /\ ker_send("monitor", "relay",
              [type |-> "GattMonitorResp", n |-> value.monitor], "forwarded")
  /\ UNCHANGED <<packet, gattVars, todo, value, relayVars, executed, env,
                 reminders>>

\* A write was noticed: the monitor is answered, then the watcher gets the
\* command or it is queued; a full queue is a panic.
RelayUpdate ==
  /\ Received("relay", "GattMonitorResp")
  /\ LET n == Head(inbox.relay).n
     IN  \/ /\ watcher
            /\ watcher' = FALSE
            /\ value' = [value EXCEPT !.cmd = n]
            /\ pc' = [pc EXCEPT !.monitor = "register", !.cmd = "ack"]
            /\ UNCHANGED queue
         \/ /\ ~watcher /\ Len(queue) < RelayCap
            /\ queue' = Append(queue, n)
            /\ pc' = [pc EXCEPT !.monitor = "register"]
            /\ UNCHANGED <<watcher, value>>
         \/ /\ ~watcher /\ Len(queue) = RelayCap
            /\ pc' = [pc EXCEPT !.monitor = "register", !.relay = "dead"]
            /\ UNCHANGED <<queue, watcher, value>>
  /\ UNCHANGED <<packet, gattVars, todo, executed, env, reminders>>

\* Mutant of RelayRequest: the watcher is noted, whatever is in the queue.
MutIgnoreQueue ==
  /\ Received("relay", "GattMonitorReq")
  /\ watcher' = TRUE
  /\ UNCHANGED <<pc, packet, gattVars, todo, value, queue, executed, env,
                 reminders>>

\* cmd, the only watcher, asks for the next command.
RelayRequest ==
  /\ Received("relay", "GattMonitorReq")
  /\ IF queue # <<>>
       THEN /\ value' = [value EXCEPT !.cmd = Head(queue)]
            /\ queue' = Tail(queue)
            /\ pc' = [pc EXCEPT !.cmd = "ack"]
            /\ UNCHANGED watcher
       ELSE watcher' = TRUE /\ UNCHANGED <<value, queue, pc>>
  /\ UNCHANGED <<packet, gattVars, todo, executed, env, reminders>>

CmdAsk ==
  /\ pc.cmd = "ask" /\ Runs("cmd")
  /\ ker_send("cmd", "relay", [type |-> "GattMonitorReq"], "asked")
  /\ UNCHANGED <<packet, gattVars, todo, value, relayVars, executed, env,
                 reminders>>

\* The acknowledgement is published, then the command is executed.
CmdAck ==
  /\ pc.cmd = "ack" /\ Runs("cmd")
  /\ value.cmd \notin peer.garbled
  /\ ker_send("cmd", "gatt", [type |-> "GattServerPublishReq"], "publishing")
  /\ UNCHANGED <<packet, gattVars, todo, value, relayVars, executed, env,
                 reminders>>

CmdExecute ==
  /\ pc.cmd = "execute" /\ Runs("cmd")
  /\ value.cmd \notin peer.nan
  /\ executed' = Append(executed, value.cmd)
  /\ pc' = [pc EXCEPT !.cmd = "ask"]
  /\ UNCHANGED <<inbox, packet, gattVars, todo, value, relayVars, env,
                 reminders>>

\* from_utf8, parse and ns_get are unwrapped.
CmdUnwraps ==
  /\ Runs("cmd")
  /\ \/ pc.cmd = "ack" /\ value.cmd \in peer.garbled
     \/ pc.cmd = "execute" /\ (value.cmd \in peer.nan \/ ~ServersUp)
  /\ pc' = [pc EXCEPT !.cmd = "dead"]
  /\ UNCHANGED <<inbox, packet, gattVars, todo, value, relayVars, executed,
                 env, reminders>>

\* clock_server_helper.rs: its wait in the clock server ends.
HelperWake ==
  /\ pc.helper = "clock" /\ reminders < MaxReminders
  /\ pc' = [pc EXCEPT !.helper = "remind"]
  /\ reminders' = reminders + 1
  /\ UNCHANGED <<inbox, packet, gattVars, todo, value, relayVars, executed,
                 env>>

HelperRemind ==
  /\ pc.helper = "remind" /\ Runs("helper")
  /\ ker_send("helper", "gatt", [type |-> "ClockWaitResp"], "reminded")
  /\ UNCHANGED <<packet, gattVars, todo, value, relayVars, executed, env,
                 reminders>>

-----------------------------------------------------------------------------
(* The controller and the peer.                                            *)

\* The last byte of bt's command is in the device.
TxDone ==
  /\ pc.bt = "tx"
  /\ ctl' = [ctl EXCEPT !.command = Head(todo)]
  /\ pc' = [pc EXCEPT !.bt = "complete"]
  /\ UNCHANGED <<inbox, packet, gattVars, todo, value, relayVars, executed,
                 to_host, peer, reminders>>

\* The controller executes a command and says so.
CommandComplete ==
  /\ ctl.command # NoCommand
  /\ ctl' = [ctl EXCEPT !.command = NoCommand,
                        !.adv = CASE ctl.command = "adv_on"  -> TRUE
                                  [] ctl.command = "adv_off" -> FALSE
                                  [] OTHER -> @]
  /\ to_host' = Append(to_host, [type |-> "HciCommandComplete", op |-> ctl.command])
  /\ UNCHANGED <<pc, inbox, packet, gattVars, todo, value, relayVars, executed,
                 peer, reminders>>

\* A connection ends advertising.
PeerConnect ==
  /\ ctl.adv /\ ctl.conn = 0 /\ peer.conns < MaxConns
  /\ ctl' = [ctl EXCEPT !.adv = FALSE, !.conn = peer.conns + 1]
  /\ peer' = [peer EXCEPT !.conns = @ + 1, !.pending = FALSE]
  /\ to_host' = Append(to_host, [type |-> "HciLeConnectionComplete",
                                 handle |-> peer.conns + 1])
  /\ UNCHANGED <<pc, inbox, packet, gattVars, todo, value, relayVars, executed,
                 reminders>>

PeerDisconnect ==
  /\ ctl.conn # 0
  /\ PatientPeer => pc.bt = "loop"
  /\ ctl' = [ctl EXCEPT !.conn = 0]
  /\ to_host' = Append(to_host, [type |-> "HciDisconnectionComplete"])
  /\ UNCHANGED <<pc, inbox, packet, gattVars, todo, value, relayVars, executed,
                 peer, reminders>>

\* The peer makes a request only after the response to the last one.
PeerRequest(m) ==
  /\ ctl.conn # 0 /\ ~peer.pending
  /\ SlowRadio => pc.gatt = "recv" /\ inbox.gatt = <<>>
  /\ to_host' = Append(to_host, m)
  /\ UNCHANGED <<pc, inbox, packet, gattVars, todo, value, relayVars, executed,
                 ctl, reminders>>

PeerWrite ==
  /\ peer.writes < MaxWrites
  /\ PeerRequest([type |-> "L2capPacket", op |-> "write", n |-> peer.writes + 1])
  /\ peer' = [peer EXCEPT !.writes = @ + 1, !.pending = TRUE]

\* Discovery and reads: any request that gatt only answers.
PeerRead ==
  /\ peer.reads < MaxReads
  /\ PeerRequest([type |-> "L2capPacket", op |-> "read"])
  /\ peer' = [peer EXCEPT !.reads = @ + 1, !.pending = TRUE]

\* A command cmd cannot read.
PeerMisspell ==
  /\ ~ValidPeer /\ peer.writes < MaxWrites
  /\ PeerRequest([type |-> "L2capPacket", op |-> "write", n |-> peer.writes + 1])
  /\ LET p == [peer EXCEPT !.writes = @ + 1, !.pending = TRUE]
     IN  peer' \in {[p EXCEPT !.garbled = @ \cup {p.writes}],
                    [p EXCEPT !.nan = @ \cup {p.writes}]}

\* A request hci or gatt cannot serve.
PeerMalform ==
  /\ ~ValidPeer /\ peer.reads < MaxReads
  /\ \E op \in {"split", "short", "invalid", "empty"} :
       PeerRequest([type |-> "L2capPacket", op |-> op])
  /\ peer' = [peer EXCEPT !.reads = @ + 1, !.pending = TRUE]

PeerSubscribe ==
  /\ ctl.conn \notin peer.subscribed
  /\ PeerRequest([type |-> "L2capPacket", op |-> "subscribe"])
  /\ peer' = [peer EXCEPT !.subscribed = @ \cup {ctl.conn}, !.pending = TRUE]

-----------------------------------------------------------------------------
System ==
  \/ HciRead \/ HciUnreadable \/ HciToGatt \/ HciToBt
  \/ BtCmd \/ BtComplete \/ BtConnection \/ BtLoop
  \/ GattL2cap \/ GattRespond \/ GattInvalid \/ GattNotifyMonitors \/ GattMonitorReq
  \/ GattPublish \/ GattReminder \/ GattTrigger
  \/ GattConnected \/ GattDisconnected \/ GattClears
  \/ MonitorRegister \/ MonitorForward
  \/ RelayUpdate \/ RelayRequest
  \/ CmdAsk \/ CmdAck \/ CmdExecute \/ CmdUnwraps
  \/ HelperRemind

Next ==
  \/ System \/ TxDone \/ CommandComplete
  \/ HelperWake
  \/ PeerConnect \/ PeerDisconnect
  \/ PeerWrite \/ PeerRead \/ PeerSubscribe \/ PeerMisspell \/ PeerMalform

\* Some ready task runs, and the controller executes its commands.
Spec ==
  /\ Init /\ [][Next]_vars
  /\ WF_vars(System) /\ WF_vars(TxDone) /\ WF_vars(CommandComplete)

-----------------------------------------------------------------------------
\* Types; a server holds at most one message of each of its clients, and the
\* relay no more commands than its queue has room for.
TypeOK ==
  /\ {conn, sub, emptied, monitors, watcher} \subseteq BOOLEAN
  /\ Len(inbox.gatt) <= 4 /\ Len(inbox.bt) <= 1 /\ Len(inbox.relay) <= 2
  /\ Len(queue) <= RelayCap
  /\ handle \in 0..MaxConns
  /\ sent \in 0..MaxConns

\* Commands are executed in the order they were written, none is left out and
\* none is executed twice: the monitor is registered again before gatt looks
\* for it.
CommandsInOrder == TypeOK /\ executed = [i \in 1..Len(executed) |-> i]

\* ... and every command is executed, unless more arrive than the relay holds or
\* one that is not valid.
EveryCommandExecuted ==
  []<>(Len(executed) = peer.writes \/ pc.relay = "dead")

\* hci, bt and gatt do not panic: the message wait_command_complete takes is
\* the end of the command it waits for, and no send finds its receiver gone.
\* This is so only with a ValidPeer: almost any other makes gatt panic, and hci
\* with its next send to it.
BluetoothSurvives == "dead" \notin {pc.hci, pc.bt, pc.gatt}

\* No connection is the end: the car is connected or advertises again.
AdvertisesAgain == []<>(ctl.adv \/ ctl.conn # 0)

\* When nothing is under way, gatt knows whether and how the peer is connected.
GattKnowsConnection ==
  to_host = <<>> /\ pc.hci = "read" /\ pc.gatt = "recv"
    => conn = (ctl.conn # 0) /\ (conn => handle = ctl.conn)

\* Notifications go to a connection on which the peer asked for them, and not
\* to the one after it.
NotifyOnlySubscribers == sent = 0 \/ sent \in peer.subscribed

\* What gatt keeps of a connection begins and ends with it.
GattFollowsConnection == GattKnowsConnection /\ NotifyOnlySubscribers
=============================================================================
