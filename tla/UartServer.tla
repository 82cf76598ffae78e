----------------------------- MODULE UartServer -----------------------------
(***************************************************************************)
(* A serial port: pie-rust/src/bin/rpi_uart.rs (the server),               *)
(* rpi_uart_intr_broker.rs (the task that waits for its interrupts), the   *)
(* device's FIFOs and interrupt mask, and the kernel's interrupt handler.  *)
(*                                                                         *)
(* The server empties and fills the FIFOs itself, whenever it runs, and    *)
(* arms interrupts for the rest.  The kernel masks the device when it      *)
(* takes an interrupt, and wakes the broker only if it is waiting at that  *)
(* moment.  The broker is more urgent than the server: the server only     *)
(* runs while the broker is blocked.  Clients may run at any time.  To arm *)
(* one interrupt the server reads the mask and writes it back, and the     *)
(* kernel may mask the device, and the broker run, between the two.        *)
(*                                                                         *)
(* Bytes are counted, not told apart.  Positions in the output stream are  *)
(* kept relative to tx_idx.                                                *)
(***************************************************************************)
EXTENDS Naturals, Sequences

CONSTANTS
  SerialClients,
  RxLens,     \* the numbers of bytes clients ask for: none, too
              \* (imu_collector.rs, to skip to the start of a message)
  TxLens,     \* the numbers of bytes clients write
  RxFifoCap, TxFifoCap,  \* the device's FIFOs
  TxTrigger,  \* the transmit interrupt is raised at or below this level
  RxBufCap, TxBufCap     \* rx_buf and tx_buf (2048)

ASSUME UartAssumption ==
  /\ RxLens \subseteq Nat /\ TxLens \subseteq Nat \ {0}
  /\ TxTrigger \in Nat /\ TxFifoCap \in Nat /\ TxTrigger < TxFifoCap
  /\ {RxFifoCap, RxBufCap, TxBufCap} \subseteq Nat

VARIABLES
  rx_fifo, tx_fifo,    \* bytes in the device
  rx_armed, tx_armed,  \* the interrupts its mask IMSC lets through
  serial_inbox,  \* messages queued for the server
  todo,      \* what the server does before its next ker_recv
  status,    \* the bit arm_rx or arm_tx has read of the interrupt it does not arm
  dead,      \* the server has panicked: an unwrap of a full buffer
  broker,    \* "send" or "await" when ready; "sent", "event" when blocked
  rx_queue,  \* read requests: <<client, len>>
  rx_buf,    \* bytes received and not yet asked for
  tx_buf,    \* bytes to be sent
  tx_queue,  \* blocking writes: <<client, end_at - tx_idx>>
  waiting    \* clients that wait for a reply

device == <<rx_fifo, tx_fifo, rx_armed, tx_armed>>
buffers == <<rx_queue, rx_buf, tx_buf, tx_queue>>
serialvars == <<device, serial_inbox, todo, status, dead, broker, buffers, waiting>>

\* State::new has created the broker.
SerialInit ==
  /\ rx_fifo = 0 /\ tx_fifo = 0
  /\ rx_armed = FALSE /\ tx_armed = FALSE
  /\ serial_inbox = <<>> /\ todo = <<>> /\ status = FALSE /\ dead = FALSE
  /\ broker = "send"
  /\ rx_queue = <<>> /\ rx_buf = 0
  /\ tx_buf = 0 /\ tx_queue = <<>>
  /\ waiting = {}

-----------------------------------------------------------------------------
(* The device and the kernel.                                              *)

RxArrive ==
  /\ rx_fifo < RxFifoCap
  /\ rx_fifo' = rx_fifo + 1
  /\ UNCHANGED <<status, tx_fifo, rx_armed, tx_armed, serial_inbox, todo, dead, broker,
                 buffers, waiting>>

TxDrain ==
  /\ tx_fifo > 0
  /\ tx_fifo' = tx_fifo - 1
  /\ UNCHANGED <<status, rx_fifo, rx_armed, tx_armed, serial_inbox, todo, dead, broker,
                 buffers, waiting>>

\* process_intr_uart_id: all interrupts of the device are masked; a broker
\* that is not waiting does not learn of it.
process_intr_uart_id ==
  /\ \/ rx_armed /\ rx_fifo > 0
     \/ tx_armed /\ tx_fifo <= TxTrigger
  /\ rx_armed' = FALSE /\ tx_armed' = FALSE
  /\ broker' = IF broker = "event" THEN "send" ELSE broker
  /\ UNCHANGED <<status, rx_fifo, tx_fifo, serial_inbox, todo, dead, buffers, waiting>>

-----------------------------------------------------------------------------
(* rpi_uart_intr_broker.rs                                                 *)

BrokerSend ==
  /\ broker = "send"
  /\ serial_inbox' = Append(serial_inbox, [type |-> "RpiUartIntr"])
  /\ broker' = "sent"
  /\ UNCHANGED <<status, device, todo, dead, buffers, waiting>>

BrokerAwait ==
  /\ broker = "await"
  /\ broker' = "event"
  /\ UNCHANGED <<status, device, serial_inbox, todo, dead, buffers, waiting>>

-----------------------------------------------------------------------------
(* rpi_uart.rs                                                             *)

Runs(step) ==
  /\ ~dead /\ broker \in {"sent", "event"}
  /\ todo # <<>> /\ Head(todo) = step

Panic == dead' = TRUE /\ todo' = <<>>

\* The main loop: the handler of a message, up to its calls of rearm, read
\* and write.
Receive ==
  /\ ~dead /\ broker \in {"sent", "event"}
  /\ todo = <<>> /\ serial_inbox # <<>>
  /\ serial_inbox' = Tail(serial_inbox)

handle_rx_req ==
  /\ Receive /\ Head(serial_inbox).type = "RpiUartRxReq"
  /\ rx_queue' = Append(rx_queue, <<Head(serial_inbox).from, Head(serial_inbox).len>>)
  /\ todo' = <<"read">>
  /\ UNCHANGED <<status, device, dead, broker, rx_buf, tx_buf, tx_queue, waiting>>

\* Mutant of handle_tx_req: end_at counts this request's bytes only.
MutEndAtLen ==
  /\ Receive /\ Head(serial_inbox).type = "RpiUartTxReq"
  /\ tx_buf + Head(serial_inbox).len <= TxBufCap
  /\ tx_buf' = tx_buf + Head(serial_inbox).len
  /\ todo' = <<"write">>
  /\ IF Head(serial_inbox).blocking
       THEN /\ tx_queue' = Append(tx_queue, <<Head(serial_inbox).from, Head(serial_inbox).len>>)
            /\ UNCHANGED waiting
       ELSE waiting' = waiting \ {Head(serial_inbox).from} /\ UNCHANGED tx_queue
  /\ UNCHANGED <<status, device, dead, broker, rx_queue, rx_buf>>

handle_tx_req ==
  /\ Receive /\ Head(serial_inbox).type = "RpiUartTxReq"
  /\ LET m == Head(serial_inbox)
     IN  IF tx_buf + m.len > TxBufCap
           THEN Panic /\ tx_buf' = TxBufCap /\ UNCHANGED <<tx_queue, waiting>>
           ELSE /\ tx_buf' = tx_buf + m.len
                /\ todo' = <<"write">>
                /\ IF m.blocking
                     THEN /\ tx_queue' = Append(tx_queue, <<m.from, tx_buf + m.len>>)
                          /\ UNCHANGED waiting
                     ELSE /\ waiting' = waiting \ {m.from}
                          /\ UNCHANGED tx_queue
                /\ UNCHANGED dead
  /\ UNCHANGED <<status, device, broker, rx_queue, rx_buf>>

\* Mutant of handle_intr: rearm is only done when a client reads.
MutRearmForReader ==
  /\ Receive /\ Head(serial_inbox).type = "RpiUartIntr"
  /\ todo' = IF rx_queue # <<>> THEN <<"reply", "arm_rx", "read", "write">>
             ELSE <<"reply", "read", "write">>
  /\ UNCHANGED <<status, device, dead, broker, buffers, waiting>>

handle_intr ==
  /\ Receive /\ Head(serial_inbox).type = "RpiUartIntr"
  /\ todo' = <<"reply", "arm_rx", "read", "write">>
  /\ UNCHANGED <<status, device, dead, broker, buffers, waiting>>

\* rearm: the reply to the broker, which runs at once, then the mask.
RearmReply ==
  /\ Runs("reply")
  /\ broker' = "await"
  /\ todo' = Tail(todo)
  /\ UNCHANGED <<status, device, serial_inbox, dead, buffers, waiting>>

\* arm_rx and arm_tx read the mask, then write it with a bit set: what the
\* kernel has masked in between is armed again.
ReadMask ==
  /\ Runs("arm_rx") \/ Runs("arm_tx")
  /\ status' = IF Head(todo) = "arm_rx" THEN tx_armed ELSE rx_armed
  /\ todo' = <<IF Head(todo) = "arm_rx" THEN "set_rx" ELSE "set_tx">> \o Tail(todo)
  /\ UNCHANGED <<device, serial_inbox, dead, broker, buffers, waiting>>

RearmRx ==
  /\ Runs("set_rx")
  /\ rx_armed' = TRUE /\ tx_armed' = status
  /\ status' = FALSE
  /\ todo' = Tail(todo)
  /\ UNCHANGED <<rx_fifo, tx_fifo, serial_inbox, dead, broker, buffers, waiting>>

\* read: the FIFO is emptied into rx_buf byte by byte, then the first request
\* is answered when rx_buf has enough for it, until it has not.
GetByte ==
  /\ Runs("read") /\ rx_fifo > 0
  /\ rx_fifo' = rx_fifo - 1
  /\ IF rx_buf = RxBufCap
       THEN Panic /\ UNCHANGED rx_buf
       ELSE rx_buf' = rx_buf + 1 /\ UNCHANGED <<dead, todo>>
  /\ UNCHANGED <<status, tx_fifo, rx_armed, tx_armed, serial_inbox, broker, rx_queue, tx_buf,
                 tx_queue, waiting>>

FifoEmpty ==
  /\ Runs("read") /\ rx_fifo = 0
  /\ todo' = <<"answer">> \o Tail(todo)
  /\ UNCHANGED <<status, device, serial_inbox, dead, broker, buffers, waiting>>

CanAnswer == rx_queue # <<>> /\ rx_buf > 0 /\ rx_queue[1][2] <= rx_buf

\* Mutant of Answer: one request is answered for each call of read.
MutAnswerOne ==
  /\ Runs("answer")
  /\ todo' = Tail(todo)
  /\ IF CanAnswer
       THEN /\ rx_buf' = rx_buf - rx_queue[1][2]
            /\ rx_queue' = Tail(rx_queue)
            /\ waiting' = waiting \ {rx_queue[1][1]}
       ELSE UNCHANGED <<rx_buf, rx_queue, waiting>>
  /\ UNCHANGED <<status, device, serial_inbox, dead, broker, tx_buf, tx_queue>>

Answer ==
  /\ Runs("answer")
  /\ IF CanAnswer
       THEN /\ rx_buf' = rx_buf - rx_queue[1][2]
            /\ rx_queue' = Tail(rx_queue)
            /\ waiting' = waiting \ {rx_queue[1][1]}
            /\ UNCHANGED todo
       ELSE /\ todo' = Tail(todo)
            /\ UNCHANGED <<rx_buf, rx_queue, waiting>>
  /\ UNCHANGED <<status, device, serial_inbox, dead, broker, tx_buf, tx_queue>>

\* write, one iteration: a byte goes to the device, and the blocking write
\* it was the last byte of is answered.
PutByte ==
  /\ Runs("write") /\ tx_buf > 0 /\ tx_fifo < TxFifoCap
  /\ tx_fifo' = tx_fifo + 1
  /\ tx_buf' = tx_buf - 1
  /\ LET left == [i \in DOMAIN tx_queue |-> <<tx_queue[i][1], tx_queue[i][2] - 1>>]
         done == left # <<>> /\ left[1][2] = 0
     IN  /\ tx_queue' = IF done THEN Tail(left) ELSE left
         /\ waiting' = IF done THEN waiting \ {left[1][1]} ELSE waiting
  /\ UNCHANGED <<status, rx_fifo, rx_armed, tx_armed, serial_inbox, todo, dead, broker,
                 rx_queue, rx_buf>>

\* The FIFO was full; by the time of arm_tx it may not be any more.
FifoFull ==
  /\ Runs("write") /\ tx_buf > 0 /\ tx_fifo = TxFifoCap
  /\ todo' = <<"arm_tx">> \o Tail(todo)
  /\ UNCHANGED <<status, device, serial_inbox, dead, broker, buffers, waiting>>

ArmTx ==
  /\ Runs("set_tx")
  /\ tx_armed' = TRUE /\ rx_armed' = status
  /\ status' = FALSE
  /\ todo' = Tail(todo)
  /\ UNCHANGED <<rx_fifo, tx_fifo, serial_inbox, dead, broker, buffers, waiting>>

WriteDone ==
  /\ Runs("write") /\ tx_buf = 0
  /\ todo' = Tail(todo)
  /\ UNCHANGED <<status, device, serial_inbox, dead, broker, buffers, waiting>>

-----------------------------------------------------------------------------
\* ker_send of a client.  A dead server has no descriptor and the call fails.
SerialSend(c, m) ==
  /\ ~dead /\ c \notin waiting
  /\ serial_inbox' = Append(serial_inbox, m)
  /\ waiting' = waiting \cup {c}
  /\ UNCHANGED <<status, device, todo, dead, broker, buffers>>

ClientRx(c, n) ==
  SerialSend(c, [type |-> "RpiUartRxReq", from |-> c, len |-> n])
ClientTx(c, n, b) ==
  SerialSend(c, [type |-> "RpiUartTxReq", from |-> c, len |-> n, blocking |-> b])

Broker == BrokerSend \/ BrokerAwait

Server ==
  \/ handle_rx_req \/ handle_tx_req \/ handle_intr
  \/ RearmReply \/ ReadMask \/ RearmRx
  \/ GetByte \/ FifoEmpty \/ Answer
  \/ PutByte \/ FifoFull \/ ArmTx \/ WriteDone

SerialNext ==
  \/ RxArrive \/ TxDrain \/ process_intr_uart_id
  \/ Broker \/ Server
  \/ \E c \in SerialClients :
       \/ \E n \in RxLens : ClientRx(c, n)
       \/ \E n \in TxLens, b \in BOOLEAN : ClientTx(c, n, b)

\* The scheduler runs both tasks, the device sends its bytes, and an
\* interrupt that is raised is taken.  Bytes need not arrive.
SerialFairness ==
  /\ WF_serialvars(Server) /\ WF_serialvars(Broker)
  /\ WF_serialvars(TxDrain) /\ WF_serialvars(process_intr_uart_id)
SerialSpec == SerialInit /\ [][SerialNext]_serialvars /\ SerialFairness

-----------------------------------------------------------------------------
\* Types: buffers stay within their capacity, and a queued blocking write has
\* at least one byte to go.
SerialTypeOK ==
  /\ rx_fifo \in 0..RxFifoCap /\ tx_fifo \in 0..TxFifoCap
  /\ {rx_armed, tx_armed, status, dead} \subseteq BOOLEAN
  /\ broker \in {"send", "sent", "await", "event"}
  /\ rx_buf \in 0..RxBufCap /\ tx_buf \in 0..TxBufCap
  /\ rx_queue \in Seq(SerialClients \X RxLens)
  /\ tx_queue \in Seq(SerialClients \X (1..TxBufCap))
  /\ waiting \subseteq SerialClients

\* Interrupts taken while the broker is busy are lost, but none that matters:
\* when the server has nothing to do and the broker waits, the receive
\* interrupt is armed, and the transmit interrupt too if bytes are left.
QuietMeansArmed ==
  ~dead /\ todo = <<>> /\ serial_inbox = <<>> /\ broker = "event"
    => rx_armed /\ (tx_buf > 0 => tx_armed)

\* A blocking write is answered when its last byte is in the device: the
\* positions in tx_queue increase and the last is within tx_buf.
TxQueueInOrder ==
  /\ SerialTypeOK
  /\ \A i, j \in DOMAIN tx_queue : i < j => tx_queue[i][2] < tx_queue[j][2]
  /\ tx_queue # <<>> => tx_queue[Len(tx_queue)][2] <= tx_buf

\* Every write is answered unless the server panics: no loss of a transmit
\* interrupt leaves bytes in tx_buf for ever.
WritesAnswered ==
  \A c \in SerialClients :
    (\E i \in DOMAIN tx_queue : tx_queue[i][1] = c)
      ~> dead \/ \A i \in DOMAIN tx_queue : tx_queue[i][1] # c

\* A reader is answered once the bytes it asked for are there, in the device
\* or in rx_buf, unless the server panics; one that asked for none, once there
\* is a byte.
ReadsAnswered ==
  \A c \in SerialClients :
    (/\ rx_queue # <<>> /\ rx_queue[1][1] = c
     /\ rx_buf + rx_fifo > 0 /\ rx_queue[1][2] <= rx_buf + rx_fifo)
      ~> dead \/ c \notin waiting
=============================================================================
