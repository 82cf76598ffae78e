----------------------------- MODULE LegacyUart -----------------------------
(***************************************************************************)
(* The C serial port servers (user/src/uart): a server task and its        *)
(* notifiers, for the terminal's channel or the Marklin controller's.      *)
(* Bytes are counted, not named; what is kept is who waits for what, which *)
(* notifier is armed and in which order the server's mailbox is served.    *)
(* The bodies of the handlers are functions on the record st; a byte may   *)
(* arrive or leave between two handlers and between two rounds of the      *)
(* input loop.                                                             *)
(***************************************************************************)
EXTENDS Integers, Sequences, FiniteSets, FiniteSetsExt, SequencesExt

CONSTANTS
  UClients,      \* client tasks
  Chans,         \* the channels checked, a subset of {"term", "marklin"}
  EarlyChans,    \* those whose clients may find the server while it starts
  InputBufCap,   \* INPUT_BUF_CAP (256)
  WaitCap,       \* INPUT_QUEUE_CAP and OUTPUT_QUEUE_CAP (64)
  OutputBufCap,  \* OUTPUT_BUF_CAP (4096)
  FifoCap,       \* bytes each hardware FIFO holds
  PutLens        \* the lengths a client writes

ASSUME LegacyUartAssumption ==
  Chans \subseteq {"term", "marklin"} /\ UClients \cap {"out", "in", "cts"} = {}

VARIABLES
  chan,          \* the channel of this instance
  mbox,          \* the server's mailbox: [tid, kind, len, blocking]
  st             \* the server's record (at: where it is); notif and client:
                 \* what each waits for; rx, tx: bytes in the FIFOs; term:
                 \* whether the terminal has unread input; written: bytes the
                 \* Marklin server wrote since the last CTS message

uartvars == <<chan, mbox, st>>

\* In the order uart_server_init_notifiers gives them their parameters.
NotifiersOf(c) == IF c = "term" THEN <<"out", "in">> ELSE <<"out", "in", "cts">>

UartInit ==
  /\ chan \in Chans
  /\ mbox = <<>>
  /\ st = [at |-> "init", inited |-> 0,
           input_buf |-> 0, input_wqueue |-> <<>>,
           output_buf |-> 0, output_wqueue |-> <<>>, output_status |-> "OS_READY",
           first |-> TRUE, fault |-> FALSE, written |-> 0,
           rx |-> 0, tx |-> 0, term |-> FALSE,          \* after uart_drain_input
           notif |-> [n \in {"out", "in", "cts"} |-> "param"],
           client |-> [c \in UClients |-> "idle"]]

Message(t, k, n, b) == [tid |-> t, kind |-> k, len |-> n, blocking |-> b]

\* MSG_REPLY to a client ends its call, with whatever result.
Answer(s, tids) ==
  [s EXCEPT !.client = [c \in UClients |-> IF c \in tids THEN "idle" ELSE @[c]]]

\* MSG_REPLY reaches a notifier that is reply-blocked, which then awaits its
\* event; for any other ke_reply returns -2, which the servers ignore.
Arm(s, n) == [s EXCEPT !.notif[n] = IF @ = "reply" THEN "await" ELSE @]

\* Each MSG_SEND of uart_server_init_notifiers: the notifier, more urgent than
\* the server, replies and sends its first message before the server resumes.
InitNotifier ==
  LET ns == NotifiersOf(chan)
      n == ns[st.inited + 1]
  IN  /\ st.at = "init"
      /\ st' = [st EXCEPT !.notif[n] = "sent", !.inited = @ + 1,
                          !.at = IF st.inited + 1 = Len(ns) THEN "recv" ELSE "init"]
      /\ mbox' = Append(mbox, Message(n, n, 0, FALSE))
      /\ UNCHANGED chan

-----------------------------------------------------------------------------
(* Input                                                                   *)

\* One round of uart_flush_input: empty the FIFO into input_buf as far as it
\* has room, answer getc requests; with none left it returns, unarmed.
FlushRound(s) ==
  LET take == Min({s.rx, InputBufCap - s.input_buf})
      bytes == s.input_buf + take
      k == Min({bytes, Len(s.input_wqueue)})
      left == SubSeq(s.input_wqueue, k + 1, Len(s.input_wqueue))
  IN  Answer([s EXCEPT !.rx = @ - take, !.input_buf = bytes - k, !.input_wqueue = left,
                       !.at = IF left = <<>> THEN "recv" ELSE "check"],
             {s.input_wqueue[i] : i \in 1 .. k})

\* The loop's last test reads the terminal's level whichever channel this is:
\* another round, or out of input and the notifier armed.
FlushCheck ==
  LET level == IF chan = "term" THEN st.rx > 0 ELSE st.term
  IN  /\ st.at = "check"
      /\ st' = IF level THEN FlushRound(st) ELSE Arm([st EXCEPT !.at = "recv"], "in")
      /\ UNCHANGED <<chan, mbox>>

\* mUartGetcReq: -2 when the queue is full.
ServeGetc(s, m) ==
  IF Len(s.input_wqueue) = WaitCap
    THEN Answer(s, {m.tid})
    ELSE FlushRound([s EXCEPT !.input_wqueue = Append(@, m.tid)])

-----------------------------------------------------------------------------
(* Output                                                                  *)

\* Terminal: fill the FIFO; what is left waits for the output notifier.
TermFlush(s) ==
  LET n == Min({s.output_buf, FifoCap - s.tx})
      t == [s EXCEPT !.tx = @ + n, !.output_buf = @ - n]
  IN  IF t.output_buf > 0 THEN Arm(t, "out") ELSE t

\* Mutant of MarklinWrite: ready again at once, without waiting for CTS.
MutMarklinWrite(s) ==
  LET elem == Head(s.output_wqueue)
      t == [s EXCEPT !.tx = @ + 1, !.written = @ + 1]
  IN  IF elem.progress + 1 < elem.len
        THEN [t EXCEPT !.output_wqueue[1].progress = @ + 1]
        ELSE [Answer(t, IF elem.blocking THEN {elem.tid} ELSE {})
                EXCEPT !.output_wqueue = Tail(@)]

\* Write one byte of the string at the head, which is finished with its last.
MarklinWrite(s) ==
  LET elem == Head(s.output_wqueue)
      t == [s EXCEPT !.output_status = "OS_WAIT_CTS", !.tx = @ + 1, !.written = @ + 1]
  IN  IF elem.progress + 1 < elem.len
        THEN [t EXCEPT !.output_wqueue[1].progress = @ + 1]
        ELSE [Answer(t, IF elem.blocking THEN {elem.tid} ELSE {})
                EXCEPT !.output_wqueue = Tail(@)]

\* Marklin: the call of itself at its end returns at once, as it waits for CTS.
MarklinFlush(s) ==
  IF s.output_status # "OS_READY" \/ s.output_wqueue = <<>> THEN s
  ELSE IF s.tx = FifoCap THEN Arm([s EXCEPT !.output_status = "OS_WAIT_TX"], "out")
  ELSE MarklinWrite(s)

\* mUartPutsReq on the terminal: answered at once, with its length or -2.
TermPuts(s, m) ==
  IF OutputBufCap - s.output_buf < m.len
    THEN Answer(s, {m.tid})
    ELSE TermFlush(Answer([s EXCEPT !.output_buf = @ + m.len], {m.tid}))

\* ... and on Marklin: answered at once if empty, if the queue is full or if
\* the client does not want to block.
MarklinPuts(s, m) ==
  IF m.len = 0 \/ Len(s.output_wqueue) = WaitCap
    THEN Answer(s, {m.tid})
    ELSE MarklinFlush(Answer(
           [s EXCEPT !.output_wqueue = Append(@, [tid |-> m.tid, progress |-> 0, len |-> m.len,
                                                  blocking |-> m.blocking])],
           IF m.blocking THEN {} ELSE {m.tid}))

\* mUartMarklinOutputReq: asserted to be waited for, but for the very first.
MarklinOutput(s) ==
  IF s.output_status = "OS_WAIT_TX"
    THEN MarklinFlush([s EXCEPT !.output_status = "OS_READY"])
    ELSE [s EXCEPT !.first = FALSE, !.fault = s.output_status = "OS_WAIT_CTS" \/ ~s.first]

\* Mutant of MarklinCts: with no room in the FIFO the output notifier is not armed.
MutMarklinCts(s) ==
  LET t == [Arm(s, "cts") EXCEPT !.written = 0]
  IN  IF t.output_status # "OS_WAIT_CTS" THEN t
      ELSE IF t.tx = FifoCap THEN [t EXCEPT !.output_status = "OS_WAIT_TX"]
      ELSE MarklinFlush([t EXCEPT !.output_status = "OS_READY"])

\* mUartMarklinCtsReq: its notifier is sent off again, then the next byte goes
\* out or, with no room in the FIFO, waits for the output notifier.
MarklinCts(s) ==
  LET t == [Arm(s, "cts") EXCEPT !.written = 0]
  IN  IF t.output_status # "OS_WAIT_CTS" THEN t
      ELSE IF t.tx = FifoCap THEN Arm([t EXCEPT !.output_status = "OS_WAIT_TX"], "out")
      ELSE MarklinFlush([t EXCEPT !.output_status = "OS_READY"])

-----------------------------------------------------------------------------
(* The servers' loop                                                       *)

Received(m) == IF m.tid \in UClients THEN st ELSE [st EXCEPT !.notif[m.tid] = "reply"]

Serve(m) ==
  LET s == Received(m)
  IN  CASE m.kind = "getc" -> ServeGetc(s, m)
        [] m.kind = "puts" -> IF chan = "term" THEN TermPuts(s, m) ELSE MarklinPuts(s, m)
        [] m.kind = "in" -> FlushRound(s)
        [] m.kind = "out" -> IF chan = "term" THEN TermFlush(s) ELSE MarklinOutput(s)
        [] m.kind = "cts" -> MarklinCts(s)

Receive ==
  /\ st.at = "recv" /\ ~st.fault /\ mbox # <<>>
  /\ st' = Serve(Head(mbox))
  /\ mbox' = Tail(mbox)
  /\ UNCHANGED chan

-----------------------------------------------------------------------------
(* Clients, notifiers and the hardware                                     *)

Call(c, k, n, b) ==
  /\ st.client[c] = "idle"
  /\ st.at # "init" \/ chan \in EarlyChans
  /\ st' = [st EXCEPT !.client[c] = k]
  /\ mbox' = Append(mbox, Message(c, k, n, b))
  /\ UNCHANGED chan

ke_getc(c) == Call(c, "getc", 0, FALSE)
ke_putc(c) == Call(c, "puts", 1, FALSE)
ke_puts(c) == \E n \in PutLens : Call(c, "puts", n, TRUE)

\* The event each notifier awaits; the CTS notifier only sleeps for a tick.
EventOf(n) ==
  CASE n = "in" -> st.rx > 0
    [] n = "out" -> st.tx < FifoCap
    [] n = "cts" -> TRUE

Notify(n) ==
  /\ st.notif[n] = "await" /\ EventOf(n)
  /\ st' = [st EXCEPT !.notif[n] = "sent"]
  /\ mbox' = Append(mbox, Message(n, n, 0, FALSE))
  /\ UNCHANGED chan

ByteArrives == st.rx < FifoCap /\ st' = [st EXCEPT !.rx = @ + 1] /\ UNCHANGED <<chan, mbox>>
ByteLeaves == st.tx > 0 /\ st' = [st EXCEPT !.tx = @ - 1] /\ UNCHANGED <<chan, mbox>>
TermInput == chan = "marklin" /\ st' = [st EXCEPT !.term = ~@] /\ UNCHANGED <<chan, mbox>>

UartServerStep == InitNotifier \/ Receive \/ FlushCheck
UartNotifiers == \E n \in {"out", "in", "cts"} : Notify(n)
UartHardware == ByteArrives \/ ByteLeaves \/ TermInput

UartNext ==
  \/ UartServerStep
  \/ \E c \in UClients : ke_getc(c) \/ ke_putc(c) \/ ke_puts(c)
  \/ UartNotifiers
  \/ UartHardware

\* The server and its notifiers are the most urgent tasks, and the hardware
\* sends what its FIFO holds.  Nothing promises that input arrives.
UartFairness ==
  /\ WF_uartvars(UartServerStep)
  /\ \A n \in {"out", "in", "cts"} : WF_uartvars(Notify(n))
  /\ WF_uartvars(ByteLeaves)

UartSpec == UartInit /\ [][UartNext]_uartvars /\ UartFairness

-----------------------------------------------------------------------------
(* Properties                                                              *)

\* The message of notifier n is under way, or it awaits its event.
Coming(n) == st.notif[n] \in {"sent", "await"}

\* No wake-up is lost: while the server waits for messages, requests that wait
\* for input have the input notifier armed, terminal output that waits for
\* room has the output notifier armed, and so does a Marklin string in
\* OS_WAIT_TX; in OS_WAIT_CTS a CTS message is coming, and the server is not
\* ready while a string waits (uart_flush_input, uart_flush_output).  Therefore
\* no assertion fails: the Marklin server is told of room only while it waits for
\* it, or once, by the notifier's first message.  "Because of CTS, can only flush
\* one byte at a time": between two CTS messages at most one byte is written.
WaitersHaveNotifier ==
  /\ ~st.fault /\ st.written <= 1
  /\ st.at = "recv" =>
    /\ st.input_wqueue # <<>> => Coming("in")
    /\ st.output_buf > 0 => Coming("out")
    /\ st.output_status = "OS_WAIT_TX" => Coming("out")
    /\ st.output_status = "OS_WAIT_CTS" => Coming("cts")
    /\ st.output_wqueue # <<>> => st.output_status # "OS_READY"

\* Every write is answered: by the terminal server always, by the Marklin
\* server if it always comes back to MSG_RECV.  That is a condition, for with a
\* getc waiting uart_flush_input goes round for as long as the terminal's input
\* stays unread.
PutsAnswered ==
  (chan = "term" \/ []<>(st.at = "recv")) =>
    \A c \in UClients : st.client[c] = "puts" ~> st.client[c] = "idle"

\* Every getc is answered if there is input again and again: also when the notifier's
\* message, the bytes and the request cross each other.
GetcAnswered ==
  []<>(st.rx > 0) =>
    \A c \in UClients : st.client[c] = "getc" ~> st.client[c] = "idle"
=============================================================================
