---------------------------- MODULE ProgramProofs ----------------------------
(***************************************************************************)
(* Proofs about the programs of user/ and the driver of the SPI serial     *)
(* ports: each is proved by itself, as each runs by itself.                *)
(***************************************************************************)
EXTENDS Rps, LegacyUart, SpiUart, LegacyClock, SequenceTheorems, FiniteSetTheorems, TLAPS

-----------------------------------------------------------------------------
(* Numbers.                                                                *)

\* The least and the greatest of two numbers.
LEMMA MinMax ==
  ASSUME NEW a \in Int, NEW b \in Int
  PROVE  /\ Min({a, b}) = IF a <= b THEN a ELSE b
         /\ Max({a, b}) = IF a <= b THEN b ELSE a
<1>1. Min({a, b}) \in {a, b} /\ \A y \in {a, b} : Min({a, b}) <= y
  <2>1. \E x \in {a, b} : \A y \in {a, b} : x <= y
    OBVIOUS
  <2>2. QED BY <2>1 DEF Min
<1>2. Max({a, b}) \in {a, b} /\ \A y \in {a, b} : Max({a, b}) >= y
  <2>1. \E x \in {a, b} : \A y \in {a, b} : x >= y
    OBVIOUS
  <2>2. QED BY <2>1 DEF Max
<1>3. QED BY <1>1, <1>2

-----------------------------------------------------------------------------
(* lib/libbase/rpi_gpio.c: strings for the SPI serial ports.               *)

SpiStates ==
  [call : {"puts", "puts_ntm"}, blen : 0..MaxString, at : {"level", "send", "done"},
   tlen : 0..TempCap, bidx : 0..MaxString, fifo : 0..SpiFifoCap, sent : 0..MaxString,
   lost : {0}, full : BOOLEAN, room : Nat]

\* Nothing is lost, and the room a transfer was cut to is still there when it is
\* made, for the port only empties its FIFO; without a full FIFO a transfer has
\* room for a byte at least.
SpiInv ==
  /\ spi \in SpiStates
  /\ spi.sent = spi.bidx /\ spi.bidx <= spi.blen
  /\ spi.bidx = IF spi.blen <= spi.room THEN spi.blen ELSE spi.room
  /\ spi.at = "send" => /\ spi.tlen <= SpiFifoCap - spi.fifo
                        /\ ~spi.full => spi.tlen >= 1
  /\ spi.call = "puts_ntm" /\ spi.full => spi.at # "level" /\ spi.tlen = 0
  /\ spi.at = "done" /\ (spi.call = "puts" \/ ~spi.full) => spi.bidx = spi.blen

\* A transfer carries what the header leaves room for, or the rest of the string.
LEMMA ChunkFits ==
  ASSUME SpiInv, spi.at = "send"
  PROVE  LET n == ChunkLen
         IN  /\ n \in Nat /\ n <= spi.blen - spi.bidx
             /\ Min({n, SpiFifoCap - spi.fifo}) = n
             /\ spi.tlen = 0 => n = 0
             /\ spi.tlen >= 1 => n = IF spi.tlen - 1 <= spi.blen - spi.bidx THEN spi.tlen - 1
                                     ELSE spi.blen - spi.bidx
<1> DEFINE t == spi.tlen - 1  r == spi.blen - spi.bidx  m == SpiFifoCap - spi.fifo
<1>1. t \in Int /\ t >= -1 /\ r \in Nat /\ m \in Nat /\ t + 1 <= m
  BY SpiAssumption DEF SpiInv, SpiStates
<1>2. /\ ChunkLen = Max({0, Min({t, r})}) /\ (spi.tlen >= 1 => t >= 0)
      /\ (spi.tlen = 0 => t = -1)
  BY <1>1 DEF ChunkLen, SpiInv, SpiStates
<1> HIDE DEF t, r, m
<1> DEFINE k == IF t <= r THEN t ELSE r
<1>3. ChunkLen = IF 0 <= k THEN k ELSE 0
  <2>1. Min({t, r}) = k /\ k \in Int
    BY <1>1, MinMax
  <2> HIDE DEF k
  <2>2. QED BY <1>2, <2>1, MinMax
<1> DEFINE n == ChunkLen
<1>4. n \in Nat /\ n <= r /\ n <= m /\ (t >= 0 => n = k) /\ (t = -1 => n = 0)
  BY <1>1, <1>3
<1> HIDE DEF n
<1>5. Min({n, m}) = n
  BY <1>1, <1>4, MinMax
<1>6. QED BY <1>2, <1>4, <1>5 DEF t, r, m, n

\* The calls write what their transfers have room for and overrun no FIFO.
\* spi_uart_puts returns with the whole string written, spi_uart_puts_ntm with that
\* or with what it had written when it first met a full FIFO.
THEOREM StringTheorem == SpiSpec => []StringWritten
<1>0. SpiFifoCap \in Nat \ {0} /\ TempCap \in Nat \ {0} /\ MaxString \in Nat
  BY SpiAssumption
<1>1. SpiInit => SpiInv
  <2> SUFFICES ASSUME SpiInit
               PROVE  SpiInv
    OBVIOUS
  <2>1. PICK f \in {"puts", "puts_ntm"}, n \in 0 .. MaxString, used \in 0 .. SpiFifoCap :
          spi = [call |-> f, blen |-> n, at |-> "level", tlen |-> 0, bidx |-> 0,
                 fifo |-> used, sent |-> 0, lost |-> 0, full |-> FALSE, room |-> 0]
    BY DEF SpiInit
  <2>2. QED BY <1>0, <2>1 DEF SpiInv, SpiStates
<1>2. SpiInv /\ [SpiNext]_spivars => SpiInv'
  <2> SUFFICES ASSUME SpiInv, [SpiNext]_spivars
               PROVE  SpiInv'
    OBVIOUS
  <2>1. spi \in SpiStates /\ spi.fifo \in 0..SpiFifoCap
    BY DEF SpiInv, SpiStates
  <2>2. CASE ReadLevel
    <3> DEFINE room == SpiFifoCap - spi.fifo  m == Min({room, TempCap})
               f == spi.full \/ spi.fifo = SpiFifoCap
    <3>1. spi.at = "level" /\ spi' = [spi EXCEPT !.at = "send", !.tlen = m, !.full = f]
      BY <2>2 DEF ReadLevel
    <3>2. /\ m \in 0..TempCap /\ m <= room /\ f \in BOOLEAN
          /\ ~f => m >= 1
          /\ spi.call = "puts_ntm" /\ f => m = 0
      <4>1. /\ room \in Nat /\ (~f => room >= 1)
            /\ spi.call = "puts_ntm" /\ f => room = 0
        BY <1>0, <2>1, <3>1 DEF SpiInv
      <4>2. f \in BOOLEAN
        OBVIOUS
      <4> HIDE DEF room, f
      <4>3. m = IF room <= TempCap THEN room ELSE TempCap
        BY <1>0, <4>1, MinMax
      <4>4. QED BY <1>0, <4>1, <4>2, <4>3
    <3> HIDE DEF m, f
    <3>3. QED BY <2>1, <3>1, <3>2 DEF SpiInv, SpiStates
  <2>3. CASE spi_send_recv
    <3> DEFINE n == ChunkLen  b == MoreToSend(n)  k == Max({0, spi.tlen - 1})
    <3>1. spi.at = "send"
      BY <2>3 DEF spi_send_recv
    <3>2. /\ n \in Nat /\ n <= spi.blen - spi.bidx /\ Min({n, SpiFifoCap - spi.fifo}) = n
          /\ spi.tlen = 0 => n = 0
          /\ spi.tlen >= 1 => n = IF spi.tlen - 1 <= spi.blen - spi.bidx THEN spi.tlen - 1
                                     ELSE spi.blen - spi.bidx
      BY <3>1, ChunkFits
    <3>3. spi' = [spi EXCEPT !.bidx = @ + n, !.fifo = @ + n, !.sent = @ + n, !.lost = @ + n - n,
                             !.room = @ + k, !.at = IF b THEN "level" ELSE "done"]
      BY <2>3, <3>2 DEF spi_send_recv
    <3>4. n <= SpiFifoCap - spi.fifo
      BY <1>0, <2>1, <3>2, MinMax
    <3>5. ~b /\ (spi.call = "puts" \/ ~spi.full) => spi.bidx + n = spi.blen
      <4>1. CASE spi.call = "puts"
        BY <4>1 DEF MoreToSend
      <4>2. CASE spi.call # "puts" /\ ~spi.full /\ ~b
        <5>1. spi.tlen >= 1 /\ 1 + n # spi.tlen
          BY <3>1, <4>2 DEF MoreToSend, SpiInv
        <5>2. n = spi.blen - spi.bidx
          BY <2>1, <3>2, <5>1 DEF SpiStates
        <5>3. QED BY <2>1, <5>2 DEF SpiStates
      <4>3. QED BY <4>1, <4>2
    <3>8. spi.call = "puts_ntm" /\ spi.full => ~b
      BY <3>1, <3>2 DEF MoreToSend, SpiInv
    <3>9. k = IF spi.tlen = 0 THEN 0 ELSE spi.tlen - 1
      <4>1. spi.tlen \in Nat
        BY <1>0, <2>1 DEF SpiStates
      <4> DEFINE z == spi.tlen - 1
      <4>2. z \in Int /\ k = Max({0, z})
        BY <4>1
      <4> HIDE DEF z, k
      <4>3. k = IF 0 <= z THEN z ELSE 0
        BY <4>2, MinMax
      <4>4. QED BY <4>1, <4>3 DEF z
    <3> HIDE DEF n, b, k
    <3>10. /\ spi.room + k \in Nat
           /\ spi.bidx + n = IF spi.blen <= spi.room + k THEN spi.blen ELSE spi.room + k
      BY <1>0, <2>1, <3>2, <3>9 DEF SpiInv, SpiStates
    <3>6. /\ spi.bidx + n \in 0..MaxString /\ spi.fifo + n \in 0..SpiFifoCap
          /\ spi.bidx + n <= spi.blen /\ spi.sent + n = spi.bidx + n /\ spi.lost + n - n = 0
      BY <1>0, <2>1, <3>2, <3>4 DEF SpiInv, SpiStates
    <3>7. QED BY <2>1, <3>1, <3>3, <3>5, <3>6, <3>8, <3>10 DEF SpiInv, SpiStates
  <2>4. CASE SpiDrain
    <3>1. spi.fifo > 0 /\ spi' = [spi EXCEPT !.fifo = @ - 1]
      BY <2>4 DEF SpiDrain
    <3>2. spi.fifo - 1 \in 0..SpiFifoCap /\ SpiFifoCap - (spi.fifo - 1) >= SpiFifoCap - spi.fifo
      BY <1>0, <2>1, <3>1
    <3>3. spi.tlen \in Int /\ spi.fifo \in Int /\ SpiFifoCap \in Int
      BY <1>0, <2>1 DEF SpiStates
    <3>4. QED BY <2>1, <3>1, <3>2, <3>3 DEF SpiInv, SpiStates
  <2>5. CASE UNCHANGED spivars
    BY <2>5 DEF spivars, SpiInv
  <2>6. QED BY <2>2, <2>3, <2>4, <2>5 DEF SpiNext
<1>3. SpiInv => StringWritten
  <2> SUFFICES ASSUME SpiInv PROVE StringWritten
    OBVIOUS
  <2>1. spi.blen \in Int /\ spi.room \in Int /\ spi.sent \in Int
    BY <1>0 DEF SpiInv, SpiStates
  <2>2. spi.sent = Min({spi.blen, spi.room})
    BY <2>1, MinMax DEF SpiInv
  <2>3. QED BY <2>2 DEF SpiInv, SpiStates, StringWritten
<1>4. QED BY <1>1, <1>2, <1>3, PTL DEF SpiSpec
-----------------------------------------------------------------------------
(* user/src/uart: the C serial port servers.                               *)

Notifiers == {"out", "in", "cts"}

UartFields ==
  {"at", "inited", "input_buf", "input_wqueue", "output_buf", "output_wqueue", "output_status",
   "first", "fault", "written", "rx", "tx", "term", "notif", "client"}

\* What a request says, and what a notifier says: its own name.
UartMessages ==
  {m \in [tid : UClients \cup Notifiers, kind : {"getc", "puts"} \cup Notifiers,
          len : PutLens \cup {0, 1}, blocking : BOOLEAN] :
     IF m.tid \in Notifiers THEN m.kind = m.tid ELSE m.kind \in {"getc", "puts"}}

\* The record of a server that serves: its channel's notifiers have all been
\* started.  A server of the terminal never waits for the track; the Marklin
\* server keeps at most one byte between two CTS messages, and its output
\* notifier is armed in OS_WAIT_TX only, but for its first message.
RecordSound(s) ==
  /\ DOMAIN s = UartFields
  /\ s.notif \in [Notifiers -> {"param", "sent", "reply", "await"}]
  /\ s.at \in {"init", "recv", "check"} /\ s.first \in BOOLEAN
  /\ s.fault = FALSE
  /\ chan = "term" =>
       /\ s.output_status = "OS_READY" /\ s.output_wqueue = <<>> /\ s.written = 0
       /\ s.notif["cts"] = "param"
       /\ s.output_buf > 0 => s.notif["out"] \in {"sent", "await"}
  /\ chan = "marklin" =>
       /\ s.output_status \in {"OS_READY", "OS_WAIT_TX", "OS_WAIT_CTS"}
       /\ ~(s.output_buf > 0)
       /\ s.written \in {0, 1} /\ (s.output_status # "OS_WAIT_CTS" => s.written = 0)
       /\ s.output_status = "OS_READY" => s.output_wqueue = <<>>
       /\ s.first => s.output_status = "OS_READY" /\ s.notif["out"] \in {"param", "sent"}
       /\ ~s.first => IF s.output_status = "OS_WAIT_TX" THEN s.notif["out"] \in {"sent", "await"}
                      ELSE s.notif["out"] = "reply"
       /\ s.at # "init" => s.notif["cts"] \in {"sent", "await"}

\* uart_server_init_notifiers starts them one after the other.
StartedInOrder(s) ==
  IF s.at = "init"
    THEN /\ s.inited \in 0 .. Len(NotifiersOf(chan)) - 1
         /\ \A k \in 1 .. Len(NotifiersOf(chan)) :
              s.notif[NotifiersOf(chan)[k]] = IF k <= s.inited THEN "sent" ELSE "param"
         /\ s.output_status = "OS_READY" /\ s.output_wqueue = <<>> /\ ~(s.output_buf > 0) /\ s.first
         /\ s.written = 0
    ELSE \A k \in 1 .. Len(NotifiersOf(chan)) : s.notif[NotifiersOf(chan)[k]] # "param"

\* A request that waits for input has its notifier armed.
InputArmed(s) ==
  s.at = "recv" /\ s.input_wqueue # <<>> => s.notif["in"] \in {"sent", "await"}

\* A message from a notifier is its only one, and the notifier waits in Send.
MailFromSent(s, box) ==
  \A i \in 1 .. Len(box) : box[i].tid \in Notifiers =>
    /\ s.notif[box[i].tid] = "sent"
    /\ \A j \in 1 .. Len(box) : box[j].tid = box[i].tid => j = i

\* The Marklin server reads its output notifier's first message before anything.
FirstIsOut(s, box) ==
  chan = "marklin" /\ s.first =>
    /\ s.at # "check"
    /\ IF s.at = "init" /\ s.inited = 0 THEN box = <<>> ELSE box # <<>> /\ box[1].tid = "out"

UartInv ==
  /\ chan \in {"term", "marklin"}
  /\ mbox \in Seq(UartMessages)
  /\ RecordSound(st) /\ StartedInOrder(st) /\ InputArmed(st)
  /\ MailFromSent(st, mbox) /\ FirstIsOut(st, mbox)

\* t differs from s in the fields F only.
DiffersIn(F, s, t) == DOMAIN t = DOMAIN s /\ \A f \in DOMAIN s \ F : t[f] = s[f]

\* uart_flush_input changes the input side only, and has answered every request
\* when it goes back to MSG_RECV.
LEMMA FlushRoundKeeps ==
  ASSUME NEW s, DOMAIN s = UartFields
  PROVE  /\ DiffersIn({"rx", "input_buf", "input_wqueue", "at", "client"}, s, FlushRound(s))
         /\ FlushRound(s).at \in {"recv", "check"}
         /\ FlushRound(s).at = "recv" => FlushRound(s).input_wqueue = <<>>
BY DEF FlushRound, Answer, DiffersIn, UartFields

\* uart_flush_output of the terminal arms the output notifier for what is left.
LEMMA TermFlushArms ==
  ASSUME NEW s, DOMAIN s = UartFields, s.notif \in [Notifiers -> {"param", "sent", "reply", "await"}]
  PROVE  LET t == TermFlush(s)
         IN  /\ DiffersIn({"tx", "output_buf", "notif"}, s, t)
             /\ t.notif = s.notif \/ t.notif = [s.notif EXCEPT !["out"] = IF @ = "reply" THEN "await" ELSE @]
             /\ t.output_buf > 0 => t.notif["out"] # "reply"
BY DEF TermFlush, Arm, DiffersIn, UartFields, Notifiers

\* uart_flush_output of Marklin, ready: it writes a byte and waits for CTS, or
\* waits for room with its notifier armed, or has nothing to write.
LEMMA MarklinFlushWaits ==
  ASSUME NEW s, DOMAIN s = UartFields, s.notif \in [Notifiers -> {"param", "sent", "reply", "await"}],
         s.output_status = "OS_READY", s.written = 0, s.notif["out"] = "reply"
  PROVE  LET t == MarklinFlush(s)
         IN  /\ DiffersIn({"tx", "written", "output_wqueue", "output_status", "notif", "client"}, s, t)
             /\ t.output_status = "OS_READY" => t = s /\ s.output_wqueue = <<>>
             /\ t.output_status \in {"OS_READY", "OS_WAIT_TX", "OS_WAIT_CTS"}
             /\ t.written = IF t.output_status = "OS_WAIT_CTS" THEN 1 ELSE 0
             /\ t.notif = IF t.output_status = "OS_WAIT_TX" THEN [s.notif EXCEPT !["out"] = "await"]
                          ELSE s.notif
<1>1. CASE s.output_wqueue = <<>>
  BY <1>1 DEF MarklinFlush, DiffersIn
<1>2. CASE s.output_wqueue # <<>> /\ s.tx = FifoCap
  BY <1>2 DEF MarklinFlush, Arm, DiffersIn, UartFields, Notifiers
<1>3. CASE s.output_wqueue # <<>> /\ s.tx # FifoCap
  <2> DEFINE q == s.output_wqueue  elem == Head(q)  t == MarklinWrite(s)
  <2>1. MarklinFlush(s) = t
    BY <1>3 DEF MarklinFlush
  <2>2. /\ DiffersIn({"tx", "written", "output_wqueue", "output_status", "client"}, s, t)
        /\ t.output_status = "OS_WAIT_CTS" /\ t.written = s.written + 1
    BY DEF MarklinWrite, Answer, DiffersIn, UartFields
  <2> HIDE DEF t
  <2>3. QED BY <2>1, <2>2 DEF DiffersIn, UartFields
<1>4. QED BY <1>1, <1>2, <1>3
\* A handler only sends notifiers off to await their events.
Armed(f, g) ==
  /\ g \in [Notifiers -> {"param", "sent", "reply", "await"}]
  /\ \A n \in Notifiers : g[n] = f[n] \/ (f[n] = "reply" /\ g[n] = "await")

\* Steps of the input side and answers to clients leave the record sound.
LEMMA InputSideSound ==
  ASSUME NEW s, NEW t, RecordSound(s), s.at # "init", t.at \in {"recv", "check"},
         DiffersIn({"rx", "tx", "term", "input_buf", "input_wqueue", "at", "client"}, s, t)
  PROVE  RecordSound(t) /\ t.notif = s.notif /\ t.first = s.first
BY DEF RecordSound, DiffersIn, UartFields

\* uart_flush_input keeps the record sound, whatever it finds in the FIFO.
LEMMA FlushRoundSound ==
  ASSUME NEW s, RecordSound(s), s.at # "init"
  PROVE  LET t == FlushRound(s)
         IN  /\ RecordSound(t) /\ InputArmed(t) /\ t.at # "init"
             /\ t.notif = s.notif /\ t.first = s.first
<1> DEFINE t == FlushRound(s)
<1>1. DOMAIN s = UartFields
  BY DEF RecordSound
<1>2. /\ DiffersIn({"rx", "input_buf", "input_wqueue", "at", "client"}, s, t)
      /\ t.at \in {"recv", "check"} /\ (t.at = "recv" => t.input_wqueue = <<>>)
  BY <1>1, FlushRoundKeeps
<1> HIDE DEF t
<1>3. DiffersIn({"rx", "tx", "term", "input_buf", "input_wqueue", "at", "client"}, s, t)
  BY <1>2 DEF DiffersIn
<1>4. RecordSound(t) /\ t.notif = s.notif /\ t.first = s.first
  BY <1>2, <1>3, InputSideSound
<1>5. InputArmed(t)
  BY <1>2 DEF InputArmed
<1>6. QED BY <1>2, <1>4, <1>5 DEF t

\* MSG_RECV: the message is the head of the mailbox, and a notifier that sent it
\* is reply-blocked now and has no other message there.
LEMMA ReceivedMessage ==
  ASSUME UartInv, st.at = "recv", mbox # <<>>
  PROVE  LET m == Head(mbox)
             s == Received(m)
         IN  /\ m \in UartMessages /\ Tail(mbox) \in Seq(UartMessages)
             /\ IF m.tid \in UClients THEN s = st
                ELSE /\ m.tid \in Notifiers /\ st.notif[m.tid] = "sent"
                     /\ s = [st EXCEPT !.notif = [st.notif EXCEPT ![m.tid] = "reply"]]
             /\ MailFromSent(s, Tail(mbox))
<1> DEFINE m == Head(mbox)  s == Received(m)  box == Tail(mbox)
<1>1. /\ m = mbox[1] /\ m \in UartMessages /\ box \in Seq(UartMessages)
      /\ Len(mbox) \in Nat \ {0} /\ Len(box) = Len(mbox) - 1
      /\ \A i \in 1 .. Len(box) : box[i] = mbox[i + 1]
  BY HeadTailProperties, ElementOfSeq DEF UartInv
<1>2. m.tid \in UClients \cup Notifiers /\ UClients \cap Notifiers = {}
  BY <1>1, LegacyUartAssumption DEF UartMessages, Notifiers
<1>3. DOMAIN st = UartFields /\ st.notif \in [Notifiers -> {"param", "sent", "reply", "await"}]
  BY DEF UartInv, RecordSound
<1>4. m.tid \notin UClients => m.tid \in Notifiers /\ st.notif[m.tid] = "sent"
  BY <1>1, <1>2 DEF UartInv, MailFromSent
<1>5. IF m.tid \in UClients THEN s = st ELSE s = [st EXCEPT !.notif = [st.notif EXCEPT ![m.tid] = "reply"]]
  BY DEF Received
<1>6. \A n \in Notifiers : n # m.tid => s.notif[n] = st.notif[n]
  BY <1>3, <1>5 DEF UartFields
<1> HIDE DEF m, s, box
<1>7. MailFromSent(s, box)
  <2> SUFFICES ASSUME NEW i \in 1 .. Len(box), box[i].tid \in Notifiers
               PROVE  /\ s.notif[box[i].tid] = "sent"
                      /\ \A j \in 1 .. Len(box) : box[j].tid = box[i].tid => j = i
    BY DEF MailFromSent
  <2>1. /\ st.notif[box[i].tid] = "sent"
        /\ \A j \in 1 .. Len(mbox) : mbox[j].tid = box[i].tid => j = i + 1
    BY <1>1 DEF UartInv, MailFromSent
  <2>2. box[i].tid # m.tid
    BY <1>1, <2>1
  <2>3. s.notif[box[i].tid] = "sent"
    BY <1>6, <2>1, <2>2
  <2>4. ASSUME NEW j \in 1 .. Len(box), box[j].tid = box[i].tid
        PROVE  j = i
    <3>1. j + 1 \in 1 .. Len(mbox) /\ mbox[j + 1].tid = box[i].tid
      BY <1>1, <2>4
    <3>2. j + 1 = i + 1
      BY <2>1, <3>1
    <3>3. QED BY <1>1, <3>2
  <2>5. QED BY <2>3, <2>4
<1>8. QED BY <1>1, <1>4, <1>5, <1>7 DEF m, s, box
\* One round of the loop of uart_server_main: after every handler the record is
\* sound, nobody waits for input without a notifier, and no notifier that waits
\* for anything else has been touched.
LEMMA ServeSound ==
  ASSUME UartInv, st.at = "recv", mbox # <<>>
  PROVE  LET m == Head(mbox)
             t == Serve(m)
         IN  /\ RecordSound(t) /\ t.at # "init" /\ InputArmed(t)
             /\ Armed(Received(m).notif, t.notif)
             /\ chan = "marklin" => ~t.first
<1> DEFINE m == Head(mbox)  s == Received(m)  t == Serve(m)
<1> SUFFICES /\ RecordSound(t) /\ t.at # "init" /\ InputArmed(t)
             /\ Armed(s.notif, t.notif)
             /\ chan = "marklin" => ~t.first
  OBVIOUS
<1>1. /\ m \in UartMessages
      /\ IF m.tid \in UClients THEN s = st
         ELSE /\ m.tid \in Notifiers /\ st.notif[m.tid] = "sent"
              /\ s = [st EXCEPT !.notif = [st.notif EXCEPT ![m.tid] = "reply"]]
  BY ReceivedMessage
<1>2. /\ chan \in {"term", "marklin"} /\ RecordSound(st) /\ InputArmed(st)
      /\ DOMAIN st = UartFields /\ st.notif \in [Notifiers -> {"param", "sent", "reply", "await"}]
  BY DEF UartInv, RecordSound
<1>3. /\ m.kind \in {"getc", "puts"} => m.tid \in UClients /\ s = st
      /\ m.kind \in Notifiers => /\ m.tid = m.kind /\ st.notif[m.tid] = "sent"
                                 /\ s = [st EXCEPT !.notif = [st.notif EXCEPT ![m.tid] = "reply"]]
      /\ m.kind \in {"getc", "puts", "out", "in", "cts"}
  BY <1>1, LegacyUartAssumption DEF UartMessages, Notifiers
<1>4. chan = "marklin" /\ st.first => m.kind = "out"
  <2>1. chan = "marklin" /\ st.first => mbox[1].tid = "out"
    BY DEF UartInv, FirstIsOut
  <2>2. m = mbox[1]
    OBVIOUS
  <2>3. QED BY <1>1, <2>1, <2>2 DEF UartMessages, Notifiers
<1> HIDE DEF m
<1>5. /\ DOMAIN s = UartFields /\ s.at = "recv" /\ DiffersIn({"notif"}, st, s)
      /\ s.notif \in [Notifiers -> {"param", "sent", "reply", "await"}]
      /\ Armed(s.notif, s.notif)
  BY <1>1, <1>2 DEF UartFields, DiffersIn, Armed
<1>6. CASE m.kind = "getc"
  <2>1. s = st /\ t = ServeGetc(st, m) /\ (chan = "marklin" => ~st.first)
    BY <1>3, <1>4, <1>6 DEF Serve
  <2>2. CASE Len(st.input_wqueue) = WaitCap
    <3>1. t = Answer(st, {m.tid})
      BY <2>1, <2>2 DEF ServeGetc
    <3>2. /\ DiffersIn({"rx", "tx", "term", "input_buf", "input_wqueue", "at", "client"}, st, t)
          /\ t.at = "recv" /\ t.input_wqueue = st.input_wqueue
      BY <1>2, <3>1 DEF Answer, DiffersIn, UartFields
    <3> HIDE DEF t
    <3>3. RecordSound(t) /\ t.notif = st.notif /\ t.first = st.first
      BY <1>2, <3>2, InputSideSound
    <3>4. QED BY <1>2, <1>5, <2>1, <3>2, <3>3 DEF InputArmed
  <2>3. CASE Len(st.input_wqueue) # WaitCap
    <3> DEFINE r == [st EXCEPT !.input_wqueue = Append(@, m.tid)]
    <3>1. t = FlushRound(r)
      BY <2>1, <2>3 DEF ServeGetc
    <3>2. /\ DiffersIn({"rx", "tx", "term", "input_buf", "input_wqueue", "at", "client"}, st, r)
          /\ r.at = "recv"
      BY <1>2 DEF DiffersIn, UartFields
    <3> HIDE DEF t, r
    <3>3. RecordSound(r) /\ r.notif = st.notif /\ r.first = st.first
      BY <1>2, <3>2, InputSideSound
    <3>4. QED BY <1>5, <2>1, <3>1, <3>2, <3>3, FlushRoundSound
  <2>4. QED BY <2>2, <2>3
<1>7. CASE m.kind = "in"
  <2>1. /\ s = [st EXCEPT !.notif = [st.notif EXCEPT !["in"] = "reply"]] /\ t = FlushRound(s)
        /\ chan = "marklin" => ~st.first
    BY <1>3, <1>4, <1>7 DEF Serve, Notifiers
  <2>2. RecordSound(s) /\ s.first = st.first
    BY <1>2, <1>5, <2>1 DEF RecordSound, UartFields, Notifiers
  <2> HIDE DEF s, t
  <2>3. QED BY <1>5, <2>1, <2>2, FlushRoundSound
<1>8. CASE m.kind = "puts" /\ chan = "term"
  <2>1. s = st /\ t = TermPuts(st, m)
    BY <1>3, <1>8 DEF Serve
  <2>2. CASE OutputBufCap - st.output_buf < m.len
    <3>1. t = Answer(st, {m.tid})
      BY <2>1, <2>2 DEF TermPuts
    <3>2. /\ DiffersIn({"rx", "tx", "term", "input_buf", "input_wqueue", "at", "client"}, st, t)
          /\ t.at = "recv" /\ t.input_wqueue = st.input_wqueue
      BY <1>2, <3>1 DEF Answer, DiffersIn, UartFields
    <3> HIDE DEF t
    <3>3. RecordSound(t) /\ t.notif = st.notif /\ t.first = st.first
      BY <1>2, <3>2, InputSideSound
    <3>4. QED BY <1>2, <1>5, <1>8, <2>1, <3>2, <3>3 DEF InputArmed
  <2>3. CASE ~(OutputBufCap - st.output_buf < m.len)
    <3> DEFINE r == Answer([st EXCEPT !.output_buf = @ + m.len], {m.tid})
    <3>1. t = TermFlush(r)
      BY <2>1, <2>3 DEF TermPuts
    <3>2. DiffersIn({"output_buf", "client"}, st, r)
      BY <1>2 DEF Answer, DiffersIn, UartFields
    <3> HIDE DEF t, r
    <3>3. /\ DOMAIN r = UartFields /\ r.notif = st.notif /\ r.at = "recv"
          /\ r.input_wqueue = st.input_wqueue
      BY <1>2, <3>2 DEF DiffersIn, UartFields
    <3>4. /\ DiffersIn({"tx", "output_buf", "notif"}, r, t)
          /\ t.notif = r.notif \/ t.notif = [r.notif EXCEPT !["out"] = IF @ = "reply" THEN "await" ELSE @]
          /\ t.output_buf > 0 => t.notif["out"] # "reply"
      BY <1>2, <3>1, <3>3, TermFlushArms
    <3>5. /\ DiffersIn({"tx", "output_buf", "notif", "client"}, st, t)
          /\ Armed(st.notif, t.notif)
      BY <1>2, <3>2, <3>3, <3>4 DEF DiffersIn, UartFields, Armed, Notifiers
    <3>6. st.notif["out"] # "param" /\ t.notif["cts"] = st.notif["cts"]
      <4>1. st.notif[NotifiersOf("term")[1]] # "param"
        BY <1>8 DEF UartInv, StartedInOrder, NotifiersOf
      <4>2. QED BY <1>2, <3>3, <3>4, <4>1 DEF NotifiersOf, Notifiers
    <3>7. RecordSound(t)
      BY <1>2, <1>8, <3>4, <3>5, <3>6 DEF RecordSound, DiffersIn, UartFields, Armed, Notifiers
    <3>8. t.at = "recv" /\ InputArmed(t)
      BY <1>2, <3>5 DEF DiffersIn, UartFields, Armed, Notifiers, InputArmed
    <3>9. QED BY <1>8, <2>1, <3>5, <3>7, <3>8
  <2>4. QED BY <2>2, <2>3
<1>9. CASE m.kind = "out" /\ chan = "term"
  <2>1. s = [st EXCEPT !.notif = [st.notif EXCEPT !["out"] = "reply"]] /\ t = TermFlush(s)
    BY <1>3, <1>9 DEF Serve, Notifiers
  <2> HIDE DEF s, t
  <2>2. /\ DiffersIn({"tx", "output_buf", "notif"}, s, t)
        /\ t.notif = s.notif \/ t.notif = [s.notif EXCEPT !["out"] = IF @ = "reply" THEN "await" ELSE @]
        /\ t.output_buf > 0 => t.notif["out"] # "reply"
    BY <1>5, <2>1, TermFlushArms
  <2>3. /\ DiffersIn({"tx", "output_buf", "notif"}, st, t)
        /\ Armed(s.notif, t.notif)
        /\ t.notif["out"] \in {"reply", "await"} /\ t.notif["cts"] = st.notif["cts"]
        /\ t.notif["in"] = st.notif["in"]
    BY <1>2, <1>5, <2>1, <2>2 DEF DiffersIn, UartFields, Armed, Notifiers
  <2>4. RecordSound(t)
    BY <1>2, <1>9, <2>2, <2>3 DEF RecordSound, DiffersIn, UartFields, Armed
  <2>5. t.at = "recv" /\ InputArmed(t)
    BY <1>2, <2>3 DEF DiffersIn, UartFields, InputArmed
  <2>6. QED BY <1>9, <2>3, <2>4, <2>5
<1>10. CASE m.kind = "puts" /\ chan = "marklin"
  <2>1. s = st /\ t = MarklinPuts(st, m) /\ ~st.first
    BY <1>3, <1>4, <1>10, <1>2 DEF Serve, RecordSound
  <2>2. CASE m.len = 0 \/ Len(st.output_wqueue) = WaitCap
    <3>1. t = Answer(st, {m.tid})
      BY <2>1, <2>2 DEF MarklinPuts
    <3>2. /\ DiffersIn({"rx", "tx", "term", "input_buf", "input_wqueue", "at", "client"}, st, t)
          /\ t.at = "recv" /\ t.input_wqueue = st.input_wqueue
      BY <1>2, <3>1 DEF Answer, DiffersIn, UartFields
    <3> HIDE DEF t
    <3>3. RecordSound(t) /\ t.notif = st.notif /\ t.first = st.first
      BY <1>2, <3>2, InputSideSound
    <3>4. QED BY <1>2, <1>5, <2>1, <3>2, <3>3 DEF InputArmed
  <2>3. CASE ~(m.len = 0 \/ Len(st.output_wqueue) = WaitCap)
    <3> DEFINE e == [tid |-> m.tid, progress |-> 0, len |-> m.len, blocking |-> m.blocking]
               r == Answer([st EXCEPT !.output_wqueue = Append(@, e)],
                           IF m.blocking THEN {} ELSE {m.tid})
    <3>1. t = MarklinFlush(r)
      BY <2>1, <2>3 DEF MarklinPuts
    <3>2. DiffersIn({"output_wqueue", "client"}, st, r)
      BY <1>2 DEF Answer, DiffersIn, UartFields
    <3> HIDE DEF t, r
    <3>3. /\ DOMAIN r = UartFields /\ r.notif = st.notif /\ r.at = "recv"
          /\ r.output_status = st.output_status /\ r.written = st.written
      BY <1>2, <3>2 DEF DiffersIn, UartFields
    <3>4. CASE st.output_status # "OS_READY"
      <4>1. t = r
        BY <3>1, <3>3, <3>4 DEF MarklinFlush
      <4>2. RecordSound(t) /\ InputArmed(t) /\ ~t.first
        BY <1>2, <1>10, <2>1, <3>2, <3>4, <4>1 DEF RecordSound, DiffersIn, UartFields, InputArmed
      <4>3. QED BY <1>5, <2>1, <3>3, <4>1, <4>2
    <3>5. CASE st.output_status = "OS_READY"
      <4>1. st.notif["out"] = "reply" /\ st.written = 0
        BY <1>2, <1>10, <2>1, <3>5 DEF RecordSound
      <4>2. /\ DiffersIn({"tx", "written", "output_wqueue", "output_status", "notif", "client"}, r, t)
            /\ t.output_status = "OS_READY" => t = r /\ r.output_wqueue = <<>>
            /\ t.output_status \in {"OS_READY", "OS_WAIT_TX", "OS_WAIT_CTS"}
            /\ t.written = IF t.output_status = "OS_WAIT_CTS" THEN 1 ELSE 0
            /\ t.notif = IF t.output_status = "OS_WAIT_TX" THEN [st.notif EXCEPT !["out"] = "await"]
                         ELSE st.notif
        BY <1>2, <3>1, <3>3, <3>5, <4>1, MarklinFlushWaits
      <4>3. DiffersIn({"tx", "written", "output_wqueue", "output_status", "notif", "client"}, st, t)
        BY <3>2, <4>2 DEF DiffersIn
      <4>4. Armed(st.notif, t.notif) /\ t.notif["in"] = st.notif["in"] /\ t.notif["cts"] = st.notif["cts"]
        BY <1>2, <4>1, <4>2 DEF Armed, Notifiers
      <4>5. RecordSound(t)
        BY <1>2, <1>10, <2>1, <4>1, <4>2, <4>3, <4>4 DEF RecordSound, DiffersIn, UartFields, Notifiers
      <4>6. InputArmed(t) /\ t.at = "recv" /\ ~t.first
        BY <1>2, <2>1, <4>3, <4>4 DEF InputArmed, DiffersIn, UartFields
      <4>7. QED BY <2>1, <4>4, <4>5, <4>6
    <3>6. QED BY <3>4, <3>5
  <2>4. QED BY <2>2, <2>3
<1>11. CASE m.kind = "out" /\ chan = "marklin"
  <2>1. /\ s = [st EXCEPT !.notif = [st.notif EXCEPT !["out"] = "reply"]] /\ t = MarklinOutput(s)
        /\ st.notif["out"] = "sent"
    BY <1>3, <1>11 DEF Serve, Notifiers
  <2>2. s.output_status = st.output_status /\ s.first = st.first /\ s.written = st.written
    BY <1>2, <2>1 DEF UartFields
  <2>3. s.notif["out"] = "reply" /\ s.notif["in"] = st.notif["in"] /\ s.notif["cts"] = st.notif["cts"]
    BY <1>2, <2>1 DEF UartFields, Notifiers
  <2> HIDE DEF s, t
  <2>4. CASE st.output_status = "OS_WAIT_TX"
    <3> DEFINE r == [s EXCEPT !.output_status = "OS_READY"]
    <3>1. t = MarklinFlush(r) /\ ~st.first /\ st.written = 0
      BY <1>2, <1>11, <2>1, <2>2, <2>4 DEF MarklinOutput, RecordSound
    <3>2. DiffersIn({"output_status"}, s, r) /\ r.output_status = "OS_READY"
      BY <1>5 DEF DiffersIn, UartFields
    <3> HIDE DEF r
    <3>3. DOMAIN r = UartFields /\ r.notif = s.notif /\ r.written = 0
      BY <1>5, <2>2, <3>1, <3>2 DEF DiffersIn, UartFields
    <3>4. /\ DiffersIn({"tx", "written", "output_wqueue", "output_status", "notif", "client"}, r, t)
          /\ t.output_status = "OS_READY" => t = r /\ r.output_wqueue = <<>>
          /\ t.output_status \in {"OS_READY", "OS_WAIT_TX", "OS_WAIT_CTS"}
          /\ t.written = IF t.output_status = "OS_WAIT_CTS" THEN 1 ELSE 0
          /\ t.notif = IF t.output_status = "OS_WAIT_TX" THEN [s.notif EXCEPT !["out"] = "await"]
                       ELSE s.notif
      BY <1>5, <2>3, <3>1, <3>2, <3>3, MarklinFlushWaits
    <3>5. DiffersIn({"tx", "written", "output_wqueue", "output_status", "notif", "client"}, st, t)
      BY <1>5, <3>2, <3>4 DEF DiffersIn
    <3>6. /\ Armed(s.notif, t.notif) /\ t.notif["in"] = st.notif["in"] /\ t.notif["cts"] = st.notif["cts"]
          /\ t.notif["out"] = IF t.output_status = "OS_WAIT_TX" THEN "await" ELSE "reply"
      BY <1>5, <2>3, <3>4 DEF Armed, Notifiers
    <3>7. RecordSound(t)
      BY <1>2, <1>11, <3>1, <3>4, <3>5, <3>6 DEF RecordSound, DiffersIn, UartFields, Armed
    <3>8. InputArmed(t) /\ t.at = "recv" /\ ~t.first
      BY <1>2, <3>1, <3>5, <3>6 DEF InputArmed, DiffersIn, UartFields
    <3>9. QED BY <3>6, <3>7, <3>8
  <2>5. CASE st.output_status # "OS_WAIT_TX"
    <3>1. st.first /\ st.output_status = "OS_READY"
      BY <1>2, <1>11, <2>1, <2>5 DEF RecordSound
    <3>2. t = [s EXCEPT !.first = FALSE, !.fault = FALSE]
      BY <2>1, <2>2, <3>1 DEF MarklinOutput
    <3>3. /\ DiffersIn({"first", "fault", "notif"}, st, t) /\ t.notif = s.notif
          /\ t.first = FALSE /\ t.fault = FALSE
      BY <1>5, <3>2 DEF DiffersIn, UartFields
    <3>4. RecordSound(t)
      <4>1. /\ DOMAIN t = UartFields /\ t.at = st.at /\ t.output_status = "OS_READY"
            /\ t.output_wqueue = st.output_wqueue /\ t.output_buf = st.output_buf
            /\ t.written = st.written
        BY <1>2, <3>1, <3>3 DEF DiffersIn, UartFields
      <4>2. QED BY <1>2, <1>5, <1>11, <2>3, <3>1, <3>3, <4>1 DEF RecordSound
    <3>5. InputArmed(t) /\ t.at = "recv"
      BY <1>2, <2>3, <3>3 DEF InputArmed, DiffersIn, UartFields
    <3>6. QED BY <1>5, <3>3, <3>4, <3>5
  <2>6. QED BY <2>4, <2>5
<1>12. CASE m.kind = "cts"
  <2>1. chan = "marklin" /\ ~st.first
    BY <1>2, <1>3, <1>4, <1>12 DEF RecordSound, Notifiers
  <2>2. /\ s = [st EXCEPT !.notif = [st.notif EXCEPT !["cts"] = "reply"]] /\ t = MarklinCts(s)
    BY <1>3, <1>12 DEF Serve, Notifiers
  <2> DEFINE r == [Arm(s, "cts") EXCEPT !.written = 0]
  <2>3. /\ DiffersIn({"written", "notif"}, st, r) /\ r.written = 0
        /\ r.notif = [st.notif EXCEPT !["cts"] = "await"]
    BY <1>2, <2>2 DEF Arm, DiffersIn, UartFields, Notifiers
  <2>4. /\ DOMAIN r = UartFields /\ r.output_status = st.output_status
        /\ r.notif \in [Notifiers -> {"param", "sent", "reply", "await"}]
        /\ r.notif["in"] = st.notif["in"] /\ r.notif["out"] = st.notif["out"]
        /\ r.notif["cts"] = "await" /\ Armed(s.notif, r.notif)
    BY <1>2, <2>2, <2>3 DEF DiffersIn, UartFields, Notifiers, Armed
  <2>5. t = IF r.output_status # "OS_WAIT_CTS" THEN r
            ELSE IF r.tx = FifoCap THEN Arm([r EXCEPT !.output_status = "OS_WAIT_TX"], "out")
            ELSE MarklinFlush([r EXCEPT !.output_status = "OS_READY"])
    BY <2>2 DEF MarklinCts
  <2> HIDE DEF s, t, r
  <2>6. CASE st.output_status # "OS_WAIT_CTS"
    <3>1. t = r
      BY <2>4, <2>5, <2>6
    <3>2. RecordSound(t)
      <4>1. /\ t.at = st.at /\ t.first = st.first /\ t.fault = st.fault
            /\ t.output_wqueue = st.output_wqueue /\ t.output_buf = st.output_buf
            /\ t.written = 0
        BY <1>2, <2>3, <3>1 DEF DiffersIn, UartFields
      <4>2. QED BY <1>2, <2>1, <2>4, <2>6, <3>1, <4>1 DEF RecordSound
    <3>3. InputArmed(t) /\ t.at = "recv" /\ ~t.first
      BY <1>2, <2>1, <2>3, <2>4, <3>1 DEF InputArmed, DiffersIn, UartFields
    <3>4. QED BY <2>4, <3>1, <3>2, <3>3
  <2>7. CASE st.output_status = "OS_WAIT_CTS" /\ r.tx = FifoCap
    <3>1. t = Arm([r EXCEPT !.output_status = "OS_WAIT_TX"], "out") /\ st.notif["out"] = "reply"
      BY <1>2, <2>1, <2>4, <2>5, <2>7 DEF RecordSound
    <3>2. /\ DiffersIn({"output_status", "notif"}, r, t) /\ t.output_status = "OS_WAIT_TX"
          /\ t.notif = [r.notif EXCEPT !["out"] = "await"]
      BY <2>4, <3>1 DEF Arm, DiffersIn, UartFields, Notifiers
    <3>3. /\ Armed(s.notif, t.notif) /\ t.notif["in"] = st.notif["in"] /\ t.notif["cts"] = "await"
          /\ t.notif["out"] = "await"
      BY <2>4, <3>1, <3>2 DEF Armed, Notifiers
    <3>4. DiffersIn({"written", "notif", "output_status"}, st, t) /\ t.written = 0
      BY <1>2, <2>3, <3>2 DEF DiffersIn, UartFields
    <3>5. RecordSound(t)
      BY <1>2, <2>1, <3>2, <3>3, <3>4 DEF RecordSound, DiffersIn, UartFields, Armed
    <3>6. InputArmed(t) /\ t.at = "recv" /\ ~t.first
      BY <1>2, <2>1, <3>3, <3>4 DEF InputArmed, DiffersIn, UartFields
    <3>7. QED BY <3>3, <3>5, <3>6
  <2>8. CASE st.output_status = "OS_WAIT_CTS" /\ r.tx # FifoCap
    <3> DEFINE q == [r EXCEPT !.output_status = "OS_READY"]
    <3>1. t = MarklinFlush(q) /\ st.notif["out"] = "reply"
      BY <1>2, <2>1, <2>4, <2>5, <2>8 DEF RecordSound
    <3>2. /\ DiffersIn({"output_status"}, r, q) /\ q.output_status = "OS_READY"
          /\ DOMAIN q = UartFields /\ q.notif = r.notif /\ q.written = 0
      BY <2>3, <2>4 DEF DiffersIn, UartFields
    <3> HIDE DEF q
    <3>3. /\ DiffersIn({"tx", "written", "output_wqueue", "output_status", "notif", "client"}, q, t)
          /\ t.output_status = "OS_READY" => t = q /\ q.output_wqueue = <<>>
          /\ t.output_status \in {"OS_READY", "OS_WAIT_TX", "OS_WAIT_CTS"}
          /\ t.written = IF t.output_status = "OS_WAIT_CTS" THEN 1 ELSE 0
          /\ t.notif = IF t.output_status = "OS_WAIT_TX" THEN [r.notif EXCEPT !["out"] = "await"]
                       ELSE r.notif
      BY <2>4, <3>1, <3>2, MarklinFlushWaits
    <3>4. DiffersIn({"tx", "written", "output_wqueue", "output_status", "notif", "client"}, st, t)
      BY <1>2, <2>3, <3>2, <3>3 DEF DiffersIn, UartFields
    <3>5. /\ Armed(s.notif, t.notif) /\ t.notif["in"] = st.notif["in"] /\ t.notif["cts"] = "await"
          /\ t.notif["out"] = IF t.output_status = "OS_WAIT_TX" THEN "await" ELSE "reply"
      BY <2>4, <3>1, <3>3 DEF Armed, Notifiers
    <3>6. RecordSound(t)
      BY <1>2, <2>1, <3>3, <3>4, <3>5 DEF RecordSound, DiffersIn, UartFields, Armed
    <3>7. InputArmed(t) /\ t.at = "recv" /\ ~t.first
      BY <1>2, <2>1, <3>4, <3>5 DEF InputArmed, DiffersIn, UartFields
    <3>8. QED BY <3>5, <3>6, <3>7
  <2>9. QED BY <2>6, <2>7, <2>8
<1>13. QED BY <1>2, <1>3, <1>6, <1>7, <1>8, <1>9, <1>10, <1>11, <1>12 DEF m
\* MSG_SEND to the server: the message is the last of the mailbox, and the only
\* one of a notifier that sends it.
LEMMA MessagePosted ==
  ASSUME NEW m \in UartMessages, NEW s, UartInv,
         m.tid \in Notifiers => st.notif[m.tid] # "sent" /\ s.notif[m.tid] = "sent",
         \A n \in Notifiers : n # m.tid => s.notif[n] = st.notif[n]
  PROVE  LET box == Append(mbox, m)
         IN  /\ box \in Seq(UartMessages) /\ box # <<>>
             /\ box[1] = IF mbox = <<>> THEN m ELSE mbox[1]
             /\ MailFromSent(s, box)
<1> DEFINE box == Append(mbox, m)
<1>1. /\ box \in Seq(UartMessages) /\ box # <<>> /\ Len(mbox) \in Nat /\ Len(box) = Len(mbox) + 1
      /\ box[Len(mbox) + 1] = m /\ \A i \in 1 .. Len(mbox) : box[i] = mbox[i]
      /\ mbox = <<>> \/ Len(mbox) >= 1
  BY AppendProperties, EmptySeq DEF UartInv
<1>2. box[1] = IF mbox = <<>> THEN m ELSE mbox[1]
  BY <1>1
<1> HIDE DEF box
<1>3. ASSUME NEW i \in 1 .. Len(mbox), mbox[i].tid \in Notifiers
      PROVE  /\ mbox[i].tid # m.tid /\ s.notif[mbox[i].tid] = "sent"
             /\ \A j \in 1 .. Len(mbox) : mbox[j].tid = mbox[i].tid => j = i
  <2>1. /\ st.notif[mbox[i].tid] = "sent"
        /\ \A j \in 1 .. Len(mbox) : mbox[j].tid = mbox[i].tid => j = i
    BY <1>3 DEF UartInv, MailFromSent
  <2>2. mbox[i].tid # m.tid
    BY <1>3, <2>1
  <2>3. QED BY <1>3, <2>1, <2>2
<1>4. MailFromSent(s, box)
  <2> SUFFICES ASSUME NEW i \in 1 .. Len(box), box[i].tid \in Notifiers
               PROVE  /\ s.notif[box[i].tid] = "sent"
                      /\ \A j \in 1 .. Len(box) : box[j].tid = box[i].tid => j = i
    BY DEF MailFromSent
  <2>1. CASE i = Len(mbox) + 1
    <3>1. box[i] = m /\ m.tid \in Notifiers
      BY <1>1, <2>1
    <3>2. ASSUME NEW j \in 1 .. Len(box), box[j].tid = m.tid
          PROVE  j = i
      <4>1. CASE j \in 1 .. Len(mbox)
        BY <1>1, <1>3, <3>1, <3>2, <4>1
      <4>2. QED BY <1>1, <2>1, <4>1
    <3>3. QED BY <3>1, <3>2
  <2>2. CASE i \in 1 .. Len(mbox)
    <3>1. /\ box[i] = mbox[i] /\ mbox[i].tid # m.tid /\ s.notif[mbox[i].tid] = "sent"
          /\ \A j \in 1 .. Len(mbox) : mbox[j].tid = mbox[i].tid => j = i
      BY <1>1, <1>3, <2>2
    <3>2. ASSUME NEW j \in 1 .. Len(box), box[j].tid = box[i].tid
          PROVE  j = i
      <4>1. CASE j \in 1 .. Len(mbox)
        BY <1>1, <3>1, <3>2, <4>1
      <4>2. QED BY <1>1, <3>1, <3>2, <4>1
    <3>3. QED BY <3>1, <3>2
  <2>3. QED BY <1>1, <2>1, <2>2
<1>5. QED BY <1>1, <1>2, <1>4 DEF box

\* Each MSG_SEND of uart_server_init_notifiers starts the next notifier.
LEMMA InitNotifierKeeps ==
  ASSUME UartInv, InitNotifier
  PROVE  UartInv'
<1> DEFINE ns == NotifiersOf(chan)
<1>1. /\ ns = IF chan = "term" THEN <<"out", "in">> ELSE <<"out", "in", "cts">>
      /\ Len(ns) = IF chan = "term" THEN 2 ELSE 3
      /\ ns[1] = "out" /\ ns[2] = "in" /\ (chan = "marklin" => ns[3] = "cts")
      /\ chan \in {"term", "marklin"}
  BY DEF NotifiersOf, UartInv
<1> DEFINE n == ns[st.inited + 1]  m == Message(n, n, 0, FALSE)
<1>2. /\ st.at = "init" /\ mbox' = Append(mbox, m) /\ chan' = chan
      /\ st' = [st EXCEPT !.notif[n] = "sent", !.inited = @ + 1,
                          !.at = IF st.inited + 1 = Len(ns) THEN "recv" ELSE "init"]
  BY DEF InitNotifier
<1> HIDE DEF ns
<1>3. /\ st.inited \in 0 .. Len(ns) - 1
      /\ \A k \in 1 .. Len(ns) : st.notif[ns[k]] = IF k <= st.inited THEN "sent" ELSE "param"
      /\ st.output_status = "OS_READY" /\ st.output_wqueue = <<>> /\ ~(st.output_buf > 0) /\ st.first
      /\ st.written = 0
      /\ DOMAIN st = UartFields /\ st.notif \in [Notifiers -> {"param", "sent", "reply", "await"}]
      /\ st.fault = FALSE
  BY <1>2 DEF UartInv, StartedInOrder, RecordSound, ns
<1>4. n \in Notifiers /\ st.notif[n] = "param" /\ (st.inited = 0 => n = "out")
  BY <1>1, <1>3 DEF Notifiers
<1>5. m \in UartMessages /\ m.tid = n
  BY <1>4 DEF Message, UartMessages, Notifiers
<1> HIDE DEF m, n
<1>6. /\ DiffersIn({"notif", "inited", "at"}, st, st')
      /\ st'.notif = [st.notif EXCEPT ![n] = "sent"] /\ st'.inited = st.inited + 1
      /\ st'.at = IF st.inited + 1 = Len(ns) THEN "recv" ELSE "init"
  BY <1>2, <1>3 DEF DiffersIn, UartFields
<1>7. /\ mbox' \in Seq(UartMessages) /\ mbox' # <<>>
      /\ mbox'[1] = IF mbox = <<>> THEN m ELSE mbox[1]
      /\ MailFromSent(st', mbox')
  <2>1. /\ m.tid \in Notifiers => st.notif[m.tid] # "sent" /\ st'.notif[m.tid] = "sent"
        /\ \A k \in Notifiers : k # m.tid => st'.notif[k] = st.notif[k]
    BY <1>3, <1>4, <1>5, <1>6
  <2>2. QED BY <1>2, <1>5, <2>1, MessagePosted
<1>8. \A k \in 1 .. Len(ns) : st'.notif[ns[k]] = IF k <= st'.inited THEN "sent" ELSE "param"
  BY <1>1, <1>3, <1>4, <1>6 DEF n, Notifiers
<1>9. /\ st'.first = st.first /\ st'.output_status = "OS_READY" /\ st'.output_wqueue = <<>>
      /\ ~(st'.output_buf > 0) /\ st'.written = 0 /\ st'.fault = FALSE /\ DOMAIN st' = UartFields
  BY <1>3, <1>6 DEF DiffersIn, UartFields
<1>10. /\ st'.inited \in 1 .. Len(ns) /\ (st'.at = "init" => st'.inited \in 0 .. Len(ns) - 1)
       /\ (st'.at # "init" => st'.at = "recv" /\ st'.inited = Len(ns))
  BY <1>1, <1>3, <1>6
<1>11. StartedInOrder(st)'
  BY <1>2, <1>3, <1>8, <1>9, <1>10 DEF StartedInOrder, ns
<1>12. st'.notif \in [Notifiers -> {"param", "sent", "reply", "await"}]
  BY <1>3, <1>4, <1>6
<1>13. RecordSound(st)'
  <2>1. chan = "term" => st'.notif["cts"] = "param"
    <3>1. chan = "term" => n # "cts" /\ st.notif["cts"] = "param"
      BY <1>1, <1>3 DEF UartInv, RecordSound, n
    <3>2. QED BY <1>3, <1>6, <3>1 DEF Notifiers
  <2>2. st'.notif["out"] \in {"param", "sent"}
    BY <1>1, <1>8, <1>10
  <2>3. chan = "marklin" /\ st'.at # "init" => st'.notif["cts"] = "sent"
    BY <1>1, <1>8, <1>10
  <2>4. QED BY <1>1, <1>2, <1>3, <1>9, <1>10, <1>12, <2>1, <2>2, <2>3 DEF RecordSound
<1>14. InputArmed(st)'
  BY <1>1, <1>8, <1>10 DEF InputArmed
<1>15. FirstIsOut(st, mbox)'
  <2>1. mbox'[1].tid = "out" \/ chan # "marklin"
    <3>1. CASE st.inited = 0 /\ chan = "marklin"
      <4>1. mbox = <<>>
        BY <1>2, <1>3, <3>1 DEF UartInv, FirstIsOut
      <4>2. QED BY <1>4, <1>5, <1>7, <3>1, <4>1
    <3>2. CASE st.inited # 0 /\ chan = "marklin"
      BY <1>2, <1>3, <1>7, <3>2 DEF UartInv, FirstIsOut
    <3>3. QED BY <1>1, <3>1, <3>2
  <2>2. QED BY <1>2, <1>7, <1>10, <2>1 DEF FirstIsOut
<1>16. QED BY <1>1, <1>2, <1>7, <1>11, <1>13, <1>14, <1>15 DEF UartInv, MailFromSent

\* Programs whose clients may find the server before its notifiers have started
\* use the terminal; those that use the track start later.
TrackLate == "marklin" \notin EarlyChans

\* A client or a notifier sends a request.
LEMMA RequestKeeps ==
  ASSUME TrackLate, UartInv,
         \/ \E c \in UClients : ke_getc(c) \/ ke_putc(c) \/ ke_puts(c)
         \/ UartNotifiers
  PROVE  UartInv'
<1>1. /\ chan \in {"term", "marklin"} /\ DOMAIN st = UartFields
      /\ st.notif \in [Notifiers -> {"param", "sent", "reply", "await"}]
  BY DEF UartInv, RecordSound
<1>2. ASSUME NEW c \in UClients, NEW k \in {"getc", "puts"}, NEW n \in PutLens \cup {0, 1},
             NEW b \in BOOLEAN, Call(c, k, n, b)
      PROVE  UartInv'
  <2> DEFINE m == Message(c, k, n, b)
  <2>1. /\ mbox' = Append(mbox, m) /\ chan' = chan /\ st' = [st EXCEPT !.client[c] = k]
        /\ st.at # "init" \/ chan \in EarlyChans
    BY <1>2 DEF Call
  <2>2. c \notin Notifiers
    BY LegacyUartAssumption DEF Notifiers
  <2>3. m \in UartMessages /\ m.tid = c
    BY <2>2 DEF Message, UartMessages, Notifiers
  <2> HIDE DEF m
  <2>4. DiffersIn({"client"}, st, st') /\ st'.notif = st.notif
    BY <1>1, <2>1 DEF DiffersIn, UartFields
  <2>5. /\ mbox' \in Seq(UartMessages) /\ mbox' # <<>> /\ MailFromSent(st', mbox')
        /\ mbox'[1] = IF mbox = <<>> THEN m ELSE mbox[1]
    <3>1. /\ m.tid \in Notifiers => st.notif[m.tid] # "sent" /\ st'.notif[m.tid] = "sent"
          /\ \A k2 \in Notifiers : k2 # m.tid => st'.notif[k2] = st.notif[k2]
      BY <2>2, <2>3, <2>4
    <3>2. m \in UartMessages /\ mbox' = Append(mbox, m)
      BY <2>1, <2>3
    <3>3. QED BY <3>1, <3>2, MessagePosted
  <2>6. RecordSound(st)' /\ StartedInOrder(st)' /\ InputArmed(st)'
    BY <1>1, <2>1, <2>4 DEF UartInv, RecordSound, StartedInOrder, InputArmed, DiffersIn, UartFields
  <2>7. FirstIsOut(st, mbox)'
    BY <1>1, <2>1, <2>4, <2>5 DEF UartInv, FirstIsOut, DiffersIn, UartFields, TrackLate
  <2>8. QED BY <1>1, <2>1, <2>5, <2>6, <2>7 DEF UartInv, MailFromSent
<1>3. ASSUME NEW n \in Notifiers, Notify(n)
      PROVE  UartInv'
  <2> DEFINE m == Message(n, n, 0, FALSE)
  <2>1. /\ mbox' = Append(mbox, m) /\ chan' = chan /\ st' = [st EXCEPT !.notif[n] = "sent"]
        /\ st.notif[n] = "await"
    BY <1>3 DEF Notify
  <2>2. m \in UartMessages /\ m.tid = n
    BY DEF Message, UartMessages, Notifiers
  <2> HIDE DEF m
  <2>3. /\ DiffersIn({"notif"}, st, st') /\ st'.notif = [st.notif EXCEPT ![n] = "sent"]
        /\ st'.notif \in [Notifiers -> {"param", "sent", "reply", "await"}]
    BY <1>1, <2>1 DEF DiffersIn, UartFields
  <2>4. \A k \in Notifiers : st'.notif[k] = IF k = n THEN "sent" ELSE st.notif[k]
    BY <1>1, <2>3
  <2>5. /\ mbox' \in Seq(UartMessages) /\ mbox' # <<>> /\ MailFromSent(st', mbox')
        /\ mbox'[1] = IF mbox = <<>> THEN m ELSE mbox[1]
    <3>1. /\ m.tid \in Notifiers => st.notif[m.tid] # "sent" /\ st'.notif[m.tid] = "sent"
          /\ \A k \in Notifiers : k # m.tid => st'.notif[k] = st.notif[k]
      BY <2>1, <2>2, <2>4
    <3>2. QED BY <2>1, <2>2, <3>1, MessagePosted
  <2>6. st.at # "init"
    <3>1. CASE chan = "term"
      <4>1. n # "cts" /\ NotifiersOf(chan)[1] = "out" /\ NotifiersOf(chan)[2] = "in"
            /\ Len(NotifiersOf(chan)) = 2
        BY <2>1, <3>1 DEF UartInv, RecordSound, NotifiersOf
      <4>2. QED BY <2>1, <4>1 DEF UartInv, StartedInOrder, Notifiers
    <3>2. CASE chan = "marklin"
      <4>1. /\ NotifiersOf(chan)[1] = "out" /\ NotifiersOf(chan)[2] = "in"
            /\ NotifiersOf(chan)[3] = "cts" /\ Len(NotifiersOf(chan)) = 3
        BY <3>2 DEF NotifiersOf
      <4>2. QED BY <2>1, <4>1 DEF UartInv, StartedInOrder, Notifiers
    <3>3. QED BY <1>1, <3>1, <3>2
  <2>7. RecordSound(st)'
    BY <1>1, <2>1, <2>3, <2>4 DEF UartInv, RecordSound, DiffersIn, UartFields, Notifiers
  <2>8. StartedInOrder(st)' /\ InputArmed(st)'
    <3>1. st'.at = st.at /\ st'.input_wqueue = st.input_wqueue
      BY <1>1, <2>3 DEF DiffersIn, UartFields
    <3>2. \A k \in 1 .. Len(NotifiersOf(chan)) : NotifiersOf(chan)[k] \in Notifiers
      BY DEF NotifiersOf, Notifiers
    <3>3. \A k \in 1 .. Len(NotifiersOf(chan)) : st'.notif[NotifiersOf(chan)[k]] # "param"
      BY <2>4, <2>6, <3>2 DEF UartInv, StartedInOrder
    <3>4. QED BY <2>1, <2>4, <2>6, <3>1, <3>3 DEF UartInv, StartedInOrder, InputArmed, Notifiers
  <2>9. FirstIsOut(st, mbox)'
    BY <1>1, <2>1, <2>3, <2>5, <2>6 DEF UartInv, FirstIsOut, DiffersIn, UartFields
  <2>10. QED BY <1>1, <2>1, <2>5, <2>7, <2>8, <2>9 DEF UartInv, MailFromSent
<1>4. QED BY <1>2, <1>3 DEF ke_getc, ke_putc, ke_puts, UartNotifiers, Notifiers

\* The server serves a message, or goes round in uart_flush_input.
LEMMA ServerStepKeeps ==
  ASSUME UartInv, Receive \/ FlushCheck
  PROVE  UartInv'
<1>1. /\ chan \in {"term", "marklin"} /\ DOMAIN st = UartFields /\ RecordSound(st)
      /\ st.notif \in [Notifiers -> {"param", "sent", "reply", "await"}]
      /\ \A k \in 1 .. Len(NotifiersOf(chan)) : NotifiersOf(chan)[k] \in Notifiers
  BY DEF UartInv, RecordSound, NotifiersOf, Notifiers
<1>2. ASSUME NEW f, NEW g, Armed(f, g), NEW n \in Notifiers, f[n] # "param"
      PROVE  g[n] # "param" /\ (f[n] = "sent" => g[n] = "sent")
  BY <1>2 DEF Armed
<1>3. CASE Receive
  <2> DEFINE m == Head(mbox)  s == Received(m)  t == Serve(m)
  <2>1. st.at = "recv" /\ mbox # <<>> /\ st' = t /\ mbox' = Tail(mbox) /\ chan' = chan
    BY <1>3 DEF Receive
  <2>2. /\ mbox' \in Seq(UartMessages) /\ MailFromSent(s, mbox')
        /\ IF m.tid \in UClients THEN s = st
           ELSE /\ m.tid \in Notifiers
                /\ s = [st EXCEPT !.notif = [st.notif EXCEPT ![m.tid] = "reply"]]
    BY <2>1, ReceivedMessage
  <2>3. /\ RecordSound(t) /\ t.at # "init" /\ InputArmed(t)
        /\ Armed(s.notif, t.notif) /\ (chan = "marklin" => ~t.first)
    BY <2>1, ServeSound
  <2> HIDE DEF m, t
  <2>4. \A n \in Notifiers : s.notif[n] = st.notif[n] \/ s.notif[n] = "reply"
    BY <1>1, <2>2 DEF UartFields
  <2> HIDE DEF s
  <2>5. StartedInOrder(t)
    <3>1. \A k \in 1 .. Len(NotifiersOf(chan)) : st.notif[NotifiersOf(chan)[k]] # "param"
      BY <2>1 DEF UartInv, StartedInOrder
    <3>2. \A k \in 1 .. Len(NotifiersOf(chan)) : s.notif[NotifiersOf(chan)[k]] # "param"
      BY <1>1, <2>4, <3>1
    <3>3. QED BY <1>1, <1>2, <2>3, <3>2 DEF StartedInOrder
  <2>6. MailFromSent(t, mbox')
    BY <1>2, <2>2, <2>3 DEF MailFromSent
  <2>7. FirstIsOut(t, mbox')
    BY <2>3 DEF FirstIsOut
  <2>8. QED BY <1>1, <2>1, <2>2, <2>3, <2>5, <2>6, <2>7
            DEF UartInv, RecordSound, InputArmed, StartedInOrder, MailFromSent, FirstIsOut
<1>4. CASE FlushCheck
  <2> DEFINE level == IF chan = "term" THEN st.rx > 0 ELSE st.term
             q == [st EXCEPT !.at = "recv"]
             t == IF level THEN FlushRound(st) ELSE Arm(q, "in")
  <2>1. st.at = "check" /\ st' = t /\ mbox' = mbox /\ chan' = chan
    BY <1>4 DEF FlushCheck
  <2>2. /\ RecordSound(t) /\ InputArmed(t) /\ t.at # "init" /\ Armed(st.notif, t.notif)
        /\ t.first = st.first
    <3>1. CASE level
      <4>1. /\ RecordSound(t) /\ InputArmed(t) /\ t.at # "init"
            /\ t.notif = st.notif /\ t.first = st.first
        BY <1>1, <2>1, <3>1, FlushRoundSound
      <4>2. QED BY <1>1, <4>1 DEF Armed
    <3>2. CASE ~level
      <4>1. /\ DiffersIn({"at", "notif"}, st, t) /\ t.at = "recv"
            /\ t.notif = [st.notif EXCEPT !["in"] = IF @ = "reply" THEN "await" ELSE @]
        BY <1>1, <3>2 DEF Arm, DiffersIn, UartFields, Notifiers
      <4> HIDE DEF t
      <4>2. st.notif["in"] # "param"
        <5>1. NotifiersOf(chan)[2] = "in" /\ 2 \in 1 .. Len(NotifiersOf(chan))
          BY <1>1 DEF NotifiersOf
        <5>2. QED BY <2>1, <5>1 DEF UartInv, StartedInOrder
      <4>3. /\ Armed(st.notif, t.notif) /\ t.notif["in"] \in {"sent", "await"}
            /\ t.notif["out"] = st.notif["out"] /\ t.notif["cts"] = st.notif["cts"]
        BY <1>1, <4>1, <4>2 DEF Armed, Notifiers
      <4>4. RecordSound(t)
        BY <1>1, <2>1, <4>1, <4>3 DEF RecordSound, DiffersIn, UartFields, Armed
      <4>5. t.first = st.first /\ InputArmed(t)
        BY <1>1, <4>1, <4>3 DEF InputArmed, DiffersIn, UartFields
      <4>6. QED BY <4>1, <4>3, <4>4, <4>5
    <3>3. QED BY <3>1, <3>2
  <2> HIDE DEF t
  <2>3. StartedInOrder(t)
    <3>1. \A k \in 1 .. Len(NotifiersOf(chan)) : st.notif[NotifiersOf(chan)[k]] # "param"
      BY <2>1 DEF UartInv, StartedInOrder
    <3>2. QED BY <1>1, <1>2, <2>2, <3>1 DEF StartedInOrder
  <2>4. MailFromSent(t, mbox)
    BY <1>2, <2>2 DEF UartInv, MailFromSent
  <2>5. FirstIsOut(t, mbox)
    BY <2>1, <2>2 DEF UartInv, FirstIsOut
  <2>6. QED BY <1>1, <2>1, <2>2, <2>3, <2>4, <2>5
            DEF UartInv, RecordSound, InputArmed, StartedInOrder, MailFromSent, FirstIsOut
<1>5. QED BY <1>3, <1>4

\* The C serial servers lose no wake-up and fail no assertion, and the Marklin
\* server writes one byte per CTS message, whenever interrupts, bytes and
\* requests come; provided no client calls the Marklin server while it starts
\* (uart_server_main).
THEOREM WaitersHaveNotifierTheorem ==
  ASSUME TrackLate
  PROVE  UartSpec => []WaitersHaveNotifier
<1>1. UartInit => UartInv
  <2> SUFFICES ASSUME UartInit
               PROVE  UartInv
    OBVIOUS
  <2>1. /\ DOMAIN st = UartFields /\ st.at = "init" /\ st.inited = 0 /\ st.input_wqueue = <<>>
        /\ ~(st.output_buf > 0) /\ st.output_wqueue = <<>> /\ st.output_status = "OS_READY"
        /\ st.first = TRUE /\ st.fault = FALSE /\ st.written = 0
        /\ st.notif = [n \in Notifiers |-> "param"]
    BY DEF UartInit, UartFields, Notifiers
  <2>2. chan \in {"term", "marklin"} /\ mbox = <<>> /\ mbox \in Seq(UartMessages) /\ Len(mbox) = 0
    BY LegacyUartAssumption DEF UartInit
  <2>3. RecordSound(st)
    BY <2>1, <2>2 DEF RecordSound, Notifiers
  <2>4. StartedInOrder(st)
    <3>1. /\ Len(NotifiersOf(chan)) \in {2, 3}
          /\ \A k \in 1 .. Len(NotifiersOf(chan)) : NotifiersOf(chan)[k] \in Notifiers
      BY DEF NotifiersOf, Notifiers
    <3>2. \A k \in 1 .. Len(NotifiersOf(chan)) :
            ~(k <= 0) /\ st.notif[NotifiersOf(chan)[k]] = "param"
      BY <2>1, <3>1
    <3>3. 0 \in 0 .. Len(NotifiersOf(chan)) - 1
      BY <3>1
    <3>4. QED BY <2>1, <3>2, <3>3 DEF StartedInOrder
  <2>5. InputArmed(st) /\ MailFromSent(st, mbox) /\ FirstIsOut(st, mbox)
    BY <2>1, <2>2 DEF InputArmed, MailFromSent, FirstIsOut
  <2>6. QED BY <2>2, <2>3, <2>4, <2>5 DEF UartInv
<1>2. UartInv /\ [UartNext]_uartvars => UartInv'
  <2> SUFFICES ASSUME UartInv, [UartNext]_uartvars
               PROVE  UartInv'
    OBVIOUS
  <2>1. CASE UartHardware
    <3>1. DOMAIN st = UartFields
      BY DEF UartInv, RecordSound
    <3>2. DiffersIn({"rx", "tx", "term"}, st, st') /\ mbox' = mbox /\ chan' = chan
      BY <2>1, <3>1 DEF UartHardware, ByteArrives, ByteLeaves, TermInput, DiffersIn, UartFields
    <3>3. /\ RecordSound(st)' /\ StartedInOrder(st)' /\ InputArmed(st)'
          /\ MailFromSent(st, mbox)' /\ FirstIsOut(st, mbox)'
      BY <3>1, <3>2 DEF UartInv, RecordSound, StartedInOrder, InputArmed, MailFromSent, FirstIsOut,
                        DiffersIn, UartFields
    <3>4. QED BY <3>2, <3>3 DEF UartInv
  <2>2. CASE UNCHANGED uartvars
    BY <2>2 DEF uartvars, UartInv, RecordSound, StartedInOrder, InputArmed, MailFromSent, FirstIsOut
  <2>3. QED BY <2>1, <2>2, InitNotifierKeeps, RequestKeeps, ServerStepKeeps
            DEF UartNext, UartServerStep
<1>3. UartInv => WaitersHaveNotifier
  <2> SUFFICES ASSUME UartInv
               PROVE  WaitersHaveNotifier
    OBVIOUS
  <2>1. RecordSound(st) /\ InputArmed(st) /\ chan \in {"term", "marklin"}
    BY DEF UartInv
  <2>2. QED BY <2>1 DEF RecordSound, InputArmed, WaitersHaveNotifier, Coming
<1>4. QED BY <1>1, <1>2, <1>3, PTL DEF UartSpec
-----------------------------------------------------------------------------
(* user/src/rps: rock, paper, scissors.                                    *)

Actions == {"signup", "play", "quit"}
Hands == {"ROCK", "PAPER", "SCISSOR", NoMove}
PlayerStates == [at : {"new", "done"} \cup Actions, i : Nat, reply : -1 .. 3]
RpsRequests == [tid : Players, action : Actions, move : Hands]
GameStates ==
  [p1 : Players, p2 : Players, progress : {"WAIT_0", "WAIT_1", "QUIT_PENDING"}, m1 : Hands, m2 : Hands]
Games ==
  [p1 : Players, p2 : Players, progress : {"WAIT_0", "WAIT_1", "QUIT_PENDING", "RESULT"},
   m1 : Hands, m2 : Hands]

\* The games that go on: without the one that ends with the next key, and with the
\* one whose result the next key announces told from a new round.
Live ==
  CASE key_wait.then = "end" -> RemoveAt(games_list, key_wait.game)
    [] key_wait.then = "result" -> [games_list EXCEPT ![key_wait.game].progress = "RESULT"]
    [] OTHER -> games_list

\* The server has p's request and has not answered it.
Held(p) ==
  /\ player[p].at \in Actions /\ player[p].reply = NoAnswer
  /\ \A k \in 1 .. Len(inbox) : inbox[k].tid # p

Both(e) == {e.p1, e.p2}
InGame(p) == \E g \in 1 .. Len(Live) : p \in Both(Live[g])

\* A game's progress says whose request the server holds: nobody's, that of the
\* one who moved, that of the one who wants to quit, or both moves.  Its players have the
\* answer that put them into the game or the result of a move, or no answer yet.
GameSound(e) ==
  /\ e.p1 # e.p2
  /\ \A x \in Both(e) :
       /\ player[x].at \in Actions
       /\ player[x].at = "signup" => player[x].reply = RPS_SIGNUP
       /\ player[x].at = "play" => player[x].reply # GAME_STOP
       /\ player[x].at = "quit" => player[x].reply = NoAnswer
       /\ Held(x) => player[x].at = (IF e.progress = "QUIT_PENDING" THEN "quit" ELSE "play")
  /\ e.progress = "WAIT_0" => ~Held(e.p1) /\ ~Held(e.p2)
  /\ e.progress = "RESULT" => Held(e.p1) /\ Held(e.p2)
  /\ e.progress \in {"WAIT_1", "QUIT_PENDING"} =>
       \/ Held(e.p1) /\ ~Held(e.p2)
       \/ Held(e.p2) /\ ~Held(e.p1)

RpsTypes ==
  /\ player \in [Players -> PlayerStates] /\ inbox \in Seq(RpsRequests)
  /\ Live \in Seq(Games) /\ rps_waiting \subseteq Players

\* Every request is from a player that is blocked on it.
MailFromBlocked ==
  \A k \in 1 .. Len(inbox) :
    /\ inbox[k].action = player[inbox[k].tid].at /\ player[inbox[k].tid].reply = NoAnswer
    /\ inbox[k].action # "signup" => InGame(inbox[k].tid)
    /\ \A j \in 1 .. Len(inbox) : inbox[j].tid = inbox[k].tid => j = k

\* At most one player waits for a partner, its sign-up held, in no game.
OneWaits ==
  /\ \A v, w \in rps_waiting : v = w
  /\ \A w \in rps_waiting : player[w].at = "signup" /\ Held(w) /\ ~InGame(w)

GamesApart ==
  \A g, k \in 1 .. Len(Live) : g # k => Both(Live[g]) \cap Both(Live[k]) = {}

\* Who is in no game has no answer but the one that ended its last game.
StoppedOutside ==
  \A p \in Players : ~InGame(p) /\ player[p].reply # NoAnswer =>
    player[p].at \in {"play", "quit"} /\ player[p].reply = GAME_STOP

\* The server waits for a key with a game of the list, whose result starts a round.
KeySound ==
  /\ games_list \in Seq(GameStates)
  /\ key_wait \in [then : {"receive", "result", "end"}, game : Nat]
  /\ key_wait.then # "receive" => key_wait.game \in 1 .. Len(games_list)
  /\ key_wait.then = "result" => games_list[key_wait.game].progress = "WAIT_0"

RpsInv ==
  /\ RpsTypes /\ KeySound /\ rps_fault = FALSE
  /\ MailFromBlocked /\ OneWaits /\ GamesApart /\ StoppedOutside
  /\ \A g \in 1 .. Len(Live) : GameSound(Live[g])

\* The game of p, which is in one.
LEMMA GameFound ==
  ASSUME RpsInv, key_wait = NoKey, NEW p, InGame(p)
  PROVE  /\ Live = games_list /\ GameOf(p) \in 1 .. Len(Live) /\ GameOf(p) # 0
         /\ p \in Both(Live[GameOf(p)])
<1> DEFINE at == {g \in DOMAIN Live : p \in {Live[g].p1, Live[g].p2}}
<1>0. Live = games_list
  BY DEF Live, NoKey
<1>1. DOMAIN Live = 1 .. Len(Live) /\ Len(Live) \in Nat
  BY DEF RpsInv, RpsTypes
<1>2. PICK g \in at : TRUE
  BY <1>1 DEF InGame, Both
<1>3. \A k \in at : k = g
  <2> SUFFICES ASSUME NEW k \in at, k # g
               PROVE  FALSE
    OBVIOUS
  <2>1. Both(Live[k]) \cap Both(Live[g]) = {}
    BY <1>1 DEF RpsInv, GamesApart
  <2>2. QED BY <2>1 DEF Both
<1>4. at = {g}
  BY <1>2, <1>3
<1> HIDE DEF at
<1>5. (CHOOSE h \in at : \A k \in at : h <= k) = g
  <2>1. g <= g /\ g \in 1 .. Len(Live)
    BY <1>1, <1>2 DEF at
  <2>2. \E h \in at : \A k \in at : h <= k
    BY <1>4, <2>1
  <2>3. QED BY <1>4, <2>2
<1>6. GameOf(p) = g
  BY <1>0, <1>2, <1>5 DEF GameOf, at
<1>7. QED BY <1>0, <1>1, <1>2, <1>6 DEF at, Both

\* A new game comes first, the others after it.
LEMMA GameAdded ==
  ASSUME NEW S, NEW s \in Seq(S), NEW e \in S
  PROVE  LET t == <<e>> \o s
         IN  /\ t \in Seq(S) /\ Len(s) \in Nat /\ Len(t) = Len(s) + 1
             /\ t[1] = e /\ \A i \in 2 .. Len(t) : t[i] = s[i - 1]
OBVIOUS

\* A game that is over is taken out, the later ones move up.
LEMMA GameRemoved ==
  ASSUME NEW S, NEW s \in Seq(S), NEW g \in 1 .. Len(s)
  PROVE  LET t == RemoveAt(s, g)
         IN  /\ t \in Seq(S) /\ Len(s) \in Nat /\ Len(t) = Len(s) - 1
             /\ \A i \in 1 .. Len(t) : t[i] = s[IF i < g THEN i ELSE i + 1]
<1> DEFINE a == SubSeq(s, 1, g - 1)  b == SubSeq(s, g + 1, Len(s))
<1>1. /\ a \in Seq(S) /\ Len(a) = g - 1 /\ \A i \in 1 .. g - 1 : a[i] = s[i]
      /\ b \in Seq(S) /\ Len(b) = Len(s) - g /\ \A i \in 1 .. Len(s) - g : b[i] = s[g + i]
      /\ Len(s) \in Nat
  OBVIOUS
<1>2. RemoveAt(s, g) = a \o b
  BY DEF RemoveAt
<1> HIDE DEF a, b
<1> DEFINE t == a \o b
<1>3. /\ t \in Seq(S) /\ Len(t) = Len(a) + Len(b)
      /\ \A i \in 1 .. Len(a) + Len(b) : t[i] = IF i <= Len(a) THEN a[i] ELSE b[i - Len(a)]
  BY <1>1, ConcatProperties
<1> HIDE DEF t
<1>4. \A i \in 1 .. Len(t) : t[i] = s[IF i < g THEN i ELSE i + 1]
  <2> SUFFICES ASSUME NEW i \in 1 .. Len(t)
               PROVE  t[i] = s[IF i < g THEN i ELSE i + 1]
    OBVIOUS
  <2>1. CASE i < g
    BY <1>1, <1>3, <2>1
  <2>2. CASE ~(i < g)
    <3>1. i - (g - 1) \in 1 .. Len(s) - g /\ ~(i <= Len(a)) /\ g + (i - (g - 1)) = i + 1
      BY <1>1, <1>3, <2>2
    <3>2. t[i] = b[i - (g - 1)]
      BY <1>1, <1>3, <3>1
    <3>3. QED BY <1>1, <2>2, <3>1, <3>2
  <2>3. QED BY <2>1, <2>2
<1>5. QED BY <1>1, <1>2, <1>3, <1>4 DEF t
\* A player that is not blocked sends its next request: to sign up when it is in
\* no game, to move or to quit when it is in one.
LEMMA PlayerSends ==
  ASSUME RpsInv, NEW p \in Players, NEW at \in Actions, NEW i \in Nat, Request(p, at, i),
         player[p].at = "new" \/ player[p].reply # NoAnswer,
         at = "play" => i < Len(Moves(p)),
         IF at = "signup" THEN ~InGame(p) ELSE InGame(p)
  PROVE  RpsInv'
<1> DEFINE h == IF at = "play" THEN Moves(p)[i + 1] ELSE NoMove
           m == [tid |-> p, action |-> at, move |-> h]
<1>1. /\ player' = [player EXCEPT ![p] = [at |-> at, i |-> i, reply |-> NoAnswer]]
      /\ inbox' = Append(inbox, m)
      /\ rps_waiting' = rps_waiting /\ rps_fault' = rps_fault
      /\ Live' = Live /\ (KeySound' <=> KeySound)
  BY DEF Request, Live, KeySound
<1>2. h \in Hands
  <2>1. p \in {"alice", "bob", "charles", "darwin"}
    BY RpsAssumption
  <2>2. Moves(p) \in Seq(Hands)
    <3>1. p = "alice" => Moves(p) \in Seq(Hands)
      BY DEF Moves, Hands
    <3>2. p = "bob" => Moves(p) \in Seq(Hands)
      BY DEF Moves, Hands
    <3>3. p = "charles" => Moves(p) \in Seq(Hands)
      BY DEF Moves, Hands
    <3>4. p = "darwin" => Moves(p) \in Seq(Hands)
      BY DEF Moves, Hands
    <3>5. QED BY <2>1, <3>1, <3>2, <3>3, <3>4
  <2>3. at = "play" => Moves(p)[i + 1] \in Hands
    BY <2>2
  <2>4. QED BY <2>3 DEF Hands
<1> HIDE DEF h
<1>3. m \in RpsRequests /\ m.tid = p /\ m.action = at
  BY <1>2 DEF RpsRequests
<1> HIDE DEF m
<1>4. /\ player \in [Players -> PlayerStates] /\ inbox \in Seq(RpsRequests) /\ Len(inbox) \in Nat
      /\ inbox' \in Seq(RpsRequests) /\ Len(inbox') = Len(inbox) + 1
      /\ inbox'[Len(inbox) + 1] = m /\ \A k \in 1 .. Len(inbox) : inbox'[k] = inbox[k]
      /\ \A k \in 1 .. Len(inbox) : inbox[k] \in RpsRequests
  BY <1>1, <1>3, AppendProperties, ElementOfSeq DEF RpsInv, RpsTypes
<1>5. /\ player' \in [Players -> PlayerStates]
      /\ player'[p].at = at /\ player'[p].reply = NoAnswer
      /\ \A x \in Players : x # p => player'[x] = player[x]
  BY <1>1, <1>4 DEF PlayerStates, NoAnswer
<1>6. \A k \in 1 .. Len(inbox) : inbox[k].tid # p
  BY <1>4 DEF RpsInv, MailFromBlocked, RpsRequests, Actions
<1>7. ~Held(p) /\ ~Held(p)'
  <2>1. ~Held(p)
    BY DEF Held, Actions
  <2>2. Len(inbox) + 1 \in 1 .. Len(inbox') /\ inbox'[Len(inbox) + 1].tid = p
    BY <1>3, <1>4
  <2>3. QED BY <2>1, <2>2 DEF Held
<1>8. \A x \in Players : Held(x)' <=> Held(x)
  <2> SUFFICES ASSUME NEW x \in Players, x # p
               PROVE  Held(x)' <=> Held(x)
    BY <1>7
  <2>1. (\A k \in 1 .. Len(inbox) : inbox[k].tid # x) <=> (\A k \in 1 .. Len(inbox') : inbox'[k].tid # x)
    BY <1>3, <1>4
  <2>2. QED BY <1>5, <2>1 DEF Held
<1>9. \A x \in Players : InGame(x)' <=> InGame(x)
  BY <1>1 DEF InGame
<1>10. p \notin rps_waiting
  BY <1>7 DEF RpsInv, OneWaits
<1>11. MailFromBlocked'
  <2> SUFFICES ASSUME NEW k \in 1 .. Len(inbox')
               PROVE  /\ inbox'[k].action = player'[inbox'[k].tid].at
                      /\ player'[inbox'[k].tid].reply = NoAnswer
                      /\ inbox'[k].action # "signup" => InGame(inbox[k].tid)'
                      /\ \A j \in 1 .. Len(inbox') : inbox'[j].tid = inbox'[k].tid => j = k
    BY DEF MailFromBlocked
  <2>1. CASE k = Len(inbox) + 1
    <3>1. inbox'[k] = m
      BY <1>4, <2>1
    <3>2. \A j \in 1 .. Len(inbox') : inbox'[j].tid = p => j = k
      BY <1>4, <1>6, <2>1
    <3>3. InGame(inbox[k].tid)' <=> InGame(p)
      BY <1>1, <1>3, <3>1 DEF InGame
    <3>4. QED BY <1>3, <1>5, <3>1, <3>2, <3>3
  <2>2. CASE k \in 1 .. Len(inbox)
    <3>1. inbox'[k] = inbox[k] /\ inbox[k].tid # p /\ inbox[k].tid \in Players
      BY <1>4, <1>6, <2>2 DEF RpsRequests
    <3>2. /\ inbox[k].action = player[inbox[k].tid].at /\ player[inbox[k].tid].reply = NoAnswer
          /\ inbox[k].action # "signup" => InGame(inbox[k].tid)
          /\ \A j \in 1 .. Len(inbox) : inbox[j].tid = inbox[k].tid => j = k
      BY <2>2 DEF RpsInv, MailFromBlocked
    <3>3. \A j \in 1 .. Len(inbox') : inbox'[j].tid = inbox'[k].tid => j = k
      BY <1>3, <1>4, <3>1, <3>2
    <3>4. InGame(inbox[k].tid)' <=> InGame(inbox[k].tid)
      BY <1>1, <3>1 DEF InGame
    <3>5. QED BY <1>5, <3>1, <3>2, <3>3, <3>4
  <2>3. QED BY <1>4, <2>1, <2>2
<1>12. OneWaits'
  <2>1. rps_waiting \subseteq Players
    BY DEF RpsInv, RpsTypes
  <2>2. QED BY <1>1, <1>5, <1>8, <1>9, <1>10, <2>1 DEF RpsInv, OneWaits
<1>13. GamesApart'
  BY <1>1 DEF RpsInv, GamesApart
<1>14. StoppedOutside'
  BY <1>5, <1>9 DEF RpsInv, StoppedOutside
<1>15. ASSUME NEW g \in 1 .. Len(Live)
       PROVE  GameSound(Live[g])'
  <2>1. PICK e \in Games : e = Live[g]
    BY ElementOfSeq DEF RpsInv, RpsTypes
  <2>2. GameSound(e) /\ Both(e) \subseteq Players
    BY <2>1 DEF RpsInv, Both, Games
  <2>3. p \in Both(e) => at # "signup"
    BY <2>1 DEF InGame
  <2>4. GameSound(e)'
    <3>1. ASSUME NEW x \in Both(e)
          PROVE  /\ player'[x].at \in Actions
                 /\ player'[x].at = "signup" => player'[x].reply = RPS_SIGNUP
                 /\ player'[x].at = "play" => player'[x].reply # GAME_STOP
                 /\ player'[x].at = "quit" => player'[x].reply = NoAnswer
                 /\ Held(x)' => player'[x].at = (IF e.progress = "QUIT_PENDING" THEN "quit" ELSE "play")
      <4>1. CASE x = p
        BY <1>5, <1>7, <2>3, <4>1 DEF NoAnswer, GAME_STOP
      <4>2. CASE x # p
        BY <1>5, <1>8, <2>2, <4>2 DEF GameSound
      <4>3. QED BY <4>1, <4>2
    <3>2. (Held(e.p1)' <=> Held(e.p1)) /\ (Held(e.p2)' <=> Held(e.p2))
      BY <1>8, <2>2 DEF Both
    <3>3. QED BY <2>2, <3>1, <3>2 DEF GameSound
  <2>5. QED BY <1>1, <2>1, <2>4 DEF GameSound, Both, Held
<1>16. RpsTypes'
  BY <1>1, <1>4, <1>5 DEF RpsInv, RpsTypes
<1>17. QED BY <1>1, <1>11, <1>12, <1>13, <1>14, <1>15, <1>16 DEF RpsInv
\* rps_player_main: the answers are the ones it asserts, and after each the next
\* request fits where the player is.
LEMMA PlayerKeeps ==
  ASSUME RpsInv, NEW p \in Players, SignUp(p) \/ OnReply(p)
  PROVE  RpsInv'
<1> DEFINE r == player[p].reply  i == player[p].i  at == player[p].at
<1>1. /\ player \in [Players -> PlayerStates] /\ rps_fault = FALSE
      /\ r \in -1 .. 3 /\ i \in Nat /\ at \in {"new", "done"} \cup Actions
  BY DEF RpsInv, RpsTypes, PlayerStates
<1>2. /\ InGame(p) => /\ at \in Actions /\ (at = "signup" => r = RPS_SIGNUP)
                      /\ (at = "play" => r # GAME_STOP) /\ (at = "quit" => r = NoAnswer)
      /\ ~InGame(p) /\ r # NoAnswer => at \in {"play", "quit"} /\ r = GAME_STOP
  <2>1. ASSUME NEW g \in 1 .. Len(Live), p \in Both(Live[g])
        PROVE  /\ at \in Actions /\ (at = "signup" => r = RPS_SIGNUP)
               /\ (at = "play" => r # GAME_STOP) /\ (at = "quit" => r = NoAnswer)
    BY <2>1 DEF RpsInv, GameSound
  <2>2. QED BY <2>1 DEF InGame, RpsInv, StoppedOutside
<1>3. Len(Moves(p)) \in Nat
  <2>1. p \in {"alice", "bob", "charles", "darwin"}
    BY RpsAssumption
  <2>2. QED BY <2>1 DEF Moves
<1>4. ASSUME NEW j \in Nat, NextMove(p, j), InGame(p), r # NoAnswer
      PROVE  RpsInv'
  <2> DEFINE a == IF j < Len(Moves(p)) THEN "play" ELSE "quit"
  <2>1. Request(p, a, j) /\ a \in Actions /\ a # "signup" /\ (a = "play" => j < Len(Moves(p)))
    BY <1>4 DEF NextMove, Actions
  <2> HIDE DEF a
  <2>2. QED BY <1>4, <2>1, PlayerSends
<1>5. CASE SignUp(p)
  <2>1. at = "new" /\ Request(p, "signup", 0)
    BY <1>5 DEF SignUp
  <2>2. ~InGame(p)
    BY <1>2, <2>1 DEF Actions
  <2>3. QED BY <2>1, <2>2, PlayerSends DEF Actions
<1>6. CASE OnReply(p)
  <2>1. r # NoAnswer
    BY <1>6 DEF OnReply
  <2>2. CASE at = "signup"
    <3>1. InGame(p) /\ r = RPS_SIGNUP
      BY <1>2, <2>1, <2>2
    <3>2. NextMove(p, i)
      BY <1>6, <2>2, <3>1 DEF OnReply
    <3>3. QED BY <1>1, <1>4, <2>1, <3>1, <3>2
  <2>3. CASE at = "play" /\ InGame(p)
    <3>1. r \in {GAME_WIN, GAME_LOSE, GAME_DRAW}
      BY <1>1, <1>2, <2>1, <2>3 DEF NoAnswer, GAME_STOP, GAME_WIN, GAME_LOSE, GAME_DRAW
    <3>2. NextMove(p, i + 1)
      BY <1>6, <2>1, <2>3, <3>1 DEF OnReply, GAME_STOP, GAME_WIN, GAME_LOSE, GAME_DRAW, RPS_SIGNUP
    <3>3. QED BY <1>1, <1>4, <2>1, <2>3, <3>2
  <2>4. CASE at = "play" /\ ~InGame(p)
    <3>1. r = GAME_STOP /\ r \notin {GAME_WIN, GAME_LOSE, GAME_DRAW}
      BY <1>2, <2>1, <2>4 DEF GAME_STOP, GAME_WIN, GAME_LOSE, GAME_DRAW
    <3>2. Request(p, "signup", i)
      BY <1>6, <2>4, <3>1 DEF OnReply
    <3>3. QED BY <1>1, <2>1, <2>4, <3>2, PlayerSends DEF Actions
  <2>5. CASE at = "quit"
    <3>1. ~InGame(p) /\ r = GAME_STOP
      BY <1>2, <2>1, <2>5
    <3>2. /\ player' = [player EXCEPT ![p] = [at |-> "done", i |-> i, reply |-> NoAnswer]]
          /\ UNCHANGED <<rps_waiting, inbox, rps_fault>>
          /\ Live' = Live /\ (KeySound' <=> KeySound)
      BY <1>6, <2>5, <3>1 DEF OnReply, Live, KeySound
    <3>3. /\ player' \in [Players -> PlayerStates] /\ player'[p].at = "done"
          /\ player'[p].reply = NoAnswer /\ \A x \in Players : x # p => player'[x] = player[x]
      BY <1>1, <3>2 DEF PlayerStates, NoAnswer
    <3>4. \A x \in Players : (Held(x)' <=> Held(x)) /\ (InGame(x)' <=> InGame(x))
      <4>1. ~Held(p) /\ ~Held(p)'
        BY <2>1, <3>3 DEF Held, Actions
      <4>2. \A x \in Players : x # p => (Held(x)' <=> Held(x))
        BY <3>2, <3>3 DEF Held
      <4>3. QED BY <3>2, <4>1, <4>2 DEF InGame
    <3>5. /\ inbox \in Seq(RpsRequests) /\ rps_waiting \subseteq Players
          /\ \A k \in 1 .. Len(inbox) : inbox[k].tid \in Players \ {p}
      <4>1. \A k \in 1 .. Len(inbox) : inbox[k] \in RpsRequests
        BY ElementOfSeq DEF RpsInv, RpsTypes
      <4>2. QED BY <2>1, <4>1 DEF RpsInv, RpsTypes, MailFromBlocked, RpsRequests
    <3>6. MailFromBlocked'
      <4>1. \A k \in 1 .. Len(inbox) : InGame(inbox[k].tid)' <=> InGame(inbox[k].tid)
        BY <3>2 DEF InGame
      <4>2. QED BY <3>2, <3>3, <3>5, <4>1 DEF RpsInv, MailFromBlocked
    <3>7. OneWaits'
      <4>1. p \notin rps_waiting
        BY <2>1 DEF RpsInv, OneWaits, Held
      <4>2. QED BY <3>2, <3>3, <3>4, <3>5, <4>1 DEF RpsInv, OneWaits
    <3>8. GamesApart' /\ StoppedOutside'
      <4>1. GamesApart'
        BY <3>2 DEF RpsInv, GamesApart
      <4>2. StoppedOutside'
        BY <3>3, <3>4 DEF RpsInv, StoppedOutside
      <4>3. QED BY <4>1, <4>2
    <3>9. ASSUME NEW g \in 1 .. Len(Live)
          PROVE  GameSound(Live[g])'
      <4>1. PICK e \in Games : e = Live[g]
        BY ElementOfSeq DEF RpsInv, RpsTypes
      <4>2. GameSound(e) /\ Both(e) \subseteq Players \ {p} /\ e.p1 \in Both(e) /\ e.p2 \in Both(e)
        BY <3>1, <4>1 DEF RpsInv, Both, Games, InGame
      <4>3. /\ \A x \in Both(e) : player'[x] = player[x] /\ (Held(x)' <=> Held(x))
        BY <3>3, <3>4, <4>2
      <4>4. GameSound(e)'
        BY <4>2, <4>3 DEF GameSound
      <4>5. QED BY <3>2, <4>1, <4>4 DEF GameSound, Both, Held
    <3>10. RpsTypes'
      BY <3>2, <3>3 DEF RpsInv, RpsTypes
    <3>11. QED BY <1>1, <3>2, <3>6, <3>7, <3>8, <3>9, <3>10 DEF RpsInv
  <2>6. QED BY <1>1, <1>2, <2>1, <2>2, <2>3, <2>4, <2>5 DEF Actions
<1>7. QED BY <1>5, <1>6

\* MSG_RECV in rps_server_main: the request at the head is held now, and nothing
\* else is; whoever is held can be answered.
LEMMA RequestTaken ==
  ASSUME RpsInv, inbox # <<>>, inbox' = Tail(inbox)
  PROVE  LET q == Head(inbox)
             p == q.tid
         IN  /\ q \in RpsRequests /\ q.action = player[p].at /\ player[p].reply = NoAnswer /\ ~Held(p)
             /\ IF q.action = "signup" THEN ~InGame(p) ELSE InGame(p)
             /\ inbox' \in Seq(RpsRequests)
             /\ \A x \in Players : player'[x] = player[x] => (Held(x)' <=> Held(x) \/ x = p)
             /\ \A x \in Players : player'[x].reply # NoAnswer => ~Held(x)'
             /\ \A x \in Players : Held(x) \/ x = p => ReplyBlocked(x)
             /\ (\A x \in Players : ~Held(x) /\ x # p =>
                   player'[x] = player[x] /\ (InGame(x) => InGame(x)')) => MailFromBlocked'
<1> DEFINE q == Head(inbox)  p == q.tid
<1>1. /\ Len(inbox) \in Nat \ {0} /\ q = inbox[1] /\ inbox' \in Seq(RpsRequests)
      /\ Len(inbox') = Len(inbox) - 1
      /\ \A k \in 1 .. Len(inbox') : inbox'[k] = inbox[k + 1]
      /\ \A k \in 1 .. Len(inbox) : inbox[k] \in RpsRequests
  BY HeadTailProperties, ElementOfSeq DEF RpsInv, RpsTypes
<1>2. /\ q \in RpsRequests /\ p \in Players /\ q.action \in Actions
      /\ q.action = player[p].at /\ player[p].reply = NoAnswer
      /\ q.action # "signup" => InGame(p)
      /\ \A k \in 1 .. Len(inbox) : inbox[k].tid = p => k = 1
  BY <1>1 DEF RpsInv, MailFromBlocked, RpsRequests
<1>3. q.action = "signup" => ~InGame(p)
  <2>1. ASSUME NEW g \in 1 .. Len(Live), p \in Both(Live[g]), player[p].at = "signup"
        PROVE  player[p].reply = RPS_SIGNUP
    BY <2>1 DEF RpsInv, GameSound
  <2>2. QED BY <1>2, <2>1 DEF InGame, RPS_SIGNUP, NoAnswer
<1>4. ~Held(p)
  BY <1>1 DEF Held
<1> HIDE DEF q
<1>5. \A x \in Players :
        (\A k \in 1 .. Len(inbox') : inbox'[k].tid # x) <=> (x = p \/ \A k \in 1 .. Len(inbox) : inbox[k].tid # x)
  <2> SUFFICES ASSUME NEW x \in Players
               PROVE  (\A k \in 1 .. Len(inbox') : inbox'[k].tid # x)
                        <=> (x = p \/ \A k \in 1 .. Len(inbox) : inbox[k].tid # x)
    OBVIOUS
  <2>1. CASE x = p
    <3>1. \A k \in 1 .. Len(inbox') : k + 1 \in 1 .. Len(inbox) /\ k + 1 # 1
      BY <1>1
    <3>2. QED BY <1>1, <1>2, <2>1, <3>1
  <2>2. CASE x # p
    <3>1. ASSUME NEW k \in 1 .. Len(inbox), inbox[k].tid = x
          PROVE  k - 1 \in 1 .. Len(inbox') /\ inbox'[k - 1].tid = x
      <4>1. k # 1
        BY <1>1, <2>2, <3>1
      <4>2. QED BY <1>1, <3>1, <4>1
    <3>2. ASSUME NEW k \in 1 .. Len(inbox'), inbox'[k].tid = x
          PROVE  k + 1 \in 1 .. Len(inbox) /\ inbox[k + 1].tid = x
      BY <1>1, <3>2
    <3>3. QED BY <2>2, <3>1, <3>2
  <2>3. QED BY <2>1, <2>2
<1>6. ASSUME NEW x \in Players, player'[x] = player[x]
      PROVE  Held(x)' <=> Held(x) \/ x = p
  BY <1>2, <1>5, <1>6 DEF Held
<1>7. ASSUME NEW x \in Players, player'[x].reply # NoAnswer
      PROVE  ~Held(x)'
  BY <1>7 DEF Held
<1>8. ASSUME NEW x \in Players, Held(x) \/ x = p
      PROVE  ReplyBlocked(x)
  <2>1. \A k \in DOMAIN inbox' : inbox'[k].tid # x
    <3>1. DOMAIN inbox' = 1 .. Len(inbox')
      BY <1>1
    <3>2. QED BY <1>5, <1>8, <3>1 DEF Held
  <2>2. player[x].at \in Actions /\ player[x].reply = NoAnswer
    BY <1>2, <1>8 DEF Held
  <2>3. QED BY <2>1, <2>2 DEF ReplyBlocked, Actions
<1>9. ASSUME \A x \in Players : ~Held(x) /\ x # p =>
               player'[x] = player[x] /\ (InGame(x) => InGame(x)')
      PROVE  MailFromBlocked'
  <2> SUFFICES ASSUME NEW k \in 1 .. Len(inbox')
               PROVE  /\ inbox'[k].action = player'[inbox'[k].tid].at
                      /\ player'[inbox'[k].tid].reply = NoAnswer
                      /\ inbox'[k].action # "signup" => InGame(inbox[k].tid)'
                      /\ \A j \in 1 .. Len(inbox') : inbox'[j].tid = inbox'[k].tid => j = k
    BY DEF MailFromBlocked
  <2>1. k + 1 \in 1 .. Len(inbox) /\ inbox'[k] = inbox[k + 1] /\ k + 1 # 1
    BY <1>1
  <2>2. PICK x \in Players : x = inbox[k + 1].tid
    BY <1>1, <2>1 DEF RpsRequests
  <2>3. /\ inbox[k + 1].action = player[x].at /\ player[x].reply = NoAnswer
        /\ inbox[k + 1].action # "signup" => InGame(x)
        /\ \A j \in 1 .. Len(inbox) : inbox[j].tid = x => j = k + 1
    BY <2>1, <2>2 DEF RpsInv, MailFromBlocked
  <2>4. x # p /\ ~Held(x)
    BY <1>2, <2>1, <2>2 DEF Held
  <2>5. player'[x] = player[x] /\ (InGame(x) => InGame(x)')
    BY <1>9, <2>4
  <2>6. inbox'[k].action # "signup" => InGame(inbox[k].tid)'
    <3>1. InGame(x)' => InGame(inbox[k].tid)'
      BY <2>1, <2>2 DEF InGame
    <3>2. QED BY <2>1, <2>3, <2>5, <3>1
  <2>7. \A j \in 1 .. Len(inbox') : inbox'[j].tid = inbox'[k].tid => j = k
    <3>1. ASSUME NEW j \in 1 .. Len(inbox'), inbox'[j].tid = x
          PROVE  j = k
      <4>1. j + 1 \in 1 .. Len(inbox) /\ inbox[j + 1].tid = x
        BY <1>1, <3>1
      <4>2. j + 1 = k + 1
        BY <2>3, <4>1
      <4>3. QED BY <1>1, <4>2
    <3>2. QED BY <2>1, <2>2, <3>1
  <2>8. QED BY <2>1, <2>2, <2>3, <2>5, <2>6, <2>7
<1>10. QED BY <1>1, <1>2, <1>3, <1>4, <1>6, <1>7, <1>8, <1>9 DEF q
\* The two players a and b have the answers r1 and r2, and nobody else's state changes.
BothHave(a, r1, b, r2) ==
  /\ player' \in [Players -> PlayerStates] /\ rps_fault' = FALSE
  /\ player'[a].at = player[a].at /\ player'[a].reply = r1 /\ ~Held(a)'
  /\ player'[b].at = player[b].at /\ player'[b].reply = r2 /\ ~Held(b)'
  /\ \A x \in Players : x # a /\ x # b => player'[x] = player[x]
\* MSG_REPLY to two players that are blocked on it: both have their answers.
LEMMA BothAnswered ==
  ASSUME RpsInv, NEW a \in Players, NEW b \in Players, a # b, NEW r1 \in 0 .. 3, NEW r2 \in 0 .. 3,
         ReplyBlocked(a), ReplyBlocked(b), ReplyTo(a, r1, b, r2)
  PROVE  BothHave(a, r1, b, r2)
<1>1. player \in [Players -> PlayerStates] /\ rps_fault = FALSE
  BY DEF RpsInv, RpsTypes
<1>2. player' = [player EXCEPT ![a].reply = r1, ![b].reply = r2]
  BY DEF ReplyTo
<1>4. rps_fault' = FALSE
  BY <1>1 DEF ReplyTo
<1>5. /\ player[a] \in PlayerStates /\ player[b] \in PlayerStates
      /\ player' = [player EXCEPT ![a] = [player[a] EXCEPT !.reply = r1],
                                  ![b] = [player[b] EXCEPT !.reply = r2]]
  BY <1>1, <1>2
<1>6. /\ [player[a] EXCEPT !.reply = r1] \in PlayerStates
      /\ [player[b] EXCEPT !.reply = r2] \in PlayerStates
      /\ [player[a] EXCEPT !.reply = r1].at = player[a].at
      /\ [player[a] EXCEPT !.reply = r1].reply = r1
      /\ [player[b] EXCEPT !.reply = r2].at = player[b].at
      /\ [player[b] EXCEPT !.reply = r2].reply = r2
  BY <1>5 DEF PlayerStates
<1> DEFINE sa == [player[a] EXCEPT !.reply = r1]  sb == [player[b] EXCEPT !.reply = r2]
<1>7. player'[a] = sa /\ player'[b] = sb
  BY <1>1, <1>5
<1>8. player' \in [Players -> PlayerStates]
  BY <1>1, <1>5, <1>6
<1>9. \A x \in Players : x # a /\ x # b => player'[x] = player[x]
  BY <1>1, <1>5
<1>10. player'[a].reply # NoAnswer /\ player'[b].reply # NoAnswer
  BY <1>6, <1>7 DEF NoAnswer
<1>11. ~Held(a)' /\ ~Held(b)'
  BY <1>10 DEF Held
<1>12. QED BY <1>4, <1>6, <1>7, <1>8, <1>9, <1>11 DEF BothHave

\* A game none of whose players is answered or served stays as it is.
LEMMA OtherGame ==
  ASSUME RpsInv, inbox # <<>>, inbox' = Tail(inbox),
         NEW e \in Games, GameSound(e),
         \A x \in Both(e) : player'[x] = player[x] /\ x # Head(inbox).tid
  PROVE  GameSound(e)'
<1>1. Both(e) \subseteq Players /\ e.p1 \in Both(e) /\ e.p2 \in Both(e)
  BY DEF Both, Games
<1>2. \A x \in Both(e) : player'[x] = player[x] /\ (Held(x)' <=> Held(x))
  BY <1>1, RequestTaken
<1>3. QED BY <1>1, <1>2 DEF GameSound, Both

\* RPS_SIGNUP: with nobody waiting the player waits; a waiting one is its partner.
\* There is room for the game, as the players are four.
LEMMA SignupKeeps ==
  ASSUME RpsInv, MaxGames >= 2, key_wait = NoKey, inbox # <<>>, inbox' = Tail(inbox),
         Head(inbox).action = "signup", ServeSignup(Head(inbox).tid)
  PROVE  RpsInv'
<1>0. PICK p \in Players : p = Head(inbox).tid
  BY RequestTaken DEF RpsRequests
<1>1. /\ p \in Players /\ player[p].at = "signup" /\ player[p].reply = NoAnswer /\ ~Held(p) /\ ~InGame(p)
      /\ inbox' \in Seq(RpsRequests)
      /\ \A x \in Players : player'[x] = player[x] => (Held(x)' <=> Held(x) \/ x = p)
      /\ (\A x \in Players : ~Held(x) /\ x # p =>
            player'[x] = player[x] /\ (InGame(x) => InGame(x)')) => MailFromBlocked'
  BY <1>0, RequestTaken DEF RpsRequests
<1>2. /\ player \in [Players -> PlayerStates] /\ Live \in Seq(Games) /\ Len(Live) \in Nat
      /\ rps_waiting \subseteq Players /\ rps_fault = FALSE
      /\ \A g \in 1 .. Len(Live) : Live[g] \in Games /\ GameSound(Live[g])
      /\ \A v, w \in rps_waiting : v = w
      /\ \A w \in rps_waiting : player[w].at = "signup" /\ Held(w) /\ ~InGame(w)
  BY ElementOfSeq DEF RpsInv, RpsTypes, OneWaits
<1>9. Live = games_list /\ Live' = games_list' /\ key_wait' = NoKey
  BY DEF Live, NoKey, ServeSignup, NoWait
<1>3. CASE rps_waiting = {}
  <2>1. rps_waiting' = {p} /\ player' = player /\ rps_fault' = rps_fault /\ Live' = Live
    BY <1>0, <1>3, <1>9 DEF ServeSignup, NoReply
  <2>2. \A x \in Players : InGame(x)' <=> InGame(x)
    BY <2>1 DEF InGame
  <2>3. \A x \in Players : Held(x)' <=> Held(x) \/ x = p
    BY <1>1, <2>1
  <2>4. OneWaits'
    BY <1>1, <2>1, <2>2, <2>3 DEF OneWaits
  <2>5. MailFromBlocked'
    BY <1>1, <2>1, <2>2
  <2>6. GamesApart' /\ StoppedOutside' /\ RpsTypes'
    BY <1>1, <1>2, <2>1, <2>2 DEF RpsInv, GamesApart, StoppedOutside, RpsTypes
  <2>7. ASSUME NEW g \in 1 .. Len(Live)
        PROVE  GameSound(Live[g])'
    <3>1. PICK e \in Games : e = Live[g]
      BY <1>2
    <3>2. \A x \in Both(e) : player'[x] = player[x] /\ x # p
      BY <1>1, <2>1, <3>1 DEF InGame
    <3>3. GameSound(e)'
      BY <1>0, <1>2, <3>1, <3>2, OtherGame
    <3>4. QED BY <2>1, <3>1, <3>3 DEF GameSound, Both, Held
  <2>8. KeySound'
    BY <1>9, <2>1 DEF RpsInv, KeySound
  <2>9. QED BY <1>2, <2>1, <2>4, <2>5, <2>6, <2>7, <2>8 DEF RpsInv
<1>4. CASE rps_waiting # {}
  <2>0. PICK w \in rps_waiting : w = CHOOSE v \in rps_waiting : TRUE
    BY <1>4
  <2> DEFINE e == [p1 |-> w, p2 |-> p, progress |-> "WAIT_0", m1 |-> NoMove, m2 |-> NoMove]
  <2>1. w \in Players /\ player[w].at = "signup" /\ Held(w) /\ ~InGame(w) /\ w # p
    BY <1>1, <1>2, <1>4
  <2>2. /\ rps_waiting' = {}
        /\ IF Len(Live) = MaxGames
             THEN rps_fault' = TRUE /\ UNCHANGED <<Live, player>>
             ELSE Live' = <<e>> \o Live /\ ReplyTo(w, RPS_SIGNUP, p, RPS_SIGNUP)
    BY <1>0, <1>4, <1>9, <2>0 DEF ServeSignup
  <2>15. e \in GameStates
    BY <1>1, <2>1 DEF GameStates, Hands
  <2>3. e \in Games /\ e.p1 = w /\ e.p2 = p /\ e.progress = "WAIT_0"
    BY <1>1, <2>1 DEF Games, Hands
  <2> HIDE DEF e
  <2>4. Len(Live) # MaxGames
    <3> SUFFICES ASSUME Len(Live) = MaxGames
                 PROVE  FALSE
      OBVIOUS
    <3>1. 1 \in 1 .. Len(Live) /\ 2 \in 1 .. Len(Live) /\ 1 # 2
      BY <1>2
    <3>2. Both(Live[1]) \cap Both(Live[2]) = {}
      BY <3>1 DEF RpsInv, GamesApart
    <3>3. /\ Live[1].p1 # Live[1].p2 /\ Live[2].p1 # Live[2].p2
          /\ {Live[1].p1, Live[1].p2, Live[2].p1, Live[2].p2} \subseteq Players
      BY <1>2, <3>1 DEF GameSound, Games
    <3>4. p \notin Both(Live[1]) \cup Both(Live[2])
      BY <1>1, <3>1 DEF InGame
    <3>5. QED BY <1>1, <3>2, <3>3, <3>4, RpsAssumption DEF Both
  <2>5. Live' = <<e>> \o Live /\ ReplyTo(w, 0, p, 0)
    BY <2>2, <2>4 DEF RPS_SIGNUP
  <2>6. /\ player' \in [Players -> PlayerStates] /\ rps_fault' = FALSE
        /\ player'[w].at = "signup" /\ player'[w].reply = RPS_SIGNUP /\ ~Held(w)'
        /\ player'[p].at = "signup" /\ player'[p].reply = RPS_SIGNUP /\ ~Held(p)'
        /\ \A x \in Players : x # w /\ x # p => player'[x] = player[x]
    <3>1. /\ player' \in [Players -> PlayerStates] /\ rps_fault' = FALSE
          /\ player'[w].at = player[w].at /\ player'[w].reply = 0 /\ ~Held(w)'
          /\ player'[p].at = player[p].at /\ player'[p].reply = 0 /\ ~Held(p)'
          /\ \A x \in Players : x # w /\ x # p => player'[x] = player[x]
      <4>1. /\ ReplyBlocked(w) /\ ReplyBlocked(p)
            /\ 0 \in 0 .. 3 /\ w \in Players /\ w # p
        BY <1>0, <2>1, RequestTaken
      <4>2. ReplyTo(w, 0, p, 0)
        BY <2>5
      <4>3. BothHave(w, 0, p, 0)
        BY <4>1, <4>2, BothAnswered
      <4>4. QED BY <4>3 DEF BothHave
    <3>2. QED BY <1>1, <2>1, <3>1 DEF RPS_SIGNUP
  <2>7. /\ Live' \in Seq(Games) /\ Len(Live') = Len(Live) + 1
        /\ Live'[1] = e /\ \A i \in 2 .. Len(Live') : Live'[i] = Live[i - 1]
    BY <1>2, <2>3, <2>5, GameAdded
  <2>8. \A x \in Players : InGame(x)' <=> InGame(x) \/ x = w \/ x = p
    <3> SUFFICES ASSUME NEW x \in Players
                 PROVE  InGame(x)' <=> InGame(x) \/ x = w \/ x = p
      OBVIOUS
    <3>1. ASSUME InGame(x)
          PROVE  InGame(x)'
      <4>1. PICK g \in 1 .. Len(Live) : x \in Both(Live[g])
        BY <3>1 DEF InGame
      <4>2. g + 1 \in 2 .. Len(Live') /\ g + 1 \in 1 .. Len(Live') /\ (g + 1) - 1 = g
        BY <1>2, <2>7
      <4>3. Live'[g + 1] = Live[g]
        BY <2>7, <4>2
      <4>4. QED BY <4>1, <4>2, <4>3 DEF InGame, Both
    <3>2. ASSUME x = w \/ x = p
          PROVE  InGame(x)'
      <4>1. 1 \in 1 .. Len(Live') /\ x \in {Live'[1].p1, Live'[1].p2}
        BY <1>2, <2>3, <2>7, <3>2
      <4>2. QED BY <4>1 DEF InGame, Both
    <3>3. ASSUME NEW g \in 1 .. Len(Live'), x \in {Live'[g].p1, Live'[g].p2}
          PROVE  InGame(x) \/ x = w \/ x = p
      <4>1. CASE g = 1
        BY <2>3, <2>7, <3>3, <4>1
      <4>2. CASE g # 1
        <5>1. g \in 2 .. Len(Live') /\ g - 1 \in 1 .. Len(Live)
          BY <1>2, <2>7, <4>2
        <5>2. QED BY <2>7, <3>3, <5>1 DEF InGame, Both
      <4>3. QED BY <4>1, <4>2
    <3>4. InGame(x)' => \E g \in 1 .. Len(Live') : x \in {Live'[g].p1, Live'[g].p2}
      BY DEF InGame, Both
    <3>5. QED BY <3>1, <3>2, <3>3, <3>4
  <2>9. MailFromBlocked'
    BY <1>1, <2>1, <2>6, <2>8
  <2>10. GamesApart'
    <3> SUFFICES ASSUME NEW g \in 1 .. Len(Live'), NEW k \in 1 .. Len(Live'), g # k
                 PROVE  (Both(Live[g]) \cap Both(Live[k]) = {})'
      BY DEF GamesApart
    <3>1. ASSUME NEW h \in 1 .. Len(Live)
          PROVE  w \notin Both(Live[h]) /\ p \notin Both(Live[h])
      BY <1>1, <2>1 DEF InGame
    <3>2. ASSUME NEW i \in 1 .. Len(Live'), i # 1
          PROVE  i - 1 \in 1 .. Len(Live) /\ Live'[i] = Live[i - 1]
      <4>1. i \in 2 .. Len(Live') /\ i - 1 \in 1 .. Len(Live)
        BY <1>2, <2>7, <3>2
      <4>2. QED BY <2>7, <4>1
    <3>3. CASE g = 1
      BY <2>3, <2>7, <3>1, <3>2, <3>3 DEF Both
    <3>4. CASE k = 1
      BY <2>3, <2>7, <3>1, <3>2, <3>4 DEF Both
    <3>5. CASE g # 1 /\ k # 1
      <4>1. g - 1 # k - 1
        BY <1>2
      <4>2. Both(Live[g - 1]) \cap Both(Live[k - 1]) = {}
        BY <3>2, <3>5, <4>1 DEF RpsInv, GamesApart
      <4>3. QED BY <3>2, <3>5, <4>2 DEF Both
    <3>6. QED BY <3>3, <3>4, <3>5
  <2>11. StoppedOutside'
    BY <2>6, <2>8 DEF RpsInv, StoppedOutside
  <2>12. ASSUME NEW g \in 1 .. Len(Live')
         PROVE  GameSound(Live[g])'
    <3>1. CASE g = 1
      <4>1. GameSound(e)'
        <5>1. \A x \in Both(e) : x = w \/ x = p
          BY <2>3 DEF Both
        <5>2. ASSUME NEW x \in Both(e)
              PROVE  player'[x].at = "signup" /\ player'[x].reply = RPS_SIGNUP /\ ~Held(x)'
          BY <2>6, <5>1
        <5>3. /\ e.p1 # e.p2 /\ ~Held(e.p1)' /\ ~Held(e.p2)'
          <6>1. e.p1 \in Both(e) /\ e.p2 \in Both(e)
            BY DEF Both
          <6>2. QED BY <2>1, <2>3, <2>6
        <5>4. QED BY <2>3, <5>2, <5>3 DEF GameSound, Actions, Both
      <4>2. QED BY <2>7, <3>1, <4>1 DEF GameSound, Both, Held
    <3>2. CASE g # 1
      <4>1. g \in 2 .. Len(Live') /\ g - 1 \in 1 .. Len(Live)
        BY <1>2, <2>7, <3>2
      <4>2. PICK f \in Games : f = Live[g - 1]
        BY <1>2, <4>1
      <4>3. Both(f) \subseteq Players /\ GameSound(f)
        BY <1>2, <4>1, <4>2 DEF Both, Games
      <4>4. \A x \in Both(f) : player'[x] = player[x] /\ x # p
        BY <1>1, <2>1, <2>6, <4>1, <4>2, <4>3 DEF InGame
      <4>5. GameSound(f)'
        BY <1>0, <4>3, <4>4, OtherGame
      <4>6. Live'[g] = f
        BY <2>7, <4>1, <4>2
      <4>7. QED BY <4>5, <4>6 DEF GameSound, Both, Held
    <3>3. QED BY <3>1, <3>2
  <2>13. OneWaits' /\ RpsTypes'
    BY <1>1, <2>2, <2>6, <2>7 DEF OneWaits, RpsTypes
  <2>14. KeySound'
    <3>1. games_list \in Seq(GameStates)
      BY DEF RpsInv, KeySound
    <3>2. games_list' \in Seq(GameStates)
      BY <1>9, <2>5, <2>15, <3>1, GameAdded
    <3>3. QED BY <1>9, <3>2 DEF KeySound, NoKey
  <2>16. QED BY <2>6, <2>9, <2>10, <2>11, <2>12, <2>13, <2>14 DEF RpsInv
<1>5. QED BY <1>3, <1>4
\* A game that goes on keeps its place and its players.
LEMMA GameReplaced ==
  ASSUME RpsInv, NEW g \in 1 .. Len(Live), NEW e \in Games,
         e.p1 = Live[g].p1, e.p2 = Live[g].p2,
         Live' = [Live EXCEPT ![g] = e]
  PROVE  /\ Live' \in Seq(Games) /\ Len(Live') = Len(Live)
         /\ Live'[g] = e /\ \A k \in 1 .. Len(Live) : k # g => Live'[k] = Live[k]
         /\ \A x \in Players : InGame(x)' <=> InGame(x)
         /\ GamesApart'
<1>1. Live \in Seq(Games) /\ Len(Live) \in Nat
  BY DEF RpsInv, RpsTypes
<1>2. /\ Live' \in Seq(Games) /\ Len(Live') = Len(Live)
      /\ Live'[g] = e /\ \A k \in 1 .. Len(Live) : k # g => Live'[k] = Live[k]
  BY <1>1
<1>3. \A k \in 1 .. Len(Live) :
        Live'[k].p1 = Live[k].p1 /\ Live'[k].p2 = Live[k].p2
  BY <1>2
<1>4. \A x \in Players : InGame(x)' <=> InGame(x)
  BY <1>2, <1>3 DEF InGame, Both
<1>5. GamesApart'
  BY <1>2, <1>3 DEF RpsInv, GamesApart, Both
<1>6. QED BY <1>2, <1>4, <1>5

\* A player that moves or is the first to quit is held: the result of the second
\* move waits for a key.
LEMMA MoveKeeps ==
  ASSUME RpsInv, inbox # <<>>, inbox' = Tail(inbox), NEW p \in Players, p = Head(inbox).tid,
         NEW a \in {"play", "quit"}, a = Head(inbox).action,
         NEW g \in 1 .. Len(Live), p \in Both(Live[g]),
         NEW e \in Games, e.p1 = Live[g].p1, e.p2 = Live[g].p2,
         \/ Live[g].progress = "WAIT_0" /\ a = "play" /\ e.progress = "WAIT_1"
         \/ Live[g].progress = "WAIT_0" /\ a = "quit" /\ e.progress = "QUIT_PENDING"
         \/ Live[g].progress = "WAIT_1" /\ a = "play" /\ e.progress = "RESULT",
         Live' = [Live EXCEPT ![g] = e], UNCHANGED <<player, rps_fault, rps_waiting>>, KeySound'
  PROVE  RpsInv'
<1>1. /\ player[p].at = a /\ player[p].reply = NoAnswer /\ ~Held(p) /\ InGame(p)
      /\ inbox' \in Seq(RpsRequests)
      /\ \A x \in Players : Held(x)' <=> Held(x) \/ x = p
      /\ (\A x \in Players : ~Held(x) /\ x # p =>
            player'[x] = player[x] /\ (InGame(x) => InGame(x)')) => MailFromBlocked'
  BY RequestTaken
<1>2. /\ Live' \in Seq(Games) /\ Len(Live') = Len(Live)
      /\ Live'[g] = e /\ \A k \in 1 .. Len(Live) : k # g => Live'[k] = Live[k]
      /\ \A x \in Players : InGame(x)' <=> InGame(x)
      /\ GamesApart'
  BY GameReplaced
<1>3. RpsTypes' /\ StoppedOutside' /\ MailFromBlocked'
  BY <1>1, <1>2 DEF RpsInv, RpsTypes, StoppedOutside
<1>4. OneWaits'
  <2>1. rps_waiting \subseteq Players /\ p \notin rps_waiting
    BY <1>1 DEF RpsInv, RpsTypes, OneWaits
  <2>2. QED BY <1>1, <1>2, <2>1 DEF RpsInv, OneWaits
<1>5. ASSUME NEW k \in 1 .. Len(Live)
      PROVE  GameSound(Live[k])'
  <2>1. PICK f \in Games : f = Live[k]
    BY ElementOfSeq DEF RpsInv, RpsTypes
  <2>2. GameSound(f) /\ Both(f) \subseteq Players /\ f.p1 \in Both(f) /\ f.p2 \in Both(f)
    BY <2>1 DEF RpsInv, Both, Games
  <2>3. CASE k = g
    <3>1. Both(e) = Both(f) /\ e.p1 = f.p1 /\ e.p2 = f.p2 /\ p \in Both(f) /\ f.p1 # f.p2
      BY <2>1, <2>2, <2>3 DEF Both, GameSound
    <3>2. \A x \in Both(f) : Held(x)' <=> Held(x) \/ x = p
      BY <1>1, <2>2
    <3>3. \A x \in Both(f) : Held(x)' => player[x].at = (IF e.progress = "QUIT_PENDING" THEN "quit" ELSE "play")
      <4>1. CASE f.progress = "WAIT_0"
        <5>1. \A x \in Both(f) : ~Held(x)
          BY <2>2, <4>1 DEF GameSound, Both
        <5>2. QED BY <1>1, <2>1, <2>3, <3>2, <4>1, <5>1
      <4>2. CASE f.progress = "WAIT_1"
        <5>1. \A x \in Both(f) : Held(x) => player[x].at = "play"
          BY <2>2, <4>2 DEF GameSound
        <5>2. QED BY <1>1, <2>1, <2>3, <3>2, <4>2, <5>1
      <4>3. QED BY <2>1, <2>3, <4>1, <4>2
    <3>4. ASSUME e.progress = "RESULT"
          PROVE  GameSound(e)'
      <4>1. (Held(f.p1) /\ ~Held(f.p2)) \/ (Held(f.p2) /\ ~Held(f.p1))
        BY <2>1, <2>2, <2>3, <3>4 DEF GameSound
      <4>2. Held(e.p1)' /\ Held(e.p2)'
        BY <1>1, <2>2, <3>1, <3>2, <4>1 DEF Both
      <4>3. QED BY <2>2, <3>1, <3>3, <3>4, <4>2 DEF GameSound, Both
    <3>5. ASSUME e.progress # "RESULT"
          PROVE  GameSound(e)'
      <4>1. e.progress # "WAIT_0" /\ ~Held(f.p1) /\ ~Held(f.p2)
        BY <2>1, <2>2, <2>3, <3>5 DEF GameSound
      <4>2. (Held(e.p1)' /\ ~Held(e.p2)') \/ (Held(e.p2)' /\ ~Held(e.p1)')
        BY <2>2, <3>1, <3>2, <4>1 DEF Both
      <4>3. e.progress \in {"WAIT_1", "QUIT_PENDING"}
        BY <3>5
      <4>4. QED BY <2>2, <3>1, <3>3, <4>2, <4>3 DEF GameSound, Both
    <3>6. GameSound(e)'
      BY <3>4, <3>5
    <3>7. QED BY <1>2, <2>3, <3>6 DEF GameSound, Both, Held
  <2>4. CASE k # g
    <3>1. p \notin Both(f)
      BY <2>1, <2>4 DEF RpsInv, GamesApart
    <3>2. GameSound(f)'
      <4>1. \A x \in Both(f) : player'[x] = player[x] /\ x # Head(inbox).tid
        BY <3>1
      <4>2. QED BY <2>2, <4>1, OtherGame
    <3>3. QED BY <1>2, <2>1, <2>4, <3>2 DEF GameSound, Both, Held
  <2>5. QED BY <2>3, <2>4
<1>6. QED BY <1>2, <1>3, <1>4, <1>5 DEF RpsInv

\* The second one's request, while the other is held: both can be answered.
LEMMA PartnerHeld ==
  ASSUME RpsInv, inbox # <<>>, inbox' = Tail(inbox), NEW p \in Players, p = Head(inbox).tid,
         NEW g \in 1 .. Len(Live), p \in Both(Live[g]), Live[g].progress \notin {"WAIT_0", "RESULT"}
  PROVE  LET e == Live[g]
         IN  /\ e \in Games /\ e.p1 \in Players /\ e.p2 \in Players /\ e.p1 # e.p2
             /\ Held(e.p1) \/ e.p1 = p
             /\ Held(e.p2) \/ e.p2 = p
             /\ \A x \in Both(e) \ {p} : player[x].at = (IF e.progress = "QUIT_PENDING" THEN "quit" ELSE "play")
<1>1. PICK e \in Games : e = Live[g]
  BY ElementOfSeq DEF RpsInv, RpsTypes
<1>2. GameSound(e) /\ ~Held(p) /\ e.progress \notin {"WAIT_0", "RESULT"}
  BY <1>1, RequestTaken DEF RpsInv
<1>3. p \in {e.p1, e.p2} /\ e.p1 \in Players /\ e.p2 \in Players /\ e.p1 # e.p2
  BY <1>1, <1>2 DEF Both, Games, GameSound
<1>4. (Held(e.p1) /\ ~Held(e.p2)) \/ (Held(e.p2) /\ ~Held(e.p1))
  BY <1>2 DEF GameSound, Games
<1>5. (Held(e.p1) \/ e.p1 = p) /\ (Held(e.p2) \/ e.p2 = p)
  BY <1>2, <1>3, <1>4
<1>6. \A x \in Both(e) \ {p} : player[x].at = (IF e.progress = "QUIT_PENDING" THEN "quit" ELSE "play")
  BY <1>2, <1>3, <1>5 DEF GameSound, Both
<1>7. QED BY <1>1, <1>3, <1>5, <1>6
\* AnnounceResult: both have moved and are held; both are told the result and the
\* game goes on.
LEMMA ResultKeeps ==
  ASSUME RpsInv, AnnounceResult
  PROVE  RpsInv'
<1>0. PICK g \in 1 .. Len(games_list) : g = key_wait.game
  BY DEF AnnounceResult, RpsInv, KeySound
<1>1. PICK e \in GameStates : e = games_list[g] /\ e.progress = "WAIT_0"
  BY <1>0, ElementOfSeq DEF AnnounceResult, RpsInv, KeySound
<1>2. /\ key_wait.then = "result" /\ key_wait' = NoKey
      /\ games_list' = games_list /\ inbox' = inbox /\ rps_waiting' = rps_waiting
  BY DEF AnnounceResult
<1>3. /\ games_list \in Seq(GameStates) /\ Len(games_list) \in Nat
      /\ Live = [games_list EXCEPT ![g].progress = "RESULT"] /\ Live' = games_list
  BY <1>0, <1>2 DEF Live, NoKey, RpsInv, KeySound
<1> DEFINE f == [e EXCEPT !.progress = "RESULT"]
<1>4. f \in Games /\ f.p1 = e.p1 /\ f.p2 = e.p2 /\ f.progress = "RESULT" /\ e \in Games
  BY DEF GameStates, Games
<1>5. Live = [games_list EXCEPT ![g] = f]
  BY <1>1, <1>3
<1> HIDE DEF f
<1>6. /\ g \in 1 .. Len(Live) /\ Live[g] = f /\ Live' = [Live EXCEPT ![g] = e]
  <2>1. g \in 1 .. Len(Live) /\ Live[g] = f
    BY <1>3, <1>5
  <2>2. [Live EXCEPT ![g] = e] = games_list
    <3>1. games_list \in [1 .. Len(games_list) -> GameStates]
      BY <1>3
    <3>2. [[games_list EXCEPT ![g] = f] EXCEPT ![g] = e] = games_list
      BY <1>1, <3>1
    <3>3. QED BY <1>5, <3>2
  <2>3. QED BY <1>3, <2>1, <2>2
<1>7. PICK a \in Players, b \in Players : a = e.p1 /\ b = e.p2
  BY DEF GameStates
<1>8. /\ a # b /\ Held(a) /\ Held(b) /\ player[a].at = "play" /\ player[b].at = "play"
  <2>1. GameSound(f)
    BY <1>6 DEF RpsInv
  <2>2. QED BY <1>4, <1>7, <2>1 DEF GameSound, Both
<1>9. PICK r1 \in 1 .. 3, r2 \in 1 .. 3 : ReplyTo(a, r1, b, r2)
  <2> DEFINE r == calc_game(e.m1, e.m2)
  <2>1. r \in {GAME_WIN, GAME_LOSE, GAME_DRAW}
    <3> DEFINE n1 == e.m1  n2 == e.m2
    <3> HIDE DEF n1, n2
    <3>1. calc_game(n1, n2) \in {GAME_WIN, GAME_LOSE, GAME_DRAW}
      BY DEF calc_game
    <3>2. QED BY <3>1 DEF n1, n2
  <2>2. ReplyTo(a, r, b, Swapped(r))
    BY <1>0, <1>1, <1>7 DEF AnnounceResult
  <2> HIDE DEF r
  <2>3. r \in 1 .. 3 /\ Swapped(r) \in 1 .. 3
    BY <2>1 DEF Swapped, GAME_WIN, GAME_LOSE, GAME_DRAW
  <2>4. QED BY <2>2, <2>3
<1>10. /\ player' \in [Players -> PlayerStates] /\ rps_fault' = FALSE
       /\ player'[a].at = player[a].at /\ player'[a].reply = r1 /\ ~Held(a)'
       /\ player'[b].at = player[b].at /\ player'[b].reply = r2 /\ ~Held(b)'
       /\ \A x \in Players : x # a /\ x # b => player'[x] = player[x]
  <2>1. ReplyBlocked(a) /\ ReplyBlocked(b)
    <3>1. DOMAIN inbox' = 1 .. Len(inbox)
      BY <1>2 DEF RpsInv, RpsTypes
    <3>2. QED BY <1>2, <1>8, <3>1 DEF ReplyBlocked, Held, Actions
  <2>2. r1 \in 0 .. 3 /\ r2 \in 0 .. 3
    OBVIOUS
  <2>3. BothHave(a, r1, b, r2)
    BY <1>8, <1>9, <2>1, <2>2, BothAnswered
  <2>4. QED BY <2>3 DEF BothHave
<1>11. \A x \in Players : x # a /\ x # b => (Held(x)' <=> Held(x))
  BY <1>2, <1>10 DEF Held
<1>12. /\ Live' \in Seq(Games) /\ Len(Live') = Len(Live)
       /\ Live'[g] = e /\ \A k \in 1 .. Len(Live) : k # g => Live'[k] = Live[k]
       /\ \A x \in Players : InGame(x)' <=> InGame(x)
       /\ GamesApart'
  BY <1>4, <1>6, GameReplaced
<1>13. InGame(a) /\ InGame(b)
  BY <1>4, <1>6, <1>7 DEF InGame, Both
<1>14. MailFromBlocked'
  <2>1. ASSUME NEW k \in 1 .. Len(inbox)
        PROVE  /\ inbox[k].tid \in Players /\ ~Held(inbox[k].tid)
               /\ inbox[k].action # "signup" => InGame(inbox[k].tid)
    <3>1. inbox[k] \in RpsRequests
      BY ElementOfSeq DEF RpsInv, RpsTypes
    <3>2. QED BY <3>1 DEF RpsRequests, Held, RpsInv, MailFromBlocked
  <2>2. ASSUME NEW k \in 1 .. Len(inbox)
        PROVE  /\ inbox[k].action = player'[inbox[k].tid].at
               /\ player'[inbox[k].tid].reply = NoAnswer
               /\ inbox[k].action # "signup" => InGame(inbox[k].tid)'
               /\ \A j \in 1 .. Len(inbox) : inbox[j].tid = inbox[k].tid => j = k
    <3>1. PICK x \in Players : x = inbox[k].tid
      BY <2>1
    <3>2. player'[x] = player[x] /\ (InGame(x)' <=> InGame(x))
      BY <1>8, <1>10, <1>12, <2>1, <3>1
    <3>3. InGame(inbox[k].tid)' <=> InGame(x)'
      BY <1>2, <3>1 DEF InGame
    <3>4. QED BY <2>1, <3>1, <3>2, <3>3 DEF RpsInv, MailFromBlocked
  <2>3. QED BY <1>2, <2>2 DEF MailFromBlocked
<1>15. RpsTypes' /\ StoppedOutside'
  <2>1. RpsTypes'
    BY <1>2, <1>10, <1>12 DEF RpsInv, RpsTypes
  <2>2. StoppedOutside'
    BY <1>10, <1>12, <1>13 DEF RpsInv, StoppedOutside
  <2>3. QED BY <2>1, <2>2
<1>16. OneWaits'
  <2>1. rps_waiting \subseteq Players /\ a \notin rps_waiting /\ b \notin rps_waiting
    BY <1>13 DEF RpsInv, RpsTypes, OneWaits
  <2>2. QED BY <1>2, <1>10, <1>11, <1>12, <2>1 DEF RpsInv, OneWaits
<1>17. ASSUME NEW k \in 1 .. Len(Live)
       PROVE  GameSound(Live[k])'
  <2>1. CASE k = g
    <3>1. GameSound(e)'
      <4>1. \A x \in Both(e) : x = a \/ x = b
        BY <1>7 DEF Both
      <4>2. \A x \in {a, b} : player'[x].at = "play" /\ player'[x].reply # GAME_STOP /\ ~Held(x)'
        BY <1>8, <1>10 DEF GAME_STOP
      <4>3. \A x \in Both(e) : player'[x].at = "play" /\ player'[x].reply # GAME_STOP /\ ~Held(x)'
        BY <4>1, <4>2
      <4>4. e.p1 # e.p2 /\ e.p1 \in Both(e) /\ e.p2 \in Both(e)
        BY <1>7, <1>8 DEF Both
      <4>5. QED BY <1>1, <4>3, <4>4 DEF GameSound, Both, Actions
    <3>2. QED BY <1>12, <2>1, <3>1 DEF GameSound, Both, Held
  <2>2. CASE k # g
    <3>1. PICK h \in Games : h = Live[k]
      BY ElementOfSeq DEF RpsInv, RpsTypes
    <3>2. GameSound(h) /\ Both(h) \subseteq Players /\ h.p1 \in Both(h) /\ h.p2 \in Both(h)
      BY <3>1 DEF RpsInv, Both, Games
    <3>3. a \notin Both(h) /\ b \notin Both(h)
      BY <1>4, <1>6, <1>7, <2>2, <3>1 DEF RpsInv, GamesApart, Both
    <3>4. \A x \in Both(h) : player'[x] = player[x] /\ (Held(x)' <=> Held(x))
      BY <1>10, <1>11, <3>2, <3>3
    <3>5. GameSound(h)'
      BY <3>2, <3>4 DEF GameSound, Both
    <3>6. QED BY <1>12, <2>2, <3>1, <3>5 DEF GameSound, Both, Held
  <2>3. QED BY <2>1, <2>2
<1>18. KeySound'
  BY <1>2, <1>3 DEF KeySound, NoKey
<1>19. QED BY <1>10, <1>12, <1>14, <1>15, <1>16, <1>17, <1>18 DEF RpsInv

\* DeletePair: the game that ends has left those that go on already.
LEMMA DeleteKeeps ==
  ASSUME RpsInv, DeletePair
  PROVE  RpsInv'
<1>1. /\ games_list \in Seq(GameStates) /\ key_wait.game \in 1 .. Len(games_list)
      /\ key_wait.then = "end" /\ key_wait' = NoKey
      /\ games_list' = RemoveAt(games_list, key_wait.game)
      /\ player' = player /\ rps_fault' = rps_fault /\ rps_waiting' = rps_waiting /\ inbox' = inbox
  BY DEF DeletePair, NoReply, RpsInv, KeySound
<1>2. Live' = Live
  BY <1>1 DEF Live, NoKey
<1>3. KeySound'
  <2>1. games_list' \in Seq(GameStates)
    BY <1>1, GameRemoved
  <2>2. QED BY <1>1, <2>1 DEF KeySound, NoKey
<1>4. QED BY <1>1, <1>2, <1>3 DEF RpsInv, RpsTypes, MailFromBlocked, OneWaits, GamesApart,
                                  StoppedOutside, GameSound, Both, Held, InGame

\* quit_game: the one who asks and the one who is held are told to stop, and are
\* in no game.
LEMMA QuitKeeps ==
  ASSUME RpsInv, inbox # <<>>, inbox' = Tail(inbox), NEW p \in Players, p = Head(inbox).tid,
         Head(inbox).action \in {"play", "quit"},
         NEW g \in 1 .. Len(Live), p \in Both(Live[g]), Live[g].progress \notin {"WAIT_0", "RESULT"},
         ReplyTo(Live[g].p1, GAME_STOP, Live[g].p2, GAME_STOP), Live' = RemoveAt(Live, g),
         UNCHANGED rps_waiting, KeySound'
  PROVE  RpsInv'
<1>0. Live \in Seq(Games) /\ Len(Live) \in Nat
  BY DEF RpsInv, RpsTypes
<1>1. PICK a \in Players, b \in Players : a = Live[g].p1 /\ b = Live[g].p2
  BY PartnerHeld
<1>2. /\ a # b /\ (Held(a) \/ a = p) /\ (Held(b) \/ b = p) /\ p \in {a, b}
      /\ \A x \in {a, b} \ {p} : player[x].at \in {"play", "quit"}
  BY <1>1, PartnerHeld DEF Both
<1>3. /\ player[p].at \in {"play", "quit"} /\ ~Held(p)
      /\ inbox' \in Seq(RpsRequests)
      /\ (\A x \in Players : ~Held(x) /\ x # p =>
            player'[x] = player[x] /\ (InGame(x) => InGame(x)')) => MailFromBlocked'
      /\ \A x \in Players : player'[x] = player[x] => (Held(x)' <=> Held(x) \/ x = p)
  BY RequestTaken
<1>4. /\ player' \in [Players -> PlayerStates] /\ rps_fault' = FALSE
      /\ player'[a].at = player[a].at /\ player'[a].reply = 0 /\ ~Held(a)'
      /\ player'[b].at = player[b].at /\ player'[b].reply = 0 /\ ~Held(b)'
      /\ \A x \in Players : x # a /\ x # b => player'[x] = player[x]
  <2>1. 0 \in 0 .. 3 /\ ReplyTo(a, 0, b, 0)
    BY <1>1 DEF GAME_STOP
  <2>2. ReplyBlocked(a) /\ ReplyBlocked(b)
    BY <1>2, RequestTaken
  <2>3. BothHave(a, 0, b, 0)
    BY <1>2, <2>1, <2>2, BothAnswered
  <2>4. QED BY <2>3 DEF BothHave
<1>5. player[a].at \in {"play", "quit"} /\ player[b].at \in {"play", "quit"}
  BY <1>2, <1>3
<1> DEFINE from(i) == IF i < g THEN i ELSE i + 1
<1>6. /\ Live' \in Seq(Games) /\ Len(Live') = Len(Live) - 1
      /\ \A i \in 1 .. Len(Live') : Live'[i] = Live[from(i)]
  BY <1>0, GameRemoved
<1>7. /\ \A i \in 1 .. Len(Live') : from(i) \in 1 .. Len(Live) /\ from(i) # g
      /\ \A i, j \in 1 .. Len(Live') : i # j => from(i) # from(j)
      /\ \A k \in 1 .. Len(Live) : k # g => \E i \in 1 .. Len(Live') : from(i) = k
  <2> DEFINE n == Len(Live)
  <2>1. n \in Nat /\ g \in 1 .. n /\ Len(Live') = n - 1
    BY <1>0, <1>6
  <2> HIDE DEF n
  <2>2. \A i \in 1 .. n - 1 : from(i) \in 1 .. n /\ from(i) # g
    BY <2>1
  <2>3. \A i, j \in 1 .. n - 1 : i # j => from(i) # from(j)
    BY <2>1
  <2>4. ASSUME NEW k \in 1 .. n, k # g
        PROVE  \E i \in 1 .. n - 1 : from(i) = k
    <3>1. CASE k < g
      <4>1. k \in 1 .. n - 1 /\ from(k) = k
        BY <2>1, <3>1
      <4>2. QED BY <4>1
    <3>2. CASE ~(k < g)
      <4>1. k - 1 \in 1 .. n - 1 /\ from(k - 1) = k
        BY <2>1, <2>4, <3>2
      <4>2. QED BY <4>1
    <3>3. QED BY <3>1, <3>2
  <2>5. QED BY <2>1, <2>2, <2>3, <2>4 DEF n
<1> HIDE DEF from
<1>8. \A k \in 1 .. Len(Live) : k # g => a \notin Both(Live[k]) /\ b \notin Both(Live[k])
  BY <1>1 DEF RpsInv, GamesApart, Both
<1>9. \A x \in Players : InGame(x)' <=> InGame(x) /\ x # a /\ x # b
  <2> SUFFICES ASSUME NEW x \in Players
               PROVE  InGame(x)' <=> InGame(x) /\ x # a /\ x # b
    OBVIOUS
  <2>1. InGame(x)' <=> \E i \in 1 .. Len(Live') : x \in Both(Live[from(i)])
    BY <1>6 DEF InGame, Both
  <2>2. ASSUME NEW i \in 1 .. Len(Live'), x \in Both(Live[from(i)])
        PROVE  InGame(x) /\ x # a /\ x # b
    BY <1>7, <1>8, <2>2 DEF InGame
  <2>3. ASSUME InGame(x), x # a, x # b
        PROVE  \E i \in 1 .. Len(Live') : x \in Both(Live[from(i)])
    <3>1. PICK k \in 1 .. Len(Live) : x \in Both(Live[k])
      BY <2>3 DEF InGame
    <3>2. k # g
      BY <1>1, <2>3, <3>1 DEF Both
    <3>3. QED BY <1>7, <3>1, <3>2
  <2>4. QED BY <2>1, <2>2, <2>3
<1>10. InGame(a) /\ InGame(b)
  BY <1>1 DEF InGame, Both
<1>11. MailFromBlocked'
  BY <1>2, <1>3, <1>4, <1>9
<1>12. RpsTypes'
  BY <1>3, <1>4, <1>6 DEF RpsInv, RpsTypes
<1>13. StoppedOutside'
  BY <1>4, <1>5, <1>9 DEF RpsInv, StoppedOutside, GAME_STOP
<1>14. OneWaits'
  <2>1. rps_waiting \subseteq Players /\ a \notin rps_waiting /\ b \notin rps_waiting
    BY <1>10 DEF RpsInv, RpsTypes, OneWaits
  <2>2. \A w \in rps_waiting : Held(w)' <=> Held(w) \/ w = p
    BY <1>3, <1>4, <2>1
  <2>3. QED BY <1>4, <1>9, <2>1, <2>2 DEF RpsInv, OneWaits
<1>15. GamesApart'
  <2> SUFFICES ASSUME NEW i \in 1 .. Len(Live'), NEW j \in 1 .. Len(Live'), i # j
               PROVE  (Both(Live[i]) \cap Both(Live[j]) = {})'
    BY DEF GamesApart
  <2>1. Both(Live[from(i)]) \cap Both(Live[from(j)]) = {}
    BY <1>7 DEF RpsInv, GamesApart
  <2>2. QED BY <1>6, <2>1 DEF Both
<1>16. ASSUME NEW i \in 1 .. Len(Live')
       PROVE  GameSound(Live[i])'
  <2>1. from(i) \in 1 .. Len(Live) /\ from(i) # g /\ Live'[i] = Live[from(i)]
    BY <1>6, <1>7
  <2>2. PICK f \in Games : f = Live[from(i)]
    BY <1>0, <2>1, ElementOfSeq
  <2>3. GameSound(f) /\ Both(f) \subseteq Players
    BY <2>1, <2>2 DEF RpsInv, Both, Games
  <2>4. a \notin Both(f) /\ b \notin Both(f)
    BY <1>8, <2>1, <2>2
  <2>5. \A x \in Both(f) : player'[x] = player[x] /\ x # Head(inbox).tid
    BY <1>2, <1>4, <2>3, <2>4
  <2>6. GameSound(f)'
    BY <2>3, <2>5, OtherGame
  <2>7. QED BY <2>1, <2>2, <2>6 DEF GameSound, Both, Held
<1>17. QED BY <1>4, <1>11, <1>12, <1>13, <1>14, <1>15, <1>16 DEF RpsInv

\* quit_game, once for both that ask for it.
LEMMA QuitGame ==
  ASSUME RpsInv, key_wait = NoKey, NEW g \in 1 .. Len(games_list), quit_game(g)
  PROVE  /\ ReplyTo(Live[g].p1, GAME_STOP, Live[g].p2, GAME_STOP)
         /\ Live' = RemoveAt(Live, g) /\ KeySound'
<1>1. Live = games_list
  BY DEF Live, NoKey
<1>2. /\ games_list' = games_list /\ key_wait' = [then |-> "end", game |-> g]
      /\ ReplyTo(games_list[g].p1, GAME_STOP, games_list[g].p2, GAME_STOP)
  BY DEF quit_game, AwaitKey
<1>3. games_list \in Seq(GameStates) /\ g \in Nat
  BY DEF RpsInv, KeySound
<1>4. Live' = RemoveAt(Live, g)
  BY <1>1, <1>2 DEF Live
<1>5. KeySound'
  BY <1>2, <1>3 DEF KeySound
<1>6. QED BY <1>1, <1>2, <1>4, <1>5

\* rps_server_main serves a request of whatever kind.
LEMMA ServeKeeps ==
  ASSUME RpsInv, MaxGames >= 2, RpsServe
  PROVE  RpsInv'
<1>1. inbox # <<>> /\ inbox' = Tail(inbox) /\ key_wait = NoKey
  BY DEF RpsServe
<1>2. PICK p \in Players, act \in Actions, move \in Hands :
        p = Head(inbox).tid /\ act = Head(inbox).action /\ move = Head(inbox).move
  BY <1>1, RequestTaken DEF RpsRequests
<1>3. /\ act = "signup" => ServeSignup(p)
      /\ act = "play" => ServePlay(p, move)
      /\ act = "quit" => ServeQuit(p)
  BY <1>2 DEF RpsServe, Actions
<1>4. CASE act = "signup"
  BY <1>1, <1>2, <1>3, <1>4, SignupKeeps
<1>5. CASE act \in {"play", "quit"}
  <2>1. InGame(p)
    BY <1>1, <1>2, <1>5, RequestTaken
  <2>2. Live = games_list
    BY <1>1, <2>1, GameFound
  <2>3. PICK g \in 1 .. Len(games_list) : g = GameOf(p) /\ g # 0 /\ p \in Both(games_list[g])
    BY <1>1, <2>1, <2>2, GameFound
  <2>4. games_list \in Seq(GameStates) /\ key_wait = NoKey
    BY <1>1 DEF RpsInv, KeySound
  <2>5. PICK old \in GameStates : old = games_list[g]
    BY <2>4, ElementOfSeq
  <2>6. ASSUME quit_game(g), rps_waiting' = rps_waiting, old.progress # "WAIT_0"
        PROVE  RpsInv'
    <3>1. /\ ReplyTo(Live[g].p1, GAME_STOP, Live[g].p2, GAME_STOP)
          /\ Live' = RemoveAt(Live, g) /\ KeySound'
      BY <1>1, <2>6, QuitGame
    <3>2. g \in 1 .. Len(Live) /\ p \in Both(Live[g]) /\ Live[g].progress \notin {"WAIT_0", "RESULT"}
      BY <2>2, <2>3, <2>5, <2>6 DEF GameStates
    <3>3. QED BY <1>1, <1>2, <1>5, <2>6, <3>1, <3>2, QuitKeeps
  <2>7. ASSUME NEW e \in GameStates, e.p1 = old.p1, e.p2 = old.p2,
               \/ old.progress = "WAIT_0" /\ act = "play" /\ e.progress = "WAIT_1"
               \/ old.progress = "WAIT_0" /\ act = "quit" /\ e.progress = "QUIT_PENDING",
               games_list' = [games_list EXCEPT ![g] = e],
               UNCHANGED <<player, rps_fault, rps_waiting, key_wait>>
        PROVE  RpsInv'
    <3>1. e \in Games /\ e.p1 = Live[g].p1 /\ e.p2 = Live[g].p2 /\ g \in 1 .. Len(Live) /\ p \in Both(Live[g])
      BY <2>2, <2>3, <2>5, <2>7 DEF GameStates, Games
    <3>2. Live' = [Live EXCEPT ![g] = e]
      BY <2>2, <2>4, <2>7 DEF Live, NoKey
    <3>3. KeySound'
      BY <2>4, <2>7 DEF KeySound, NoKey
    <3>4. \/ Live[g].progress = "WAIT_0" /\ act = "play" /\ e.progress = "WAIT_1"
          \/ Live[g].progress = "WAIT_0" /\ act = "quit" /\ e.progress = "QUIT_PENDING"
      BY <2>2, <2>5, <2>7
    <3>5. UNCHANGED <<player, rps_fault, rps_waiting>>
      BY <2>7
    <3>6. QED BY <1>1, <1>2, <1>5, <3>1, <3>2, <3>3, <3>4, <3>5, MoveKeeps
  <2>8. CASE act = "play"
    <3> DEFINE new == IF old.p1 = p THEN [old EXCEPT !.m1 = move] ELSE [old EXCEPT !.m2 = move]
    <3>1. PICK n \in GameStates : n = new /\ n.p1 = old.p1 /\ n.p2 = old.p2
      <4>1. new \in GameStates /\ new.p1 = old.p1 /\ new.p2 = old.p2
        BY DEF GameStates
      <4>2. QED BY <4>1
    <3>2. /\ rps_waiting' = rps_waiting
          /\ old.progress = "WAIT_0" =>
               /\ games_list' = [games_list EXCEPT ![g] = [n EXCEPT !.progress = "WAIT_1"]]
               /\ player' = player /\ rps_fault' = rps_fault /\ key_wait' = key_wait
          /\ old.progress = "WAIT_1" =>
               /\ games_list' = [games_list EXCEPT ![g] = [n EXCEPT !.progress = "WAIT_0"]]
               /\ player' = player /\ rps_fault' = rps_fault
               /\ key_wait' = [then |-> "result", game |-> g]
          /\ old.progress \notin {"WAIT_0", "WAIT_1"} => quit_game(g)
      BY <1>3, <2>3, <2>5, <2>8, <3>1 DEF ServePlay, NoReply, NoWait, AwaitKey
    <3> HIDE DEF new
    <3>3. CASE old.progress = "WAIT_0"
      <4> DEFINE e == [n EXCEPT !.progress = "WAIT_1"]
      <4>1. e \in GameStates /\ e.p1 = old.p1 /\ e.p2 = old.p2 /\ e.progress = "WAIT_1"
        BY <3>1 DEF GameStates
      <4> HIDE DEF e
      <4>2. games_list' = [games_list EXCEPT ![g] = e] /\ UNCHANGED <<player, rps_fault, rps_waiting, key_wait>>
        BY <3>2, <3>3 DEF e
      <4>3. QED BY <2>7, <2>8, <3>3, <4>1, <4>2
    <3>4. CASE old.progress = "WAIT_1"
      <4> DEFINE e == [n EXCEPT !.progress = "WAIT_0"]
                 f == [n EXCEPT !.progress = "RESULT"]
      <4>1. /\ e \in GameStates /\ e.progress = "WAIT_0" /\ f = [e EXCEPT !.progress = "RESULT"]
            /\ f \in Games /\ f.p1 = old.p1 /\ f.p2 = old.p2 /\ f.progress = "RESULT"
        BY <3>1 DEF GameStates, Games
      <4>2. /\ games_list' = [games_list EXCEPT ![g] = e] /\ key_wait' = [then |-> "result", game |-> g]
            /\ UNCHANGED <<player, rps_fault, rps_waiting>>
        BY <3>2, <3>4
      <4> HIDE DEF e, f
      <4>3. /\ games_list' \in Seq(GameStates) /\ Len(games_list') = Len(games_list)
            /\ games_list'[g] = e
        BY <2>4, <4>1, <4>2
      <4>4. Live' = [Live EXCEPT ![g] = f]
        <5>1. Live' = [games_list' EXCEPT ![g].progress = "RESULT"]
          BY <4>2 DEF Live
        <5>2. Live' = [games_list' EXCEPT ![g] = f]
          BY <4>1, <4>3, <5>1
        <5>3. QED BY <2>2, <2>4, <4>2, <5>2
      <4>5. KeySound'
        BY <4>1, <4>2, <4>3 DEF KeySound
      <4>6. /\ g \in 1 .. Len(Live) /\ p \in Both(Live[g]) /\ f.p1 = Live[g].p1 /\ f.p2 = Live[g].p2
            /\ Live[g].progress = "WAIT_1" /\ act = "play" /\ f.progress = "RESULT"
        BY <2>2, <2>3, <2>5, <2>8, <3>4, <4>1
      <4>7. QED BY <1>1, <1>2, <1>5, <4>1, <4>2, <4>4, <4>5, <4>6, MoveKeeps
    <3>5. CASE old.progress \notin {"WAIT_0", "WAIT_1"}
      BY <2>6, <3>2, <3>5
    <3>6. QED BY <3>3, <3>4, <3>5
  <2>9. CASE act = "quit"
    <3>1. /\ rps_waiting' = rps_waiting
          /\ old.progress \in {"QUIT_PENDING", "WAIT_1"} => quit_game(g)
          /\ old.progress \notin {"QUIT_PENDING", "WAIT_1"} =>
               /\ games_list' = [games_list EXCEPT ![g].progress = "QUIT_PENDING"]
               /\ player' = player /\ rps_fault' = rps_fault /\ key_wait' = key_wait
      BY <1>3, <2>3, <2>5, <2>9 DEF ServeQuit, NoReply, NoWait
    <3>2. CASE old.progress \in {"QUIT_PENDING", "WAIT_1"}
      BY <2>6, <3>1, <3>2
    <3>3. CASE old.progress \notin {"QUIT_PENDING", "WAIT_1"}
      <4> DEFINE e == [old EXCEPT !.progress = "QUIT_PENDING"]
      <4>1. e \in GameStates /\ e.p1 = old.p1 /\ e.p2 = old.p2 /\ e.progress = "QUIT_PENDING"
        BY DEF GameStates
      <4>2. games_list' = [games_list EXCEPT ![g] = e] /\ UNCHANGED <<player, rps_fault, rps_waiting, key_wait>>
        BY <2>4, <2>5, <3>1, <3>3
      <4>3. old.progress = "WAIT_0"
        BY <3>3 DEF GameStates
      <4> HIDE DEF e
      <4>4. QED BY <2>7, <2>9, <4>1, <4>2, <4>3
    <3>4. QED BY <3>2, <3>3
  <2>10. QED BY <1>5, <2>8, <2>9
<1>6. QED BY <1>4, <1>5 DEF Actions

\* The rock-paper-scissors server answers only players that are blocked on it,
\* never looks for a game that is not there, and leaves no player in a game whose
\* partner has gone, provided all_pairs has room for two games (rps_server_main).
THEOREM PartnersPresentTheorem ==
  ASSUME MaxGames >= 2
  PROVE  RpsInit /\ [][RpsNext]_rpsvars => []PartnersPresent
<1>1. RpsInit => RpsInv
  <2> SUFFICES ASSUME RpsInit
               PROVE  RpsInv
    OBVIOUS
  <2>1. /\ rps_waiting = {} /\ Live = <<>> /\ inbox = <<>> /\ rps_fault = FALSE
        /\ Len(Live) = 0 /\ Len(inbox) = 0 /\ games_list = <<>> /\ key_wait = NoKey
        /\ player = [q \in Players |-> [at |-> "new", i |-> 0, reply |-> NoAnswer]]
    BY DEF RpsInit, Live, NoKey
  <2>2. RpsTypes
    BY <2>1 DEF RpsTypes, PlayerStates, NoAnswer
  <2>3. StoppedOutside
    BY <2>1 DEF StoppedOutside
  <2>4. KeySound
    BY <2>1 DEF KeySound, NoKey
  <2>5. QED BY <2>1, <2>2, <2>3, <2>4 DEF RpsInv, MailFromBlocked, OneWaits, GamesApart
<1>2. RpsInv /\ [RpsNext]_rpsvars => RpsInv'
  <2> SUFFICES ASSUME RpsInv, [RpsNext]_rpsvars
               PROVE  RpsInv'
    OBVIOUS
  <2>1. CASE RpsServe
    BY <2>1, ServeKeeps
  <2>2. ASSUME NEW p \in Players, SignUp(p) \/ OnReply(p)
        PROVE  RpsInv'
    BY <2>2, PlayerKeeps
  <2>3. CASE AnnounceResult
    BY <2>3, ResultKeeps
  <2>4. CASE DeletePair
    BY <2>4, DeleteKeeps
  <2>5. CASE UNCHANGED rpsvars
    <3>1. Live' = Live /\ (KeySound' <=> KeySound)
      BY <2>5 DEF rpsvars, Live, KeySound
    <3>2. /\ player' = player /\ inbox' = inbox /\ rps_waiting' = rps_waiting /\ rps_fault' = rps_fault
      BY <2>5 DEF rpsvars
    <3>3. (RpsTypes /\ OneWaits /\ GamesApart /\ StoppedOutside)'
      BY <3>1, <3>2 DEF RpsInv, RpsTypes, OneWaits, GamesApart, StoppedOutside, Both, Held, InGame
    <3>4. MailFromBlocked'
      BY <3>1, <3>2 DEF RpsInv, MailFromBlocked, InGame, Both
    <3>5. \A g \in 1 .. Len(Live') : GameSound(Live[g])'
      BY <3>1, <3>2 DEF RpsInv, GameSound, Both, Held
    <3>6. QED BY <3>1, <3>2, <3>3, <3>4, <3>5 DEF RpsInv
  <2>6. QED BY <2>1, <2>2, <2>3, <2>4, <2>5 DEF RpsNext
<1>3. RpsInv => PartnersPresent
  <2> SUFFICES ASSUME RpsInv
               PROVE  PartnersPresent
    OBVIOUS
  <2> DEFINE On == {g \in DOMAIN games_list : key_wait # [then |-> "end", game |-> g]}
             k == key_wait.game
             place(g) == IF key_wait.then = "end" /\ g > k THEN g - 1 ELSE g
  <2>1. /\ DOMAIN games_list = 1 .. Len(games_list) /\ Len(games_list) \in Nat
        /\ games_list \in Seq(GameStates) /\ rps_fault = FALSE
        /\ key_wait.then # "receive" => k \in 1 .. Len(games_list)
        /\ key_wait \in [then : {"receive", "result", "end"}, game : Nat]
    BY DEF RpsInv, KeySound
  <2>2. ASSUME NEW g \in On
        PROVE  /\ place(g) \in 1 .. Len(Live)
               /\ Both(Live[place(g)]) = {games_list[g].p1, games_list[g].p2}
    <3>1. g \in 1 .. Len(games_list) /\ games_list[g] \in GameStates
      BY <2>1, ElementOfSeq
    <3>2. CASE key_wait.then = "end"
      <4>1. g # k
        <5>1. key_wait = [then |-> "end", game |-> k]
          BY <2>1, <3>2
        <5>2. QED BY <5>1
      <4>2. /\ Live = RemoveAt(games_list, k) /\ Len(Live) = Len(games_list) - 1
            /\ \A i \in 1 .. Len(Live) : Live[i] = games_list[IF i < k THEN i ELSE i + 1]
        <5>1. Live = RemoveAt(games_list, k)
          BY <3>2 DEF Live
        <5>2. QED BY <2>1, <3>2, <5>1, GameRemoved
      <4> HIDE DEF k
      <4>3. /\ place(g) \in 1 .. Len(Live)
            /\ (IF place(g) < k THEN place(g) ELSE place(g) + 1) = g
        BY <2>1, <3>1, <3>2, <4>1, <4>2
      <4>4. QED BY <4>2, <4>3 DEF Both
    <3>3. CASE key_wait.then = "result"
      <4>1. Live = [games_list EXCEPT ![k].progress = "RESULT"]
        BY <3>3 DEF Live
      <4>2. /\ Len(Live) = Len(games_list)
            /\ Live[g].p1 = games_list[g].p1 /\ Live[g].p2 = games_list[g].p2
        BY <2>1, <3>1, <3>3, <4>1 DEF GameStates
      <4>3. QED BY <3>1, <3>3, <4>2 DEF Both
    <3>4. CASE key_wait.then = "receive"
      BY <3>1, <3>4 DEF Live, Both
    <3>5. QED BY <2>1, <3>2, <3>3, <3>4
  <2>3. ASSUME NEW g \in On, NEW h \in On, g # h
        PROVE  place(g) # place(h)
    <3>1. g \in Nat /\ h \in Nat /\ g # h
      BY <2>1, <2>3
    <3>2. key_wait.then = "end" => g # k /\ h # k /\ k \in Nat
      BY <2>1
    <3> HIDE DEF k, On
    <3>3. QED BY <3>1, <3>2
  <2> HIDE DEF place
  <2>4. \A g, h \in On : g # h =>
          {games_list[g].p1, games_list[g].p2} \cap {games_list[h].p1, games_list[h].p2} = {}
    <3> SUFFICES ASSUME NEW g \in On, NEW h \in On, g # h
                 PROVE  {games_list[g].p1, games_list[g].p2} \cap {games_list[h].p1, games_list[h].p2} = {}
      OBVIOUS
    <3>1. Both(Live[place(g)]) \cap Both(Live[place(h)]) = {}
      BY <2>2, <2>3 DEF RpsInv, GamesApart
    <3>2. QED BY <2>2, <3>1
  <2>5. ASSUME NEW g \in On, NEW p \in {games_list[g].p1, games_list[g].p2}
        PROVE  /\ p \notin rps_waiting
               /\ player[p].at \in {"signup", "play", "quit"}
               /\ player[p].at = "signup" => player[p].reply = RPS_SIGNUP
    <3>1. p \in Both(Live[place(g)]) /\ GameSound(Live[place(g)])
      BY <2>2 DEF RpsInv
    <3>2. InGame(p)
      BY <2>2, <3>1 DEF InGame
    <3>3. QED BY <3>1, <3>2 DEF RpsInv, OneWaits, GameSound, Actions
  <2>6. QED BY <2>1, <2>4, <2>5 DEF PartnersPresent
<1>4. QED BY <1>1, <1>2, <1>3, PTL

-----------------------------------------------------------------------------
(* user/src/clock and ke_who_is: delays of the C programs.                 *)

CkRequests ==
  [tid : CkClients \cup {"notifier"}, kind : {"notify", "time", "delay", "until"}, ticks : Int]
CkFrames == [name : {"clock", "svc"}, i : Nat, clock : BOOLEAN]
CkTasks == [stack : Seq(CkFrames), at : {"ask", "free", "clock", "failed"}, age : Nat]

CkTypes ==
  /\ names \subseteq {"clock", "svc"}
  /\ waits \subseteq [tid : CkClients, left : Nat]
  /\ ckbox \in Seq(CkRequests)
  /\ ticker \in {"await", "sent"}
  /\ task \in [CkClients -> CkTasks]

\* Nobody asks again before the answer: of each task there is a request in the
\* mailbox or an element that waits, and only while it is blocked.
AskedOnce ==
  /\ \A j, k \in 1 .. Len(ckbox) : ckbox[j].tid = ckbox[k].tid => j = k
  /\ \A k \in 1 .. Len(ckbox) :
       /\ ckbox[k].kind = "notify" <=> ckbox[k].tid = "notifier"
       /\ ckbox[k].tid = "notifier" => ticker = "sent"
       /\ ckbox[k].tid # "notifier" => task[ckbox[k].tid].at = "clock"
       /\ \A w \in waits : ckbox[k].tid # w.tid
  /\ \A w \in waits : task[w.tid].at = "clock"
  /\ \A v, w \in waits : v.tid = w.tid => v = w

ElementsCounted ==
  /\ IsFiniteSet(waits) /\ free_list \in Nat
  /\ free_list + Cardinality(waits) = CkCap

\* The innermost call of ke_who_is has made i attempts, RetrySep ticks each; it
\* is the one for the service, or made at most one, for once the clock is known
\* the next attempt finds it.
InnerSound(t, known) ==
  LET f == t.stack[1] IN
    /\ f.clock => known
    /\ t.at = "clock" => f.clock
    /\ ~f.clock => f.i = 0
    /\ f.i <= RetryLimit /\ (f.i = RetryLimit <=> t.at = "failed")
    /\ f.name = "clock" => f.i <= (IF t.at = "ask" THEN 1 ELSE 0)
    /\ f.i * RetrySep <= t.age

\* The outermost call looks for the service, every other for the clock; those
\* that called another have not waited yet.
StackSound(t, known) ==
  /\ t.at \in {"ask", "failed"} => t.stack # <<>>
  /\ \A k \in 1 .. Len(t.stack) : t.stack[k].name = (IF k = Len(t.stack) THEN "svc" ELSE "clock")
  /\ \A k \in 2 .. Len(t.stack) : t.stack[k].i = 0 /\ ~t.stack[k].clock
  /\ t.stack # <<>> => InnerSound(t, known)

\* An attempt that is under way asks for RetrySep ticks, and has waited for those
\* that are not left.
AttemptsPaid ==
  /\ \A k \in 1 .. Len(ckbox) :
       ckbox[k].tid # "notifier" /\ task[ckbox[k].tid].stack # <<>> =>
         ckbox[k].kind = "delay" /\ ckbox[k].ticks = RetrySep
  /\ \A w \in waits :
       task[w.tid].stack # <<>> =>
         task[w.tid].stack[1].i * RetrySep + RetrySep <= task[w.tid].age + w.left

CkInv ==
  /\ CkTypes /\ ~ck_fault /\ AskedOnce /\ ElementsCounted
  /\ \A c \in CkClients : StackSound(task[c], "clock" \in names)
  /\ AttemptsPaid

\* As in the code: more than one attempt (50), and an element (of 256) for each
\* client task; the notifier is none of them.
ElementForEach ==
  /\ RetryLimit >= 2 /\ "notifier" \notin CkClients
  /\ IsFiniteSet(CkClients) /\ Cardinality(CkClients) <= CkCap

\* The ticks that the attempts made have waited, and the next one's.
LEMMA AttemptTicks ==
  ASSUME NEW i \in Nat, i < RetryLimit
  PROVE  /\ i * RetrySep \in Nat /\ RetrySep \in Nat
         /\ (i + 1) * RetrySep = i * RetrySep + RetrySep
         /\ (i + 1) * RetrySep <= RetryLimit * RetrySep
<1>0. RetrySep \in Nat /\ RetryLimit \in Nat
  BY ClockAssumption
<1>1. (i + 1) * RetrySep = i * RetrySep + RetrySep /\ i * RetrySep \in Nat
  BY <1>0
<1>2. PICK d \in Nat : RetryLimit = (i + 1) + d
  <2>1. RetryLimit - (i + 1) \in Nat /\ RetryLimit = (i + 1) + (RetryLimit - (i + 1))
    BY <1>0
  <2>2. QED BY <2>1
<1>3. RetryLimit * RetrySep = (i + 1) * RetrySep + d * RetrySep /\ d * RetrySep \in Nat
  BY <1>0, <1>2
<1>4. QED BY <1>0, <1>1, <1>3

\* The fields of a task, and of its innermost call.
LEMMA TaskFields ==
  ASSUME NEW t \in CkTasks
  PROVE  /\ t = [stack |-> t.stack, at |-> t.at, age |-> t.age]
         /\ t.stack \in Seq(CkFrames) /\ t.at \in {"ask", "free", "clock", "failed"} /\ t.age \in Nat
         /\ \A k \in 1 .. Len(t.stack) : t.stack[k] \in CkFrames
         /\ t.stack # <<>> => 1 \in 1 .. Len(t.stack) /\ t.stack[1] \in CkFrames /\ t.stack[1].i \in Nat
<1>1. /\ t = [stack |-> t.stack, at |-> t.at, age |-> t.age]
      /\ t.stack \in Seq(CkFrames) /\ t.at \in {"ask", "free", "clock", "failed"} /\ t.age \in Nat
  BY DEF CkTasks
<1>2. \A k \in 1 .. Len(t.stack) : t.stack[k] \in CkFrames
  BY <1>1
<1>3. t.stack # <<>> => 1 \in 1 .. Len(t.stack)
  BY <1>1, EmptySeq
<1>4. QED BY <1>1, <1>2, <1>3 DEF CkFrames

\* Whoever waited in full makes the next attempt, or gives up after the last.
LEMMA ResumeSound ==
  ASSUME ElementForEach, NEW t \in CkTasks, NEW known \in BOOLEAN, StackSound(t, known),
         t.at = "clock", t.stack # <<>> => t.stack[1].i * RetrySep + RetrySep <= t.age
  PROVE  Resume(t) \in CkTasks /\ StackSound(Resume(t), known) /\ Resume(t).at # "clock"
<1>1. CASE t.stack = <<>>
  <2>1. Resume(t) = [stack |-> t.stack, at |-> "free", age |-> t.age]
    BY <1>1, TaskFields DEF Resume
  <2>2. Resume(t) \in CkTasks /\ Resume(t).stack = <<>> /\ Len(Resume(t).stack) = 0 /\ Resume(t).at = "free"
    BY <1>1, <2>1, TaskFields DEF CkTasks
  <2>3. QED BY <2>2 DEF StackSound
<1>2. CASE t.stack # <<>>
  <2> DEFINE f == t.stack[1]  g == [f EXCEPT !.i = @ + 1]
             s == [t.stack EXCEPT ![1] = g]
             at == IF f.i + 1 = RetryLimit THEN "failed" ELSE "ask"
  <2>1. /\ 1 \in 1 .. Len(t.stack) /\ f \in CkFrames /\ f.i \in Nat /\ t.stack \in Seq(CkFrames)
        /\ \A k \in 1 .. Len(t.stack) : t.stack[k] \in CkFrames
        /\ t.age \in Nat /\ RetryLimit \in Nat /\ RetryLimit >= 2
    BY <1>2, TaskFields, ClockAssumption DEF ElementForEach
  <2>2. /\ f.clock /\ known /\ f.i < RetryLimit /\ (f.name = "clock" => f.i = 0)
        /\ \A k \in 1 .. Len(t.stack) : t.stack[k].name = (IF k = Len(t.stack) THEN "svc" ELSE "clock")
        /\ \A k \in 2 .. Len(t.stack) : t.stack[k].i = 0 /\ ~t.stack[k].clock
    BY <1>2, <2>1 DEF StackSound, InnerSound
  <2>3. Resume(t) = [stack |-> s, at |-> at, age |-> t.age]
    <3>1. Resume(t) = [t EXCEPT !.stack[1].i = @ + 1, !.at = at]
      BY <1>2 DEF Resume
    <3>2. t = [stack |-> t.stack, at |-> t.at, age |-> t.age]
      BY TaskFields
    <3>3. QED BY <3>1, <3>2
  <2>4. /\ g \in CkFrames /\ g.name = f.name /\ g.clock = f.clock /\ g.i = f.i + 1
        /\ s \in Seq(CkFrames) /\ Len(s) = Len(t.stack) /\ s # <<>> /\ s[1] = g
        /\ \A k \in 2 .. Len(s) : s[k] = t.stack[k]
        /\ at \in {"ask", "failed"}
    <3>1. g \in CkFrames /\ g.name = f.name /\ g.clock = f.clock /\ g.i = f.i + 1
      BY <2>1 DEF CkFrames
    <3>2. s \in Seq(CkFrames) /\ Len(s) = Len(t.stack) /\ s[1] = g /\ \A k \in 2 .. Len(s) : s[k] = t.stack[k]
      BY <2>1, <3>1
    <3>3. s # <<>>
      BY <2>1, <3>2, EmptySeq
    <3>4. QED BY <3>1, <3>2, <3>3
  <2>5. Resume(t) \in CkTasks /\ Resume(t).stack = s /\ Resume(t).at = at /\ Resume(t).age = t.age
    BY <2>1, <2>3, <2>4 DEF CkTasks
  <2>6. \A k \in 1 .. Len(s) : s[k].name = (IF k = Len(s) THEN "svc" ELSE "clock")
    <3> SUFFICES ASSUME NEW k \in 1 .. Len(s)
                 PROVE  s[k].name = t.stack[k].name
      BY <2>2, <2>4
    <3>1. CASE k = 1
      BY <2>4, <3>1
    <3>2. CASE k # 1
      <4>1. k \in 2 .. Len(s)
        BY <2>1, <2>4, <3>2
      <4>2. QED BY <2>4, <4>1
    <3>3. QED BY <3>1, <3>2
  <2>7. g.i * RetrySep <= t.age
    BY <1>2, <2>1, <2>2, <2>4, AttemptTicks
  <2>8. InnerSound(Resume(t), known)
    <3>1. /\ g.clock /\ known /\ g.i <= RetryLimit
          /\ (g.i = RetryLimit <=> at = "failed") /\ at # "clock"
          /\ g.name = "clock" => at = "ask" /\ g.i = 1
      BY <2>1, <2>2, <2>4
    <3>2. QED BY <2>4, <2>5, <2>7, <3>1, ClockAssumption DEF InnerSound
  <2>9. \A k \in 2 .. Len(s) : s[k].i = 0 /\ ~s[k].clock
    BY <2>2, <2>4
  <2>10. StackSound(Resume(t), known)
    <3> HIDE DEF s, at, g, f
    <3>1. QED BY <2>4, <2>5, <2>6, <2>8, <2>9 DEF StackSound
  <2>11. Resume(t).at # "clock"
    <3> HIDE DEF at
    <3>1. QED BY <2>4, <2>5
  <2>12. QED BY <2>5, <2>10, <2>11
<1>3. QED BY <1>1, <1>2

\* A task as a message of the clock server leaves it, n ticks later.
Aged(t, n) == [t EXCEPT !.age = IF @ < RetryLimit * RetrySep THEN @ + n ELSE @]

LEMMA AgedSound ==
  ASSUME NEW t \in CkTasks, NEW n \in {0, 1}, NEW known \in BOOLEAN, StackSound(t, known)
  PROVE  /\ Aged(t, n) \in CkTasks /\ StackSound(Aged(t, n), known)
         /\ Aged(t, n).stack = t.stack /\ Aged(t, n).at = t.at
         /\ Aged(t, n).age \in {t.age, t.age + n}
         /\ Aged(t, n).age = t.age => n = 0 \/ RetryLimit * RetrySep <= t.age
<1>1. RetryLimit * RetrySep \in Nat /\ RetrySep \in Nat
  BY ClockAssumption
<1>2. /\ Aged(t, n) \in CkTasks
      /\ Aged(t, n).stack = t.stack /\ Aged(t, n).at = t.at
      /\ Aged(t, n).age = IF t.age < RetryLimit * RetrySep THEN t.age + n ELSE t.age
  BY <1>1 DEF Aged, CkTasks
<1>3. /\ Aged(t, n).age \in {t.age, t.age + n} /\ Aged(t, n).age >= t.age /\ Aged(t, n).age \in Nat /\ t.age \in Nat
      /\ Aged(t, n).age = t.age => n = 0 \/ RetryLimit * RetrySep <= t.age
  BY <1>1, <1>2, TaskFields
<1>4. StackSound(Aged(t, n), known)
  <2>1. ASSUME t.stack # <<>>
        PROVE  InnerSound(Aged(t, n), known)
    <3>1. InnerSound(t, known) /\ t.stack[1].i \in Nat
      BY <2>1, TaskFields DEF StackSound
    <3>2. t.stack[1].i * RetrySep \in Nat
      BY <1>1, <3>1
    <3>3. t.stack[1].i * RetrySep <= Aged(t, n).age
      BY <1>3, <3>1, <3>2 DEF InnerSound
    <3>4. QED BY <1>2, <3>1, <3>3 DEF InnerSound
  <2>2. QED BY <1>2, <2>1 DEF StackSound
<1>5. QED BY <1>2, <1>3, <1>4

\* Who is answered goes on, and the others only grow older.
LEMMA AnsweredSound ==
  ASSUME ElementForEach, NEW known \in BOOLEAN, task \in [CkClients -> CkTasks],
         NEW tids, NEW n \in {0, 1}, Answered(tids, n),
         \A c \in CkClients : StackSound(task[c], known),
         \A c \in tids \cap CkClients :
           /\ task[c].at = "clock"
           /\ task[c].stack # <<>> => task[c].stack[1].i * RetrySep + RetrySep <= task[c].age + n
  PROVE  /\ task' \in [CkClients -> CkTasks]
         /\ \A c \in CkClients :
              /\ StackSound(task'[c], known)
              /\ c \in tids => task'[c].at # "clock"
              /\ c \notin tids => task'[c] = Aged(task[c], n)
<1>0. RetryLimit * RetrySep \in Nat /\ RetrySep \in Nat
  BY ClockAssumption
<1>1. task' = [c \in CkClients |-> IF c \in tids THEN Resume(Aged(task[c], n)) ELSE Aged(task[c], n)]
  BY DEF Answered, Aged
<1>2. ASSUME NEW c \in CkClients
      PROVE  /\ task'[c] \in CkTasks /\ StackSound(task'[c], known)
             /\ c \in tids => task'[c].at # "clock"
             /\ c \notin tids => task'[c] = Aged(task[c], n)
  <2> DEFINE t == Aged(task[c], n)
  <2>1. /\ t \in CkTasks /\ StackSound(t, known) /\ t.stack = task[c].stack /\ t.at = task[c].at
        /\ t.age \in {task[c].age, task[c].age + n}
        /\ t.age = task[c].age => n = 0 \/ RetryLimit * RetrySep <= task[c].age
        /\ task[c] \in CkTasks /\ task[c].age \in Nat
    <3>1. task[c] \in CkTasks /\ StackSound(task[c], known)
      OBVIOUS
    <3>2. task[c].age \in Nat
      BY <3>1, TaskFields
    <3>3. QED BY <3>1, <3>2, AgedSound
  <2>2. CASE c \in tids
    <3>1. t.at = "clock" /\ task'[c] = Resume(t)
      BY <1>1, <2>1, <2>2
    <3>2. ASSUME t.stack # <<>>
          PROVE  t.stack[1].i * RetrySep + RetrySep <= t.age
      <4>1. /\ t.stack[1].i \in Nat /\ t.stack[1].i <= RetryLimit /\ t.stack[1].i # RetryLimit
            /\ RetryLimit \in Nat
        BY <2>1, <3>1, <3>2, TaskFields, ClockAssumption DEF StackSound, InnerSound
      <4>2. t.stack[1].i * RetrySep + RetrySep <= RetryLimit * RetrySep /\ t.stack[1].i * RetrySep \in Nat
        BY <4>1, AttemptTicks
      <4>3. t.stack[1].i * RetrySep + RetrySep <= task[c].age + n
        BY <2>1, <2>2, <3>2
      <4> HIDE DEF t
      <4>4. QED BY <1>0, <2>1, <4>2, <4>3
    <3>3. QED
      <4> HIDE DEF t
      <4>1. QED BY <2>1, <2>2, <3>1, <3>2, ResumeSound
  <2>3. CASE c \notin tids
    BY <1>1, <2>1, <2>3
  <2>4. QED BY <2>2, <2>3
<1>3. QED BY <1>1, <1>2

\* The entries of a mailbox that a message joins, and of one whose first leaves.
LEMMA Posted ==
  ASSUME NEW q \in Seq(CkRequests), NEW m \in CkRequests
  PROVE  /\ Append(q, m) \in Seq(CkRequests) /\ Len(Append(q, m)) = Len(q) + 1 /\ Len(q) \in Nat
         /\ Append(q, m)[Len(q) + 1] = m
         /\ \A k \in 1 .. Len(Append(q, m)) : k # Len(q) + 1 => k \in 1 .. Len(q) /\ Append(q, m)[k] = q[k]
  OBVIOUS

LEMMA Taken ==
  ASSUME NEW q \in Seq(CkRequests), q # <<>>
  PROVE  /\ Head(q) \in CkRequests /\ Head(q) = q[1] /\ 1 \in 1 .. Len(q) /\ Tail(q) \in Seq(CkRequests)
         /\ Len(Tail(q)) = Len(q) - 1 /\ Len(q) \in Nat
         /\ \A k \in 1 .. Len(Tail(q)) : k + 1 \in 2 .. Len(q) /\ k + 1 \in 1 .. Len(q) /\ Tail(q)[k] = q[k + 1]
<1>1. Len(q) \in Nat /\ Len(q) > 0 /\ Head(q) = q[1] /\ Tail(q) \in Seq(CkRequests) /\ Len(Tail(q)) = Len(q) - 1
  BY EmptySeq
<1>2. q[1] \in CkRequests
  BY <1>1
<1>3. \A k \in 1 .. Len(Tail(q)) : Tail(q)[k] = q[k + 1]
  BY <1>1
<1>4. QED BY <1>1, <1>2, <1>3

\* The state that a request to the clock leaves.
LEMMA AskKeeps ==
  ASSUME ElementForEach, CkInv, NEW c \in CkClients, task[c].at # "clock",
         NEW kind \in {"time", "delay", "until"}, NEW n \in Int, NEW s \in Seq(CkFrames),
         AskClock(c, kind, n, s), UNCHANGED <<names, waits, free_list, ticker, ck_fault>>,
         StackSound([stack |-> s, at |-> "clock", age |-> task[c].age], "clock" \in names),
         s # <<>> => kind = "delay" /\ n = RetrySep
  PROVE  CkInv'
<1> DEFINE m == [tid |-> c, kind |-> kind, ticks |-> n]
           t == [stack |-> s, at |-> "clock", age |-> task[c].age]
<1>1. /\ CkTypes /\ ~ck_fault /\ AskedOnce /\ ElementsCounted /\ AttemptsPaid
      /\ \A b \in CkClients : StackSound(task[b], "clock" \in names)
      /\ task \in [CkClients -> CkTasks] /\ ckbox \in Seq(CkRequests)
      /\ \A w \in waits : w.tid \in CkClients
      /\ "notifier" \notin CkClients
  BY DEF CkInv, CkTypes, ElementForEach
<1>2. /\ task' \in [CkClients -> CkTasks] /\ task'[c] = t /\ t \in CkTasks
      /\ \A b \in CkClients : b # c => task'[b] = task[b]
  <2>1. task' = [task EXCEPT ![c].at = "clock", ![c].stack = s]
    BY DEF AskClock
  <2>2. task[c] \in CkTasks /\ task[c] = [stack |-> task[c].stack, at |-> task[c].at, age |-> task[c].age]
    BY <1>1, TaskFields
  <2>3. t \in CkTasks
    BY <2>2 DEF CkTasks
  <2>4. task' = [task EXCEPT ![c] = t]
    <3> DEFINE mid == [task EXCEPT ![c].at = "clock"]
    <3>1. mid \in [CkClients -> CkTasks] /\ mid[c] = [stack |-> task[c].stack, at |-> "clock", age |-> task[c].age]
          /\ \A b \in CkClients : b # c => mid[b] = task[b]
      BY <1>1, <2>2 DEF CkTasks
    <3>2. task' = [mid EXCEPT ![c].stack = s]
      BY <2>1
    <3> HIDE DEF mid
    <3>3. [mid[c] EXCEPT !.stack = s] = t
      BY <3>1
    <3>4. QED BY <1>1, <3>1, <3>2, <3>3
  <2>5. QED BY <1>1, <2>3, <2>4
<1>3. /\ m \in CkRequests /\ ckbox' = Append(ckbox, m)
      /\ m.tid = c /\ m.kind = kind /\ m.ticks = n
  BY DEF AskClock, CkRequests
<1>4. /\ ckbox' \in Seq(CkRequests) /\ Len(ckbox') = Len(ckbox) + 1 /\ Len(ckbox) \in Nat
      /\ ckbox'[Len(ckbox) + 1] = m
      /\ \A k \in 1 .. Len(ckbox') : k # Len(ckbox) + 1 => k \in 1 .. Len(ckbox) /\ ckbox'[k] = ckbox[k]
  <2> HIDE DEF m
  <2>1. QED BY <1>1, <1>3, Posted
<1>5. \A k \in 1 .. Len(ckbox) :
        /\ ckbox[k] \in CkRequests /\ ckbox[k].tid # c
        /\ ckbox[k].tid # "notifier" => ckbox[k].tid \in CkClients /\ task[ckbox[k].tid].at = "clock"
                                        /\ task'[ckbox[k].tid] = task[ckbox[k].tid]
  <2> SUFFICES ASSUME NEW k \in 1 .. Len(ckbox)
               PROVE  /\ ckbox[k] \in CkRequests /\ ckbox[k].tid # c
                      /\ ckbox[k].tid # "notifier" => ckbox[k].tid \in CkClients /\ task[ckbox[k].tid].at = "clock"
                                        /\ task'[ckbox[k].tid] = task[ckbox[k].tid]
    OBVIOUS
  <2>1. ckbox[k] \in CkRequests /\ ckbox[k].tid \in CkClients \cup {"notifier"}
    <3>1. ckbox[k] \in CkRequests
      BY <1>1
    <3>2. QED BY <3>1 DEF CkRequests
  <2>2. ckbox[k].tid # "notifier" => task[ckbox[k].tid].at = "clock"
    BY <1>1 DEF AskedOnce
  <2>3. QED BY <1>1, <1>2, <2>1, <2>2
<1>6. \A w \in waits : w.tid # c /\ task'[w.tid] = task[w.tid]
  BY <1>1, <1>2 DEF AskedOnce
<1>7. CkTypes'
  BY <1>1, <1>2, <1>4 DEF CkTypes
<1>8. AskedOnce'
  <2> HIDE DEF m, t
  <2>1. \A j, k \in 1 .. Len(ckbox') : ckbox'[j].tid = ckbox'[k].tid => j = k
    BY <1>1, <1>3, <1>4, <1>5 DEF AskedOnce
  <2>2. ASSUME NEW k \in 1 .. Len(ckbox')
        PROVE  /\ ckbox'[k].kind = "notify" <=> ckbox'[k].tid = "notifier"
               /\ ckbox'[k].tid = "notifier" => ticker' = "sent"
               /\ ckbox'[k].tid # "notifier" => task'[ckbox'[k].tid].at = "clock"
               /\ \A w \in waits' : ckbox'[k].tid # w.tid
    <3>1. CASE k = Len(ckbox) + 1
      <4>1. ckbox'[k] = m /\ m.tid = c /\ m.kind # "notify" /\ c # "notifier" /\ t.at = "clock"
        BY <1>1, <1>3, <1>4, <3>1 DEF t
      <4>2. QED BY <1>2, <1>6, <4>1
    <3>2. CASE k # Len(ckbox) + 1
      <4>1. k \in 1 .. Len(ckbox) /\ ckbox'[k] = ckbox[k]
        BY <1>4, <3>2
      <4>2. QED BY <1>1, <1>5, <4>1 DEF AskedOnce
    <3>3. QED BY <3>1, <3>2
  <2>3. \A w \in waits' : task'[w.tid].at = "clock"
    BY <1>1, <1>6 DEF AskedOnce
  <2>4. \A v, w \in waits' : v.tid = w.tid => v = w
    BY <1>1 DEF AskedOnce
  <2>5. QED BY <2>1, <2>2, <2>3, <2>4 DEF AskedOnce
<1>9. AttemptsPaid'
  <2>1. ASSUME NEW k \in 1 .. Len(ckbox'), ckbox'[k].tid # "notifier", task'[ckbox'[k].tid].stack # <<>>
        PROVE  ckbox'[k].kind = "delay" /\ ckbox'[k].ticks = RetrySep
    <3>1. CASE k = Len(ckbox) + 1
      <4>1. ckbox'[k] = m /\ m.tid = c /\ task'[c] = t /\ t.stack = s
        BY <1>2, <1>4, <3>1
      <4>2. QED BY <1>3, <2>1, <4>1
    <3>2. CASE k # Len(ckbox) + 1
      <4>1. k \in 1 .. Len(ckbox) /\ ckbox'[k] = ckbox[k]
        BY <1>4, <3>2
      <4> HIDE DEF t, m
      <4>2. QED BY <1>1, <1>5, <2>1, <4>1 DEF AttemptsPaid
    <3>3. QED BY <3>1, <3>2
  <2>2. \A w \in waits' :
          task'[w.tid].stack # <<>> =>
            task'[w.tid].stack[1].i * RetrySep + RetrySep <= task'[w.tid].age + w.left
    BY <1>1, <1>6 DEF AttemptsPaid
  <2>3. QED BY <2>1, <2>2 DEF AttemptsPaid
<1>10. \A b \in CkClients : StackSound(task'[b], "clock" \in names')
  BY <1>1, <1>2
<1>11. ElementsCounted' /\ ~ck_fault'
  BY <1>1 DEF ElementsCounted
<1>12. QED BY <1>7, <1>8, <1>9, <1>10, <1>11 DEF CkInv

\* A client that is not blocked by the clock moves on by itself.
LEMMA ClientMoves ==
  ASSUME CkInv, NEW c \in CkClients, task[c].at # "clock", NEW u \in CkTasks,
         task' = [task EXCEPT ![c] = u], StackSound(u, "clock" \in names), ckbox' = ckbox,
         UNCHANGED <<names, waits, free_list, ticker, ck_fault>>
  PROVE  CkInv'
<1>1. /\ task \in [CkClients -> CkTasks] /\ ckbox \in Seq(CkRequests)
      /\ \A w \in waits : w.tid \in CkClients /\ task[w.tid].at = "clock"
  BY DEF CkInv, CkTypes, AskedOnce
<1>2. /\ task' \in [CkClients -> CkTasks] /\ task'[c] = u
      /\ \A b \in CkClients : b # c => task'[b] = task[b]
  BY <1>1
<1>3. \A w \in waits : task'[w.tid] = task[w.tid] /\ task'[w.tid].at = "clock"
  BY <1>1, <1>2
<1>4. \A k \in 1 .. Len(ckbox) : ckbox[k].tid # "notifier" =>
        task'[ckbox[k].tid] = task[ckbox[k].tid] /\ task'[ckbox[k].tid].at = "clock"
  <2> SUFFICES ASSUME NEW k \in 1 .. Len(ckbox), ckbox[k].tid # "notifier"
               PROVE  task'[ckbox[k].tid] = task[ckbox[k].tid] /\ task'[ckbox[k].tid].at = "clock"
    OBVIOUS
  <2>1. ckbox[k] \in CkRequests
    BY <1>1
  <2>2. ckbox[k].tid \in CkClients
    BY <2>1 DEF CkRequests
  <2>3. task[ckbox[k].tid].at = "clock"
    BY DEF CkInv, AskedOnce
  <2>4. QED BY <1>2, <2>2, <2>3
<1>5. CkTypes'
  BY <1>2 DEF CkInv, CkTypes
<1>6. AskedOnce'
  BY <1>3, <1>4 DEF CkInv, AskedOnce
<1>7. AttemptsPaid'
  BY <1>3, <1>4 DEF CkInv, AttemptsPaid
<1>8. \A b \in CkClients : StackSound(task'[b], "clock" \in names')
  BY <1>2 DEF CkInv
<1>9. ElementsCounted' /\ ~ck_fault'
  BY DEF CkInv, ElementsCounted
<1>10. QED BY <1>5, <1>6, <1>7, <1>8, <1>9 DEF CkInv

\* A call of ke_who_is that finds its name returns to the one that made it.
LEMMA InnerReturns ==
  ASSUME NEW t \in CkTasks, NEW known \in BOOLEAN, StackSound(t, known), t.at = "ask",
         known, Tail(t.stack) # <<>>, NEW s, s = [Tail(t.stack) EXCEPT ![1].clock = TRUE]
  PROVE  s \in Seq(CkFrames) /\ StackSound([stack |-> s, at |-> "clock", age |-> t.age], known)
<1> DEFINE r == Tail(t.stack)
<1>1. /\ t.stack # <<>> /\ t.stack \in Seq(CkFrames) /\ t.age \in Nat
      /\ RetryLimit \in Nat \ {0} /\ RetrySep \in Nat
  BY TaskFields, ClockAssumption DEF StackSound
<1>2. /\ r \in Seq(CkFrames) /\ Len(r) = Len(t.stack) - 1 /\ Len(r) \in Nat
      /\ \A k \in 1 .. Len(r) : r[k] = t.stack[k + 1] /\ k + 1 \in 2 .. Len(t.stack) /\ r[k] \in CkFrames
  <2>1. r \in Seq(CkFrames) /\ Len(r) = Len(t.stack) - 1 /\ Len(r) \in Nat
    BY ONLY <1>1
  <2>2. \A k \in 1 .. Len(r) : r[k] = t.stack[k + 1]
    BY ONLY <1>1
  <2> HIDE DEF r
  <2>3. \A k \in 1 .. Len(r) : k + 1 \in 2 .. Len(t.stack) /\ r[k] \in CkFrames
    BY ONLY <2>1, <1>1
  <2>4. QED BY <2>1, <2>2, <2>3
<1>3. Len(r) >= 1 /\ 1 \in 1 .. Len(r) /\ r # <<>>
  BY <1>2, EmptySeq
<1> DEFINE g == [r[1] EXCEPT !.clock = TRUE]
<1>4. \A k \in 1 .. Len(r) :
        /\ r[k].i = 0 /\ ~r[k].clock
        /\ r[k].name = (IF k = Len(r) THEN "svc" ELSE "clock")
  <2> SUFFICES ASSUME NEW k \in 1 .. Len(r)
               PROVE  /\ r[k].i = 0 /\ ~r[k].clock
                      /\ r[k].name = (IF k = Len(r) THEN "svc" ELSE "clock")
    OBVIOUS
  <2>1. r[k] = t.stack[k + 1] /\ k + 1 \in 2 .. Len(t.stack) /\ k + 1 \in 1 .. Len(t.stack)
    BY <1>2
  <2>2. k + 1 = Len(t.stack) <=> k = Len(r)
    BY <1>2, <2>1
  <2> HIDE DEF r
  <2>3. QED BY <2>1, <2>2 DEF StackSound
<1>5. /\ g \in CkFrames /\ g.clock = TRUE /\ g.i = 0 /\ g.name = r[1].name
  BY <1>2, <1>3, <1>4 DEF CkFrames
<1>6. /\ s \in Seq(CkFrames) /\ Len(s) = Len(r) /\ s # <<>> /\ s[1] = g
      /\ \A k \in 2 .. Len(s) : s[k] = r[k] /\ k \in 1 .. Len(r)
  <2>1. s = [r EXCEPT ![1] = g]
    OBVIOUS
  <2> HIDE DEF r, g
  <2>2. s \in Seq(CkFrames) /\ Len(s) = Len(r)
    <3>1. r \in Seq(CkFrames) /\ 1 \in 1 .. Len(r) /\ g \in CkFrames
      BY <1>2, <1>3, <1>5
    <3>2. [r EXCEPT ![1] = g] \in Seq(CkFrames) /\ Len([r EXCEPT ![1] = g]) = Len(r)
      BY ONLY <3>1, ExceptSeq
    <3>3. QED BY <2>1, <3>2, Zenon
  <2>3. s[1] = g
    BY <1>2, <1>3, <1>5, <2>1, ExceptSeq
  <2>4. \A k \in 2 .. Len(s) : s[k] = r[k] /\ k \in 1 .. Len(r)
    <3> SUFFICES ASSUME NEW k \in 2 .. Len(s)
                 PROVE  s[k] = r[k] /\ k \in 1 .. Len(r)
      OBVIOUS
    <3>1. k \in 1 .. Len(r) /\ k # 1
      BY <1>2, <2>2
    <3>2. QED BY <1>2, <1>3, <1>5, <2>1, <3>1, ExceptSeq
  <2>5. s # <<>>
    BY <1>3, <2>2, EmptySeq
  <2>6. QED BY <2>2, <2>3, <2>4, <2>5
<1> DEFINE u == [stack |-> s, at |-> "clock", age |-> t.age]
<1>7. u.stack = s /\ u.at = "clock" /\ u.age = t.age
  OBVIOUS
<1>8. \A k \in 1 .. Len(s) : s[k].name = (IF k = Len(s) THEN "svc" ELSE "clock")
  <2> SUFFICES ASSUME NEW k \in 1 .. Len(s)
               PROVE  s[k].name = r[k].name
    BY <1>4, <1>6
  <2>1. CASE k = 1
    BY <1>5, <1>6, <2>1
  <2>2. CASE k # 1
    <3>1. k \in 2 .. Len(s)
      BY <1>2, <1>6, <2>2
    <3>2. QED BY <1>6, <3>1
  <2>3. QED BY <2>1, <2>2
<1>9. \A k \in 2 .. Len(s) : s[k].i = 0 /\ ~s[k].clock
  BY <1>4, <1>6
<1> HIDE DEF r, g, u
<1>10. g.i * RetrySep = 0
  BY <1>1, <1>5
<1>11. InnerSound(u, known)
  <2>1. g.i # RetryLimit /\ 0 <= RetryLimit /\ 0 <= t.age
    BY <1>1, <1>5
  <2>2. u.stack[1] = g
    BY <1>6, <1>7
  <2>3. /\ u.stack[1].i = 0 /\ u.stack[1].clock /\ u.at = "clock" /\ u.age \in Nat
        /\ 0 * RetrySep <= u.age
    BY ONLY <1>1, <1>5, <1>7, <2>2
  <2>4. QED BY ONLY <2>1, <2>3, known, <1>1, <1>5 DEF InnerSound
<1>12. StackSound(u, known)
  BY ONLY <1>6, <1>7, <1>8, <1>9, <1>11 DEF StackSound
<1>13. QED BY <1>6, <1>12 DEF u

\* Without the clock the call is made again, one inside the other.
LEMMA InnerCalled ==
  ASSUME NEW t \in CkTasks, NEW known \in BOOLEAN, StackSound(t, known), t.at = "ask",
         ~t.stack[1].clock, NEW s, s = <<Frame("clock")>> \o t.stack
  PROVE  s \in Seq(CkFrames) /\ StackSound([stack |-> s, at |-> "ask", age |-> t.age], known)
<1>1. /\ t.stack # <<>> /\ t.stack \in Seq(CkFrames) /\ t.age \in Nat /\ Len(t.stack) \in Nat
      /\ 1 \in 1 .. Len(t.stack) /\ t.stack[1].i = 0
      /\ RetryLimit \in Nat \ {0} /\ RetrySep \in Nat
  BY TaskFields, ClockAssumption DEF StackSound, InnerSound
<1>2. /\ Frame("clock") \in CkFrames /\ Frame("clock").i = 0 /\ ~Frame("clock").clock
      /\ Frame("clock").name = "clock"
  BY DEF Frame, CkFrames
<1>3. /\ s \in Seq(CkFrames) /\ Len(s) = Len(t.stack) + 1 /\ s[1] = Frame("clock")
      /\ \A k \in 2 .. Len(s) : s[k] = t.stack[k - 1] /\ k - 1 \in 1 .. Len(t.stack)
  BY <1>1, <1>2
<1>4. s # <<>>
  BY <1>1, <1>3, EmptySeq
<1> DEFINE u == [stack |-> s, at |-> "ask", age |-> t.age]
<1>5. u.stack = s /\ u.at = "ask" /\ u.age = t.age
  OBVIOUS
<1>6. \A k \in 1 .. Len(s) : s[k].name = (IF k = Len(s) THEN "svc" ELSE "clock")
  <2> SUFFICES ASSUME NEW k \in 1 .. Len(s)
               PROVE  s[k].name = (IF k = Len(s) THEN "svc" ELSE "clock")
    OBVIOUS
  <2>1. CASE k = 1
    BY <1>1, <1>2, <1>3, <2>1
  <2>2. CASE k # 1
    <3>1. s[k] = t.stack[k - 1] /\ k - 1 \in 1 .. Len(t.stack) /\ (k = Len(s) <=> k - 1 = Len(t.stack))
      BY <1>1, <1>3, <2>2
    <3>2. QED BY <3>1 DEF StackSound
  <2>3. QED BY <2>1, <2>2
<1>7. \A k \in 2 .. Len(s) : s[k].i = 0 /\ ~s[k].clock
  <2> SUFFICES ASSUME NEW k \in 2 .. Len(s)
               PROVE  s[k].i = 0 /\ ~s[k].clock
    OBVIOUS
  <2>1. s[k] = t.stack[k - 1] /\ k - 1 \in 1 .. Len(t.stack)
    BY <1>3
  <2>2. CASE k - 1 = 1
    BY <1>1, <2>1, <2>2
  <2>3. CASE k - 1 # 1
    <3>1. k - 1 \in 2 .. Len(t.stack)
      BY <1>1, <2>1, <2>3
    <3>2. QED BY <2>1, <3>1 DEF StackSound
  <2>4. QED BY <2>2, <2>3
<1> HIDE DEF u
<1>8. InnerSound(u, known)
  BY <1>1, <1>2, <1>3, <1>5 DEF InnerSound
<1>9. StackSound(u, known)
  BY <1>4, <1>5, <1>6, <1>7, <1>8 DEF StackSound
<1>10. QED BY <1>3, <1>9 DEF u

\* ke_who_is keeps the invariant.
LEMMA WhoIsKeeps ==
  ASSUME ElementForEach, CkInv, NEW c \in CkClients, ke_who_is(c)
  PROVE  CkInv'
<1> DEFINE t == task[c]  known == ("clock" \in names)
<1>1. /\ t \in CkTasks /\ t.at = "ask" /\ known \in BOOLEAN /\ StackSound(t, known)
      /\ t.stack # <<>> /\ t.stack \in Seq(CkFrames) /\ t.age \in Nat /\ t.stack[1] \in CkFrames
      /\ 1 \in 1 .. Len(t.stack) /\ Head(t.stack) = t.stack[1] /\ InnerSound(t, known)
      /\ task \in [CkClients -> CkTasks] /\ RetrySep \in Nat
  <2>1. t \in CkTasks /\ t.at = "ask" /\ StackSound(t, known) /\ task \in [CkClients -> CkTasks]
    BY DEF CkInv, CkTypes, ke_who_is
  <2>2. t.stack # <<>> /\ InnerSound(t, known)
    BY <2>1 DEF StackSound
  <2>3. QED BY <2>1, <2>2, TaskFields, ClockAssumption
<1>2. UNCHANGED <<names, waits, free_list, ticker, ck_fault>>
  BY DEF ke_who_is
<1>3. CASE Found(c)
  <2>1. Head(t.stack).name \in names
    BY <1>3 DEF Found
  <2>2. CASE Tail(t.stack) = <<>>
    <3> DEFINE u == [stack |-> <<>>, at |-> "free", age |-> 0]
    <3>1. task' = [task EXCEPT ![c] = u] /\ ckbox' = ckbox
      BY <1>3, <2>2 DEF Found
    <3>2. u \in CkTasks /\ StackSound(u, known)
      <4>1. u.stack = <<>> /\ Len(u.stack) = 0 /\ u.at = "free" /\ u \in CkTasks
        BY DEF CkTasks
      <4> HIDE DEF u
      <4>2. QED BY <4>1 DEF StackSound
    <3> HIDE DEF u
    <3>3. QED BY <1>1, <1>2, <3>1, <3>2, ClientMoves
  <2>3. CASE Tail(t.stack) # <<>>
    <3>1. t.stack[1].name = "clock" /\ known
      <4>1. 1 # Len(t.stack)
        <5>1. Len(Tail(t.stack)) = Len(t.stack) - 1 /\ Tail(t.stack) \in Seq(CkFrames)
          BY <1>1
        <5>2. Len(Tail(t.stack)) # 0
          BY <2>3, <5>1, EmptySeq
        <5>3. QED BY <5>1, <5>2
      <4>2. t.stack[1].name = "clock"
        BY <1>1, <4>1 DEF StackSound
      <4>3. QED BY <1>1, <2>1, <4>2
    <3> DEFINE s == [Tail(t.stack) EXCEPT ![1].clock = TRUE]
    <3>2. AskClock(c, "delay", RetrySep, s)
      BY <1>3, <2>3 DEF Found
    <3>3. s \in Seq(CkFrames) /\ StackSound([stack |-> s, at |-> "clock", age |-> t.age], known)
      BY <1>1, <2>3, <3>1, InnerReturns
    <3> HIDE DEF s
    <3>4. QED BY <1>1, <1>2, <3>2, <3>3, AskKeeps
  <2>4. QED BY <2>2, <2>3
<1>4. CASE NotFound(c)
  <2>1. Head(t.stack).name \notin names
    BY <1>4 DEF NotFound
  <2>2. CASE t.stack[1].clock
    <3>1. AskClock(c, "delay", RetrySep, t.stack)
      BY <1>1, <1>4, <2>2 DEF NotFound
    <3>2. t.stack[1].name # "clock" /\ t.stack[1].i < RetryLimit /\ RetryLimit \in Nat
      BY <1>1, <2>1, <2>2, TaskFields, ClockAssumption DEF InnerSound
    <3> DEFINE u == [stack |-> t.stack, at |-> "clock", age |-> t.age]
    <3>3. u.stack = t.stack /\ u.at = "clock" /\ u.age = t.age
      OBVIOUS
    <3> HIDE DEF u
    <3>4. InnerSound(u, known)
      BY <1>1, <2>2, <3>2, <3>3 DEF InnerSound
    <3>5. StackSound(u, known)
      BY <1>1, <3>3, <3>4 DEF StackSound
    <3>6. QED BY <1>1, <1>2, <3>1, <3>5, AskKeeps DEF u
  <2>3. CASE ~t.stack[1].clock
    <3> DEFINE s == <<Frame("clock")>> \o t.stack  u == [stack |-> s, at |-> "ask", age |-> t.age]
    <3>1. task' = [task EXCEPT ![c].stack = s] /\ ckbox' = ckbox
      BY <1>1, <1>4, <2>3 DEF NotFound
    <3>2. s \in Seq(CkFrames) /\ StackSound(u, known)
      BY <1>1, <2>3, InnerCalled
    <3>3. [t EXCEPT !.stack = s] = u
      <4> HIDE DEF s
      <4>1. t = [stack |-> t.stack, at |-> t.at, age |-> t.age]
        BY <1>1, TaskFields
      <4>2. QED BY <1>1, <4>1
    <3>4. u \in CkTasks
      BY <1>1, <3>2 DEF CkTasks
    <3>5. task' = [task EXCEPT ![c] = u]
      BY <3>1, <3>3
    <3> HIDE DEF u
    <3>6. QED BY <1>1, <1>2, <3>1, <3>2, <3>4, <3>5, ClientMoves
  <2>4. QED BY <2>2, <2>3
<1>5. QED BY <1>3, <1>4 DEF ke_who_is

\* The requests behind the first are of other tasks.
LEMMA RestOfMail ==
  ASSUME ElementForEach, CkInv, ckbox # <<>>
  PROVE  /\ Head(ckbox) \in CkRequests /\ Tail(ckbox) \in Seq(CkRequests)
         /\ \A k \in 1 .. Len(Tail(ckbox)) :
              /\ k + 1 \in 1 .. Len(ckbox) /\ Tail(ckbox)[k] = ckbox[k + 1]
              /\ Tail(ckbox)[k] \in CkRequests /\ Tail(ckbox)[k].tid # Head(ckbox).tid
              /\ Tail(ckbox)[k].tid # "notifier" => Tail(ckbox)[k].tid \in CkClients
         /\ Head(ckbox).kind = "notify" <=> Head(ckbox).tid = "notifier"
         /\ Head(ckbox).tid # "notifier" => Head(ckbox).tid \in CkClients /\ task[Head(ckbox).tid].at = "clock"
         /\ \A w \in waits : Head(ckbox).tid # w.tid
<1>1. ckbox \in Seq(CkRequests) /\ AskedOnce
  BY DEF CkInv, CkTypes
<1>2. /\ Head(ckbox) \in CkRequests /\ Head(ckbox) = ckbox[1] /\ 1 \in 1 .. Len(ckbox)
      /\ Tail(ckbox) \in Seq(CkRequests)
      /\ \A k \in 1 .. Len(Tail(ckbox)) :
           k + 1 \in 2 .. Len(ckbox) /\ k + 1 \in 1 .. Len(ckbox) /\ Tail(ckbox)[k] = ckbox[k + 1]
  BY <1>1, Taken
<1>3. ASSUME NEW k \in 1 .. Len(Tail(ckbox))
      PROVE  /\ k + 1 \in 1 .. Len(ckbox) /\ Tail(ckbox)[k] = ckbox[k + 1]
             /\ Tail(ckbox)[k] \in CkRequests /\ Tail(ckbox)[k].tid # Head(ckbox).tid
             /\ Tail(ckbox)[k].tid # "notifier" => Tail(ckbox)[k].tid \in CkClients
  <2>1. k + 1 \in 1 .. Len(ckbox) /\ k + 1 # 1 /\ Tail(ckbox)[k] = ckbox[k + 1] /\ ckbox[k + 1] \in CkRequests
    BY <1>1, <1>2
  <2>2. ckbox[k + 1].tid # ckbox[1].tid
    BY <1>1, <1>2, <2>1 DEF AskedOnce
  <2>3. ckbox[k + 1].tid \in CkClients \cup {"notifier"}
    BY <2>1 DEF CkRequests
  <2>4. QED BY <1>2, <2>1, <2>2, <2>3
<1>4. /\ Head(ckbox).kind = "notify" <=> Head(ckbox).tid = "notifier"
      /\ Head(ckbox).tid # "notifier" => task[Head(ckbox).tid].at = "clock"
      /\ \A w \in waits : Head(ckbox).tid # w.tid
  BY <1>1, <1>2 DEF AskedOnce
<1>5. Head(ckbox).tid \in CkClients \cup {"notifier"}
  BY <1>2 DEF CkRequests
<1>6. QED BY <1>2, <1>3, <1>4, <1>5

\* Where the elements that still wait stand after n ticks.
StillWaiting(n, tids) ==
  /\ waits' \subseteq [tid : CkClients, left : Nat]
  /\ \A v \in waits' : v.tid \notin tids /\ \E w \in waits : w.tid = v.tid /\ w.left = v.left + n
  /\ \A v, w \in waits' : v.tid = w.tid => v = w

\* A message that answers keeps the invariant.
LEMMA AnswerKeeps ==
  ASSUME ElementForEach, CkInv, ckbox # <<>>, ckbox' = Tail(ckbox), names' = names, ck_fault' = ck_fault,
         NEW tids \in SUBSET CkClients, NEW n \in {0, 1}, Answered(tids, n),
         \A c \in tids : /\ task[c].at = "clock"
                         /\ task[c].stack # <<>> => task[c].stack[1].i * RetrySep + RetrySep <= task[c].age + n,
         \A k \in 1 .. Len(Tail(ckbox)) : Tail(ckbox)[k].tid \notin tids,
         ticker' = (IF Head(ckbox).kind = "notify" THEN "await" ELSE ticker),
         StillWaiting(n, tids), ElementsCounted'
  PROVE  CkInv'
<1> DEFINE q == Tail(ckbox)  known == ("clock" \in names)
<1>1. /\ task \in [CkClients -> CkTasks] /\ AskedOnce /\ AttemptsPaid /\ ticker \in {"await", "sent"}
      /\ ckbox \in Seq(CkRequests) /\ waits \subseteq [tid : CkClients, left : Nat]
      /\ \A c \in CkClients : StackSound(task[c], known)
      /\ "notifier" \notin CkClients /\ known \in BOOLEAN
  BY DEF CkInv, CkTypes, ElementForEach
<1>2. /\ task' \in [CkClients -> CkTasks]
      /\ \A c \in CkClients : StackSound(task'[c], known) /\ (c \notin tids => task'[c] = Aged(task[c], n))
  <2>1. \A c \in tids \cap CkClients :
           /\ task[c].at = "clock"
           /\ task[c].stack # <<>> => task[c].stack[1].i * RetrySep + RetrySep <= task[c].age + n
    OBVIOUS
  <2> HIDE DEF known
  <2>2. QED BY <1>1, <2>1, AnsweredSound
<1>3. \A c \in CkClients : c \notin tids =>
        /\ task'[c].stack = task[c].stack /\ task'[c].at = task[c].at /\ task[c].age \in Nat
        /\ task'[c].age \in {task[c].age, task[c].age + n}
        /\ task'[c].age = task[c].age => n = 0 \/ RetryLimit * RetrySep <= task[c].age
  <2> SUFFICES ASSUME NEW c \in CkClients, c \notin tids
               PROVE  /\ task'[c].stack = task[c].stack /\ task'[c].at = task[c].at /\ task[c].age \in Nat
                      /\ task'[c].age \in {task[c].age, task[c].age + n}
                      /\ task'[c].age = task[c].age => n = 0 \/ RetryLimit * RetrySep <= task[c].age
    OBVIOUS
  <2>1. task[c] \in CkTasks /\ StackSound(task[c], known) /\ task'[c] = Aged(task[c], n)
    BY <1>1, <1>2
  <2>2. /\ Aged(task[c], n).stack = task[c].stack /\ Aged(task[c], n).at = task[c].at
        /\ Aged(task[c], n).age \in {task[c].age, task[c].age + n}
        /\ Aged(task[c], n).age = task[c].age => n = 0 \/ RetryLimit * RetrySep <= task[c].age
    <3> HIDE DEF known
    <3>1. QED BY <1>1, <2>1, AgedSound
  <2>3. task[c].age \in Nat
    BY <2>1, TaskFields
  <2>4. QED BY <2>1, <2>2, <2>3
<1>4. /\ q \in Seq(CkRequests) /\ Len(ckbox) \in Nat
      /\ \A k \in 1 .. Len(q) :
           /\ k + 1 \in 1 .. Len(ckbox) /\ q[k] = ckbox[k + 1] /\ q[k].tid # Head(ckbox).tid
           /\ q[k].tid # "notifier" => q[k].tid \in CkClients
      /\ Head(ckbox).kind = "notify" <=> Head(ckbox).tid = "notifier"
  BY <1>1, RestOfMail
<1>5. \A v \in waits' : v.tid \in CkClients /\ v.tid \notin tids /\ v.left \in Nat
                        /\ \E w \in waits : w.tid = v.tid /\ w.left = v.left + n
  BY DEF StillWaiting
<1>6. CkTypes'
  <2>1. ticker' \in {"await", "sent"}
    BY <1>1
  <2>2. QED BY <1>2, <1>4, <2>1 DEF CkInv, CkTypes, StillWaiting
<1>7. AskedOnce'
  <2>1. \A j, k \in 1 .. Len(q) : q[j].tid = q[k].tid => j = k
    <3> SUFFICES ASSUME NEW j \in 1 .. Len(q), NEW k \in 1 .. Len(q), q[j].tid = q[k].tid
                 PROVE  j = k
      OBVIOUS
    <3>1. j + 1 \in 1 .. Len(ckbox) /\ k + 1 \in 1 .. Len(ckbox) /\ ckbox[j + 1].tid = ckbox[k + 1].tid
      BY <1>4
    <3>2. j + 1 = k + 1
      BY <1>1, <3>1 DEF AskedOnce
    <3>3. QED BY <3>2
  <2>2. ASSUME NEW k \in 1 .. Len(q)
        PROVE  /\ q[k].kind = "notify" <=> q[k].tid = "notifier"
               /\ q[k].tid = "notifier" => ticker' = "sent"
               /\ q[k].tid # "notifier" => task'[q[k].tid].at = "clock"
               /\ \A w \in waits' : q[k].tid # w.tid
    <3>1. k + 1 \in 1 .. Len(ckbox) /\ q[k] = ckbox[k + 1] /\ q[k].tid # Head(ckbox).tid
      BY <1>4
    <3>2. /\ q[k].kind = "notify" <=> q[k].tid = "notifier"
          /\ q[k].tid = "notifier" => ticker = "sent"
          /\ q[k].tid # "notifier" => task[q[k].tid].at = "clock"
          /\ \A w \in waits : q[k].tid # w.tid
      BY <1>1, <3>1 DEF AskedOnce
    <3>3. q[k].tid = "notifier" => ticker' = "sent"
      BY <1>4, <3>1, <3>2
    <3>4. q[k].tid # "notifier" => task'[q[k].tid].at = "clock"
      BY <1>3, <1>4, <3>2
    <3>5. \A w \in waits' : q[k].tid # w.tid
      BY <1>5, <3>2
    <3>6. QED BY <3>2, <3>3, <3>4, <3>5
  <2>3. \A w \in waits' : task'[w.tid].at = "clock"
    BY <1>1, <1>3, <1>5 DEF AskedOnce
  <2>4. \A v, w \in waits' : v.tid = w.tid => v = w
    BY DEF StillWaiting
  <2>5. ckbox' = q
    OBVIOUS
  <2> HIDE DEF q
  <2>6. \A j, k \in 1 .. Len(ckbox') : ckbox'[j].tid = ckbox'[k].tid => j = k
    BY <2>1, <2>5
  <2>7. \A k \in 1 .. Len(ckbox') :
          /\ ckbox'[k].kind = "notify" <=> ckbox'[k].tid = "notifier"
          /\ ckbox'[k].tid = "notifier" => ticker' = "sent"
          /\ ckbox'[k].tid # "notifier" => task'[ckbox'[k].tid].at = "clock"
          /\ \A w \in waits' : ckbox'[k].tid # w.tid
    BY ONLY <2>2, <2>5
  <2>8. QED BY ONLY <2>3, <2>4, <2>6, <2>7 DEF AskedOnce
<1>8. AttemptsPaid'
  <2>1. ASSUME NEW k \in 1 .. Len(q), q[k].tid # "notifier", task'[q[k].tid].stack # <<>>
        PROVE  q[k].kind = "delay" /\ q[k].ticks = RetrySep
    <3>1. k + 1 \in 1 .. Len(ckbox) /\ q[k] = ckbox[k + 1] /\ q[k].tid \in CkClients
      BY <1>4, <2>1
    <3>2. task[q[k].tid].stack # <<>>
      BY <1>3, <2>1, <3>1
    <3> HIDE DEF q
    <3>3. QED BY <1>1, <2>1, <3>1, <3>2 DEF AttemptsPaid
  <2>2. ASSUME NEW v \in waits', task'[v.tid].stack # <<>>
        PROVE  task'[v.tid].stack[1].i * RetrySep + RetrySep <= task'[v.tid].age + v.left
    <3>1. PICK w \in waits : w.tid = v.tid /\ w.left = v.left + n
      BY <1>5
    <3> DEFINE t == task[v.tid]
    <3>2. /\ v.tid \in CkClients /\ v.tid \notin tids /\ v.left \in Nat
          /\ t \in CkTasks /\ t.stack # <<>> /\ task'[v.tid].stack = t.stack /\ t.age \in Nat
          /\ task'[v.tid].age \in {t.age, t.age + n}
          /\ task'[v.tid].age = t.age => n = 0 \/ RetryLimit * RetrySep <= t.age
      BY <1>1, <1>3, <1>5, <2>2
    <3>3. t.stack[1].i * RetrySep + RetrySep <= t.age + w.left
      BY <1>1, <3>1, <3>2 DEF AttemptsPaid
    <3>4. t.at = "clock" /\ StackSound(t, known)
      BY <1>1, <3>1, <3>2 DEF AskedOnce
    <3>5. t.stack[1].i \in Nat /\ t.stack[1].i < RetryLimit
      <4>1. InnerSound(t, known)
        BY <3>2, <3>4 DEF StackSound
      <4>2. t.stack[1].i \in Nat /\ RetryLimit \in Nat
        BY <3>2, TaskFields, ClockAssumption
      <4> HIDE DEF t, known
      <4>3. QED BY <3>4, <4>1, <4>2 DEF InnerSound
    <3>6. /\ t.stack[1].i * RetrySep + RetrySep <= RetryLimit * RetrySep
          /\ t.stack[1].i * RetrySep \in Nat /\ RetrySep \in Nat
      <4> HIDE DEF t
      <4>1. QED BY <3>5, AttemptTicks
    <3>7. ASSUME NEW a \in Nat, a = t.stack[1].i * RetrySep, NEW b \in Nat, b = RetryLimit * RetrySep
          PROVE  a + RetrySep <= task'[v.tid].age + v.left
      <4> HIDE DEF t
      <4>1. a + RetrySep <= t.age + w.left /\ a + RetrySep <= b /\ RetrySep \in Nat
        BY <3>3, <3>6, <3>7
      <4>2. task'[v.tid].age = t.age => n = 0 \/ b <= t.age
        BY <3>2, <3>7
      <4>3. task'[v.tid].age \in Nat /\ v.left \in Nat /\ t.age \in Nat
        BY <3>2
      <4>4. CASE task'[v.tid].age = t.age
        <5>1. CASE n = 0
          BY ONLY <3>1, <4>1, <4>3, <4>4, <5>1, a \in Nat
        <5>2. CASE b <= t.age
          BY ONLY <4>1, <4>3, <4>4, <5>2, a \in Nat, b \in Nat
        <5>3. QED BY <4>2, <4>4, <5>1, <5>2
      <4>5. CASE task'[v.tid].age = t.age + n
        BY ONLY <3>1, <4>1, <4>3, <4>5, a \in Nat, n \in {0, 1}
      <4>6. QED BY <3>2, <4>4, <4>5
    <3>8. RetryLimit * RetrySep \in Nat
      BY ClockAssumption
    <3> HIDE DEF t
    <3>9. QED BY <3>2, <3>6, <3>7, <3>8
  <2>3. ckbox' = q
    OBVIOUS
  <2> HIDE DEF q
  <2>4. QED BY <2>1, <2>2, <2>3 DEF AttemptsPaid
<1>9. \A c \in CkClients : StackSound(task'[c], "clock" \in names')
  BY <1>2
<1>10. QED BY <1>6, <1>7, <1>8, <1>9 DEF CkInv

Ticked == {[w EXCEPT !.left = @ - 1] : w \in waits}

\* A tick makes every element one shorter, and loses none.
LEMMA TickedElements ==
  ASSUME CkInv
  PROVE  /\ IsFiniteSet(Ticked) /\ Cardinality(Ticked) = Cardinality(waits)
         /\ Ticked \subseteq [tid : CkClients, left : Int]
         /\ \A v \in Ticked : \E w \in waits : v.tid = w.tid /\ v.left = w.left - 1
         /\ \A w \in waits : \E v \in Ticked : v.tid = w.tid /\ v.left = w.left - 1
         /\ \A v, w \in Ticked : v.tid = w.tid => v = w
<1> DEFINE Shorter(w) == [w EXCEPT !.left = @ - 1]
           f == [w \in waits |-> Shorter(w)]
<1>1. /\ waits \subseteq [tid : CkClients, left : Nat] /\ IsFiniteSet(waits)
      /\ \A v, w \in waits : v.tid = w.tid => v = w
  BY DEF CkInv, CkTypes, AskedOnce, ElementsCounted
<1>2. \A w \in waits : /\ Shorter(w) \in [tid : CkClients, left : Int]
                       /\ Shorter(w).tid = w.tid /\ Shorter(w).left = w.left - 1
  BY <1>1
<1>3. /\ \A w \in waits : Shorter(w) \in Ticked
      /\ \A v \in Ticked : \E w \in waits : v = Shorter(w)
  BY DEF Ticked
<1> HIDE DEF Shorter
<1>4. f \in Bijection(waits, Ticked)
  <2>1. f \in [waits -> Ticked]
    BY <1>3
  <2>2. \A v, w \in waits : f[v] = f[w] => v = w
    BY <1>1, <1>2
  <2>3. \A v \in Ticked : \E w \in waits : f[w] = v
    BY <1>3
  <2> HIDE DEF f
  <2>4. QED BY <2>1, <2>2, <2>3 DEF Bijection, Injection, Surjection, IsInjective
<1>5. IsFiniteSet(Ticked) /\ Cardinality(Ticked) = Cardinality(waits)
  <2> HIDE DEF f
  <2>1. QED BY <1>1, <1>4, FS_Bijection DEF ExistsBijection
<1>6. QED BY <1>1, <1>2, <1>3, <1>5

\* The tick: what is due is answered, and what is left waits on.
LEMMA NotifyKeeps ==
  ASSUME ElementForEach, CkInv, ckbox # <<>>, Head(ckbox).kind = "notify", ServeNotify,
         ckbox' = Tail(ckbox), names' = names
  PROVE  CkInv'
<1> DEFINE due == Due(Ticked)  tids == {w.tid : w \in due}
<1>1. /\ ticker' = "await" /\ waits' = Ticked \ due /\ free_list' = free_list + Cardinality(due)
      /\ Answered(tids, 1) /\ ck_fault' = ck_fault
  BY DEF ServeNotify, Ticked
<1>2. /\ IsFiniteSet(Ticked) /\ Cardinality(Ticked) = Cardinality(waits)
      /\ Ticked \subseteq [tid : CkClients, left : Int]
      /\ \A v \in Ticked : \E w \in waits : v.tid = w.tid /\ v.left = w.left - 1
      /\ \A v, w \in Ticked : v.tid = w.tid => v = w
  BY TickedElements
<1>3. /\ waits \subseteq [tid : CkClients, left : Nat] /\ AskedOnce /\ ElementsCounted /\ AttemptsPaid
      /\ task \in [CkClients -> CkTasks] /\ \A c \in CkClients : StackSound(task[c], "clock" \in names)
  BY DEF CkInv, CkTypes
<1>4. due \subseteq Ticked /\ \A v \in Ticked : v \in due <=> v.left <= 0
  BY DEF Due
<1>5. tids \in SUBSET CkClients
  BY <1>2, <1>4
<1>6. ASSUME NEW c \in tids
      PROVE  /\ task[c].at = "clock"
             /\ task[c].stack # <<>> => task[c].stack[1].i * RetrySep + RetrySep <= task[c].age + 1
  <2>1. PICK v \in due : c = v.tid
    OBVIOUS
  <2>2. PICK w \in waits : c = w.tid /\ w.left \in Nat /\ w.left <= 1
    <3>1. v \in Ticked /\ v.left <= 0
      BY <1>4, <2>1
    <3>2. PICK w \in waits : v.tid = w.tid /\ v.left = w.left - 1
      BY <1>2, <3>1
    <3>3. w.left \in Nat
      BY <1>3
    <3>4. QED BY <2>1, <3>1, <3>2, <3>3
  <2>3. task[c].at = "clock"
    BY <1>3, <2>2 DEF AskedOnce
  <2>4. ASSUME task[c].stack # <<>>
        PROVE  task[c].stack[1].i * RetrySep + RetrySep <= task[c].age + 1
    <3>1. task[c].stack[1].i * RetrySep + RetrySep <= task[c].age + w.left
      BY <1>3, <2>2, <2>4 DEF AttemptsPaid
    <3>2. task[c] \in CkTasks /\ task[c].age \in Nat /\ task[c].stack[1].i \in Nat /\ RetrySep \in Nat
      BY <1>3, <1>5, <2>4, TaskFields, ClockAssumption
    <3>3. PICK a \in Nat : a = task[c].stack[1].i * RetrySep
      <4>1. \A x, y \in Nat : x * y \in Nat
        OBVIOUS
      <4>2. task[c].stack[1].i * RetrySep \in Nat
        BY ONLY <3>2, <4>1
      <4>3. QED BY <4>2
    <3>4. a + RetrySep <= task[c].age + w.left
      BY <3>1, <3>3
    <3>5. a + RetrySep <= task[c].age + 1
      BY ONLY <2>2, <3>2, <3>4, a \in Nat
    <3>6. QED BY <3>3, <3>5
  <2>5. QED BY <2>3, <2>4
<1>7. \A k \in 1 .. Len(Tail(ckbox)) : Tail(ckbox)[k].tid \notin tids
  <2> SUFFICES ASSUME NEW k \in 1 .. Len(Tail(ckbox)), NEW v \in due, Tail(ckbox)[k].tid = v.tid
               PROVE  FALSE
    OBVIOUS
  <2>1. k + 1 \in 1 .. Len(ckbox) /\ Tail(ckbox)[k] = ckbox[k + 1]
    BY RestOfMail
  <2>2. PICK w \in waits : v.tid = w.tid
    BY <1>2, <1>4
  <2>3. ckbox[k + 1].tid # w.tid
    BY <1>3, <2>1 DEF AskedOnce
  <2>4. QED BY <2>1, <2>2, <2>3
<1>8. StillWaiting(1, tids)
  <2>1. \A v \in waits' : v \in Ticked /\ v \notin due /\ v.left \in Nat
    <3> SUFFICES ASSUME NEW v \in waits'
                 PROVE  v \in Ticked /\ v \notin due /\ v.left \in Nat
      OBVIOUS
    <3>1. v \in Ticked /\ v \notin due
      BY <1>1
    <3>2. v.left \in Int /\ ~(v.left <= 0)
      BY <1>2, <1>4, <3>1
    <3>3. QED BY <3>1, <3>2
  <2>2. waits' \subseteq [tid : CkClients, left : Nat]
    <3> SUFFICES ASSUME NEW v \in waits'
                 PROVE  v \in [tid : CkClients, left : Nat]
      OBVIOUS
    <3>1. v \in [tid : CkClients, left : Int] /\ v.left \in Nat
      BY <1>2, <2>1
    <3>2. QED BY <3>1
  <2>3. \A v \in waits' : v.tid \notin tids
    <3> SUFFICES ASSUME NEW v \in waits', NEW u \in due, v.tid = u.tid
                 PROVE  FALSE
      OBVIOUS
    <3>1. v \in Ticked /\ u \in Ticked /\ v \notin due
      BY <1>4, <2>1
    <3>2. v = u
      BY <1>2, <3>1
    <3>3. QED BY <3>1, <3>2
  <2>4. \A v \in waits' : \E w \in waits : w.tid = v.tid /\ w.left = v.left + 1
    <3> SUFFICES ASSUME NEW v \in waits'
                 PROVE  \E w \in waits : w.tid = v.tid /\ w.left = v.left + 1
      OBVIOUS
    <3>1. PICK w \in waits : v.tid = w.tid /\ v.left = w.left - 1
      BY <1>2, <2>1
    <3>2. w.left \in Nat
      BY <1>3
    <3>3. QED BY <3>1, <3>2
  <2>5. \A v, w \in waits' : v.tid = w.tid => v = w
    BY <1>2, <2>1
  <2> HIDE DEF due, tids
  <2>6. QED BY <2>2, <2>3, <2>4, <2>5 DEF StillWaiting
<1>9. ElementsCounted'
  <2>1. /\ IsFiniteSet(due) /\ IsFiniteSet(waits') /\ Cardinality(due) \in Nat
        /\ Cardinality(waits') = Cardinality(Ticked) - Cardinality(due)
    <3>1. Ticked \cap due = due
      BY <1>4
    <3>2. IsFiniteSet(due)
      BY <1>2, <1>4, FS_Subset
    <3> HIDE DEF due
    <3>3. Cardinality(due) \in Nat
      BY <3>2, FS_CardinalityType
    <3>4. IsFiniteSet(Ticked \ due) /\ Cardinality(Ticked \ due) = Cardinality(Ticked) - Cardinality(Ticked \cap due)
      BY <1>2, FS_Difference
    <3>5. waits' = Ticked \ due
      BY <1>1
    <3>6. QED BY <3>1, <3>2, <3>3, <3>4, <3>5
  <2>2. free_list \in Nat /\ free_list + Cardinality(waits) = CkCap /\ Cardinality(waits) \in Nat
    BY <1>3, FS_CardinalityType DEF ElementsCounted
  <2> HIDE DEF due
  <2>3. QED BY <1>1, <1>2, <2>1, <2>2 DEF ElementsCounted
<1>10. ticker' = (IF Head(ckbox).kind = "notify" THEN "await" ELSE ticker)
  BY <1>1
<1> HIDE DEF due, tids
<1>11. QED BY <1>1, <1>5, <1>6, <1>7, <1>8, <1>9, <1>10, AnswerKeeps

\* An element is free for a task that asks, as it has none.
LEMMA ElementFree ==
  ASSUME ElementForEach, CkInv, NEW c \in CkClients, \A w \in waits : w.tid # c
  PROVE  free_list # 0
<1> DEFINE N == CkClients \ {c}  f == [w \in waits |-> w.tid]
<1>1. /\ waits \subseteq [tid : CkClients, left : Nat] /\ IsFiniteSet(waits)
      /\ \A v, w \in waits : v.tid = w.tid => v = w
      /\ free_list \in Nat /\ free_list + Cardinality(waits) = CkCap
  BY DEF CkInv, CkTypes, AskedOnce, ElementsCounted
<1>2. f \in Injection(waits, N)
  <2>1. f \in [waits -> N]
    BY <1>1
  <2>2. \A v, w \in waits : f[v] = f[w] => v = w
    BY <1>1
  <2> HIDE DEF f, N
  <2>3. QED BY <2>1, <2>2 DEF Injection, IsInjective
<1>3. IsFiniteSet(N) /\ Cardinality(N) = Cardinality(CkClients) - 1
  BY FS_RemoveElement DEF ElementForEach
<1>4. Cardinality(CkClients) \in Nat /\ Cardinality(CkClients) <= CkCap /\ CkCap \in Nat
  BY FS_CardinalityType, ClockAssumption DEF ElementForEach
<1>5. Cardinality(waits) <= Cardinality(N) /\ Cardinality(waits) \in Nat
  <2> HIDE DEF N, f
  <2>1. QED BY <1>1, <1>2, <1>3, FS_Injection, FS_CardinalityType
<1>6. QED BY <1>1, <1>3, <1>4, <1>5

\* A request: answered at once, or entered in the heap.
LEMMA ClockRequestKeeps ==
  ASSUME ElementForEach, CkInv, ckbox # <<>>, Head(ckbox).kind # "notify", ServeRequest(Head(ckbox)),
         ckbox' = Tail(ckbox), names' = names
  PROVE  CkInv'
<1> DEFINE m == Head(ckbox)  c == m.tid
<1>1. /\ m \in CkRequests /\ m.kind # "notify" /\ c \in CkClients /\ task[c].at = "clock"
      /\ \A w \in waits : w.tid # c
      /\ Tail(ckbox) \in Seq(CkRequests)
      /\ \A k \in 1 .. Len(Tail(ckbox)) : Tail(ckbox)[k].tid # c
      /\ m.ticks \in Int /\ m.kind \in {"time", "delay", "until"}
  BY RestOfMail DEF CkRequests
<1>2. task[c].stack # <<>> => m.kind = "delay" /\ m.ticks = RetrySep
  <2>1. ckbox \in Seq(CkRequests) /\ AttemptsPaid /\ "notifier" \notin CkClients
    BY DEF CkInv, CkTypes, ElementForEach
  <2>2. m = ckbox[1] /\ 1 \in 1 .. Len(ckbox)
    BY <2>1, Taken
  <2>3. QED BY <1>1, <2>1, <2>2 DEF AttemptsPaid
<1>3. /\ waits \subseteq [tid : CkClients, left : Nat] /\ AskedOnce /\ ElementsCounted /\ AttemptsPaid
      /\ task \in [CkClients -> CkTasks] /\ RetrySep \in Nat /\ "notifier" \notin CkClients
      /\ ticker \in {"await", "sent"} /\ ~ck_fault /\ ckbox \in Seq(CkRequests)
      /\ \A b \in CkClients : StackSound(task[b], "clock" \in names)
  BY ClockAssumption DEF CkInv, CkTypes, ElementForEach
<1>4. CASE m.kind = "time" \/ m.ticks < 0
  <2>1. Answered({c}, 0) /\ UNCHANGED <<waits, free_list, ticker, ck_fault>>
    BY <1>4 DEF ServeRequest
  <2>2. task[c].stack = <<>>
    BY <1>1, <1>2, <1>3, <1>4
  <2>3. StillWaiting(0, {c})
    <3>1. \A v \in waits' : v \in waits /\ v.tid # c /\ v.left = v.left + 0
      BY <1>1, <1>3, <2>1
    <3>2. \A v, w \in waits' : v.tid = w.tid => v = w
      BY <1>3, <2>1 DEF AskedOnce
    <3>3. QED BY <1>3, <2>1, <3>1, <3>2 DEF StillWaiting
  <2>4. ElementsCounted'
    BY <1>3, <2>1 DEF ElementsCounted
  <2> HIDE DEF c, m
  <2>5. QED BY <1>1, <1>3, <2>1, <2>2, <2>3, <2>4, AnswerKeeps DEF m
<1>5. CASE ~(m.kind = "time" \/ m.ticks < 0)
  <2> DEFINE e == [tid |-> c, left |-> m.ticks]
  <2>1. free_list # 0
    BY <1>1, ElementFree
  <2>2. /\ waits' = waits \cup {e} /\ free_list' = free_list - 1
        /\ UNCHANGED <<ck_fault, ticker, task>>
    BY <1>5, <2>1 DEF ServeRequest, AddDelayUntil
  <2>3. e.tid = c /\ e.left = m.ticks /\ m.ticks \in Nat /\ e \in [tid : CkClients, left : Nat] /\ e \notin waits
    BY <1>1, <1>5
  <2>4. ElementsCounted'
    <3>1. IsFiniteSet(waits) /\ free_list \in Nat /\ free_list + Cardinality(waits) = CkCap /\ CkCap \in Nat
      BY <1>3, ClockAssumption DEF ElementsCounted
    <3> HIDE DEF e
    <3>2. IsFiniteSet(waits') /\ Cardinality(waits') = Cardinality(waits) + 1 /\ Cardinality(waits) \in Nat
      BY <2>2, <2>3, <3>1, FS_AddElement, FS_CardinalityType
    <3>3. QED BY <2>1, <2>2, <3>1, <3>2 DEF ElementsCounted
  <2> DEFINE q == Tail(ckbox)
  <2>5. \A k \in 1 .. Len(q) :
          /\ k + 1 \in 1 .. Len(ckbox) /\ q[k] = ckbox[k + 1] /\ q[k].tid # c
    BY <1>1, RestOfMail
  <2>6. CkTypes'
    BY <1>1, <1>3, <2>2, <2>3 DEF CkInv, CkTypes
  <2>7. AskedOnce'
    <3>1. \A j, k \in 1 .. Len(q) : q[j].tid = q[k].tid => j = k
      <4> SUFFICES ASSUME NEW j \in 1 .. Len(q), NEW k \in 1 .. Len(q), q[j].tid = q[k].tid
                   PROVE  j = k
        OBVIOUS
      <4>1. j + 1 \in 1 .. Len(ckbox) /\ k + 1 \in 1 .. Len(ckbox) /\ ckbox[j + 1].tid = ckbox[k + 1].tid
        BY <2>5
      <4>2. j + 1 = k + 1
        BY <1>3, <4>1 DEF AskedOnce
      <4>3. QED BY <4>2
    <3>2. ASSUME NEW k \in 1 .. Len(q)
          PROVE  /\ q[k].kind = "notify" <=> q[k].tid = "notifier"
                 /\ q[k].tid = "notifier" => ticker' = "sent"
                 /\ q[k].tid # "notifier" => task'[q[k].tid].at = "clock"
                 /\ \A w \in waits' : q[k].tid # w.tid
      <4>1. k + 1 \in 1 .. Len(ckbox) /\ q[k] = ckbox[k + 1] /\ q[k].tid # c
        BY <2>5
      <4>2. /\ q[k].kind = "notify" <=> q[k].tid = "notifier"
            /\ q[k].tid = "notifier" => ticker = "sent"
            /\ q[k].tid # "notifier" => task[q[k].tid].at = "clock"
            /\ \A w \in waits : q[k].tid # w.tid
        BY <1>3, <4>1 DEF AskedOnce
      <4> HIDE DEF e, q
      <4>3. QED BY <2>2, <2>3, <4>1, <4>2
    <3>3. \A w \in waits' : task'[w.tid].at = "clock"
      BY <1>1, <1>3, <2>2, <2>3 DEF AskedOnce
    <3>4. \A v, w \in waits' : v.tid = w.tid => v = w
      <4> HIDE DEF e, c
      <4>1. \A v, w \in waits : v.tid = w.tid => v = w
        BY <1>3 DEF AskedOnce
      <4>2. \A w \in waits : w.tid # e.tid
        BY <1>1, <2>3
      <4>3. QED BY <2>2, <4>1, <4>2
    <3>5. ckbox' = q
      OBVIOUS
    <3> HIDE DEF q
    <3>6. \A j, k \in 1 .. Len(ckbox') : ckbox'[j].tid = ckbox'[k].tid => j = k
      BY <3>1, <3>5
    <3>7. \A k \in 1 .. Len(ckbox') :
            /\ ckbox'[k].kind = "notify" <=> ckbox'[k].tid = "notifier"
            /\ ckbox'[k].tid = "notifier" => ticker' = "sent"
            /\ ckbox'[k].tid # "notifier" => task'[ckbox'[k].tid].at = "clock"
            /\ \A w \in waits' : ckbox'[k].tid # w.tid
      BY ONLY <3>2, <3>5
    <3>8. QED BY ONLY <3>3, <3>4, <3>6, <3>7 DEF AskedOnce
  <2>8. AttemptsPaid'
    <3>1. ASSUME NEW k \in 1 .. Len(q), q[k].tid # "notifier", task'[q[k].tid].stack # <<>>
          PROVE  q[k].kind = "delay" /\ q[k].ticks = RetrySep
      <4>1. k + 1 \in 1 .. Len(ckbox) /\ q[k] = ckbox[k + 1]
        BY <2>5
      <4> HIDE DEF q
      <4>2. QED BY <1>3, <2>2, <3>1, <4>1 DEF AttemptsPaid
    <3>2. ASSUME NEW v \in waits', task'[v.tid].stack # <<>>
          PROVE  task'[v.tid].stack[1].i * RetrySep + RetrySep <= task'[v.tid].age + v.left
      <4>1. CASE v \in waits
        BY <1>3, <2>2, <3>2, <4>1 DEF AttemptsPaid
      <4>2. CASE v = e
        <5>1. v.tid = c /\ v.left = RetrySep /\ task' = task /\ task[c].stack # <<>>
          BY <1>2, <2>2, <2>3, <3>2, <4>2
        <5>2. task[c].stack[1].i * RetrySep <= task[c].age
          BY <1>1, <1>3, <5>1 DEF StackSound, InnerSound
        <5>3. task[c].stack[1].i \in Nat /\ task[c].age \in Nat
          BY <1>1, <1>3, <5>1, TaskFields
        <5>4. PICK a \in Nat : a = task[c].stack[1].i * RetrySep
          <6> HIDE DEF c
          <6>1. \A x, y \in Nat : x * y \in Nat
            OBVIOUS
          <6>2. task[c].stack[1].i * RetrySep \in Nat
            BY ONLY <1>3, <5>3, <6>1
          <6>3. QED BY <6>2
        <5>5. a + RetrySep <= task[c].age + RetrySep
          <6>1. a <= task[c].age
            BY ONLY <5>2, <5>4
          <6> HIDE DEF c
          <6>2. QED BY ONLY <1>3, <5>3, <6>1, a \in Nat
        <5> HIDE DEF c
        <5>6. QED BY <5>1, <5>4, <5>5
      <4> HIDE DEF e
      <4>3. QED BY <2>2, <4>1, <4>2
    <3>3. ckbox' = q
      OBVIOUS
    <3> HIDE DEF q
    <3>4. QED BY <3>1, <3>2, <3>3 DEF AttemptsPaid
  <2>9. \A b \in CkClients : StackSound(task'[b], "clock" \in names')
    BY <1>3, <2>2
  <2>10. QED BY <1>3, <2>2, <2>4, <2>6, <2>7, <2>8, <2>9 DEF CkInv
<1>6. QED BY <1>4, <1>5

\* A name is registered.
LEMMA RegisterKeeps ==
  ASSUME CkInv, NEW name \in {"clock", "svc"}, ke_register_as(name)
  PROVE  CkInv'
<1>1. /\ names' = names \cup {name}
      /\ UNCHANGED <<waits, free_list, ckbox, ticker, task, ck_fault>>
  BY DEF ke_register_as
<1>2. CkTypes' /\ AskedOnce' /\ ElementsCounted' /\ AttemptsPaid'
  BY <1>1 DEF CkInv, CkTypes, AskedOnce, ElementsCounted, AttemptsPaid
<1>3. ASSUME NEW c \in CkClients
      PROVE  StackSound(task'[c], "clock" \in names')
  <2>1. StackSound(task[c], "clock" \in names) /\ task' = task /\ ("clock" \in names => "clock" \in names')
    BY <1>1 DEF CkInv
  <2>2. ASSUME task[c].stack # <<>>
        PROVE  InnerSound(task[c], "clock" \in names')
    <3>1. InnerSound(task[c], "clock" \in names)
      BY <2>1, <2>2 DEF StackSound
    <3>2. QED BY <2>1, <3>1 DEF InnerSound
  <2>3. QED BY <2>1, <2>2 DEF StackSound
<1>4. QED BY <1>1, <1>2, <1>3 DEF CkInv

\* The notifier sends.
LEMMA NotifierKeeps ==
  ASSUME ElementForEach, CkInv, clock_notifier_main
  PROVE  CkInv'
<1> DEFINE m == [tid |-> "notifier", kind |-> "notify", ticks |-> 0]
<1>1. /\ ticker = "await" /\ ticker' = "sent" /\ ckbox' = Append(ckbox, m)
      /\ UNCHANGED <<names, waits, free_list, task, ck_fault>>
  BY DEF clock_notifier_main
<1>2. /\ AskedOnce /\ AttemptsPaid /\ ckbox \in Seq(CkRequests)
      /\ \A w \in waits : w.tid # "notifier"
  BY DEF CkInv, CkTypes, ElementForEach
<1>3. m \in CkRequests /\ m.tid = "notifier" /\ m.kind = "notify"
  BY DEF CkRequests
<1> HIDE DEF m
<1>4. /\ ckbox' \in Seq(CkRequests) /\ Len(ckbox') = Len(ckbox) + 1 /\ Len(ckbox) \in Nat
      /\ ckbox'[Len(ckbox) + 1] = m
      /\ \A k \in 1 .. Len(ckbox') : k # Len(ckbox) + 1 => k \in 1 .. Len(ckbox) /\ ckbox'[k] = ckbox[k]
  BY <1>1, <1>2, <1>3, Posted
<1>5. \A k \in 1 .. Len(ckbox) : ckbox[k].tid # "notifier"
  BY <1>1, <1>2 DEF AskedOnce
<1>6. CkTypes'
  BY <1>1, <1>4 DEF CkInv, CkTypes
<1>7. AskedOnce'
  <2>1. \A j, k \in 1 .. Len(ckbox') : ckbox'[j].tid = ckbox'[k].tid => j = k
    BY <1>2, <1>3, <1>4, <1>5 DEF AskedOnce
  <2>2. ASSUME NEW k \in 1 .. Len(ckbox')
        PROVE  /\ ckbox'[k].kind = "notify" <=> ckbox'[k].tid = "notifier"
               /\ ckbox'[k].tid = "notifier" => ticker' = "sent"
               /\ ckbox'[k].tid # "notifier" => task'[ckbox'[k].tid].at = "clock"
               /\ \A w \in waits' : ckbox'[k].tid # w.tid
    <3>1. CASE k = Len(ckbox) + 1
      BY <1>1, <1>2, <1>3, <1>4, <3>1
    <3>2. CASE k # Len(ckbox) + 1
      <4>1. k \in 1 .. Len(ckbox) /\ ckbox'[k] = ckbox[k]
        BY <1>4, <3>2
      <4>2. QED BY <1>1, <1>2, <4>1 DEF AskedOnce
    <3>3. QED BY <3>1, <3>2
  <2>3. /\ \A w \in waits' : task'[w.tid].at = "clock"
        /\ \A v, w \in waits' : v.tid = w.tid => v = w
    BY <1>1, <1>2 DEF AskedOnce
  <2>4. QED BY ONLY <2>1, <2>2, <2>3 DEF AskedOnce
<1>8. AttemptsPaid'
  <2>1. ASSUME NEW k \in 1 .. Len(ckbox'), ckbox'[k].tid # "notifier", task'[ckbox'[k].tid].stack # <<>>
        PROVE  ckbox'[k].kind = "delay" /\ ckbox'[k].ticks = RetrySep
    <3>1. k \in 1 .. Len(ckbox) /\ ckbox'[k] = ckbox[k]
      BY <1>3, <1>4, <2>1
    <3>2. QED BY <1>1, <1>2, <2>1, <3>1 DEF AttemptsPaid
  <2>2. QED BY <1>1, <1>2, <2>1 DEF AttemptsPaid
<1>9. QED BY <1>1, <1>6, <1>7, <1>8 DEF CkInv, ElementsCounted

\* Every step keeps the invariant.
LEMMA ClockStepKeeps ==
  ASSUME ElementForEach, CkInv, [CkNext]_ckvars
  PROVE  CkInv'
<1>1. ASSUME NEW name \in {"clock", "svc"}, ke_register_as(name)
      PROVE  CkInv'
  BY <1>1, RegisterKeeps
<1>2. ASSUME NEW c \in CkClients, ke_who_is(c)
      PROVE  CkInv'
  BY <1>2, WhoIsKeeps
<1>3. ASSUME NEW c \in CkClients, ke_delay(c)
      PROVE  CkInv'
  <2>1. PICK kind \in {"time", "delay", "until"}, n \in -1 .. MaxDelay : AskClock(c, kind, n, <<>>)
    BY <1>3 DEF ke_delay
  <2>2. task[c].at = "free" /\ UNCHANGED <<names, waits, free_list, ticker, ck_fault>>
    BY <1>3 DEF ke_delay
  <2> DEFINE u == [stack |-> <<>>, at |-> "clock", age |-> task[c].age]
  <2>3. StackSound(u, "clock" \in names)
    <3>1. u.stack = <<>> /\ Len(u.stack) = 0 /\ u.at = "clock"
      OBVIOUS
    <3> HIDE DEF u
    <3>2. QED BY <3>1 DEF StackSound
  <2>4. n \in Int /\ <<>> \in Seq(CkFrames)
    BY ClockAssumption
  <2>5. QED BY <2>1, <2>2, <2>3, <2>4, AskKeeps
<1>4. CASE clock_server_main
  <2>1. /\ ckbox # <<>> /\ ckbox' = Tail(ckbox) /\ names' = names
        /\ IF Head(ckbox).kind = "notify" THEN ServeNotify ELSE ServeRequest(Head(ckbox))
    BY <1>4 DEF clock_server_main
  <2>2. CASE Head(ckbox).kind = "notify"
    BY <2>1, <2>2, NotifyKeeps
  <2>3. CASE Head(ckbox).kind # "notify"
    BY <2>1, <2>3, ClockRequestKeeps
  <2>4. QED BY <2>2, <2>3
<1>5. CASE clock_notifier_main
  BY <1>5, NotifierKeeps
<1>6. CASE UNCHANGED ckvars
  <2>1. UNCHANGED <<names, waits, free_list, ckbox, ticker, task, ck_fault>>
    BY <1>6 DEF ckvars
  <2>2. CkTypes' /\ AskedOnce' /\ ElementsCounted' /\ AttemptsPaid'
    BY <2>1 DEF CkInv, CkTypes, AskedOnce, ElementsCounted, AttemptsPaid
  <2>3. QED BY <2>1, <2>2 DEF CkInv
<1>7. QED BY <1>1, <1>2, <1>3, <1>4, <1>5, <1>6 DEF CkNext

\* The elements suffice.
LEMMA ClockElements ==
  ASSUME CkInv
  PROVE  ClockElementsSuffice
<1>1. /\ ~ck_fault /\ IsFiniteSet(waits) /\ free_list + Cardinality(waits) = CkCap
      /\ \A v, w \in waits : v.tid = w.tid => v = w
  BY DEF CkInv, AskedOnce, ElementsCounted
<1>2. ASSUME NEW c \in CkClients
      PROVE  Cardinality({w \in waits : w.tid = c}) <= 1
  <2> DEFINE W == {w \in waits : w.tid = c}
  <2>1. CASE W = {}
    <3>1. Cardinality(W) = 0
      BY <2>1, FS_EmptySet
    <3>2. QED BY <3>1
  <2>2. CASE W # {}
    <3>1. PICK v : v \in W
      BY <2>2
    <3>2. W = {v}
      BY <1>1, <3>1
    <3>3. Cardinality(W) = 1
      BY <3>2, FS_Singleton
    <3>4. QED BY <3>3
  <2>3. QED BY <2>1, <2>2
<1>3. QED BY <1>1, <1>2 DEF ClockElementsSuffice

\* Who gives up has waited for every attempt.
LEMMA WhoIsWaited ==
  ASSUME CkInv
  PROVE  WhoIsPatient
<1> SUFFICES ASSUME NEW c \in CkClients, task[c].at = "failed"
             PROVE  task[c].age >= RetryLimit * RetrySep /\ Len(task[c].stack) = 1
  BY DEF WhoIsPatient
<1>1. task[c] \in CkTasks /\ StackSound(task[c], "clock" \in names)
  BY DEF CkInv, CkTypes
<1>2. /\ task[c].stack # <<>> /\ InnerSound(task[c], "clock" \in names) /\ 1 \in 1 .. Len(task[c].stack)
      /\ task[c].stack[1].i \in Nat /\ RetryLimit \in Nat \ {0}
  BY <1>1, TaskFields, ClockAssumption DEF StackSound
<1>3. task[c].stack[1].i = RetryLimit /\ task[c].stack[1].name # "clock"
      /\ task[c].stack[1].i * RetrySep <= task[c].age
  BY <1>2 DEF InnerSound
<1>4. Len(task[c].stack) = 1
  BY <1>1, <1>2, <1>3 DEF StackSound
<1>5. RetryLimit * RetrySep <= task[c].age
  BY ONLY <1>3
<1>6. RetryLimit * RetrySep \in Nat /\ task[c].age \in Nat
  BY <1>1, TaskFields, ClockAssumption
<1>7. QED BY <1>4, <1>5, <1>6

\* Whom a step answers had a tick left at most, and who waits on has one.
DelayStep ==
  \A w \in waits :
    /\ (\A v \in waits' : v.tid # w.tid) => w.left <= 1
    /\ \A v \in waits' : v.tid = w.tid /\ v # w => v.left >= 1

LEMMA DelayStepExact ==
  ASSUME ElementForEach, CkInv, [CkNext]_ckvars
  PROVE  DelayStep
<1>1. /\ waits \subseteq [tid : CkClients, left : Nat]
      /\ \A v, w \in waits : v.tid = w.tid => v = w
  BY DEF CkInv, CkTypes, AskedOnce
<1>2. CASE waits' = waits
  BY <1>1, <1>2 DEF DelayStep
<1>3. CASE waits' # waits
  <2>1. clock_server_main
    BY <1>3 DEF CkNext, ke_register_as, ke_who_is, ke_delay, clock_notifier_main, ckvars
  <2>2. ckbox # <<>> /\ IF Head(ckbox).kind = "notify" THEN ServeNotify ELSE ServeRequest(Head(ckbox))
    BY <2>1 DEF clock_server_main
  <2>3. CASE Head(ckbox).kind = "notify"
    <3>1. waits' = Ticked \ Due(Ticked)
      BY <2>2, <2>3 DEF ServeNotify, Ticked
    <3>2. /\ Ticked \subseteq [tid : CkClients, left : Int]
          /\ \A w \in waits : \E v \in Ticked : v.tid = w.tid /\ v.left = w.left - 1
      BY TickedElements
    <3>3. \A v \in Ticked : v.left \in Int /\ (v \in Due(Ticked) <=> v.left <= 0)
      BY <3>2 DEF Due
    <3>4. ASSUME NEW w \in waits, \A v \in waits' : v.tid # w.tid
          PROVE  w.left <= 1
      <4>1. PICK v \in Ticked : v.tid = w.tid /\ v.left = w.left - 1
        BY <3>2
      <4>2. v.left <= 0 /\ v.left \in Int /\ w.left \in Nat
        BY <1>1, <3>1, <3>3, <3>4, <4>1
      <4>3. QED BY <4>1, <4>2
    <3>5. \A v \in waits' : v.left >= 1
      BY <3>1, <3>3
    <3>6. QED BY <3>4, <3>5 DEF DelayStep
  <2>4. CASE Head(ckbox).kind # "notify"
    <3> DEFINE m == Head(ckbox)  e == [tid |-> m.tid, left |-> m.ticks]
    <3>1. waits' = waits \cup {e}
      BY <1>3, <2>2, <2>4 DEF ServeRequest, AddDelayUntil
    <3>2. e.tid = m.tid /\ \A w \in waits : m.tid # w.tid
      BY <2>2, RestOfMail
    <3> HIDE DEF e
    <3>3. QED BY <1>1, <3>1, <3>2 DEF DelayStep
  <2>5. QED BY <2>3, <2>4
<1>4. QED BY <1>2, <1>3

\* A request to wait is answered by the tick that ends it, neither before nor
\* after, the server never runs out of elements, and ke_who_is gives up only
\* when it has waited for every attempt (clock_server_pop_delay, ke_who_is).
THEOREM DelaysExactTheorem ==
  ASSUME ElementForEach
  PROVE  CkInit /\ [][CkNext]_ckvars => DelaysExact
<1>1. CkInit => CkInv
  <2> SUFFICES ASSUME CkInit
               PROVE  CkInv
    OBVIOUS
  <2> DEFINE u == [stack |-> <<Frame("svc")>>, at |-> "ask", age |-> 0]
  <2>1. /\ names = {} /\ waits = {} /\ free_list = CkCap /\ ckbox = <<>> /\ ticker = "await"
        /\ task = [c \in CkClients |-> u] /\ ~ck_fault /\ Len(ckbox) = 0
    BY DEF CkInit
  <2>2. /\ Frame("svc") \in CkFrames /\ Frame("svc").i = 0 /\ ~Frame("svc").clock /\ Frame("svc").name = "svc"
    BY DEF Frame, CkFrames
  <2>3. /\ u \in CkTasks /\ u.at = "ask" /\ u.age = 0 /\ Len(u.stack) = 1 /\ u.stack[1] = Frame("svc")
        /\ u.stack # <<>>
    BY <2>2 DEF CkTasks
  <2> HIDE DEF u
  <2>4. StackSound(u, "clock" \in names)
    <3>1. RetryLimit \in Nat \ {0} /\ RetrySep \in Nat /\ 0 * RetrySep = 0
      BY ClockAssumption
    <3>2. InnerSound(u, "clock" \in names)
      BY <2>2, <2>3, <3>1 DEF InnerSound
    <3>3. QED BY <2>2, <2>3, <3>2 DEF StackSound
  <2>5. ElementsCounted
    BY <2>1, FS_EmptySet, ClockAssumption DEF ElementsCounted
  <2>6. CkTypes
    BY <2>1, <2>3 DEF CkTypes
  <2>7. QED BY <2>1, <2>4, <2>5, <2>6 DEF CkInv, AskedOnce, AttemptsPaid
<1>2. CkInv /\ [CkNext]_ckvars => CkInv'
  BY ClockStepKeeps
<1>3. CkInv => ClockElementsSuffice /\ WhoIsPatient
  BY ClockElements, WhoIsWaited
<1>4. CkInv /\ [CkNext]_ckvars => DelayStep
  BY DelayStepExact
<1>5. QED
  BY <1>1, <1>2, <1>3, <1>4, PTL DEF DelaysExact, DelayStep
=============================================================================
