------------------------------ MODULE Encoder -------------------------------
(***************************************************************************)
(* The kernel's quadrature encoders (kernel/src/encoder.c) and the GPIO    *)
(* part of the interrupt handler (interrupt.c).  The wheel turns while the *)
(* handler runs: the handler reads which pins saw an edge, then the pins,  *)
(* then clears the edges, each step at a time of its own.  The counters    *)
(* are kept modulo 4, the number of positions the pins can tell apart.     *)
(***************************************************************************)
EXTENDS Integers, Sequences, FiniteSets

VARIABLES
  pins,          \* GPLEV: the levels of pins a and b
  edges,         \* GPEDS: pins that saw an edge, once they are armed
  armed,         \* GPREN and GPFEN
  enc,           \* encoders_n, pin_lookup and the encoder: see EncoderInit
  scan,          \* the interrupt handler: "idle", or the pins left to process
  reported,      \* the steps k_quadrature_encoder_get has handed out
  missed         \* an edge came too late to be seen and too early to be kept

encvars == <<pins, edges, armed, enc, scan, reported, missed>>

\* keQuadEncoderStat; invalid_1_cnt, of edges that turn out to be none, is
\* left out.
NoCounts == [forward |-> 0, backward |-> 0, invalid_2 |-> 0]
Steps(stat) == stat.forward - stat.backward + 2 * stat.invalid_2
NoScan == <<"idle">>

EncoderInit ==
  /\ pins \in [{"a", "b"} -> 0 .. 1]
  /\ edges = {} /\ armed = {} /\ scan = NoScan /\ missed = FALSE
  /\ enc = [encoders_n |-> 0, pin_lookup |-> {}, last |-> pins, start |-> pins, stat |-> NoCounts]
  /\ reported = 0

-----------------------------------------------------------------------------
(* encoder.c                                                               *)

\* The table of the transitions of a and b that are a step.
change_lookup(l, p) ==
  LET code == <<l["a"], l["b"], p["a"], p["b"]>>
  IN  IF code \in {<<0, 0, 1, 0>>, <<1, 0, 1, 1>>, <<1, 1, 0, 1>>, <<0, 1, 0, 0>>} THEN 1
      ELSE IF code \in {<<0, 0, 0, 1>>, <<0, 1, 1, 1>>, <<1, 1, 1, 0>>, <<1, 0, 0, 0>>} THEN -1 ELSE 0

Inc(n) == (n + 1) % 4

encoder_update(e, p) ==
  LET c == change_lookup(e.last, p)
  IN  [e EXCEPT !.last = p,
                !.stat.forward = IF c = 1 THEN Inc(@) ELSE @,
                !.stat.backward = IF c = -1 THEN Inc(@) ELSE @,
                !.stat.invalid_2 = IF c = 0 /\ e.last # p THEN 1 - @ ELSE @]

\* The one call there is, from encoder_collector.rs, so that ENCODER_MAX (2) is
\* never met.  The levels are read first; edges count only once both pins are
\* armed.
encoder_init ==
  /\ enc.encoders_n = 0 /\ scan = NoScan
  /\ enc' = [enc EXCEPT !.encoders_n = 1, !.pin_lookup = {"a", "b"},
                        !.last = pins, !.start = pins, !.stat = NoCounts]
  /\ missed' = FALSE
  /\ UNCHANGED <<pins, edges, armed, scan, reported>>

gpio_set_edge_trigger(p) ==
  /\ enc.encoders_n > 0 /\ p \notin armed /\ (p = "b" => "a" \in armed)
  /\ armed' = armed \cup {p}
  /\ UNCHANGED <<pins, edges, enc, scan, reported, missed>>

\* k_quadrature_encoder_get: copy the counts out and clear them.
k_quadrature_encoder_get ==
  /\ scan = NoScan /\ enc.encoders_n > 0 /\ armed = {"a", "b"}
  /\ reported' = (reported + Steps(enc.stat)) % 4
  /\ enc' = [enc EXCEPT !.stat = NoCounts]
  /\ UNCHANGED <<pins, edges, armed, scan, missed>>

-----------------------------------------------------------------------------
(* interrupt.c: process_intr_gpio_bank                                     *)

\* gpio_get_triggered; the interrupt is taken outside the kernel only, and
\* pins are looked at in ascending order.
GetTriggered ==
  /\ scan = NoScan /\ edges # {} /\ armed = {"a", "b"}
  /\ scan' = (IF "a" \in edges THEN <<"a">> ELSE <<>>) \o (IF "b" \in edges THEN <<"b">> ELSE <<>>)
  /\ UNCHANGED <<pins, edges, armed, enc, reported, missed>>

\* Mutant of ProcessPin: only pin a is known to belong to the encoder.
MutProcessPin ==
  /\ scan # NoScan /\ scan # <<>>
  /\ scan' = Tail(scan)
  /\ enc' = IF Head(scan) = "a" THEN encoder_update(enc, pins) ELSE enc
  /\ missed' = FALSE
  /\ UNCHANGED <<pins, edges, armed, reported>>

\* process_intr_gpio_pin: nothing for a pin without an encoder.
ProcessPin ==
  /\ scan # NoScan /\ scan # <<>>
  /\ scan' = Tail(scan)
  /\ enc' = IF Head(scan) \in enc.pin_lookup THEN encoder_update(enc, pins) ELSE enc
  /\ missed' = FALSE
  /\ UNCHANGED <<pins, edges, armed, reported>>

\* gpio_clear_triggered writes the edges it reads back (|= on a register whose
\* ones clear), so it clears every pending edge, new ones too.
ClearTriggered ==
  /\ scan = <<>>
  /\ scan' = NoScan /\ edges' = {}
  /\ UNCHANGED <<pins, armed, enc, reported, missed>>

-----------------------------------------------------------------------------
(* The wheel                                                               *)

\* One pin changes.  It is missed if the pin is not armed yet, or if the
\* handler has read the pins for the last time and not cleared the edges.
Edge(p) ==
  /\ pins' = [pins EXCEPT ![p] = 1 - @]
  /\ edges' = IF p \in armed THEN edges \cup {p} ELSE edges
  /\ missed' = (missed \/ (enc.encoders_n > 0 /\ (p \notin armed \/ scan = <<>>)))
  /\ UNCHANGED <<armed, enc, scan, reported>>

EncoderNext ==
  \/ encoder_init
  \/ \E p \in {"a", "b"} : gpio_set_edge_trigger(p) \/ Edge(p)
  \/ k_quadrature_encoder_get
  \/ GetTriggered \/ ProcessPin \/ ClearTriggered

-----------------------------------------------------------------------------
(* Properties                                                              *)

\* The position on the wheel, in the order of the steps counted forward.
Position(p) == CHOOSE i \in 0 .. 3 : <<p["a"], p["b"]>> = <<<<0, 0>>, <<1, 0>>, <<1, 1>>, <<0, 1>>>>[i + 1]

\* No step is counted twice, in the wrong direction or lost without a trace:
\* the counts handed out and kept, a double change being two steps, lead from
\* the pins of encoder_init to the pins last seen (encoder_update and
\* k_quadrature_encoder_get, with edges at any time).
CountsFollowPins ==
  enc.encoders_n > 0 =>
    (reported + Steps(enc.stat) - Position(enc.last) + Position(enc.start)) % 4 = 0

\* With no interrupt pending or being handled the encoder knows the pins as
\* they are, unless an edge fell between the handler's last look at the pins
\* and its clearing of the edges, or between those steps of encoder_init.
QuietIsCurrent ==
  (scan = NoScan /\ edges = {} /\ enc.encoders_n > 0 /\ ~missed) => enc.last = pins

\* The counters follow the wheel, during the handler and when all is quiet.
EncoderFollows == CountsFollowPins /\ QuietIsCurrent
=============================================================================
