----------------------------- MODULE MCServices -----------------------------
(***************************************************************************)
(* The clock service, with a client at its own priority and one below it,  *)
(* and a serial port of pie-rust, with two clients and FIFOs of one byte,  *)
(* one at a time: the initial state chooses which of them runs, and the    *)
(* other stays in its initial state.                                       *)
(***************************************************************************)
EXTENDS ClockService, UartServer

VARIABLES which

ServicesInit ==
  /\ which \in {"clock", "serial"} /\ ClockInit /\ SerialInit
  /\ which = "serial" => ready = <<NotifierTask, ServerTask>>

ClockStep  == which = "clock" /\ ClockNext /\ UNCHANGED serialvars
SerialStep == which = "serial" /\ SerialNext /\ UNCHANGED clockvars

ServicesNext == UNCHANGED which /\ (ClockStep \/ SerialStep)

\* ClockFairness and SerialFairness, for the service that runs.
ServicesSpec ==
  /\ ServicesInit /\ [][ServicesNext]_<<clockvars, serialvars, which>>
  /\ WF_clockvars(which = "clock" /\ ClockServer) /\ WF_clockvars(which = "clock" /\ Notifier)
  /\ WF_clockvars(which = "clock" /\ Tick)
  /\ WF_serialvars(which = "serial" /\ Server) /\ WF_serialvars(which = "serial" /\ Broker)
  /\ WF_serialvars(which = "serial" /\ TxDrain)
  /\ WF_serialvars(which = "serial" /\ process_intr_uart_id)

\* No request to either service stays unanswered (EveryRequestAnswered of the
\* clock, WritesAnswered and ReadsAnswered of the serial port).
RequestsAnswered == EveryRequestAnswered /\ WritesAnswered /\ ReadsAnswered
=============================================================================
