----------------------------- MODULE MCPrograms -----------------------------
(***************************************************************************)
(* The programs of user/ and the driver of the SPI serial ports, one at a  *)
(* time: the initial state chooses which of them runs.  The others rest in *)
(* one state, where no call is under way.                                  *)
(***************************************************************************)
EXTENDS Rps, LegacyUart, LegacyClock, SpiUart

VARIABLES which

Programs == {"rps", "uart", "clock", "spi"}

programvars == <<rpsvars, uartvars, ckvars, spivars, which>>

RpsRest ==
  /\ rps_waiting = {} /\ games_list = <<>> /\ inbox = <<>>
  /\ key_wait = NoKey /\ rps_fault = FALSE
  /\ player = [p \in Players |-> [at |-> "done", i |-> 0, reply |-> NoAnswer]]
CkRest ==
  /\ names = {} /\ waits = {} /\ free_list = CkCap /\ ckbox = <<>> /\ ticker = "await"
  /\ task = [c \in CkClients |-> [stack |-> <<>>, at |-> "free", age |-> 0]]
  /\ ck_fault = FALSE
SpiRest ==
  spi = [call |-> "puts", blen |-> 0, at |-> "done", tlen |-> 0, bidx |-> 0, fifo |-> 0, sent |-> 0,
         lost |-> 0, full |-> FALSE, room |-> 0]

ProgramsInit ==
  /\ which \in Programs
  /\ IF which = "rps" THEN RpsInit ELSE RpsRest
  /\ UartInit /\ (which # "uart" => chan = "term")
  /\ IF which = "clock" THEN CkInit ELSE CkRest
  /\ IF which = "spi" THEN SpiInit ELSE SpiRest

\* A step of one program: the others keep their variables.
RpsStep == which = "rps" /\ RpsNext
             /\ UNCHANGED <<uartvars, ckvars, spivars>>
UartStep == which = "uart" /\ UartNext
             /\ UNCHANGED <<rpsvars, ckvars, spivars>>
ClockStep == which = "clock" /\ CkNext
             /\ UNCHANGED <<rpsvars, uartvars, spivars>>
SpiStep == which = "spi" /\ SpiNext
             /\ UNCHANGED <<rpsvars, uartvars, ckvars>>

ProgramsNext ==
  /\ UNCHANGED which
  /\ RpsStep \/ UartStep \/ ClockStep \/ SpiStep

\* The programs' fairness, for the one that runs.
ProgramsSpec ==
  /\ ProgramsInit /\ [][ProgramsNext]_programvars
  /\ WF_rpsvars(which = "rps" /\ ~rps_fault /\ RpsServe)
  /\ \A p \in Players : WF_rpsvars(which = "rps" /\ ~rps_fault /\ (SignUp(p) \/ OnReply(p)))
  /\ WF_uartvars(which = "uart" /\ UartServerStep)
  /\ \A n \in {"out", "in", "cts"} : WF_uartvars(which = "uart" /\ Notify(n))
  /\ WF_uartvars(which = "uart" /\ ByteLeaves)
  /\ WF_ckvars(which = "clock" /\ ke_register_as("clock"))
  /\ WF_ckvars(which = "clock" /\ clock_server_main)
  /\ WF_ckvars(which = "clock" /\ clock_notifier_main)
  /\ \A c \in CkClients : WF_ckvars(which = "clock" /\ ke_who_is(c))
  /\ WF_spivars(which = "spi" /\ (ReadLevel \/ spi_send_recv))
  /\ WF_spivars(which = "spi" /\ SpiDrain)

\* Every call of a program returns: to the serial servers (PutsAnswered,
\* GetcAnswered), to the clock server and ke_who_is, and to the SPI driver.
CallsReturn == PutsAnswered /\ GetcAnswered /\ ClockCallsReturn /\ PutsReturns
=============================================================================
