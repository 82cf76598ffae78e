----------------------------- MODULE KernelTime -----------------------------
(***************************************************************************)
(* The kernel's use of the system timer: the clock, read in two halves     *)
(* that the hardware may step between (lib/include/timer.h), and the share *)
(* of idle time that ke_sys_health reports (kernel/src/loop.c,             *)
(* syscall_handler.c).  The periodic interrupt of interrupt.h is armed by  *)
(* nobody.                                                                 *)
(***************************************************************************)
EXTENDS Integers

CONSTANTS
  Half,          \* values of half a clock (2^32)
  Scale,         \* what all of the time is reported as (100 * 100)
  MaxTime        \* bound on the clock

\* The program ends before its idle time in hundredths of a percent leaves a word
\* (58 years of microseconds).
ASSUME TimeAssumption ==
  /\ {Half, Scale, MaxTime} \subseteq Nat \ {0}
  /\ MaxTime * Scale < Half * Half

VARIABLES
  now,           \* the hardware's clock
  kt             \* the kernel, see TimeInit

timevars == <<now, kt>>

\* Of unsigned arithmetic.
ClockSpan == Half * Half

\* A kernel that boots at any time has read the clock for its idle accounting
\* (k_gs_init, k_loop); a lo of -1 means no half read yet.  History: from and
\* begun are when a reading and that of idle_ts began, spent and idled what passed
\* between the readings and in the idle task, torn and skewed say that a reading
\* the next and the last report rest on was torn.
TimeInit ==
  /\ now \in {t \in 0 .. Half - 1 : t <= MaxTime}
  /\ kt = [doing |-> "busy", lo |-> -1, idle_ts |-> now, idle_duration |-> 0, start |-> now,
           percent |-> 0, from |-> -1, begun |-> now, spent |-> 0, idled |-> 0,
           torn |-> FALSE, skewed |-> FALSE]

\* The hardware's clock steps; an idle task is what it steps over.
Tick ==
  /\ now < MaxTime
  /\ now' = now + 1
  /\ kt' = [kt EXCEPT !.idled = IF kt.doing = "idle" THEN @ + 1 ELSE @]

\* get_current_time_u64 reads clock_lo ...
ReadLo(next) ==
  /\ kt.lo = -1
  /\ kt' = [kt EXCEPT !.doing = next, !.lo = now % Half, !.from = now]
  /\ UNCHANGED now

\* Mutant of ReadValue: the halves do not meet.
MutReadValue == kt.lo + (now \div Half)

\* ... and then clock_hi.
ReadValue == kt.lo + (now \div Half) * Half

\* The clock's low half went round between the two reads.
TornNow == kt.from \div Half # now \div Half

\* k_loop finds nothing to run and notes the time before the idle task starts.
BeginIdle == kt.doing = "busy" /\ ReadLo("note_idle_ts")
EndBeginIdle ==
  /\ kt.doing = "note_idle_ts"
  /\ kt' = [kt EXCEPT !.doing = "idle", !.lo = -1, !.from = -1, !.torn = @ \/ TornNow,
                      !.idle_ts = ReadValue, !.begun = kt.from]
  /\ UNCHANGED now

\* An interrupt ends the idle task, and k_loop adds up.
EndIdle == kt.doing = "idle" /\ ReadLo("add_idle_duration")
EndEndIdle ==
  /\ kt.doing = "add_idle_duration"
  /\ kt' = [kt EXCEPT !.doing = "busy", !.lo = -1, !.from = -1, !.torn = @ \/ TornNow,
                      !.idle_duration = (@ + ReadValue - kt.idle_ts) % ClockSpan,
                      !.spent = @ + kt.from - kt.begun]
  /\ UNCHANGED now

\* k_sys_health reports the share of idle time in hundredths of a percent, and
\* starts again.  A division by zero gives 0 on this processor.
SysHealth == kt.doing = "busy" /\ ReadLo("report")

Share(idle, elapsed) == IF elapsed = 0 THEN 0 ELSE ((idle * Scale) % ClockSpan) \div elapsed

\* Mutant of EndSysHealth: the time is counted again from there, the idle time is not.
MutEndSysHealth ==
  /\ kt.doing = "report"
  /\ kt' = [kt EXCEPT !.doing = "busy", !.lo = -1, !.from = -1,
              !.torn = TornNow, !.skewed = kt.torn \/ TornNow,
              !.percent = Share(kt.idle_duration, (ReadValue - kt.start) % ClockSpan),
              !.start = ReadValue, !.spent = 0, !.idled = 0]
  /\ UNCHANGED now

EndSysHealth ==
  /\ kt.doing = "report"
  /\ kt' = [kt EXCEPT !.doing = "busy", !.lo = -1, !.from = -1,
              !.torn = TornNow, !.skewed = kt.torn \/ TornNow,
              !.percent = Share(kt.idle_duration, (ReadValue - kt.start) % ClockSpan),
              !.idle_duration = 0, !.start = ReadValue, !.spent = 0, !.idled = 0]
  /\ UNCHANGED now

TimeNext ==
  \/ Tick
  \/ BeginIdle \/ EndBeginIdle \/ EndIdle \/ EndEndIdle
  \/ SysHealth \/ EndSysHealth

-----------------------------------------------------------------------------
(* Properties                                                              *)

\* While no reading since the one of the last report was torn, the idle time is
\* what passed between the readings, fits into the time it will be divided by and
\* covers every tick of the idle task; and a report gives at most all of the time
\* as idle, unless a reading it rests on was torn.  A torn reading thus spoils at
\* most two reports (k_loop, k_sys_health).
IdleWithinElapsed ==
  /\ ~kt.torn =>
       /\ kt.idle_duration = kt.spent
       /\ kt.doing = "busy" => kt.start + kt.idle_duration <= now /\ kt.idled <= kt.idle_duration
  /\ ~kt.skewed => kt.percent \in 0 .. Scale

\* However its readings were torn, and though the sum may wrap, the low half of
\* the idle time is right: a torn reading is off by whole halves
\* (get_current_time_u64, k_loop).
LowHalfExact == (kt.idle_duration - kt.spent) % Half = 0

\* Idle time survives a clock that steps while it is read.
TimerExact == IdleWithinElapsed /\ LowHalfExact
=============================================================================
