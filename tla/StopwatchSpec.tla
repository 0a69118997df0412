--------------------------- MODULE StopwatchSpec ---------------------------
(***************************************************************************)
(* What the stopwatch promises its user, as the comments over the handlers *)
(* of [HW3]20151588/module/module.c tell it: no timers, no callbacks, no   *)
(* registers.  HOME starts a watch that shows no time, BACK pauses it and, *)
(* if it was already stopped, resumes it, VOL+ clears the time and leaves  *)
(* the state, recording or not, alone.                                     *)
(***************************************************************************)
EXTENDS Integers

CONSTANTS PerSec, Wrap

VARIABLES
  on,       \* an application has the device open
  run,      \* the watch records
  started,  \* HOME was pushed since the device was opened
  time,     \* the recorded time, in ticks
  display   \* seconds shown

vars == <<on, run, started, time, display>>

Init ==
  /\ on = FALSE /\ run \in BOOLEAN /\ started = FALSE
  /\ time = 0 /\ display = 0

SwitchOn ==
  /\ ~on
  /\ on' = TRUE /\ run' = FALSE /\ started' = FALSE /\ time' = 0
  /\ UNCHANGED display

SwitchOff == on /\ on' = FALSE /\ UNCHANGED <<run, started, time, display>>

Home ==
  /\ on /\ time = 0
  /\ run' = TRUE /\ started' = TRUE
  /\ UNCHANGED <<on, time, display>>

(* Pause, or resume whatever the time; there is nothing to resume on a     *)
(* watch that was not started.                                             *)
Back ==
  /\ on
  /\ run' = (~run /\ started)
  /\ UNCHANGED <<on, started, time, display>>

(* VOL+, and the end of a long press of VOL-. *)
Clear ==
  /\ on
  /\ time' = 0 /\ display' = 0
  /\ UNCHANGED <<on, run, started>>

(* A hundredth of a second passes; full seconds are displayed. *)
Tick ==
  /\ on /\ run
  /\ time' = IF time + 1 = Wrap THEN 0 ELSE time + 1
  /\ display' = IF time' % PerSec = 0 THEN time' \div PerSec ELSE display
  /\ UNCHANGED <<on, run, started>>

(* The module is removed and inserted again. *)
Reload ==
  /\ ~on
  /\ run' \in BOOLEAN /\ time' = 0
  /\ UNCHANGED <<on, started, display>>

Next == SwitchOn \/ SwitchOff \/ Home \/ Back \/ Clear \/ Tick \/ Reload

Spec == Init /\ [][Next]_vars
=============================================================================
