------------------------------- MODULE Clock -------------------------------
(***************************************************************************)
(* Mode 0 of main_process in [HW1]20151588/main.c, the clock.  The device  *)
(* keeps a time of its own, which starts from the local time whenever the  *)
(* mode is entered, can be set, and is advanced when the main process      *)
(* handles a message and finds that the minute has changed; without a      *)
(* message it does not look.                                               *)
(***************************************************************************)
EXTENDS OutData

CONSTANTS Hours, Minutes   \* 24 and 60

ASSUME ClockAssumption == Hours \in 1..100 /\ Minutes \in 1..100

VARIABLES
  now,       \* the system's clock, in minutes of the day
  devtime, prevtime,
  touched    \* history: the user has set the time since the mode was entered

clock == <<devtime, prevtime, touched>>

Day == 0..(Hours * Minutes - 1)

localtime(n) == <<n \div Minutes, n % Minutes>>

timedigits(t) == <<t[1] \div 10, t[1] % 10, t[2] \div 10, t[2] % 10>>

PlusHour(t) == <<(t[1] + 1) % Hours, t[2]>>

(* Mutants of PlusMinute: minute 60; the hour is not carried. *)
PlusMinute_sixty(t) ==
  IF t[2] + 1 > Minutes THEN <<(t[1] + 1) % Hours, 0>> ELSE <<t[1], t[2] + 1>>

PlusMinute_no_carry(t) == <<t[1], (t[2] + 1) % Minutes>>

PlusMinute(t) ==
  IF t[2] + 1 >= Minutes THEN <<(t[1] + 1) % Hours, 0>> ELSE <<t[1], t[2] + 1>>

(* The setting switches: reset, one hour more, one minute more. *)
sets(c, set) == set = 1 /\ c \intersect {1, 2, 3} # {}

adjusted(c, set, dev) ==
  CASE set = 1 /\ 1 \in c -> localtime(now)
    [] set = 1 /\ 2 \in c /\ 1 \notin c -> PlusHour(dev)
    [] set = 1 /\ 3 \in c /\ c \intersect {1, 2} = {} -> PlusMinute(dev)
    [] OTHER -> dev

(* The minute has changed since the last pass. *)
goes == prevtime # localtime(now)

(* The lamp of set mode and the usual one.  Mutant: there is one lamp. *)
lamp_one(set) == 128

lamp(set) == IF set = 1 THEN 32 ELSE 128

(* A pass with the switches c; flag is outflag at its start. *)
ClockPass(c, flag) ==
  /\ settime' = IF 0 \in c THEN 1 - settime ELSE settime
  /\ led' = IF 0 \in c THEN lamp(settime') ELSE led
  /\ prevtime' = localtime(now)
  /\ LET dev == adjusted(c, settime', devtime)
     IN  devtime' = IF goes THEN PlusMinute(dev) ELSE dev
  /\ touched' = (touched \/ sets(c, settime'))
  /\ UNCHANGED <<now, dot, cur, curmode, text>>
  /\ LET outflag == flag \/ 0 \in c \/ sets(c, settime') \/ goes
     IN  /\ fnd' = IF outflag THEN timedigits(devtime') ELSE fnd
         /\ Send(outflag)

-----------------------------------------------------------------------------
Times == (0..(Hours - 1)) \X (0..(Minutes - 1))

(* The device's time is a time of the day, after every carry and setting.  *)
ClockTypeOK ==
  /\ now \in Day
  /\ devtime \in Times /\ prevtime \in Times
  /\ touched \in BOOLEAN

(* By how many minutes of the day t is ahead of u. *)
Ahead(t, u) == ((t[1] - u[1]) * Minutes + t[2] - u[2]) % (Hours * Minutes)
=============================================================================
