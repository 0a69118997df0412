------------------------------ MODULE Activity ------------------------------
(***************************************************************************)
(* MainActivity2 of [HW4]20151588 around the board of Puzzle: its          *)
(* java.util.Timer, the bound TimerService and its life cycle.             *)
(*                                                                         *)
(* The user starts MainActivity2 again and again; several can exist, for   *)
(* nothing but the solution unbinds the service, and nothing at all        *)
(* cancels a timer.  Nor does anything keep a second tap on the button of  *)
(* MainActivity, when it comes before the new activity has the screen,     *)
(* from starting another MainActivity2 on top of that one.  The UI thread  *)
(* runs one callback at a time, in any order: clicks, onServiceConnected,  *)
(* the Runnables that the timer threads post.  The platform is modelled by *)
(* what it does with a MainActivity2 that is left or turned round (the     *)
(* manifest fixes no orientation): the connection it forgot to unbind is   *)
(* dropped some time later; and with one that covers another: that one     *)
(* comes back when it ends.                                                *)
(* A timer goes on counting on a service that was destroyed; nobody sees   *)
(* it, and neither those counts nor their Runnables are followed here.     *)
(***************************************************************************)
EXTENDS Puzzle

CONSTANTS
  Acts,      \* bound: how many activities are started
  Inputs,    \* bound: the <<row, col>> entered in each
  Hour,      \* seconds after which the count starts again (3600)
  Backlog    \* bound: Runnables of one timer that wait for the UI thread

ASSUME ActivityAssumption ==
  /\ {Acts, Hour, Backlog} \subseteq Nat \ {0}
  /\ Inputs \in [1..Acts -> SUBSET (Nat \X Nat)]

VARIABLES
  top,         \* the activity on the screen, 0 for MainActivity
  under,       \* the activities it covers, nothing was entered in them yet
  tap,         \* a second tap on the button of MainActivity may still come
  made,        \* how many there have been
  click_flag, finishing,   \* of the one on the screen; finish() was called
  bound,       \* the activities whose connection is bound
  service,     \* the running TimerService, by the activity it was created
               \*   for; 0: none runs
  ts,          \* the service each activity was given; 0: isService is false
  scheduled,   \* the activities whose timerTask is scheduled
  posted,      \* Runnables of each in the queue of the UI thread
  counter,     \* of the service that runs
  tv,          \* seconds on the screen, or no time
  crash,       \* what stopped the program, if anything
  secs,        \* history: what the timer on the screen has ticked, and ...
  left         \* ... the activities that were left without a solution, or
               \*   solved while another one was bound to the service

stack  == <<top, under, tap, made>>
screen == <<stack, click_flag, finishing>>
links  == <<bound, service, ts>>
clock  == <<scheduled, posted, counter>>
vars   == <<board, screen, links, clock, tv, crash, secs, left>>

NoTime == -1
Ids    == 1..Acts

Init ==
  /\ NoBoard /\ top = 0 /\ under = {} /\ tap = FALSE /\ made = 0
  /\ click_flag = TRUE /\ finishing = FALSE
  /\ bound = {} /\ service = 0 /\ ts = [a \in Ids |-> 0]
  /\ scheduled = {} /\ posted = [a \in Ids |-> 0] /\ counter = 0
  /\ tv = NoTime /\ crash = "none" /\ secs = 0 /\ left = {}

(* A callback of the UI thread, on an activity that is there. *)
Callback == crash = "none" /\ phase # "shuffle"
Input    == Callback /\ top # 0

-----------------------------------------------------------------------------
(* The life cycle.                                                         *)

(* onCreate of a new activity: it is bound, to a new service if none runs. *)
Create ==
  /\ made < Acts
  /\ made' = made + 1 /\ top' = made'
  /\ click_flag' = TRUE /\ finishing' = FALSE
  /\ ClearBoard
  /\ bound' = bound \union {top'}
  /\ service' = IF service = 0 THEN top' ELSE service
  /\ tv' = NoTime /\ secs' = 0
  /\ UNCHANGED <<ts, clock, crash>>

(* The button of MainActivity: nothing keeps a second tap, before the new  *)
(* activity has the screen, from starting another.                         *)
Start ==
  /\ Callback /\ (top = 0 \/ tap) /\ Create
  /\ under' = under \union ({top} \ {0})
  /\ tap' = TRUE
  /\ UNCHANGED left

(* The device is turned: the activity makes room for a new one. *)
Rotate ==
  /\ Input /\ ~finishing /\ Create
  /\ tap' = FALSE /\ left' = left \union {top}
  /\ UNCHANGED under

(* BACK, or the end after finish(): what was covered comes back. *)
Leave ==
  /\ Input
  /\ top' \in under \union {0} /\ \A a \in under : a <= top'
  /\ under' = under \ {top'}
  /\ tap' = FALSE /\ finishing' = FALSE
  /\ left' = IF finishing THEN left ELSE left \union {top}
  /\ ClearBoard /\ tv' = NoTime /\ secs' = 0 /\ click_flag' = TRUE
  /\ UNCHANGED <<made, links, clock, crash>>

(* A connection less; a service without connections is destroyed. *)
Unbind(a) ==
  /\ bound' = bound \ {a}
  /\ service' = IF bound' = {} THEN 0 ELSE service
  /\ counter' = IF bound' = {} THEN 0 ELSE counter
  /\ posted' = [b \in Ids |-> IF bound' = {} THEN 0 ELSE posted[b]]
  /\ UNCHANGED <<ts, scheduled>>

(* The platform drops the connection of an activity that is gone. *)
Cleanup(a) ==
  /\ crash = "none" /\ a \in bound \ ({top} \union under)
  /\ Unbind(a)
  /\ UNCHANGED <<board, screen, tv, crash, secs, left>>

onServiceConnected(a) ==
  /\ Callback /\ a \in ({top} \union under) \intersect bound /\ ts[a] = 0
  /\ ts' = [ts EXCEPT ![a] = service]
  /\ UNCHANGED <<board, screen, bound, service, clock, tv, crash, secs, left>>

-----------------------------------------------------------------------------
(* "make buttons", while click_flag is true.  Named bound: between finish()*)
(* and the end of the activity no size is entered that is refused.         *)

MayDeal == Input /\ click_flag

Refuse(s) ==
  /\ MayDeal /\ phase = "size"
  /\ \/ refused(s) /\ UNCHANGED crash
     \/ void(s) /\ crash' = "size"
  /\ row' = s[1] /\ col' = s[2] /\ tap' = FALSE
  /\ UNCHANGED <<phase, num, top, under, made, click_flag, finishing, links, clock,
                 tv, secs, left>>

(* Mutant of MakeButtons: the button is not switched off. *)
MakeButtons_on(s) ==
  /\ MayDeal /\ Deal(s)
  /\ tap' = FALSE
  /\ UNCHANGED <<top, under, made, click_flag, finishing, links, clock, tv, crash,
                 secs, left>>

MakeButtons(s) ==
  /\ MayDeal /\ Deal(s)
  /\ click_flag' = FALSE /\ tap' = FALSE
  /\ UNCHANGED <<top, under, made, finishing, links, clock, tv, crash, secs, left>>

ShuffleOn == Shuffle /\ UNCHANGED <<screen, links, clock, tv, crash, secs, left>>

(* The end of the callback: without a service the game has no clock; a     *)
(* timerTask that is scheduled already is an IllegalStateException.        *)
StartClock ==
  \/ ts[top] = 0 /\ UNCHANGED <<clock, tv, crash, secs>>
  \/ /\ ts[top] # 0 /\ top \in scheduled
     /\ crash' = "schedule" /\ UNCHANGED <<clock, tv, secs>>
  \/ /\ ts[top] # 0 /\ top \notin scheduled
     /\ counter' = 0    \* timerStart
     /\ scheduled' = scheduled \union {top}
     /\ tv' = 0 /\ secs' = 0
     /\ UNCHANGED <<posted, crash>>

Play ==
  /\ crash = "none" /\ phase = "shuffle" /\ ~sorted(num)
  /\ phase' = "play" /\ StartClock
  /\ UNCHANGED <<row, col, num, screen, links, left>>

(* Mutant of Solved: the service is not unbound. *)
Solved_stays_bound == UNCHANGED <<links, clock, crash, left>> /\ finishing' = TRUE

(* check_puzzle finds the tiles in order: unbindService and finish.  To    *)
(* unbind twice is an IllegalArgumentException.                            *)
Solved ==
  \/ /\ top \in bound /\ Unbind(top) /\ finishing' = TRUE
     /\ left' = IF bound' = {} THEN left ELSE left \union {top}
     /\ UNCHANGED crash
  \/ /\ top \notin bound /\ crash' = "unbind"
     /\ UNCHANGED <<links, clock, finishing, left>>

ClickTile(i) ==
  /\ Input /\ Click(i)
  /\ IF num' # num /\ sorted(num')
     THEN click_flag' = TRUE /\ Solved
     ELSE UNCHANGED <<click_flag, finishing, links, clock, crash, left>>
  /\ UNCHANGED <<stack, tv, secs>>

-----------------------------------------------------------------------------
(* The timer threads, and what they post to the UI thread.                 *)

Tick(a) ==
  /\ crash = "none" /\ a \in scheduled /\ ts[a] = service /\ posted[a] < Backlog
  /\ posted' = [posted EXCEPT ![a] = @ + 1]
  /\ secs' = IF a = top THEN (secs + 1) % (Hour + 1) ELSE secs
  /\ UNCHANGED <<board, screen, links, scheduled, counter, tv, crash, left>>

(* Mutants of timerCount: the hour itself is not shown; the count stops.   *)
timerCount_59(n)    == IF n + 1 >= Hour THEN 0 ELSE n + 1
timerCount_stops(n) == IF n + 1 > Hour THEN n ELSE n + 1

timerCount(n) == IF n + 1 > Hour THEN 0 ELSE n + 1

Run(a) ==
  /\ Callback /\ posted[a] > 0
  /\ posted' = [posted EXCEPT ![a] = @ - 1]
  /\ counter' = timerCount(counter)
  /\ tv' = IF a = top THEN counter' ELSE tv
  /\ UNCHANGED <<board, screen, links, scheduled, crash, secs, left>>

-----------------------------------------------------------------------------
Next ==
  \/ Start \/ Rotate \/ Leave
  \/ \E a \in Ids \intersect {top} : \E s \in Inputs[a] : Refuse(s) \/ MakeButtons(s)
  \/ ShuffleOn \/ Play \/ \E i \in Cells : ClickTile(i)
  \/ \E a \in Ids : Cleanup(a) \/ onServiceConnected(a) \/ Tick(a) \/ Run(a)

Spec == Init /\ [][Next]_vars

(* A timer ticks, and the UI thread gets to what was posted. *)
FairSpec == Spec /\ \A a \in Ids : WF_vars(Tick(a)) /\ WF_vars(Run(a))

-----------------------------------------------------------------------------
(* The labels are those of the board, and the service an activity holds is *)
(* one that was created for it or for one before it.                       *)
TypeOK ==
  /\ BoardTypeOK
  /\ made \in 0..Acts /\ top \in 0..made /\ {tap, click_flag, finishing} \subseteq BOOLEAN
  /\ under \union bound \union scheduled \union left \subseteq 1..made
  /\ service \in 0..made
  /\ \A a \in Ids : ts[a] \in 0..a /\ posted[a] \in 0..Backlog
  /\ tv \in {NoTime} \union 0..Hour /\ {counter, secs} \subseteq 0..Hour
  /\ crash \in {"none", "size", "schedule", "unbind"}

(* The games on the screen whose clock runs; and those among them on whose *)
(* service no other timer counts.                                          *)
Timing == top # 0 /\ tv # NoTime /\ ~finishing /\ crash = "none"

Alone == \A b \in scheduled \ {top} : ts[b] # ts[top]

Timed == Timing /\ Alone

(* The clock on the screen is behind its timer by what still waits for the *)
(* UI thread, and starts again after the hour itself ("60:00"), however    *)
(* the older activities' connections are dropped, as long as no older      *)
(* timer counts on the same service.  SolvedIsOver says when that is so,   *)
(* EverySecond what becomes of the clock when it is not.                   *)
OnTime == tv = (secs - posted[top]) % (Hour + 1)

ClockIsTrue == Timed => OnTime

(* "schedule timertask every 1 second": every game's clock.                *)
EverySecond == Timing => OnTime

(* A solved game hands nothing on: a timer, which nobody ever cancels, can *)
(* count on the service of a later game only when its activity was left    *)
(* or turned without a solution, or solved while another one, started by a *)
(* double tap, an older one, was still bound.                              *)
SolvedIsOver ==
  top # 0 /\ ts[top] # 0
    => \A b \in scheduled \ {top} : ts[b] = ts[top] => b \in left

(* A timerTask is scheduled once and a service unbound once: click_flag    *)
(* and finish() keep the user from doing it again, but for touches that    *)
(* come between finish() and the end of the activity.                      *)
OnceOnly == crash \in {"schedule", "unbind"} => finishing

(* "schedule timertask every 1 second": the clock of a game that goes on   *)
(* and on goes on too, past the hour.                                      *)
ClockGoes == []<>~Timed \/ []<><<tv' # tv>>_tv
=============================================================================
