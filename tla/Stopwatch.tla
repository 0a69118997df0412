----------------------------- MODULE Stopwatch -----------------------------
(***************************************************************************)
(* The stopwatch character driver of [HW3]20151588/module/module.c and the *)
(* application app/main.c that keeps it open.                              *)
(*                                                                         *)
(* Three kinds of context touch the driver's globals, none takes a lock:   *)
(*   - the four GPIO interrupt handlers (atomic: they run with interrupts  *)
(*     off, on the processor that also runs the timers they add);          *)
(*   - the callbacks of the timers t and end, run one after the other by   *)
(*     the timer softirq.  An interrupt can hit stopwatch_blink anywhere,  *)
(*     so that callback is cut into the steps an interrupt can separate;   *)
(*   - the file operations, in the application's process.  On one          *)
(*     processor a process never runs inside a callback; on several (SMP,  *)
(*     which nothing in the driver rules out) it runs beside it.           *)
(* add_timer() on a pending timer is BUG_ON(timer_pending(timer)) in the   *)
(* kernel: in interrupt context the machine stops, here panic.             *)
(* stopwatch_fops names no owner: an open file does not keep the module.   *)
(*                                                                         *)
(* The user is free: any button at any time, any number of applications,   *)
(* rmmod at any time.  The driver is not made for all of that; the history *)
(* variable odd records the things it is not made for, and the properties  *)
(* say of each misbehaviour which of them, and no other, can cause it.     *)
(***************************************************************************)
EXTENDS Integers

CONSTANTS
  Apps,     \* the processes that run app/main.c, each again and again
  SMP,      \* TRUE: file operations run beside callbacks (several CPUs)
  PerSec,   \* ticks per displayed second (100 in the code)
  Wrap      \* ticks after which the time starts again at 0 (360000)

ASSUME StopwatchAssumption ==
  /\ SMP \in BOOLEAN
  /\ PerSec \in Nat \ {0}
  /\ Wrap \in Nat \ {0}
  /\ Wrap <= 3600 * PerSec

VARIABLES
  loaded,        \* module inserted, registers mapped
  driver_usage,  \* 0 idle, 1 open
  irq,           \* the four handlers are installed
  t_stop,        \* t.stop (TRUE is 1)
  t_value,       \* t.value, in ticks
  t_pending,     \* t.timer is on the kernel's timer list
  end_pending,   \* the timer end is on the list
  blink,         \* where the callback of t stands
  reg,           \* the register that holds t.value inside the callback
  fnd,           \* the four digits on the FND
  pc,            \* where each application stands
  vol_low,       \* level of the VOL- pin: low while the button is held
  vol_edge,      \* an edge of VOL- waits to be handled
  panic,         \* the kernel hit a BUG_ON or ran code that is gone
  odd,           \* history: what happened that the driver is not made for
  started        \* history: HOME started the watch since it was opened

press   == <<vol_low, vol_edge>>
timers  == <<t_pending, end_pending, panic>>
watch   == <<t_stop, t_value, fnd>>
running == <<blink, reg>>
device  == <<loaded, driver_usage, irq, pc>>
history == <<odd, started>>
vars    == <<press, timers, watch, running, device, history>>

(* The odd things, each noted by the step in which it happens.             *)
Odd ==
  {"two",       \* an application opened the device while another had it
   "alive",     \* a button added the timer t while it, or its callback, lived
   "bounce",    \* VOL- moved again before the handler saw its last edge
   "removed",   \* rmmod while an application had the device open
   "caught",    \* the timers were deleted while the callback of t was running
   "lost",      \* the time was cleared while the callback held it
   "waits"}     \* BACK was to resume a started watch that stood at 0, and did
                \*   not: it waits for HOME

note(what, cond) == odd' = IF cond THEN odd \cup {what} ELSE odd

(* fnd_write: minutes and seconds, two decimal digits each. *)
fnd_write(time) ==
  LET m == time \div 60
      s == time % 60
  IN  <<m \div 10, m % 10, s \div 10, s % 10>>

(* add_timer of the kernel, for each of the two timers. *)
add_timer_t ==
  /\ t_pending' = TRUE
  /\ panic' = t_pending
  /\ UNCHANGED end_pending

add_timer_end ==
  /\ end_pending' = TRUE
  /\ panic' = end_pending
  /\ UNCHANGED t_pending

Init ==
  /\ loaded = TRUE
  /\ driver_usage = 0
  /\ irq = FALSE
  /\ t_stop = FALSE
  /\ t_value = 0
  /\ t_pending = FALSE
  /\ end_pending = FALSE
  /\ blink = "idle"
  /\ reg = 0
  /\ fnd = fnd_write(0)
  /\ pc = [p \in Apps |-> "idle"]
  /\ vol_low \in BOOLEAN
  /\ vol_edge = FALSE
  /\ panic = FALSE
  /\ odd = {}
  /\ started = FALSE

-----------------------------------------------------------------------------
(* Interrupt handlers.  A press that changes nothing is no step.           *)

Alive == loaded /\ ~panic

MayPress == Alive /\ irq

InUse == t_pending \/ blink # "idle"

(* The callback has read t.value and will still write or show it. *)
Holding == blink \in {"store", "show"}

(* HOME: start to record when the recorded time is 0.  Mutant: at any.     *)
unrecorded_any == TRUE

unrecorded == t_value = 0

inter_handler1 ==
  /\ MayPress /\ unrecorded
  /\ t_stop' = FALSE
  /\ add_timer_t
  /\ started' = TRUE
  /\ odd' = (odd \ {"waits"}) \cup IF InUse THEN {"alive"} ELSE {}
  /\ UNCHANGED <<t_value, fnd, press, running, device>>

(* BACK: resume when stopped at a time other than 0, else stop. *)
inter_handler2 ==
  /\ MayPress
  /\ \/ /\ t_stop /\ t_value # 0
        /\ t_stop' = FALSE
        /\ add_timer_t
        /\ note("alive", InUse)
     \/ /\ ~t_stop \/ t_value = 0
        /\ t_stop' = TRUE
        /\ note("waits", t_stop /\ started)
        /\ UNCHANGED timers
  /\ UNCHANGED <<t_value, fnd, started, press, running, device>>

(* VOL+: clear the time and the display, leave recording as it is. *)
inter_handler3 ==
  /\ MayPress
  /\ t_value' = 0
  /\ fnd' = fnd_write(0)
  /\ note("lost", Holding)
  /\ UNCHANGED <<t_stop, started, press, timers, running, device>>

(* The user pushes or lets go of VOL-; the edge is latched if a handler is *)
(* installed.  A second edge before the handler ran is not seen as such.   *)
TurnVol ==
  /\ Alive
  /\ vol_low' = ~vol_low
  /\ vol_edge' = irq
  /\ note("bounce", vol_edge)
  /\ UNCHANGED <<started, timers, watch, running, device>>

(* VOL-: the handler looks at the level of the pin, not at the edge.       *)
(* Mutant: the levels are mixed up.                                        *)
let_go_swapped == vol_low

let_go == ~vol_low

inter_handler4 ==
  /\ Alive
  /\ irq /\ vol_edge
  /\ vol_edge' = FALSE
  /\ \/ let_go /\ end_pending' = FALSE /\ UNCHANGED <<t_pending, panic>>
     \/ ~let_go /\ add_timer_end
  /\ UNCHANGED <<vol_low, watch, running, device, history>>

-----------------------------------------------------------------------------
(* Timer softirq.  A timer is taken off the list before its callback runs. *)

Expire ==
  /\ Alive
  /\ t_pending /\ blink = "idle"
  /\ t_pending' = FALSE
  /\ blink' = "read"
  /\ UNCHANGED <<reg, end_pending, panic, press, watch, device, history>>

(* stopwatch_blink, first cut: t.stop and t.value are read.  Mutant: the   *)
(* callback does not look at t.stop.                                       *)
stopped_never == FALSE

stopped == t_stop

BlinkRead ==
  /\ Alive
  /\ blink = "read"
  /\ reg' = t_value
  /\ blink' = IF stopped THEN "idle" ELSE "store"
  /\ UNCHANGED <<press, timers, watch, device, history>>

(* stopwatch_blink, second cut: the new time is stored.  Mutant: an hour   *)
(* is not the end.                                                         *)
ticked_on(n) == n + 1

ticked(n) == IF n + 1 = Wrap THEN 0 ELSE n + 1

BlinkStore ==
  /\ Alive
  /\ blink = "store"
  /\ reg' = ticked(reg)
  /\ t_value' = reg'
  /\ blink' = "show"
  /\ UNCHANGED <<t_stop, fnd, press, timers, device, history>>

(* stopwatch_blink, last cut: a full second is displayed, t is re-armed.   *)
(* Mutants: the last tick of a second is taken for a full one; only a full *)
(* second re-arms the timer.                                               *)
full_early == reg % PerSec = PerSec - 1

full == reg % PerSec = 0

rearm_late == IF full THEN add_timer_t ELSE UNCHANGED timers

rearm == add_timer_t

BlinkShow ==
  /\ Alive
  /\ blink = "show"
  /\ fnd' = IF full THEN fnd_write(reg \div PerSec) ELSE fnd
  /\ rearm
  /\ blink' = "idle"
  /\ UNCHANGED <<reg, t_stop, t_value, press, device, history>>

(* The timer end expires: VOL- was held for three seconds. *)
stopwatch_end ==
  /\ Alive
  /\ end_pending /\ blink = "idle"
  /\ end_pending' = FALSE
  /\ t_value' = 0
  /\ fnd' = fnd_write(0)
  /\ pc' = [p \in Apps |-> IF pc[p] = "sleep" THEN "close" ELSE pc[p]]
  /\ UNCHANGED <<t_stop, t_pending, panic, loaded, driver_usage, irq,
                 press, running, history>>

(* Code of the module is run that is there no more ... *)
Stray ==
  /\ ~panic /\ ~loaded
  /\ panic' = TRUE
  /\ UNCHANGED <<t_pending, end_pending, press, watch, running, device, history>>

(* ... by a timer that expires, or by a callback that goes on. *)
RunUnloaded == Stray /\ (t_pending \/ end_pending \/ blink # "idle")

-----------------------------------------------------------------------------
(* The application: open, write (sleeps), close.                           *)

Scheduled(p, from, to) ==
  /\ Alive
  /\ SMP \/ blink = "idle"
  /\ pc[p] = from
  /\ pc' = [pc EXCEPT ![p] = to]

(* stopwatch_open: the test of driver_usage (when busy: no change) ... *)
OpenTest(p) ==
  /\ driver_usage = 0
  /\ Scheduled(p, "idle", "open")
  /\ UNCHANGED <<loaded, driver_usage, irq, press, timers, watch, running, history>>

(* ... and the rest: mark it busy, reset the watch, install the handlers. *)
OpenInstall(p) ==
  /\ Scheduled(p, "open", "opened")
  /\ driver_usage' = 1
  /\ t_stop' = TRUE
  /\ t_value' = 0
  /\ irq' = TRUE
  /\ started' = FALSE
  /\ odd' = (odd \ {"waits"}) \cup (IF driver_usage = 1 THEN {"two"} ELSE {})
                             \cup (IF Holding THEN {"lost"} ELSE {})
  /\ UNCHANGED <<loaded, fnd, press, timers, running>>

(* stopwatch_write: sleep on the wait queue until somebody wakes it. *)
stopwatch_write(p) ==
  /\ Scheduled(p, "opened", "sleep")
  /\ UNCHANGED <<loaded, driver_usage, irq, press, timers, watch, running, history>>

(* A signal ends the sleep, or the application before it sleeps. *)
Interrupt(p) ==
  /\ \/ Scheduled(p, "opened", "close")
     \/ Scheduled(p, "sleep", "close")
  /\ UNCHANGED <<loaded, driver_usage, irq, press, timers, watch, running, history>>

(* stopwatch_release: free_irq of the four handlers ... *)
ReleaseIrq(p) ==
  /\ Scheduled(p, "close", "release")
  /\ irq' = FALSE
  /\ vol_edge' = FALSE
  /\ UNCHANGED <<loaded, driver_usage, vol_low, timers, watch, running, history>>

(* ... then del_timer of both timers, which waits for no callback.         *)
(* Mutants: only one of the timers is deleted.                             *)
del_timers_t == t_pending' = FALSE /\ UNCHANGED end_pending
del_timers_end == end_pending' = FALSE /\ UNCHANGED t_pending

del_timers == t_pending' = FALSE /\ end_pending' = FALSE

ReleaseTimers(p) ==
  /\ Scheduled(p, "release", "idle")
  /\ del_timers
  /\ driver_usage' = 0
  /\ note("caught", blink # "idle")
  /\ UNCHANGED <<loaded, irq, panic, started, press, watch, running>>

-----------------------------------------------------------------------------
(* The application goes on in a module that was removed; a button is       *)
(* pressed, or a signal comes, after it was removed.                       *)
GoOnUnloaded(p) == Stray /\ pc[p] \in {"open", "opened", "close", "release"}

PressUnloaded == Stray /\ (irq \/ \E p \in Apps : pc[p] = "sleep")

-----------------------------------------------------------------------------
(* insmod and rmmod.  What the old module left behind, a timer or an open  *)
(* file, stops the machine all the same: insmod waits for there to be none.*)

stopwatch_init ==
  /\ ~panic /\ ~loaded
  /\ ~t_pending /\ ~end_pending /\ blink = "idle"
  /\ \A p \in Apps : pc[p] = "idle"
  /\ loaded' = TRUE
  /\ driver_usage' = 0
  /\ t_stop' = FALSE
  /\ t_value' = 0
  /\ odd' = {}
  /\ UNCHANGED <<irq, pc, fnd, started, press, timers, running>>

stopwatch_exit ==
  /\ Alive
  /\ SMP \/ blink = "idle"
  /\ loaded' = FALSE
  /\ note("removed", \E p \in Apps : pc[p] # "idle")
  /\ UNCHANGED <<driver_usage, irq, pc, started, press, timers, watch, running>>

-----------------------------------------------------------------------------
Interrupts == \/ inter_handler1 \/ inter_handler2 \/ inter_handler3
              \/ inter_handler4 \/ TurnVol \/ PressUnloaded

BlinkStep == Expire \/ BlinkRead \/ BlinkStore \/ BlinkShow

Softirq == BlinkStep \/ stopwatch_end \/ RunUnloaded

FileOps(p) == \/ OpenTest(p) \/ OpenInstall(p) \/ stopwatch_write(p)
              \/ Interrupt(p) \/ ReleaseIrq(p) \/ ReleaseTimers(p)
              \/ GoOnUnloaded(p)

Next ==
  \/ Interrupts
  \/ Softirq
  \/ \E p \in Apps : FileOps(p)
  \/ stopwatch_init
  \/ stopwatch_exit

Spec == Init /\ [][Next]_vars

(* The steps of an application that wait for nobody.                       *)
Proceed(p) == \/ OpenInstall(p) \/ stopwatch_write(p) \/ ReleaseIrq(p)
              \/ ReleaseTimers(p) \/ GoOnUnloaded(p)

(* A latched interrupt is served, an expired timer runs its callback, and  *)
(* a process that can go on is scheduled again and again between the short *)
(* callbacks.  Nobody has to press a button, send a signal or open.        *)
Fairness ==
  /\ WF_vars(inter_handler4)
  /\ WF_vars(BlinkStep)
  /\ WF_vars(RunUnloaded)
  /\ SF_vars(stopwatch_end)
  /\ \A p \in Apps : SF_vars(Proceed(p))

FairSpec == Spec /\ Fairness

-----------------------------------------------------------------------------
(* The user's view of the state: a tick counts, and its second is shown,   *)
(* as soon as the callback has decided to record it.                       *)
seconds(digits) ==
  600 * digits[1] + 60 * digits[2] + 10 * digits[3] + digits[4]

recorded == IF blink = "store" THEN ticked(t_value) ELSE t_value

latest == IF blink = "store" THEN ticked(t_value) ELSE reg

shown ==
  IF Holding /\ latest % PerSec = 0 THEN latest \div PerSec ELSE seconds(fnd)

Abs == INSTANCE StopwatchSpec
         WITH on <- driver_usage = 1, run <- ~t_stop, started <- started,
              time <- recorded, display <- shown

(* Each handler is the button it is made for, each callback that records a *)
(* tick, open a switching on, release a switching off; the rest changes    *)
(* nothing a user sees but by such a step.  HOME is only held to it when   *)
(* the timer is free.  BACK is not on a started watch that stands at 0:    *)
(* the code does not resume it (module.c:88), although "If it was already  *)
(* stopped, then resume it" (83-84) and a clear leaves the state (104).    *)
Implements ==
  /\ inter_handler1 /\ ~InUse => Abs!Home
  /\ inter_handler2 /\ "waits" \notin odd' => Abs!Back
  /\ inter_handler3 \/ stopwatch_end => Abs!Clear
  /\ BlinkRead /\ ~stopped => Abs!Tick
  /\ \A p \in Apps : /\ OpenInstall(p) => Abs!SwitchOn
                     /\ ReleaseTimers(p) => Abs!SwitchOff
  /\ [Abs!Next]_(Abs!vars)

(* The driver is the stopwatch of StopwatchSpec, step by step, whatever    *)
(* the buttons do and past the hour, until one of three things happens: a  *)
(* second application gets in, a clear meets the callback that holds the   *)
(* time, a callback outlives the release.                                  *)
Unfaithful == {"two", "lost", "caught"}

AbsSpec == Abs!Init /\ [][odd' \cap Unfaithful = {} => Implements]_vars

-----------------------------------------------------------------------------
Digits == 0..9
Blink == {"idle", "read", "store", "show"}
AppPc == {"idle", "open", "opened", "sleep", "close", "release"}

(* The time stays below the hour, in t and in the callback's register, and *)
(* the display gets four decimal digits.                                   *)
TypeOK ==
  /\ loaded \in BOOLEAN /\ irq \in BOOLEAN /\ panic \in BOOLEAN
  /\ driver_usage \in {0, 1}
  /\ t_stop \in BOOLEAN
  /\ t_value \in 0..(Wrap - 1)
  /\ t_pending \in BOOLEAN /\ end_pending \in BOOLEAN
  /\ blink \in Blink
  /\ reg \in 0..(Wrap - 1)
  /\ fnd \in Digits \X Digits \X Digits \X Digits
  /\ pc \in [Apps -> AppPc]
  /\ vol_low \in BOOLEAN /\ vol_edge \in BOOLEAN
  /\ odd \subseteq Odd /\ started \in BOOLEAN

(* However the buttons, the callback and the application interleave, a     *)
(* watch that is not stopped keeps its timer: stopwatch_blink re-arms it,  *)
(* and every handler that sets t.stop to 0 adds it.  Only the release of   *)
(* another application, which passed stopwatch_open too, can take it away. *)
RunningIsArmed ==
  irq /\ ~t_stop => t_pending \/ blink # "idle" \/ panic \/ "two" \in odd

(* What stopwatch_release leaves behind ("delete timer"), on any number of *)
(* processors: when nobody is in the driver any more, the timer end is off *)
(* the list, no edge of VOL- waits, and t and its callback are gone too,   *)
(* but for one case: del_timer(&t.timer) does not wait for a callback that *)
(* runs on another processor, and that callback adds the timer again.      *)
ReleasedIsQuiet ==
  (\A p \in Apps : pc[p] \in {"idle", "open"})
     => /\ ~irq /\ ~end_pending /\ ~vol_edge
        /\ t_pending \/ blink # "idle" => "caught" \in odd

(* The machine stops (a timer added that is on the list, code of a removed *)
(* module run) only after one of five things: two applications opened the  *)
(* device, a button added the timer t while it or its callback lived, VOL- *)
(* moved faster than its handler, rmmod under an open file, del_timer      *)
(* beside the running callback.  Any other use, in any order, is safe.     *)
Fatal == {"two", "alive", "bounce", "removed", "caught"}

NoPanic == panic => odd \cap Fatal # {}

(* From the first full second on, the FND shows the recorded time, unless  *)
(* a clear met the callback that held the time.                            *)
FndShowsTime ==
  blink # "show" /\ t_value >= PerSec /\ "lost" \notin odd
     => fnd = fnd_write(t_value \div PerSec)

(* HOME at time 0 starts the watch.                                        *)
HomeStarts == [][inter_handler1 => t_pending' /\ ~panic']_vars

(* After a pause the chain of ticks dies out.                              *)
PauseQuiesces ==
  t_stop ~> (~t_stop \/ (~t_pending /\ blink = "idle") \/ panic)

(* Holding VOL- ends the session of an application that sleeps: the timer  *)
(* end wakes it, it closes the device and leaves.                          *)
HoldEndsSleep ==
  \A p \in Apps :
    (pc[p] = "sleep" /\ end_pending) ~> (pc[p] = "idle" \/ ~vol_low \/ panic)

(* The same for an application that has opened the device but may not      *)
(* sleep yet ("It will wake up the wait queue"), in ordinary use.          *)
HoldEndsSession ==
  \A p \in Apps :
    (pc[p] \in {"opened", "sleep"} /\ end_pending)
       ~> (pc[p] = "idle" \/ ~vol_low \/ panic \/ odd # {})
=============================================================================
