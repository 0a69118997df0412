-------------------------- MODULE StopwatchProofs --------------------------
(***************************************************************************)
(* Proofs about Stopwatch for any number of applications, on one processor *)
(* or several, with any number of ticks per second and any wrap-around,    *)
(* and for a user who may do anything at any time.                         *)
(***************************************************************************)
EXTENDS Stopwatch, TLAPS

(* Where an application stands once it is past stopwatch_open.             *)
Inside == {"opened", "sleep", "close", "release"}

SomeInside == \E p \in Apps : pc[p] \in Inside

(* Nothing of the driver is alive without somebody inside, but for what a  *)
(* callback caught by del_timer adds again.  Unless two passed the test of *)
(* stopwatch_open there is at most one inside, and driver_usage tells.     *)
UseInv ==
  /\ irq => \E p \in Apps : pc[p] \in Inside \ {"release"}
  /\ vol_edge => irq
  /\ driver_usage = 1 => SomeInside
  /\ end_pending => SomeInside
  /\ t_pending \/ blink # "idle" => SomeInside \/ "caught" \in odd
  /\ "two" \notin odd =>
       /\ \A p, q \in Apps : pc[p] \in Inside /\ pc[q] \in Inside => p = q
       /\ SomeInside => driver_usage = 1

(* The timer t and its callback live at the same time only after a button  *)
(* added it too early; end is pending exactly while VOL- is held, as far   *)
(* as the handler could follow; what is removed was in nobody's hands.     *)
DangerInv ==
  /\ t_pending /\ blink # "idle" => "alive" \in odd
  /\ irq /\ end_pending /\ "two" \notin odd /\ "bounce" \notin odd
       => (vol_edge <=> ~vol_low)
  /\ ~loaded => "removed" \in odd \/ \A p \in Apps : pc[p] = "idle"
  /\ NoPanic

(* The callback holds the recorded time as long as no clear met it; while  *)
(* a second waits for its display the FND may show the one before.         *)
ShowInv ==
  "lost" \notin odd =>
    /\ blink \in {"store", "show"} => reg = t_value
    /\ t_value >= PerSec /\ (blink = "show" => reg % PerSec # 0)
         => fnd = fnd_write(t_value \div PerSec)

(* A watch that records, has recorded or is about to was started by HOME.  *)
StartInv ==
  irq /\ "two" \notin odd /\ "caught" \notin odd
    => started \/ (t_stop /\ t_value = 0 /\ ~Holding)

IInv == TypeOK /\ UseInv /\ RunningIsArmed /\ DangerInv /\ ShowInv /\ StartInv

(* The seconds of an hour.                                                *)
Seconds == 0..3599

(* What the FND can show.                                                  *)
Display == Digits \X Digits \X Digits \X Digits

-----------------------------------------------------------------------------
(* What fnd_write sends are four decimal digits for every time below an    *)
(* hour.                                                                   *)
LEMMA FndDigits ==
  ASSUME NEW k \in Seconds
  PROVE  fnd_write(k) \in Display
<1>1. k \div 60 \in 0..59
  BY SMTT(60) DEF Seconds
<1>2. k % 60 \in 0..59
  BY SMTT(60) DEF Seconds
<1>3. \A n \in 0..59 : n \div 10 \in 0..9
  BY SMTT(60)
<1>4. \A n \in 0..59 : n % 10 \in 0..9
  BY SMTT(60)
<1> QED
  BY <1>1, <1>2, <1>3, <1>4 DEF fnd_write, Digits, Display

LEMMA FndZero == fnd_write(0) \in Display
<1>1. 0 \in Seconds
  BY DEF Seconds
<1> QED
  BY <1>1, FndDigits

(* A second that is displayed is one below an hour.                        *)
LEMMA SecondBelowHour ==
  \A n \in 0..(Wrap - 1) : n \div PerSec \in Seconds
<1> SUFFICES ASSUME NEW n \in 0..(Wrap - 1) PROVE n \div PerSec \in Seconds
  OBVIOUS
<1>1. PerSec \in Nat /\ PerSec > 0 /\ n \in Nat /\ n < 3600 * PerSec
  BY StopwatchAssumption
<1> DEFINE q == n \div PerSec
<1>2. q \in Int /\ n = q * PerSec + (n % PerSec) /\ n % PerSec \in 0..(PerSec - 1)
  BY <1>1
<1> HIDE DEF q
<1>3. q >= 0
  <2> SUFFICES ASSUME q <= -1 PROVE FALSE
    BY <1>2
  <2>1. q * PerSec <= -PerSec
    BY <1>1, <1>2
  <2> QED BY <2>1, <1>1, <1>2
<1>4. q <= 3599
  <2> SUFFICES ASSUME q >= 3600 PROVE FALSE
    BY <1>2
  <2>1. q * PerSec >= 3600 * PerSec
    BY <1>1, <1>2
  <2> QED BY <2>1, <1>1, <1>2
<1> QED BY <1>2, <1>3, <1>4 DEF q, Seconds

-----------------------------------------------------------------------------
(* The type invariant of the driver, for every scheduling of its contexts. *)
LEMMA InitType == Init => TypeOK
<1>1. fnd_write(0) \in Display
  BY FndZero
<1> SUFFICES ASSUME Init PROVE TypeOK
  OBVIOUS
<1>2. pc \in [Apps -> AppPc]
  BY DEF Init, AppPc
<1>3. fnd \in Display
  BY <1>1 DEF Init
<1>4. t_value \in 0..(Wrap - 1) /\ reg \in 0..(Wrap - 1)
  BY StopwatchAssumption DEF Init
<1> QED
  BY <1>2, <1>3, <1>4 DEF Init, TypeOK, Blink, Display

LEMMA NextType == TypeOK /\ [Next]_vars => TypeOK'
<1> SUFFICES ASSUME TypeOK, [Next]_vars PROVE TypeOK'
  OBVIOUS
<1> USE DEF Display, TypeOK, press, timers, watch, running, device, history,
         note, Odd, InUse, Holding
<1>1. fnd_write(0) \in Display
  BY FndZero
<1>2. CASE inter_handler1
  BY <1>2 DEF inter_handler1, unrecorded, add_timer_t
<1>3. CASE inter_handler2
  BY <1>3 DEF inter_handler2, add_timer_t
<1>4. CASE inter_handler3
  BY <1>4, <1>1, StopwatchAssumption DEF inter_handler3
<1>5. CASE inter_handler4
  BY <1>5 DEF inter_handler4, let_go, add_timer_end, Alive
<1>6. CASE TurnVol
  BY <1>6 DEF TurnVol, Alive
<1>7. CASE Expire
  BY <1>7 DEF Expire, Blink
<1>8. CASE BlinkRead
  BY <1>8 DEF BlinkRead, stopped, Blink
<1>9. CASE BlinkStore
  <2>1. reg' \in 0..(Wrap - 1)
    BY <1>9, StopwatchAssumption DEF BlinkStore, ticked
  <2> QED
    BY <1>9, <2>1 DEF BlinkStore, ticked, Blink
<1>10. CASE BlinkShow
  <2>1. fnd_write(reg \div PerSec) \in Display
    <3>1. reg \in 0..(Wrap - 1)
      OBVIOUS
    <3>2. reg \div PerSec \in Seconds
      BY ONLY <3>1, SecondBelowHour
    <3> HIDE DEF Display
    <3> QED BY <3>2, FndDigits, SMTT(30)
  <2> HIDE DEF TypeOK
  <2>2. fnd' \in Display
    BY <1>10, <2>1 DEF BlinkShow, full, rearm, TypeOK
  <2> QED
    BY <1>10, <2>2 DEF BlinkShow, full, rearm, add_timer_t, Blink, TypeOK
<1>11. CASE stopwatch_end
  <2>1. pc' \in [Apps -> AppPc]
    BY <1>11 DEF stopwatch_end, AppPc
  <2>2. fnd' \in Display
    BY <1>11, <1>1 DEF stopwatch_end
  <2>3. t_value' \in 0..(Wrap - 1)
    BY <1>11, StopwatchAssumption DEF stopwatch_end
  <2> QED
    BY <1>11, <2>1, <2>2, <2>3 DEF stopwatch_end
<1>12. CASE RunUnloaded \/ PressUnloaded
  BY <1>12 DEF RunUnloaded, PressUnloaded, Stray
<1>13. ASSUME NEW p \in Apps, FileOps(p) PROVE TypeOK'
  <2> USE DEF Scheduled, AppPc
  <2>1. CASE OpenTest(p)
    BY <2>1 DEF OpenTest
  <2>2. CASE OpenInstall(p)
    <3>1. odd' \subseteq Odd
      BY <2>2 DEF OpenInstall
    <3>2. t_value' \in 0..(Wrap - 1) /\ pc' \in [Apps -> AppPc]
      BY <2>2, StopwatchAssumption DEF OpenInstall
    <3> QED BY <2>2, <3>1, <3>2 DEF OpenInstall
  <2>3. CASE stopwatch_write(p)
    BY <2>3 DEF stopwatch_write
  <2>4. CASE Interrupt(p)
    BY <2>4 DEF Interrupt
  <2>5. CASE ReleaseIrq(p)
    BY <2>5 DEF ReleaseIrq
  <2>6. CASE ReleaseTimers(p)
    BY <2>6 DEF ReleaseTimers, del_timers
  <2>7. CASE GoOnUnloaded(p)
    BY <2>7 DEF GoOnUnloaded, Stray
  <2> QED
    BY <1>13, <2>1, <2>2, <2>3, <2>4, <2>5, <2>6, <2>7 DEF FileOps
<1>14. CASE stopwatch_init
  <2>1. t_value' \in 0..(Wrap - 1)
    BY <1>14, StopwatchAssumption DEF stopwatch_init
  <2> QED
    BY <1>14, <2>1 DEF stopwatch_init
<1>15. CASE stopwatch_exit
  BY <1>15 DEF stopwatch_exit
<1>16. CASE UNCHANGED vars
  BY <1>16 DEF vars
<1> HIDE DEF TypeOK
<1> QED
  BY <1>2, <1>3, <1>4, <1>5, <1>6, <1>7, <1>8, <1>9, <1>10, <1>11, <1>12,
     <1>13, <1>14, <1>15, <1>16
     DEF Next, Interrupts, Softirq, BlinkStep

(* Digits on the display, time below the wrap-around, whatever the buttons,*)
(* the callbacks and any number of applications do, on any number of CPUs. *)
THEOREM TypeCorrect == Spec => []TypeOK
<1> QED
  BY InitType, NextType, PTL DEF Spec

-----------------------------------------------------------------------------
(* Who is inside the driver, and what lives there with them.               *)
LEMMA NextUse ==
  TypeOK /\ UseInv /\ RunningIsArmed /\ [Next]_vars => UseInv' /\ RunningIsArmed'
<1> SUFFICES ASSUME TypeOK, UseInv, RunningIsArmed, [Next]_vars
             PROVE  UseInv' /\ RunningIsArmed'
  OBVIOUS
<1>0. /\ pc \in [Apps -> AppPc] /\ driver_usage \in {0, 1}
      /\ t_pending \in BOOLEAN /\ irq \in BOOLEAN /\ t_stop \in BOOLEAN
  BY DEF TypeOK
<1> USE <1>0 DEF UseInv, RunningIsArmed, SomeInside, Inside, AppPc, note, InUse,
            Holding, press, timers, watch, running, device, history
<1>1. CASE inter_handler1
  BY <1>1 DEF inter_handler1, unrecorded, MayPress, Alive, add_timer_t
<1>2. CASE inter_handler2
  BY <1>2 DEF inter_handler2, MayPress, Alive, add_timer_t
<1>3. CASE inter_handler3
  BY <1>3 DEF inter_handler3, MayPress, Alive
<1>4. CASE inter_handler4
  BY <1>4 DEF inter_handler4, let_go, add_timer_end, Alive
<1>5. CASE TurnVol
  BY <1>5 DEF TurnVol, Alive
<1>6. CASE Expire
  BY <1>6 DEF Expire, Alive
<1>7. CASE BlinkRead
  BY <1>7 DEF BlinkRead, stopped, Alive
<1>8. CASE BlinkStore
  BY <1>8 DEF BlinkStore, ticked, Alive
<1>9. CASE BlinkShow
  BY <1>9 DEF BlinkShow, full, rearm, add_timer_t, Alive
<1>10. CASE stopwatch_end
  BY <1>10 DEF stopwatch_end, Alive
<1>11. CASE RunUnloaded \/ PressUnloaded
  BY <1>11 DEF RunUnloaded, PressUnloaded, Stray
<1>12. ASSUME NEW p \in Apps, FileOps(p) PROVE UseInv' /\ RunningIsArmed'
  <2> USE DEF Scheduled, Alive
  <2>1. CASE OpenTest(p)
    BY <2>1 DEF OpenTest
  <2>2. CASE OpenInstall(p)
    BY <2>2 DEF OpenInstall
  <2>3. CASE stopwatch_write(p)
    BY <2>3 DEF stopwatch_write
  <2>4. CASE Interrupt(p)
    BY <2>4 DEF Interrupt
  <2>5. CASE ReleaseIrq(p)
    BY <2>5 DEF ReleaseIrq
  <2>6. CASE ReleaseTimers(p)
    <3>1. /\ pc[p] = "release" /\ pc'[p] = "idle"
          /\ \A q \in Apps : q # p => pc'[q] = pc[q]
          /\ driver_usage' = 0 /\ ~t_pending' /\ ~end_pending'
          /\ irq' = irq /\ vol_edge' = vol_edge /\ panic' = panic
          /\ blink' = blink /\ t_stop' = t_stop
          /\ odd' = IF blink # "idle" THEN odd \cup {"caught"} ELSE odd
      BY <2>6 DEF ReleaseTimers, del_timers
    <3>2. irq => \E q \in Apps : q # p /\ pc[q] \in Inside \ {"release"}
      BY <3>1
    <3>3. irq => "two" \in odd
      BY <3>1, <3>2
    <3>4. "two" \notin odd => \A q \in Apps : pc'[q] \notin Inside
      BY <3>1
    <3>5. (irq => \E q \in Apps : pc[q] \in Inside \ {"release"})'
      BY <3>1, <3>2
    <3>6. ("two" \notin odd =>
             /\ \A q, r \in Apps : pc[q] \in Inside /\ pc[r] \in Inside => q = r
             /\ SomeInside => driver_usage = 1)'
      BY <3>1, <3>4
    <3> QED BY <3>1, <3>3, <3>5, <3>6
  <2>7. CASE GoOnUnloaded(p)
    BY <2>7 DEF GoOnUnloaded, Stray
  <2> QED
    BY <1>12, <2>1, <2>2, <2>3, <2>4, <2>5, <2>6, <2>7 DEF FileOps
<1>13. CASE stopwatch_init
  BY <1>13 DEF stopwatch_init
<1>14. CASE stopwatch_exit
  BY <1>14 DEF stopwatch_exit
<1>15. CASE UNCHANGED vars
  BY <1>15 DEF vars
<1> HIDE DEF UseInv, RunningIsArmed
<1> QED
  BY <1>1, <1>2, <1>3, <1>4, <1>5, <1>6, <1>7, <1>8, <1>9, <1>10, <1>11,
     <1>12, <1>13, <1>14, <1>15 DEF Next, Interrupts, Softirq, BlinkStep

-----------------------------------------------------------------------------
(* What can stop the machine.                                              *)
LEMMA NextDanger ==
  TypeOK /\ UseInv /\ DangerInv /\ [Next]_vars => DangerInv'
<1> SUFFICES ASSUME TypeOK, UseInv, DangerInv, [Next]_vars
             PROVE  DangerInv'
  OBVIOUS
<1>0. /\ pc \in [Apps -> AppPc] /\ driver_usage \in {0, 1}
      /\ t_pending \in BOOLEAN /\ end_pending \in BOOLEAN /\ irq \in BOOLEAN
      /\ vol_low \in BOOLEAN /\ vol_edge \in BOOLEAN /\ panic \in BOOLEAN
  BY DEF TypeOK
<1> USE <1>0 DEF UseInv, DangerInv, NoPanic, Fatal, SomeInside, Inside, AppPc,
            note, InUse, press, timers, watch, running, device, history
<1>1. CASE inter_handler1
  BY <1>1 DEF inter_handler1, unrecorded, MayPress, Alive, add_timer_t
<1>2. CASE inter_handler2
  BY <1>2 DEF inter_handler2, MayPress, Alive, add_timer_t
<1>3. CASE inter_handler3
  BY <1>3 DEF inter_handler3, MayPress, Alive
<1>4. CASE inter_handler4
  BY <1>4 DEF inter_handler4, let_go, add_timer_end, Alive
<1>5. CASE TurnVol
  BY <1>5 DEF TurnVol, Alive
<1>6. CASE Expire
  BY <1>6 DEF Expire, Alive
<1>7. CASE BlinkRead
  BY <1>7 DEF BlinkRead, stopped, Alive
<1>8. CASE BlinkStore
  BY <1>8 DEF BlinkStore, ticked, Alive
<1>9. CASE BlinkShow
  BY <1>9 DEF BlinkShow, full, rearm, add_timer_t, Alive
<1>10. CASE stopwatch_end
  BY <1>10 DEF stopwatch_end, Alive
<1>11. CASE RunUnloaded \/ PressUnloaded
  BY <1>11 DEF RunUnloaded, PressUnloaded, Stray
<1>12. ASSUME NEW p \in Apps, FileOps(p) PROVE DangerInv'
  <2> USE DEF Scheduled, Alive
  <2>1. CASE OpenTest(p)
    BY <2>1 DEF OpenTest
  <2>2. CASE OpenInstall(p)
    <3>1. "two" \notin odd' => ~end_pending /\ ~end_pending'
      BY <2>2 DEF OpenInstall
    <3>2. loaded /\ loaded' /\ ~panic'
      BY <2>2 DEF OpenInstall
    <3>3. (t_pending /\ blink # "idle" => "alive" \in odd)'
      BY <2>2 DEF OpenInstall
    <3> QED BY <3>1, <3>2, <3>3
  <2>3. CASE stopwatch_write(p)
    BY <2>3 DEF stopwatch_write
  <2>4. CASE Interrupt(p)
    BY <2>4 DEF Interrupt
  <2>5. CASE ReleaseIrq(p)
    BY <2>5 DEF ReleaseIrq
  <2>6. CASE ReleaseTimers(p)
    BY <2>6 DEF ReleaseTimers, del_timers
  <2>7. CASE GoOnUnloaded(p)
    BY <2>7 DEF GoOnUnloaded, Stray
  <2> QED
    BY <1>12, <2>1, <2>2, <2>3, <2>4, <2>5, <2>6, <2>7 DEF FileOps
<1>13. CASE stopwatch_init
  BY <1>13 DEF stopwatch_init
<1>14. CASE stopwatch_exit
  BY <1>14 DEF stopwatch_exit
<1>15. CASE UNCHANGED vars
  BY <1>15 DEF vars
<1> HIDE DEF DangerInv
<1> QED
  BY <1>1, <1>2, <1>3, <1>4, <1>5, <1>6, <1>7, <1>8, <1>9, <1>10, <1>11,
     <1>12, <1>13, <1>14, <1>15 DEF Next, Interrupts, Softirq, BlinkStep

(* The digits name the second they were made from.                         *)
LEMMA SecondsOfDigits ==
  ASSUME NEW k \in Seconds
  PROVE  seconds(fnd_write(k)) = k
<1>1. /\ k \div 60 \in 0..59 /\ k % 60 \in 0..59
      /\ 60 * (k \div 60) + (k % 60) = k
  BY SMTT(60) DEF Seconds
<1>2. \A n \in 0..59 : /\ n \div 10 \in 0..9 /\ n % 10 \in 0..9
                       /\ 10 * (n \div 10) + (n % 10) = n
  BY SMTT(60)
<1> DEFINE m == k \div 60
           s == k % 60
<1>3. seconds(fnd_write(k))
        = 600 * (m \div 10) + 60 * (m % 10) + 10 * (s \div 10) + (s % 10)
  BY DEF seconds, fnd_write
<1>4. /\ 10 * (m \div 10) + (m % 10) = m /\ 10 * (s \div 10) + (s % 10) = s
      /\ m \div 10 \in Int /\ m % 10 \in Int /\ s \div 10 \in Int /\ s % 10 \in Int
  <2>1. m \in 0..59 /\ s \in 0..59
    BY <1>1
  <2> HIDE DEF m, s
  <2> QED
    BY ONLY <2>1, <1>2
<1> QED
  BY <1>1, <1>3, <1>4 DEF Seconds

LEMMA SecondsOfZero == seconds(fnd_write(0)) = 0
<1>1. 0 \in Seconds
  BY DEF Seconds
<1> QED
  BY <1>1, SecondsOfDigits

(* A tick that completes no second leaves the number of full seconds.      *)
LEMMA SameSecond ==
  ASSUME NEW n \in Nat, (n + 1) % PerSec # 0
  PROVE  /\ (n + 1) \div PerSec = n \div PerSec
         /\ n + 1 >= PerSec => n >= PerSec
<1> DEFINE q == n \div PerSec
           r == n % PerSec
           Q == (n + 1) \div PerSec
           R == (n + 1) % PerSec
<1>1. PerSec \in Nat /\ PerSec > 0
  BY StopwatchAssumption
<1>2. /\ q \in Int /\ r \in 0..(PerSec - 1) /\ n = q * PerSec + r
      /\ Q \in Int /\ R \in 0..(PerSec - 1) /\ n + 1 = Q * PerSec + R
      /\ R # 0
  BY <1>1
<1> HIDE DEF q, r, Q, R
<1>3. (Q - q) * PerSec = r + 1 - R
  BY <1>1, <1>2
<1>4. Q = q
  <2>1. CASE Q - q >= 1
    <3>1. (Q - q) * PerSec >= PerSec
      BY <2>1, <1>1, <1>2
    <3> QED BY <3>1, <1>1, <1>2, <1>3
  <2>2. CASE Q - q <= -1
    <3>1. (Q - q) * PerSec <= -PerSec
      BY <2>2, <1>1, <1>2
    <3> QED BY <3>1, <1>1, <1>2, <1>3
  <2> QED BY <2>1, <2>2, <1>2
<1>5. ASSUME n + 1 = PerSec PROVE FALSE
  <2>1. Q >= 1
    <3> SUFFICES ASSUME Q <= 0 PROVE FALSE
      BY <1>2
    <3>1. Q * PerSec <= 0
      BY <1>1, <1>2
    <3> QED BY <3>1, <1>1, <1>2, <1>5
  <2>2. Q * PerSec >= PerSec
    BY <2>1, <1>1, <1>2
  <2> QED BY <2>2, <1>1, <1>2, <1>5
<1> QED
  BY <1>1, <1>4, <1>5 DEF q, Q

-----------------------------------------------------------------------------
(* What is on the FND.                                                     *)
LEMMA NextShow == TypeOK /\ ShowInv /\ [Next]_vars => ShowInv'
<1> SUFFICES ASSUME TypeOK, ShowInv, [Next]_vars PROVE ShowInv'
  OBVIOUS
<1>0. /\ PerSec \in Nat /\ PerSec > 0 /\ t_value \in Nat
  BY StopwatchAssumption DEF TypeOK
<1> USE <1>0 DEF ShowInv, note, InUse, Holding, press, timers, watch, running,
                 device, history
<1>1. CASE inter_handler1
  BY <1>1 DEF inter_handler1, unrecorded, MayPress, Alive, add_timer_t
<1>2. CASE inter_handler2
  BY <1>2 DEF inter_handler2, MayPress, Alive, add_timer_t
<1>3. CASE inter_handler3
  BY <1>3 DEF inter_handler3, MayPress, Alive
<1>4. CASE inter_handler4
  BY <1>4 DEF inter_handler4, let_go, add_timer_end, Alive
<1>5. CASE TurnVol
  BY <1>5 DEF TurnVol, Alive
<1>6. CASE Expire
  BY <1>6 DEF Expire, Alive
<1>7. CASE BlinkRead
  BY <1>7 DEF BlinkRead, stopped, Alive
<1>8. CASE BlinkStore
  <2>0. SUFFICES ASSUME "lost" \notin odd
                 PROVE  ShowInv'
    BY <1>8 DEF BlinkStore
  <2>1. reg' = ticked(t_value) /\ t_value' = ticked(t_value) /\ fnd' = fnd
    BY <1>8, <2>0 DEF BlinkStore, ticked
  <2>2. CASE t_value + 1 = Wrap
    BY <1>8, <2>1, <2>2 DEF BlinkStore, ticked
  <2>3. CASE t_value + 1 # Wrap
    <3>1. reg' = t_value + 1 /\ t_value' = t_value + 1
      BY <2>1, <2>3 DEF ticked
    <3>2. SUFFICES ASSUME t_value + 1 >= PerSec, (t_value + 1) % PerSec # 0
                   PROVE  fnd = fnd_write((t_value + 1) \div PerSec)
      BY <1>8, <2>0, <2>1, <3>1 DEF BlinkStore, ticked
    <3>3. ASSUME NEW n \in Nat, n = t_value
          PROVE  (n + 1) \div PerSec = n \div PerSec /\ n >= PerSec
      BY <3>2, <3>3, SameSecond
    <3>4. /\ (t_value + 1) \div PerSec = t_value \div PerSec
          /\ t_value >= PerSec
      BY <3>3
    <3>5. fnd = fnd_write(t_value \div PerSec)
      BY <1>8, <2>0, <3>4 DEF BlinkStore
    <3> QED
      BY <3>4, <3>5
  <2> QED
    BY <2>2, <2>3
<1>9. CASE BlinkShow
  BY <1>9 DEF BlinkShow, full, rearm, add_timer_t, Alive
<1>10. CASE stopwatch_end
  BY <1>10 DEF stopwatch_end, Alive
<1>11. CASE RunUnloaded \/ PressUnloaded
  BY <1>11 DEF RunUnloaded, PressUnloaded, Stray
<1>12. ASSUME NEW p \in Apps, FileOps(p) PROVE ShowInv'
  <2> USE DEF Scheduled, Alive
  <2>1. CASE OpenTest(p)
    BY <2>1 DEF OpenTest
  <2>2. CASE OpenInstall(p)
    BY <2>2 DEF OpenInstall
  <2>3. CASE stopwatch_write(p)
    BY <2>3 DEF stopwatch_write
  <2>4. CASE Interrupt(p)
    BY <2>4 DEF Interrupt
  <2>5. CASE ReleaseIrq(p)
    BY <2>5 DEF ReleaseIrq
  <2>6. CASE ReleaseTimers(p)
    BY <2>6 DEF ReleaseTimers, del_timers
  <2>7. CASE GoOnUnloaded(p)
    BY <2>7 DEF GoOnUnloaded, Stray
  <2> QED
    BY <1>12, <2>1, <2>2, <2>3, <2>4, <2>5, <2>6, <2>7 DEF FileOps
<1>13. CASE stopwatch_init
  BY <1>13 DEF stopwatch_init
<1>14. CASE stopwatch_exit
  BY <1>14 DEF stopwatch_exit
<1>15. CASE UNCHANGED vars
  BY <1>15 DEF vars
<1> HIDE DEF ShowInv
<1> QED
  BY <1>1, <1>2, <1>3, <1>4, <1>5, <1>6, <1>7, <1>8, <1>9, <1>10, <1>11,
     <1>12, <1>13, <1>14, <1>15 DEF Next, Interrupts, Softirq, BlinkStep

-----------------------------------------------------------------------------
(* A watch that runs was started.                                          *)
LEMMA NextStart == TypeOK /\ UseInv /\ StartInv /\ [Next]_vars => StartInv'
<1> SUFFICES ASSUME TypeOK, UseInv, StartInv, [Next]_vars PROVE StartInv'
  OBVIOUS
<1>0. pc \in [Apps -> AppPc] /\ driver_usage \in {0, 1}
  BY DEF TypeOK
<1> USE <1>0 DEF UseInv, StartInv, SomeInside, Inside, note, InUse, Holding,
            press, timers, watch, running, device, history
<1>1. CASE inter_handler1
  BY <1>1 DEF inter_handler1, unrecorded, MayPress, Alive, add_timer_t
<1>2. CASE inter_handler2
  BY <1>2 DEF inter_handler2, MayPress, Alive, add_timer_t
<1>3. CASE inter_handler3
  BY <1>3 DEF inter_handler3, MayPress, Alive
<1>4. CASE inter_handler4
  BY <1>4 DEF inter_handler4, let_go, add_timer_end, Alive
<1>5. CASE TurnVol
  BY <1>5 DEF TurnVol, Alive
<1>6. CASE Expire
  BY <1>6 DEF Expire, Alive
<1>7. CASE BlinkRead
  BY <1>7 DEF BlinkRead, stopped, Alive
<1>8. CASE BlinkStore
  BY <1>8 DEF BlinkStore, ticked, Alive
<1>9. CASE BlinkShow
  BY <1>9 DEF BlinkShow, full, rearm, add_timer_t, Alive
<1>10. CASE stopwatch_end
  BY <1>10 DEF stopwatch_end, Alive
<1>11. CASE RunUnloaded \/ PressUnloaded
  BY <1>11 DEF RunUnloaded, PressUnloaded, Stray
<1>12. ASSUME NEW p \in Apps, FileOps(p) PROVE StartInv'
  <2> USE DEF Scheduled, Alive
  <2>1. CASE OpenTest(p)
    BY <2>1 DEF OpenTest
  <2>2. CASE OpenInstall(p)
    <3>1. "two" \notin odd' /\ "caught" \notin odd' => blink = "idle"
      BY <2>2 DEF OpenInstall
    <3> QED BY <2>2, <3>1 DEF OpenInstall
  <2>3. CASE stopwatch_write(p)
    BY <2>3 DEF stopwatch_write
  <2>4. CASE Interrupt(p)
    BY <2>4 DEF Interrupt
  <2>5. CASE ReleaseIrq(p)
    BY <2>5 DEF ReleaseIrq
  <2>6. CASE ReleaseTimers(p)
    BY <2>6 DEF ReleaseTimers, del_timers
  <2>7. CASE GoOnUnloaded(p)
    BY <2>7 DEF GoOnUnloaded, Stray
  <2> QED
    BY <1>12, <2>1, <2>2, <2>3, <2>4, <2>5, <2>6, <2>7 DEF FileOps
<1>13. CASE stopwatch_init
  BY <1>13 DEF stopwatch_init
<1>14. CASE stopwatch_exit
  BY <1>14 DEF stopwatch_exit
<1>15. CASE UNCHANGED vars
  BY <1>15 DEF vars
<1> HIDE DEF StartInv
<1> QED
  BY <1>1, <1>2, <1>3, <1>4, <1>5, <1>6, <1>7, <1>8, <1>9, <1>10, <1>11,
     <1>12, <1>13, <1>14, <1>15 DEF Next, Interrupts, Softirq, BlinkStep

-----------------------------------------------------------------------------
LEMMA Inductive == Spec => []IInv
<1>1. Init => IInv
  <2> SUFFICES ASSUME Init PROVE IInv
    OBVIOUS
  <2>1. TypeOK
    BY InitType
  <2>2. UseInv /\ RunningIsArmed
    BY DEF Init, UseInv, RunningIsArmed, SomeInside, Inside
  <2>3. DangerInv
    BY DEF Init, DangerInv, NoPanic
  <2>4. ShowInv
    BY StopwatchAssumption DEF Init, ShowInv
  <2>5. StartInv
    BY DEF Init, StartInv
  <2> QED BY <2>1, <2>2, <2>3, <2>4, <2>5 DEF IInv
<1>2. IInv /\ [Next]_vars => IInv'
  BY NextType, NextUse, NextDanger, NextShow, NextStart DEF IInv
<1> QED
  BY <1>1, <1>2, PTL DEF Spec

(* A watch that is not stopped keeps its timer (t.stop = 0 without a timer *)
(* would be a watch that BACK has to stop before it can run again).        *)
THEOREM Armed == Spec => []RunningIsArmed
<1>1. IInv => RunningIsArmed
  BY DEF IInv
<1> QED
  BY <1>1, Inductive, PTL

(* "delete timer": what the last release leaves behind, on any number of   *)
(* processors, is nothing, or the timer t that its own callback added      *)
(* again because del_timer did not wait for it.                            *)
THEOREM Quiet == Spec => []ReleasedIsQuiet
<1>1. IInv => ReleasedIsQuiet
  BY DEF IInv, UseInv, SomeInside, Inside, ReleasedIsQuiet
<1> QED
  BY <1>1, Inductive, PTL

(* No BUG_ON and no call of removed code, whatever the buttons, callbacks, *)
(* applications and rmmod do, but after one of the five things of Fatal.   *)
THEOREM PanicHasCause == Spec => []NoPanic
<1>1. IInv => NoPanic
  BY DEF IInv, DangerInv
<1> QED
  BY <1>1, Inductive, PTL

(* From the first full second on the FND shows the recorded time: a pause, *)
(* a re-open, the hour, or a clear that finds the callback elsewhere never *)
(* leaves a second on it that was not recorded.                            *)
THEOREM ShowsTime == Spec => []FndShowsTime
<1>1. IInv => FndShowsTime
  BY DEF IInv, ShowInv, FndShowsTime
<1> QED
  BY <1>1, Inductive, PTL
-----------------------------------------------------------------------------
(* The steps of the driver are those of the stopwatch.  What they share:   *)
(* as long as nothing unfaithful happened the driver is switched on when   *)
(* anything of it lives, and the callback holds the recorded time.         *)
Facts ==
  /\ TypeOK
  /\ irq \/ end_pending \/ blink # "idle" => driver_usage = 1
  /\ blink \in {"store", "show"} => reg = t_value
  /\ irq => started \/ (t_stop /\ t_value = 0 /\ ~Holding)
  /\ \A p \in Apps : pc[p] \in Inside => driver_usage = 1

LEMMA FaithfulFacts == IInv /\ odd \cap Unfaithful = {} => Facts
<1> SUFFICES ASSUME IInv, odd \cap Unfaithful = {} PROVE Facts
  OBVIOUS
<1>1. "two" \notin odd /\ "lost" \notin odd /\ "caught" \notin odd
  BY DEF Unfaithful
<1> QED
  BY <1>1 DEF IInv, Facts, UseInv, ShowInv, StartInv, SomeInside, Inside

(* A step that leaves these alone is none for the user.                    *)
Same == UNCHANGED <<driver_usage, t_stop, started, recorded, shown>>

LEMMA SameIsStutter == Same => UNCHANGED Abs!vars
BY DEF Same, Abs!vars

LEMMA HomeIsHome ==
  Facts /\ inter_handler1 /\ ~(blink = "store") => Abs!Home
<1> SUFFICES ASSUME Facts, inter_handler1, blink # "store" PROVE Abs!Home
  OBVIOUS
<1>1. shown' = shown
  BY DEF inter_handler1, running, watch, shown, latest, Holding
<1>2. recorded = 0 /\ recorded' = 0
  BY DEF inter_handler1, unrecorded, running, recorded
<1> QED
  BY <1>1, <1>2 DEF Facts, inter_handler1, MayPress, device, Abs!Home

LEMMA BackIsBack ==
  Facts /\ inter_handler2 /\ "waits" \notin odd' => Abs!Back
<1> SUFFICES ASSUME Facts, inter_handler2, "waits" \notin odd' PROVE Abs!Back
  OBVIOUS
<1>1. shown' = shown /\ recorded' = recorded
  BY DEF inter_handler2, running, watch, shown, recorded, latest, Holding
<1>2. t_stop \in BOOLEAN /\ started \in BOOLEAN
  BY DEF Facts, TypeOK
<1>3. (~t_stop)' = (t_stop /\ started)
  BY <1>2 DEF Facts, inter_handler2, MayPress, note
<1> QED
  BY <1>1, <1>2, <1>3 DEF Facts, inter_handler2, MayPress, device, Abs!Back

LEMMA ClearIsClear ==
  /\ Facts /\ inter_handler3 /\ "lost" \notin odd' => Abs!Clear
  /\ Facts /\ stopwatch_end => Abs!Clear
<1>z. seconds(fnd_write(0)) = 0
  BY SecondsOfZero
<1>1. ASSUME Facts, inter_handler3, "lost" \notin odd' PROVE Abs!Clear
  <2>1. ~Holding /\ ~Holding' /\ blink # "store"
    BY <1>1 DEF inter_handler3, note, Holding, running
  <2>2. shown' = 0 /\ recorded' = 0
    BY <1>1, <1>z, <2>1 DEF inter_handler3, running, shown, recorded
  <2> QED
    BY <1>1, <2>2 DEF Facts, inter_handler3, MayPress, device, Abs!Clear
<1>2. ASSUME Facts, stopwatch_end PROVE Abs!Clear
  <2>1. ~Holding' /\ blink' = "idle"
    BY <1>2 DEF stopwatch_end, Holding, running
  <2>2. shown' = 0 /\ recorded' = 0
    BY <1>2, <1>z, <2>1 DEF stopwatch_end, shown, recorded
  <2>3. driver_usage = 1 /\ driver_usage' = 1
    BY <1>2 DEF Facts, stopwatch_end
  <2>4. t_stop' = t_stop /\ started' = started
    BY <1>2 DEF stopwatch_end, history
  <2> QED
    BY <2>2, <2>3, <2>4 DEF Abs!Clear
<1> QED BY <1>1, <1>2

LEMMA RecordIsTick == Facts /\ BlinkRead /\ ~stopped => Abs!Tick
<1> SUFFICES ASSUME Facts, BlinkRead, ~stopped PROVE Abs!Tick
  OBVIOUS
<1>1. /\ blink = "read" /\ blink' = "store"
      /\ t_value' = t_value /\ fnd' = fnd /\ t_stop' = t_stop
      /\ driver_usage' = driver_usage /\ started' = started
  BY DEF BlinkRead, watch, device, history
<1>2. recorded = t_value /\ recorded' = ticked(t_value)
  BY <1>1 DEF recorded, ticked
<1>3. /\ shown = seconds(fnd)
      /\ shown' = IF ticked(t_value) % PerSec = 0
                    THEN ticked(t_value) \div PerSec ELSE seconds(fnd)
  BY <1>1 DEF shown, latest, Holding, ticked, seconds
<1>4. driver_usage = 1 /\ ~t_stop
  BY <1>1 DEF Facts, stopped
<1> QED
  BY <1>1, <1>2, <1>3, <1>4 DEF Abs!Tick, ticked

(* The rest of the callback only catches up with what counts already.      *)
LEMMA StoreIsSame == Facts /\ BlinkStore => Same
<1> SUFFICES ASSUME Facts, BlinkStore PROVE Same
  OBVIOUS
<1>1. /\ reg = t_value /\ blink = "store" /\ blink' = "show"
      /\ reg' = ticked(t_value) /\ t_value' = ticked(t_value) /\ fnd' = fnd
      /\ UNCHANGED <<driver_usage, t_stop, started>>
  BY DEF Facts, BlinkStore, device, history
<1>2. recorded' = recorded
  BY <1>1 DEF recorded
<1>3. latest' = latest
  BY <1>1 DEF latest
<1>4. shown' = shown
  BY <1>1, <1>3 DEF shown, Holding, seconds
<1> QED BY <1>1, <1>2, <1>4 DEF Same

LEMMA ShowIsSame == Facts /\ BlinkShow => Same
<1> SUFFICES ASSUME Facts, BlinkShow PROVE Same
  OBVIOUS
<1>1. /\ blink = "show" /\ blink' = "idle" /\ t_value' = t_value
      /\ fnd' = IF full THEN fnd_write(reg \div PerSec) ELSE fnd
      /\ UNCHANGED <<driver_usage, t_stop, started>>
  BY DEF BlinkShow, device, history
<1>2. seconds(fnd_write(reg \div PerSec)) = reg \div PerSec
  <2>1. reg \in 0..(Wrap - 1)
    BY DEF Facts, TypeOK
  <2>2. reg \div PerSec \in Seconds
    BY ONLY <2>1, SecondBelowHour
  <2> QED
    BY <2>2, SecondsOfDigits
<1>3. shown = IF full THEN reg \div PerSec ELSE seconds(fnd)
  BY <1>1 DEF shown, latest, Holding, full
<1>4. shown' = seconds(fnd')
  BY <1>1 DEF shown, Holding, seconds
<1>5. shown' = shown
  <2>1. CASE full
    BY <1>1, <1>2, <1>3, <1>4, <2>1
  <2>2. CASE ~full
    BY <1>1, <1>3, <1>4, <2>2
  <2> QED BY <2>1, <2>2
<1>6. recorded' = recorded
  BY <1>1 DEF recorded
<1> QED BY <1>1, <1>5, <1>6 DEF Same

LEMMA OpenIsOn ==
  ASSUME NEW p \in Apps
  PROVE  Facts /\ OpenInstall(p) /\ odd' \cap Unfaithful = {} => Abs!SwitchOn
<1> SUFFICES ASSUME Facts, OpenInstall(p), odd' \cap Unfaithful = {}
             PROVE  Abs!SwitchOn
  OBVIOUS
<1>1. "two" \notin odd' /\ "lost" \notin odd'
  BY DEF Unfaithful
<1>2. driver_usage = 0 /\ ~Holding /\ driver_usage \in {0, 1}
  BY <1>1 DEF OpenInstall, Facts, TypeOK
<1>3. shown' = shown /\ recorded' = 0
  BY <1>2 DEF OpenInstall, shown, recorded, Holding, running, seconds
<1> QED
  BY <1>2, <1>3 DEF OpenInstall, Abs!SwitchOn

LEMMA ReleaseIsOff ==
  ASSUME NEW p \in Apps
  PROVE  Facts /\ ReleaseTimers(p) => Abs!SwitchOff
<1> SUFFICES ASSUME Facts, ReleaseTimers(p) PROVE Abs!SwitchOff
  OBVIOUS
<1>1. shown' = shown /\ recorded' = recorded
  BY DEF ReleaseTimers, running, watch, shown, recorded, latest, Holding, seconds
<1>2. driver_usage = 1 /\ driver_usage' = 0
  BY DEF Facts, ReleaseTimers, Scheduled, Inside
<1> QED
  BY <1>1, <1>2 DEF ReleaseTimers, watch, Abs!SwitchOff

-----------------------------------------------------------------------------
LEMMA NextAbs ==
  /\ IInv /\ [Next]_vars
  /\ odd' \cap Unfaithful = {}
  => Implements
<1> SUFFICES ASSUME IInv, [Next]_vars, odd' \cap Unfaithful = {}
             PROVE  Implements
  OBVIOUS
<1> USE SameIsStutter
<1>0. CASE stopwatch_init
  <2>1. /\ \A p \in Apps : pc[p] = "idle"
        /\ driver_usage # 1 /\ driver_usage \in {0, 1}
        /\ ~irq /\ ~end_pending /\ blink = "idle" /\ ~loaded
    BY <1>0 DEF stopwatch_init, IInv, TypeOK, UseInv, SomeInside, Inside
  <2>2. shown' = shown /\ recorded' = 0
    BY <1>0 DEF stopwatch_init, running, shown, recorded, Holding, seconds
  <2>3. Abs!Reload
    BY <1>0, <2>1, <2>2 DEF stopwatch_init, Abs!Reload
  <2>4. /\ ~inter_handler1 /\ ~inter_handler2 /\ ~inter_handler3
        /\ ~stopwatch_end /\ ~BlinkRead
        /\ \A p \in Apps : ~OpenInstall(p) /\ ~ReleaseTimers(p)
    BY <2>1 DEF inter_handler1, inter_handler2, inter_handler3, MayPress,
                stopwatch_end, BlinkRead, OpenInstall, ReleaseTimers, Scheduled,
                Alive
  <2> QED
    BY <2>3, <2>4 DEF Implements, Abs!Next
<1>1. ASSUME ~stopwatch_init PROVE odd \subseteq odd' \cup {"waits"}
  BY <1>1 DEF Next, Interrupts, Softirq, BlinkStep, FileOps, vars, history, note,
       inter_handler1, inter_handler2, inter_handler3, inter_handler4, TurnVol,
       Expire, BlinkRead, BlinkStore, BlinkShow, stopwatch_end, RunUnloaded,
       PressUnloaded, Stray, OpenTest, OpenInstall, stopwatch_write, Interrupt,
       ReleaseIrq, ReleaseTimers, GoOnUnloaded, stopwatch_exit
<1> SUFFICES ASSUME ~stopwatch_init PROVE Implements
  BY <1>0
<1>2. Facts
  BY <1>1, FaithfulFacts DEF Unfaithful
<1>3. "lost" \notin odd'
  BY DEF Unfaithful
<1>4. inter_handler1 /\ ~InUse => Abs!Home
  BY <1>2, HomeIsHome DEF InUse
<1>5. inter_handler2 /\ "waits" \notin odd' => Abs!Back
  BY <1>2, BackIsBack
<1>6. inter_handler3 \/ stopwatch_end => Abs!Clear
  BY <1>2, <1>3, ClearIsClear
<1>7. BlinkRead /\ ~stopped => Abs!Tick
  BY <1>2, RecordIsTick
<1>8. \A p \in Apps : /\ OpenInstall(p) => Abs!SwitchOn
                      /\ ReleaseTimers(p) => Abs!SwitchOff
  BY <1>2, OpenIsOn, ReleaseIsOff
<1>9. [Abs!Next]_(Abs!vars)
  <2> USE <1>2 DEF press, timers, watch, running, device, history
  <2>1. CASE inter_handler1
    <3>1. CASE blink = "store"
      <4>1. /\ shown' = shown /\ recorded' = recorded
            /\ started /\ started' = started /\ t_stop' = FALSE
            /\ driver_usage = 1 /\ driver_usage' = driver_usage
        BY <2>1, <3>1 DEF inter_handler1, MayPress, Facts, TypeOK, shown, latest,
             recorded, Holding, seconds
      <4>2. CASE t_stop
        BY <4>1, <4>2 DEF Abs!Back, Abs!Next
      <4>3. CASE ~t_stop
        BY <4>1, <4>3 DEF Facts, TypeOK, Same
      <4> QED BY <4>2, <4>3
    <3>2. CASE blink # "store"
      BY <2>1, <3>2, HomeIsHome DEF Abs!Next
    <3> QED BY <3>1, <3>2
  <2>2. CASE inter_handler2
    <3>1. CASE "waits" \notin odd'
      BY <2>2, <3>1, <1>5 DEF Abs!Next
    <3>2. CASE "waits" \in odd'
      <4>1. shown' = shown /\ recorded' = recorded
        BY <2>2 DEF inter_handler2, shown, latest, recorded, Holding, seconds
      <4>2. CASE t_stop' = t_stop
        BY <2>2, <4>1, <4>2 DEF inter_handler2, Same
      <4>3. CASE t_stop' # t_stop
        BY <2>2, <4>1, <4>3 DEF inter_handler2, MayPress, Facts, TypeOK, Abs!Back,
             Abs!Next
      <4> QED BY <4>2, <4>3
    <3> QED BY <3>1, <3>2
  <2>3. CASE inter_handler3 \/ stopwatch_end
    BY <2>3, <1>6 DEF Abs!Next
  <2>4. CASE inter_handler4
    BY <2>4 DEF inter_handler4, Same, recorded, shown, latest, Holding, seconds
  <2>5. CASE TurnVol
    BY <2>5 DEF TurnVol, Same, recorded, shown, latest, Holding, seconds
  <2>6. CASE Expire
    BY <2>6 DEF Expire, Same, recorded, shown, latest, Holding, seconds
  <2>7. CASE BlinkRead
    <3>1. CASE stopped
      BY <2>7, <3>1 DEF BlinkRead, Same, recorded, shown, latest, Holding, seconds
    <3>2. CASE ~stopped
      BY <2>7, <3>2, <1>7 DEF Abs!Next
    <3> QED BY <3>1, <3>2
  <2>8. CASE BlinkStore
    BY <2>8, StoreIsSame
  <2>9. CASE BlinkShow
    BY <2>9, ShowIsSame
  <2>10. CASE RunUnloaded \/ PressUnloaded
    BY <2>10 DEF RunUnloaded, PressUnloaded, Stray, Same, recorded, shown, latest,
         Holding, seconds
  <2>11. ASSUME NEW p \in Apps, FileOps(p) PROVE [Abs!Next]_(Abs!vars)
    <3>1. CASE OpenInstall(p) \/ ReleaseTimers(p)
      BY <3>1, <1>8 DEF Abs!Next
    <3>2. CASE \/ OpenTest(p) \/ stopwatch_write(p) \/ Interrupt(p)
               \/ ReleaseIrq(p) \/ GoOnUnloaded(p)
      BY <3>2 DEF OpenTest, stopwatch_write, Interrupt, ReleaseIrq, GoOnUnloaded,
           Stray, Same, recorded, shown, latest, Holding, seconds
    <3> QED BY <2>11, <3>1, <3>2 DEF FileOps
  <2>12. CASE stopwatch_exit
    BY <2>12 DEF stopwatch_exit, Same, recorded, shown, latest, Holding, seconds
  <2>13. CASE UNCHANGED vars
    BY <2>13 DEF vars, Same, recorded, shown, latest, Holding, seconds
  <2> QED
    BY <2>1, <2>2, <2>3, <2>4, <2>5, <2>6, <2>7, <2>8, <2>9, <2>10, <2>11, <2>12,
       <2>13 DEF Next, Interrupts, Softirq, BlinkStep
<1> QED
  BY <1>4, <1>5, <1>6, <1>7, <1>8, <1>9 DEF Implements

(* The driver is the stopwatch its comments describe, handler by handler   *)
(* and past the hour, for every user, until a second application gets in,  *)
(* a clear meets the callback or a callback outlives the release.          *)
THEOREM Refinement == Spec => AbsSpec
<1>1. Init => Abs!Init
  <2>1. Init => shown = 0 /\ recorded = 0
    BY SecondsOfZero DEF Init, shown, recorded, Holding
  <2> QED
    BY <2>1 DEF Init, Abs!Init
<1>2. IInv /\ [Next]_vars
      => [odd' \cap Unfaithful = {} => Implements]_vars
  BY NextAbs
<1> QED
  BY <1>1, <1>2, Inductive, PTL DEF Spec, AbsSpec
=============================================================================
