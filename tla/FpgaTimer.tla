----------------------------- MODULE FpgaTimer -----------------------------
(***************************************************************************)
(* The FPGA timer driver [HW2]20151588/module/module.c, the system call    *)
(* kernel/kernel/newcall.c that packs its arguments and the application    *)
(* app/20151588.c.                                                         *)
(*                                                                         *)
(* The application opens the device, hands over a job and closes it again; *)
(* the timer goes on by itself.  Its callback kernel_timer_blink can come  *)
(* between any two steps of a process and is taken as one step.  A word of *)
(* four bytes is a tuple, most significant byte first.                     *)
(***************************************************************************)
EXTENDS Integers, FiniteSetsExt

CONSTANTS
  Apps,      \* processes that run the application, each again and again
  Args       \* the <<interval, repeat, start>> they are called with

ASSUME FpgaAssumption == IsFiniteSet(Apps) /\ Args \subseteq Nat \X Nat \X Nat

VARIABLES
  loaded,        \* the driver is registered
  mapped,        \* its registers are mapped
  driver_usage,
  pc,            \* where each application stands
  word,          \* what the system call returned to each application
  t_pending,     \* t.timer is on the kernel's timer list
  t_count,       \* t.count
  t_data,        \* t.timer.data: repeat, position, value, interval
  board,         \* what FND, LED, dot matrix and LCD show
  panic,         \* "add": add_timer met a pending timer;
                 \* "unmapped": the callback wrote to unmapped registers;
                 \* "stray": it went outside an array or shifted by less than
                 \*   0, and nothing is known of what comes after that
  job,           \* history: the data of the job the timer works on
  hasty,         \* history: the application or rmmod was run while another
                 \*   application ran or the timer worked on a job
  odd_start      \* history: the application was called with a start that is
                 \*   no number the board can show

device == <<loaded, mapped, driver_usage>>
timer  == <<t_pending, t_count, t_data>>
vars   == <<device, pc, word, timer, board, panic, job, hasty, odd_start>>

Byte == 0..255
Word == Byte \X Byte \X Byte \X Byte
Blank == [pos |-> -1, val |-> -1, id |-> -1, name |-> -1]

-----------------------------------------------------------------------------
(* The starts the devices are made for: up to four digits, the first one   *)
(* of those that have a lamp.  (The application takes any number.)         *)
Fitting == (1..8) \union (10..89) \union (100..899) \union (1000..8999)

(* sys_newcall: the first digit of start that is not 0, and its position.  *)
power == [i \in 0..3 |-> <<1000, 100, 10, 1>>[i + 1]]

sys_newcall(interval, repeat, start) ==
  LET digits == {i \in 0..3 : start \div power[i] > 0}
      i      == IF digits = {} THEN 4 ELSE Min(digits)
      val    == start \div power[IF i = 4 THEN 3 ELSE i]
  IN  <<i % 256, val % 256, interval % 256, repeat % 256>>

(* dev_write turns the word so that repeat comes first. *)
turned(w) == <<w[4], w[1], w[2], w[3]>>

(* Mutant of wander: a text walks over the whole line. *)
wander_off(term, n) == term % 16

(* A text of n characters wanders between the two ends of its line of 16.  *)
wander(term, n) ==
  LET room == 16 - n
  IN  IF (term \div room) % 2 = 1 THEN room - (term % room) ELSE term % room

(* The four devices for a position, a value (LED and dot matrix show no    *)
(* more than the value) and the number of pictures before this one.        *)
picture(start, value, term) ==
  [pos |-> start, val |-> value, id |-> wander(term, 8), name |-> wander(term, 11)]

Init ==
  /\ loaded = TRUE /\ mapped = TRUE /\ driver_usage = 0
  /\ pc = [p \in Apps |-> "idle"]
  /\ word = [p \in Apps |-> <<0, 0, 0, 0>>]
  /\ t_pending = FALSE /\ t_count = 0 /\ t_data = <<0, 0, 0, 0>>
  /\ board = Blank
  /\ panic = "none"
  /\ job = <<0, 0, 1, 0>>
  /\ hasty = FALSE /\ odd_start = FALSE

-----------------------------------------------------------------------------
(* The application.                                                        *)

Step(p, from, to) ==
  /\ panic = "none"
  /\ pc[p] = from
  /\ pc' = [pc EXCEPT ![p] = to]

(* main: the system call packs the arguments. *)
Pack(p) ==
  /\ Step(p, "idle", "packed")
  /\ hasty' = (hasty \/ t_pending \/ \E q \in Apps : pc[q] # "idle")
  /\ \E a \in Args :
       /\ word' = [word EXCEPT ![p] = sys_newcall(a[1], a[2], a[3])]
       /\ odd_start' = (odd_start \/ a[3] \notin Fitting)
  /\ UNCHANGED <<device, timer, board, panic, job>>

(* dev_open: the test ... *)
OpenTest(p) ==
  /\ loaded /\ mapped
  /\ \/ driver_usage = 0 /\ Step(p, "packed", "open")
     \/ driver_usage # 0 /\ Step(p, "packed", "idle")
  /\ UNCHANGED <<device, word, timer, board, panic, job, hasty, odd_start>>

(* ... or there is no device, or it is being removed ... *)
OpenFails(p) ==
  /\ ~loaded \/ ~mapped
  /\ Step(p, "packed", "idle")
  /\ UNCHANGED <<device, word, timer, board, panic, job, hasty, odd_start>>

(* ... and the assignment. *)
OpenTake(p) ==
  /\ Step(p, "open", "opened")
  /\ driver_usage' = 1
  /\ UNCHANGED <<loaded, mapped, word, timer, board, panic, job, hasty, odd_start>>

(* dev_ioctl calls dev_write: the timer's count is set ... *)
WriteCount(p) ==
  /\ Step(p, "opened", "data")
  /\ t_count' = turned(word[p])[1]
  /\ UNCHANGED <<device, word, t_pending, t_data, board, panic, job, hasty, odd_start>>

(* ... then its data ... *)
WriteData(p) ==
  /\ Step(p, "data", "write")
  /\ t_data' = turned(word[p])
  /\ UNCHANGED <<device, word, t_pending, t_count, board, panic, job, hasty, odd_start>>

(* ... and it is added to the list. *)
WriteAdd(p) ==
  /\ Step(p, "write", "close")
  /\ t_pending' = TRUE
  /\ panic' = IF t_pending THEN "add" ELSE panic
  /\ job' = turned(word[p])
  /\ UNCHANGED <<device, word, t_count, t_data, board, hasty, odd_start>>

dev_release(p) ==
  /\ Step(p, "close", "idle")
  /\ driver_usage' = 0
  /\ UNCHANGED <<loaded, mapped, word, timer, board, panic, job, hasty, odd_start>>

-----------------------------------------------------------------------------
(* kernel_timer_blink.  The list gives the timer up before it calls.       *)

Fires == t_pending /\ panic = "none"

(* Mutant of over: the timer is not let go at the end. *)
over_never == UNCHANGED <<t_count, t_pending>>

over == t_count' = t_count - 1 /\ t_pending' = FALSE

BlinkEnd ==
  /\ Fires /\ mapped
  /\ t_count <= 0
  /\ over
  /\ board' = Blank
  /\ UNCHANGED <<device, pc, word, t_data, panic, job, hasty, odd_start>>

(* The data after picture number n: the position moves on after each round *)
(* of eight values.  Mutants: at its start; the value does not go round.   *)
moved_early(d, n) ==
  <<d[1], IF n % 8 = 0 THEN (d[2] + 1) % 4 ELSE d[2], (d[3] % 8) + 1, d[4]>>
moved_on(d, n) ==
  <<d[1], IF (n + 1) % 8 = 0 THEN (d[2] + 1) % 4 ELSE d[2], (d[3] + 1) % 256, d[4]>>

moved(d, n) ==
  <<d[1], IF (n + 1) % 8 = 0 THEN (d[2] + 1) % 4 ELSE d[2], (d[3] % 8) + 1, d[4]>>

Blink ==
  /\ Fires /\ mapped
  /\ t_count > 0
  /\ t_count' = t_count - 1
  /\ LET term_c == (t_data[1] - t_count' - 1) % 256
     IN  /\ board' = picture(t_data[2], t_data[3], term_c)
         /\ t_data' = moved(t_data, term_c)
  /\ panic' = IF t_data[2] \in 0..3 /\ t_data[3] \in 1..8 THEN panic ELSE "stray"
  /\ UNCHANGED <<device, pc, word, t_pending, job, hasty, odd_start>>

BlinkUnmapped ==
  /\ Fires /\ ~mapped
  /\ panic' = "unmapped"
  /\ UNCHANGED <<device, pc, word, timer, board, job, hasty, odd_start>>

-----------------------------------------------------------------------------
(* rmmod, while nobody has the device open, unmaps the registers ...       *)
ExitUnmap ==
  /\ loaded /\ mapped /\ panic = "none"
  /\ \A p \in Apps : pc[p] \in {"idle", "packed"}
  /\ hasty' = (hasty \/ t_pending)
  /\ mapped' = FALSE /\ driver_usage' = 0
  /\ UNCHANGED <<loaded, pc, word, timer, board, panic, job, odd_start>>

(* ... and then deletes the timer and gives the device up. *)
ExitDelete ==
  /\ loaded /\ ~mapped /\ panic = "none"
  /\ t_pending' = FALSE
  /\ loaded' = FALSE
  /\ UNCHANGED <<mapped, driver_usage, pc, word, t_count, t_data, board, panic, job, hasty, odd_start>>

dev_driver_init ==
  /\ ~loaded /\ panic = "none"
  /\ loaded' = TRUE /\ mapped' = TRUE /\ driver_usage' = 0
  /\ t_count' = 0 /\ t_data' = <<0, 0, 0, 0>>
  /\ UNCHANGED <<pc, word, t_pending, board, panic, job, hasty, odd_start>>

-----------------------------------------------------------------------------
App(p) == \/ Pack(p) \/ OpenTest(p) \/ OpenFails(p) \/ OpenTake(p)
          \/ WriteCount(p) \/ WriteData(p) \/ WriteAdd(p) \/ dev_release(p)

kernel_timer_blink == Blink \/ BlinkEnd \/ BlinkUnmapped

Next ==
  \/ \E p \in Apps : App(p)
  \/ kernel_timer_blink
  \/ ExitUnmap \/ ExitDelete \/ dev_driver_init

Spec == Init /\ [][Next]_vars

(* The kernel runs an expired timer. *)
FairSpec == Spec /\ WF_vars(kernel_timer_blink)

-----------------------------------------------------------------------------
(* The four data of a job stay bytes, the texts stay on their lines of 16, *)
(* and the countdown ends just below 0.                                    *)
TypeOK ==
  /\ {loaded, mapped, t_pending, hasty, odd_start} \subseteq BOOLEAN
  /\ driver_usage \in {0, 1}
  /\ pc \in [Apps -> {"idle", "packed", "open", "opened", "data", "write", "close"}]
  /\ word \in [Apps -> Word]
  /\ t_count \in (-1 - Cardinality(Apps))..255
  /\ t_data \in Word /\ job \in Word
  /\ board \in {Blank} \union
       [pos : Byte, val : Byte, id : 0..8, name : 0..5]
  /\ panic \in {"none", "add", "unmapped", "stray"}

(* The driver is FpgaSpec for a user who waits for the end of a job and    *)
(* calls for starts that fit: as many pictures as asked for, number k the  *)
(* one FpgaSpec gives outright, however the application and rmmod          *)
(* interleave with the timer.                                              *)
Abs == INSTANCE FpgaSpec
         WITH busy <- t_pending,
              job <- [rep |-> job[1], pos |-> job[2], val |-> job[3]],
              k <- IF t_pending THEN job[1] - t_count ELSE 0

AbsSpec == Abs!Init /\ [][~hasty' /\ ~odd_start' => Abs!Next]_(Abs!vars)

(* The callback stays inside fnd[4], the font of ten digits and the shift  *)
(* by 8 - value, whatever jobs overlap and whatever step of dev_write it   *)
(* meets, unless it was called for a start that does not fit.              *)
NoStray == panic = "stray" => odd_start

(* A job ends: the timer is not pending for ever (or the machine has       *)
(* stopped).                                                               *)
JobEnds == t_pending ~> (~t_pending \/ panic # "none")

(* "device is busy now": while the timer works on a job no other job adds  *)
(* it again.                                                               *)
AddedOnce == panic # "add"
=============================================================================
