------------------------------ MODULE Devices ------------------------------
(***************************************************************************)
(* output_process of [HW1]20151588/main.c and the devices it drives: the   *)
(* FND, the dot matrix and the LCD, which are written in every pass, and   *)
(* the LED register, which is written only when it has to change and is    *)
(* never read back.  While the time is being set two lamps take turns, and *)
(* the cursor of the draw board blinks: the process turns its cell over in *)
(* its own copy of the picture.                                            *)
(*                                                                         *)
(* The queue before it is that of Board; here a pass finds a message out   *)
(* of Messages or none.  The devices keep what they show when the program  *)
(* is killed.                                                              *)
(***************************************************************************)
EXTENDS Integers

CONSTANTS
  Second,    \* passes between two turns of what blinks (7000)
  Cells,     \* of the dot matrix
  Messages,  \* the pictures the main process sends
  LeftData   \* what data, which is not initialised, can hold at the start

Pictures ==
  [end : BOOLEAN,
   val : Nat,            \* FND and LCD
   led : Int, settime : Int,
   dot : SUBSET Cells, cur : Cells, curmode : Int]

Dark(m) == m.val = 0 /\ m.led = 0 /\ m.settime = 0 /\ m.dot = {} /\ m.curmode = 0

(* The end message is mode_init's, all zeros.  Named bound: a cursor that  *)
(* is not initialised either lies on the matrix or does not blink.         *)
ASSUME DevicesAssumption ==
  /\ Second \in Nat \ {0}
  /\ Messages \subseteq Pictures /\ LeftData \subseteq Pictures
  /\ \A m \in Messages : m.led \in 0..255 /\ (m.end => Dark(m))

VARIABLES
  opc,        \* where output_process stands
  data, slp_cnt, led_s, led_prev,
  led,        \* the LED register, *led_addr
  panel,      \* FND and LCD, and the dot matrix
  msg,        \* history: {m}, m the message read last, or {} before the first
  news,       \* history: the last pass read it
  found       \* history: the LED register as the process found it

vars == <<opc, data, slp_cnt, led_s, led_prev, led, panel, msg, news, found>>

Init ==
  /\ opc = "boot" /\ data \in LeftData /\ msg = {} /\ news = FALSE
  /\ slp_cnt = 0 /\ led_s = 16 /\ led_prev = 0
  /\ led = 0 /\ found = 0 /\ panel = <<0, {}>>

(* From the opened devices to the loop. *)
Boot ==
  /\ opc = "boot" /\ opc' = "loop"
  /\ UNCHANGED <<data, slp_cnt, led_s, led_prev, led, panel, msg, news, found>>

-----------------------------------------------------------------------------
(* One pass of the loop; d is data after msgrcv.                           *)

tick == slp_cnt + 1 >= Second

(* Mutant of Count: a message starts a new second. *)
Count_restarts(d) == slp_cnt' = IF tick \/ d # data THEN 0 ELSE slp_cnt + 1

Count(d) == slp_cnt' = IF tick THEN slp_cnt + 1 - Second ELSE slp_cnt + 1

(* Mutant of BlinkLed: led_prev is not kept up. *)
BlinkLed_forgets(d) ==
  /\ tick /\ d.settime # 0
  /\ led_s' = IF led_s = 32 THEN 16 ELSE 32
  /\ led' = led_s' /\ UNCHANGED led_prev

BlinkLed(d) ==
  /\ tick /\ d.settime # 0
  /\ led_s' = IF led_s = 32 THEN 16 ELSE 32
  /\ led' = led_s' /\ led_prev' = led_s'

(* Mutant of in_range: the register is taken to be wider. *)
in_range_wide(n) == n \in 0..1023

in_range(n) == n \in 0..255

WriteLed(d) ==
  /\ d.settime = 0 /\ led_prev # d.led /\ in_range(d.led)
  /\ led' = d.led /\ led_prev' = d.led
  /\ UNCHANGED led_s

(* The lamps are right already, the value is out of range, or they blink   *)
(* and the second is not over.                                             *)
KeepLed(d) ==
  /\ IF d.settime = 0 THEN led_prev = d.led \/ ~in_range(d.led) ELSE ~tick
  /\ UNCHANGED <<led_s, led_prev, led>>

(* The dot matrix of d with the cell under the cursor turned over.         *)
turned(d) == (d.dot \ {d.cur}) \union ({d.cur} \ d.dot)

(* Mutants of blinked: line and place are mixed up; the cursor is only     *)
(* ever put out.                                                           *)
blinked_swapped(d) ==
  IF tick /\ d.curmode # 0
  THEN turned([d EXCEPT !.cur = <<@[2], @[1]>>]) ELSE d.dot

blinked_out(d) == IF tick /\ d.curmode # 0 THEN d.dot \ {d.cur} ELSE d.dot

blinked(d) == IF tick /\ d.curmode # 0 THEN turned(d) ELSE d.dot

Pass(d) ==
  /\ opc = "loop"
  /\ Count(d)
  /\ BlinkLed(d) \/ WriteLed(d) \/ KeepLed(d)
  /\ data' = [d EXCEPT !.dot = blinked(d)]
  /\ panel' = <<d.val, blinked(d)>>
  /\ opc' = IF d.end THEN "done" ELSE "loop"
  /\ UNCHANGED found

(* msgrcv with IPC_NOWAIT: a message, or data stays what it was. *)
Receive(m) == Pass(m) /\ msg' = {m} /\ news' = TRUE

NoMessage == Pass(data) /\ UNCHANGED msg /\ news' = FALSE

(* The program is killed, or has ended, and is started again.              *)
Restart ==
  /\ opc' = "boot" /\ data' \in LeftData /\ msg' = {} /\ news' = FALSE
  /\ slp_cnt' = 0 /\ led_s' = 16 /\ led_prev' = 0
  /\ found' = led
  /\ UNCHANGED <<led, panel>>

output_process == Boot \/ NoMessage \/ \E m \in Messages : Receive(m)

Next == output_process \/ Restart

Spec == Init /\ [][Next]_vars

(* The process is scheduled; nobody has to send a message. *)
FairSpec == Spec /\ WF_vars(output_process)

-----------------------------------------------------------------------------
(* The register gets bytes, whatever data holds at the start, and slp_cnt  *)
(* never runs past a second.                                               *)
TypeOK ==
  /\ opc \in {"boot", "loop", "done"}
  /\ data \in Pictures
  /\ slp_cnt \in 0..(Second - 1)
  /\ led_s \in {16, 32} /\ {led_prev, led, found} \subseteq 0..255
  /\ panel \in Nat \X SUBSET Cells
  /\ msg = {} \/ \E m \in Messages : msg = {m}
  /\ news \in BOOLEAN

(* The matrix shows the last picture sent but for the cell under the       *)
(* cursor, and that only while the cursor is shown: however often the      *)
(* process turned the cell over in its copy and whenever the messages come *)
(* in between, no trace of the blinking stays behind; also at the end.     *)
OnlyCursor ==
  \A m \in msg : /\ panel[1] = m.val
                 /\ \/ panel[2] = m.dot
                    \/ m.curmode # 0 /\ panel[2] = turned(m)

(* The lamps are those of the last picture sent as soon as nothing blinks, *)
(* although the register is written only when led_prev differs; only what  *)
(* a killed program left burning may stay, under a picture without lamps.  *)
LedFollows ==
  \A m \in msg :
    m.settime = 0 => led = m.led \/ (m.led = 0 /\ led = found)

(* "If one second passes, then blink the led or cursor": while the time is *)
(* being set both lamps come, again and again, ...                         *)
Setting == opc = "loop" /\ data.settime # 0

LedBlinks == \A v \in {16, 32} : Setting ~> (~Setting \/ led = v)

(* ... and so do the cursor's cell and the same turned over, unless a      *)
(* message comes again and again: one with every turn would hide the next. *)
Pointing == opc = "loop" /\ msg # {} /\ data.curmode # 0

CursorBlinks ==
  \/ []<>news
  \/ \A on \in BOOLEAN :
       Pointing ~> (~Pointing \/ on = (\A m \in msg : panel[2] = m.dot))
=============================================================================
