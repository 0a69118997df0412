--------------------------- MODULE DevicesProofs ---------------------------
(***************************************************************************)
(* What holds of the output process for every number of passes to a        *)
(* second, every matrix, every set of pictures sent and whatever it finds  *)
(* in its uninitialised data: it types correctly, the blinking leaves no   *)
(* trace, and the lamps are those of the picture.                          *)
(***************************************************************************)
EXTENDS Devices, TLAPS

(* data is the last message but for the dots, and those are the message's  *)
(* or, with a cursor, the same turned over: turning twice changes nothing. *)
Copy ==
  \A m \in msg :
    /\ opc # "boot"
    /\ data = [m EXCEPT !.dot = data.dot]
    /\ panel = <<m.val, data.dot>>
    /\ data.dot = m.dot \/ (m.curmode # 0 /\ data.dot = turned(m))

(* led_prev is the register, unless it was never written; and it is what   *)
(* the last message asks for.                                              *)
Lamps ==
  /\ led = led_prev \/ (led_prev = 0 /\ led = found)
  /\ \A m \in msg : m.settime = 0 => led_prev = m.led

IInv == TypeOK /\ Copy /\ Lamps

(* The picture d with its dots as the pass leaves them is a picture.       *)
LEMMA BlinkedType ==
  ASSUME NEW d \in Pictures
  PROVE  /\ blinked(d) \in SUBSET Cells
         /\ [d EXCEPT !.dot = blinked(d)] \in Pictures
<1>1. d.dot \in SUBSET Cells /\ d.cur \in Cells
  BY DEF Pictures
<1>2. blinked(d) \in SUBSET Cells
  BY <1>1 DEF blinked, turned
<1> QED
  BY <1>2 DEF Pictures

(* A pass over a picture keeps the types.                                  *)
LEMMA PassType ==
  ASSUME NEW d \in Pictures, TypeOK, Pass(d),
         msg' = {} \/ (\E m \in Messages : msg' = {m}), news' \in BOOLEAN
  PROVE  TypeOK'
<1>1. data' \in Pictures /\ panel' \in Nat \X SUBSET Cells
  <2>1. d.val \in Nat
    BY DEF Pictures
  <2> QED
    BY <2>1, BlinkedType DEF Pass
<1>2. slp_cnt' \in 0..(Second - 1)
  BY DevicesAssumption DEF TypeOK, Pass, Count, tick
<1>3. led_s' \in {16, 32} /\ {led_prev', led', found'} \subseteq 0..255
  <2>1. CASE BlinkLed(d)
    BY <2>1 DEF TypeOK, Pass, BlinkLed
  <2>2. CASE WriteLed(d)
    BY <2>2 DEF TypeOK, Pass, WriteLed, in_range
  <2>3. CASE KeepLed(d)
    BY <2>3 DEF TypeOK, Pass, KeepLed
  <2> QED
    BY <2>1, <2>2, <2>3 DEF Pass
<1>4. opc' \in {"boot", "loop", "done"}
  BY DEF Pass
<1> QED
  BY <1>1, <1>2, <1>3, <1>4 DEF TypeOK

(* The lamps after a pass over d, which has the settime and the led of     *)
(* every message that is now the last one.                                 *)
LEMMA PassLamps ==
  ASSUME NEW d, TypeOK, Lamps, Pass(d),
         \A m \in msg' : m.settime = d.settime /\ m.led = d.led /\ d.led \in 0..255
  PROVE  Lamps'
<1>1. CASE BlinkLed(d)
  BY <1>1 DEF BlinkLed, Lamps, Pass
<1>2. CASE WriteLed(d)
  BY <1>2 DEF WriteLed, Lamps, Pass
<1>3. CASE KeepLed(d)
  BY <1>3 DEF KeepLed, in_range, Lamps, Pass
<1> QED
  BY <1>1, <1>2, <1>3 DEF Pass

(* The copy after a pass over d, whose dots are those of the message or    *)
(* the same turned over.                                                   *)
LEMMA PassCopy ==
  ASSUME NEW d \in Pictures, Pass(d),
         \A m \in msg' : /\ m \in Pictures
                         /\ d = [m EXCEPT !.dot = d.dot]
                         /\ d.dot = m.dot \/ (m.curmode # 0 /\ d.dot = turned(m))
  PROVE  Copy'
<1> SUFFICES ASSUME NEW m \in msg'
             PROVE  /\ opc' # "boot"
                    /\ data' = [m EXCEPT !.dot = data'.dot]
                    /\ panel' = <<m.val, data'.dot>>
                    /\ \/ data'.dot = m.dot
                       \/ m.curmode # 0 /\ data'.dot = turned(m)
  BY DEF Copy
<1>1. /\ m \in Pictures /\ d = [m EXCEPT !.dot = d.dot]
      /\ d.dot = m.dot \/ (m.curmode # 0 /\ d.dot = turned(m))
  OBVIOUS
<1>2. d.val = m.val /\ d.cur = m.cur /\ d.curmode = m.curmode
  BY <1>1 DEF Pictures
<1>3. data' = [d EXCEPT !.dot = blinked(d)] /\ data'.dot = blinked(d)
  BY DEF Pass, Pictures
<1>4. data' = [m EXCEPT !.dot = data'.dot]
  BY <1>1, <1>3 DEF Pictures
<1>5. panel' = <<m.val, data'.dot>> /\ opc' # "boot"
  BY <1>2, <1>3 DEF Pass
<1>6. blinked(d) = m.dot \/ (m.curmode # 0 /\ blinked(d) = turned(m))
  <2>1. d.dot = m.dot => turned(d) = turned(m)
    BY <1>2 DEF turned
  <2>2. d.dot = turned(m) => turned(d) = m.dot
    BY <1>1, <1>2 DEF turned, Pictures
  <2> QED
    BY <1>1, <1>2, <2>1, <2>2 DEF blinked
<1> QED
  BY <1>3, <1>4, <1>5, <1>6

LEMMA InitInvariant == Init => IInv
<1> SUFFICES ASSUME Init PROVE IInv
  OBVIOUS
<1>1. data \in Pictures /\ slp_cnt \in 0..(Second - 1)
  BY DevicesAssumption DEF Init
<1>2. {led_prev, led, found} \subseteq 0..255 /\ panel \in Nat \X SUBSET Cells
  BY DEF Init
<1>3. TypeOK
  BY <1>1, <1>2 DEF Init, TypeOK
<1> QED
  BY <1>3 DEF Init, IInv, Copy, Lamps

LEMMA StepInvariant == IInv /\ [Next]_vars => IInv'
<1> SUFFICES ASSUME IInv, [Next]_vars PROVE IInv'
  OBVIOUS
<1>1. CASE Boot
  BY <1>1 DEF Boot, IInv, TypeOK, Copy, Lamps
<1>2. CASE NoMessage
  <2>1. Pass(data) /\ msg' = msg /\ news' = FALSE /\ data \in Pictures
    BY <1>2 DEF NoMessage, IInv, TypeOK
  <2>2. TypeOK'
    BY <2>1, PassType DEF IInv, TypeOK
  <2>3. ASSUME NEW m \in msg
        PROVE  /\ m \in Pictures /\ m.settime = data.settime /\ m.led = data.led
               /\ data.led \in 0..255
    <3>1. m \in Messages
      BY DEF IInv, TypeOK
    <3>2. m \in Pictures /\ m.led \in 0..255
      BY <3>1, DevicesAssumption
    <3> QED
      BY <3>2 DEF IInv, Copy, Pictures
  <2>4. Lamps'
    BY <2>1, <2>3, PassLamps DEF IInv
  <2>5. Copy'
    BY <2>1, <2>3, PassCopy DEF IInv, Copy
  <2> QED
    BY <2>2, <2>4, <2>5 DEF IInv
<1>3. ASSUME NEW m \in Messages, Receive(m)
      PROVE  IInv'
  <2>1. Pass(m) /\ msg' = {m} /\ news' = TRUE
    BY <1>3 DEF Receive
  <2>2. m \in Pictures /\ m.led \in 0..255
    BY DevicesAssumption
  <2>3. TypeOK'
    BY <2>1, <2>2, PassType DEF IInv
  <2>4. Lamps'
    BY <2>1, <2>2, PassLamps DEF IInv
  <2>5. m = [m EXCEPT !.dot = m.dot]
    BY <2>2 DEF Pictures
  <2>6. Copy'
    BY <2>1, <2>2, <2>5, PassCopy
  <2> QED
    BY <2>3, <2>4, <2>6 DEF IInv
<1>4. CASE Restart
  <2>1. data' \in Pictures /\ slp_cnt' \in 0..(Second - 1)
    BY <1>4, DevicesAssumption DEF Restart
  <2>2. {led_prev', led', found'} \subseteq 0..255
    BY <1>4 DEF Restart, IInv, TypeOK
  <2>3. panel' \in Nat \X SUBSET Cells /\ opc' \in {"boot", "loop", "done"}
    BY <1>4 DEF Restart, IInv, TypeOK
  <2>4. TypeOK'
    BY <1>4, <2>1, <2>2, <2>3 DEF Restart, TypeOK
  <2> QED
    BY <1>4, <2>4 DEF Restart, IInv, Copy, Lamps
<1>5. CASE UNCHANGED vars
  BY <1>5 DEF vars, IInv, TypeOK, Copy, Lamps
<1> QED
  BY <1>1, <1>2, <1>3, <1>4, <1>5 DEF Next, output_process

(* The process types correctly: the LED register gets bytes only, even out *)
(* of uninitialised data, and slp_cnt stays below a second.                *)
THEOREM TypeCorrect == Spec => []TypeOK
<1>1. IInv => TypeOK
  BY DEF IInv
<1> QED
  BY <1>1, InitInvariant, StepInvariant, PTL DEF Spec

(* The dot matrix shows the last picture sent but for a cursor's cell.     *)
THEOREM BlinkingLeavesNoTrace == Spec => []OnlyCursor
<1>1. IInv => OnlyCursor
  BY DEF IInv, Copy, OnlyCursor
<1> QED
  BY <1>1, InitInvariant, StepInvariant, PTL DEF Spec

(* The lamps are those of the last picture sent, but for what was found    *)
(* burning at the start under pictures that have none.                     *)
THEOREM LampsFollow == Spec => []LedFollows
<1>1. IInv => LedFollows
  BY DEF IInv, Lamps, LedFollows
<1> QED
  BY <1>1, InitInvariant, StepInvariant, PTL DEF Spec
=============================================================================
