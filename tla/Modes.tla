------------------------------- MODULE Modes -------------------------------
(***************************************************************************)
(* main_process of [HW1]20151588/main.c: the five modes and the changes    *)
(* between them.  A message of the input process is handled in one step,   *)
(* or in two when VOL+ or VOL- change the mode: first mode_init and the    *)
(* resets beside it, then the pass of the new mode, which looks at the     *)
(* switches of the same message.  (The queues, the other two processes and *)
(* the back button are those of Board.)                                    *)
(***************************************************************************)
EXTENDS Clock, Counter, TextEditor, DrawBoard, MoleGame

CONSTANTS
  Chords     \* for each mode, the sets of switches that are 1 in a message

ASSUME ModesAssumption == Chords \in [0..4 -> SUBSET (SUBSET (0..8))]

VARIABLES
  mode,
  in,        \* {c}: the mode was changed, and the pass for the switches c is
             \*   still to come; {}: the main process waits for a message
  flown,     \* history: the clock was entered again, and ...
  missed     \* ... the minutes since then that the clock does not count

vars == <<mode, in, flown, missed, now, clock, counter, editor, brd_cnt, mole, out, shown>>

-----------------------------------------------------------------------------
(* mode_init for the mode m. *)
mode_init(m) ==
  /\ IF m = 4 THEN mol_n' \in 0..(Holes - 1) ELSE UNCHANGED mol_n
  /\ fnd' = IF m = 0 THEN timedigits(localtime(now')) ELSE digits(0)
  /\ led' = CASE m = 0 -> 128 [] m = 1 -> 64 [] m = 4 -> mol_lis(mol_n')
              [] OTHER -> 0
  /\ settime' = 0
  /\ dot' = IF m = 2 THEN dot_mode(0) ELSE {}
  /\ cur' = <<0, 0>>
  /\ curmode' = IF m = 3 THEN 1 ELSE 0
  /\ text' = Blank
  /\ devtime' = IF m = 0 THEN localtime(now') ELSE devtime

(* What is reset beside it, once in the branch of VOL+ and once in that of *)
(* VOL-.  Mutant of the second: one variable is forgotten there.           *)
resets_up ==
  /\ cnt_mode' = 10 /\ cnt_n' = 0
  /\ brd_cnt' = 0
  /\ txt_cnt' = 0 /\ txt_mode' = 0 /\ txt_prev' = -1 /\ txt_len' = -1
  /\ mol_pnt' = 0

resets_down_forgets ==
  /\ cnt_mode' = 10 /\ cnt_n' = 0
  /\ brd_cnt' = 0
  /\ txt_cnt' = 0 /\ txt_mode' = 0 /\ txt_len' = -1 /\ UNCHANGED txt_prev
  /\ mol_pnt' = 0

resets_down ==
  /\ cnt_mode' = 10 /\ cnt_n' = 0
  /\ brd_cnt' = 0
  /\ txt_cnt' = 0 /\ txt_mode' = 0 /\ txt_prev' = -1 /\ txt_len' = -1
  /\ mol_pnt' = 0

(* The program starts with the clock, before the first message. *)
Init ==
  /\ mode = 0 /\ in = {} /\ flown = FALSE /\ missed = 0
  /\ now \in Day
  /\ devtime = localtime(now) /\ prevtime = devtime /\ touched = FALSE
  /\ fnd = timedigits(devtime) /\ led = 128 /\ settime = 0
  /\ dot = {} /\ cur = <<0, 0>> /\ curmode = 0 /\ text = Blank
  /\ cnt_mode = 10 /\ cnt_n = 0
  /\ brd_cnt = 0
  /\ txt_cnt = 0 /\ txt_mode = 0 /\ txt_prev = -1 /\ txt_len = -1 /\ right = -1
  /\ mol_pnt = 0 /\ mol_n = 0
  /\ shown = TRUE

(* VOL+ (m the next mode) or VOL- (m the one before).  While another mode  *)
(* is on nobody looks at the clock, so the minutes that go by then are     *)
(* counted when it is entered.                                             *)
Turn(m, c) ==
  /\ in = {} /\ in' = {c}
  /\ \/ m = (mode + 1) % 5 /\ resets_up
     \/ m = (mode - 1) % 5 /\ resets_down
  /\ mode' = m
  /\ IF m = 0 THEN now' \in Day ELSE UNCHANGED now
  /\ mode_init(m) /\ right' = -1
  /\ flown' = (flown \/ m = 0) /\ missed' = (IF m = 0 THEN 0 ELSE missed)
  /\ touched' = FALSE /\ shown' = FALSE
  /\ UNCHANGED prevtime

(* The pass of the mode; outflag is set at its start if the mode changed. *)
ClockStep(c, outflag) ==
  /\ mode = 0 /\ ClockPass(c, outflag)
  /\ UNCHANGED <<counter, editor, brd_cnt, mole>>

CounterStep(c, outflag) ==
  /\ mode = 1 /\ CounterPass(c, outflag)
  /\ UNCHANGED <<now, clock, editor, brd_cnt, mole>>

TextStep(c, outflag) ==
  /\ mode = 2 /\ TextPass(c, outflag)
  /\ UNCHANGED <<now, clock, counter, brd_cnt, mole>>

DrawStep(c, outflag) ==
  /\ mode = 3 /\ DrawPass(c, outflag)
  /\ UNCHANGED <<now, clock, counter, editor, mole>>

MoleStep(c, outflag) ==
  /\ mode = 4 /\ MolePass(c, outflag)
  /\ UNCHANGED <<now, clock, counter, editor, brd_cnt>>

Pass(c, outflag) ==
  /\ ClockStep(c, outflag) \/ CounterStep(c, outflag) \/ TextStep(c, outflag)
       \/ DrawStep(c, outflag) \/ MoleStep(c, outflag)
  /\ in' = {}
  /\ UNCHANGED <<mode, flown, missed>>

Work(c) == in = {c} /\ Pass(c, TRUE)

Handle(c) == in = {} /\ Pass(c, FALSE)

(* A minute goes by in the clock mode, with or without a message.  What    *)
(* the next message finds due is one minute, however many have gone by,    *)
(* and none of those between mode_init and the pass that enters the mode.  *)
due == IF in = {} /\ goes THEN 1 ELSE 0

Minute ==
  /\ mode = 0
  /\ now' = (now + 1) % (Hours * Minutes)
  /\ UNCHANGED <<mode, in, flown, clock, counter, editor, brd_cnt, mole, out, shown>>
  /\ missed' = (missed + 1 - (due' - due)) % (Hours * Minutes)

Next ==
  \/ \E m \in 0..4 : \E c \in Chords[m] : Turn(m, c)
  \/ \E c \in Chords[mode] : Work(c) \/ Handle(c)
  \/ Minute

Spec == Init /\ [][Next]_vars

-----------------------------------------------------------------------------
(* The cursor stays on the matrix, the digits are digits, and txt_len is   *)
(* an index of the text or -1, in every mode and after every change.       *)
TypeOK ==
  /\ mode \in 0..4 /\ {flown, shown} \subseteq BOOLEAN /\ missed \in Day
  /\ in = {} \/ \E c \in Chords[mode] : in = {c}
  /\ fnd \in (0..9) \X (0..9) \X (0..9) \X (0..9)
  /\ led \in 0..255 /\ settime \in 0..1 /\ curmode \in 0..1
  /\ dot \in (SUBSET Cells) \union {dot_mode(0), dot_mode(1)}
  /\ cur \in Cells
  /\ text \in [-1..(Cap - 1) -> Chars \union {NUL}]
  /\ ClockTypeOK /\ CounterTypeOK /\ TextTypeOK /\ DrawTypeOK /\ MoleTypeOK

(* Every pass of every mode that changes what out holds sets outflag: the  *)
(* output process is behind by no more than the messages on their way      *)
(* (what Board assumes of the modes).                                      *)
SentIsCurrent == in = {} => shown

(* The lamps, the digits and the letter shown belong to the mode's own     *)
(* variables, whatever order of switches led there.                        *)
ShowsState ==
  in = {} =>
    CASE mode = 0 -> /\ fnd = timedigits(devtime)
                     /\ led = IF settime = 1 THEN 32 ELSE 128
      [] mode = 1 -> /\ fnd[2] * (cnt_mode * cnt_mode) + fnd[3] * cnt_mode + fnd[4] = cnt_n
                     /\ led = notationled(cnt_mode)
      [] mode = 2 -> fnd = digits(txt_cnt) /\ dot = dot_mode(txt_mode)
      [] mode = 3 -> fnd = digits(brd_cnt)
      [] mode = 4 -> fnd = digits(mol_pnt) /\ led = mol_lis(mol_n)

(* A mode leaves nothing behind: the variables of the modes that are not   *)
(* on have the values a mode starts with, however it was left (the two     *)
(* lists of resets for VOL+ and VOL-).                                     *)
Fresh ==
  /\ mode # 1 => cnt_mode = 10 /\ cnt_n = 0
  /\ mode # 2 => text = Blank /\ editor = <<0, 0, -1, -1, -1>>
  /\ mode # 3 => brd_cnt = 0 /\ cur = <<0, 0>>
  /\ mode # 4 => mol_pnt = 0
  /\ mode # 0 => settime = 0

(* txt_len is the index of the last character: whatever is cleared,        *)
(* shifted and cycled, what is written lies before it and zeros behind.    *)
Layout == \A k \in 0..(Cap - 1) : text[k] = NUL <=> k > txt_len

(* The text on the LCD is the window of TextSpec on what was written, and  *)
(* the FND counts the switches pushed; but where the editor goes by a      *)
(* switch that was not pushed right before.                                *)
Abs == INSTANCE TextSpec WITH line <- written, lang <- txt_mode, count <- txt_cnt

AbsSpec ==
  Abs!Init /\ [][Abs!Next \/ \E c \in Chords[2] : Misled(c) /\ (Work(c) \/ Handle(c))]_<<written, editor>>

(* A clock that was not set is behind the local time by the minutes it     *)
(* missed and the one that is due, by no other, over carries and midnight; *)
(* or, entered again, ahead of that by at most one: the pass that enters   *)
(* the mode compares the minute with the one of the last visit and may     *)
(* count one that the local time already holds.                            *)
BehindByMissed ==
  mode = 0 /\ ~touched =>
    (Ahead(devtime, localtime(now)) + missed + due) % (Hours * Minutes)
      \in IF flown /\ in = {} THEN {0, 1} ELSE {0}

(* A pass without a setting switch keeps the distance between the device's *)
(* time and the local time: carries, midnight, set mode and all.  Of more  *)
(* minutes than one that have gone by it counts one only ("change the      *)
(* device time as time goes on" is so when a message comes every minute).  *)
KeepsDistance ==
  [][\A c \in Chords[0] :
       mode = 0 /\ Handle(c) /\ ~sets(c, settime')
         => LET gone == Ahead(localtime(now), prevtime)
                lost == IF gone = 0 THEN 0 ELSE gone - 1
            IN  Ahead(devtime', prevtime')
                  = (Ahead(devtime, prevtime) - lost) % (Hours * Minutes)]_vars

(* The counter is an odometer in each notation: the switch of a digit      *)
(* moves it on by one, with a carry to the left and no further than the    *)
(* hundreds, and leaves the digits to its right alone.                     *)
Odometer ==
  [][\A c \in Chords[1] :
       mode = 1 /\ Handle(c) /\ 0 \notin c /\ c \intersect {1, 2, 3} # {}
         => fnd' = odometer(Min(c \intersect {1, 2, 3}) + 1, cnt_mode, fnd)]_vars

(* "cursor mode [0]:hidden [1]:show": the text editor, which has no        *)
(* cursor, leaves out.curmode alone.                                       *)
CursorHidden == mode = 2 => text[-1] = NUL
=============================================================================
