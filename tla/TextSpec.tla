------------------------------ MODULE TextSpec ------------------------------
(***************************************************************************)
(* What a user of the text editor of [HW1]20151588/main.c sees on the LCD  *)
(* and the FND: a window on the last Cap characters written, and how often *)
(* a switch was pushed.                                                    *)
(***************************************************************************)
EXTENDS Integers, Sequences

CONSTANTS Cap, CntWrap, Space, Letter(_, _), Digit(_)

VARIABLES
  line, lang,   \* the text; 0: letters are written, 1: digits
  right,        \* the switch of the letter pushed right before, -1: none
  count

Switches == 0..8

Init == line = <<>> /\ lang = 0 /\ right = -1 /\ count = 0

Pushed(n) == count' = (count + n) % CntWrap

(* A character is written behind the others; the first one moves out of a  *)
(* full window.                                                            *)
Write(c) ==
  line' = Append(IF Len(line) = Cap THEN Tail(line) ELSE line, c)

(* The first letter of a switch; or the one after the letter that the same *)
(* switch put there right before ("if push same switch right before").     *)
First(i) == right # i /\ Write(Letter(i, 0))

Cycle(i) ==
  /\ right = i /\ line # <<>>
  /\ \E j \in 0..2 :
       /\ line[Len(line)] = Letter(i, j)
       /\ line' = [line EXCEPT ![Len(line)] = Letter(i, (j + 1) % 3)]

Letters(i) ==
  /\ lang = 0 /\ (First(i) \/ Cycle(i))
  /\ right' = i /\ UNCHANGED lang /\ Pushed(1)

Digits(i) ==
  /\ lang = 1 /\ Write(Digit(i))
  /\ right' = -1 /\ UNCHANGED lang /\ Pushed(1)

(* The chords: a space, of which the first after a letter only ends that   *)
(* letter; the other language; an empty line.                              *)
Spaces ==
  /\ IF right = -1 THEN Write(Space) ELSE UNCHANGED line
  /\ right' = -1 /\ UNCHANGED lang /\ Pushed(2)

Change == lang' = 1 - lang /\ right' = -1 /\ UNCHANGED line /\ Pushed(2)

Clear == line' = <<>> /\ right' = -1 /\ UNCHANGED lang /\ Pushed(2)

(* The editor is entered. *)
Enter == line' = <<>> /\ lang' = 0 /\ right' = -1 /\ count' = 0

Next ==
  \/ \E i \in Switches : Letters(i) \/ Digits(i)
  \/ Spaces \/ Change \/ Clear \/ Enter
=============================================================================
