----------------------------- MODULE TextEditor -----------------------------
(***************************************************************************)
(* Mode 2 of main_process in [HW1]20151588/main.c, the text editor: nine   *)
(* switches, three letters each, and a number mode.                        *)
(***************************************************************************)
EXTENDS OutData, Sequences, FiniteSetsExt

VARIABLES
  txt_cnt, txt_mode, txt_prev, txt_len,
  right      \* history: the switch of the letter pushed right before, -1: none

editor == <<txt_cnt, txt_mode, txt_prev, txt_len, right>>

(* The characters: letter j of switch i of txt_lis, the digit '1' + i.     *)
Space      == <<"space", 0, 0>>
Letter(i, j) == <<"letter", i, j>>
Digit(i)   == <<"digit", i, 0>>
Letters    == {Letter(i, j) : i \in 0..8, j \in 0..2}
Chars      == {Space} \union Letters \union {Digit(i) : i \in 0..8}

(* Mutant of Shifted: a full text is not moved. *)
Shifted_not == text

(* Room for one more character: a full text moves one place to the left,   *)
(* strncpy(out.text, out.text+1, 31), which copies upwards.                *)
Shifted ==
  IF txt_len = Cap - 1
  THEN [k \in DOMAIN text |-> IF k \in 0..(Cap - 2) THEN text[k + 1] ELSE text[k]]
  ELSE text

Put(c) ==
  /\ txt_len' = IF txt_len = Cap - 1 THEN txt_len ELSE txt_len + 1
  /\ text' = [Shifted EXCEPT ![txt_len'] = c]

(* The end of a pass: the count goes to the FND. *)
Finish(n) ==
  /\ txt_cnt' = (txt_cnt + n) % CntWrap
  /\ fnd' = digits(txt_cnt')

clears(c)  == {1, 2} \subseteq c
changes(c) == ~clears(c) /\ {4, 5} \subseteq c
spaces(c)  == ~clears(c) /\ ~changes(c) /\ {7, 8} \subseteq c
writes(c)  == ~clears(c) /\ ~changes(c) /\ ~spaces(c) /\ c # {}

(* Mutant of emptied: txt_len is not reset. *)
emptied_not == UNCHANGED txt_len

emptied == txt_len' = -1

Clear(c) ==
  /\ clears(c)
  /\ text' = [k \in DOMAIN text |-> IF k = -1 THEN text[k] ELSE NUL]
  /\ emptied /\ right' = -1
  /\ UNCHANGED <<dot, txt_mode, txt_prev>>
  /\ Finish(2)

Change(c) ==
  /\ changes(c)
  /\ txt_mode' = 1 - txt_mode
  /\ dot' = dot_mode(txt_mode') /\ right' = -1
  /\ UNCHANGED <<text, txt_prev, txt_len>>
  /\ Finish(2)

(* The first space after a letter only ends that letter. *)
PutSpace(c) ==
  /\ spaces(c)
  /\ \/ txt_prev = -1 /\ Put(Space) /\ UNCHANGED txt_prev
     \/ txt_prev # -1 /\ txt_prev' = -1 /\ UNCHANGED <<text, txt_len>>
  /\ right' = -1
  /\ UNCHANGED <<dot, txt_mode>>
  /\ Finish(2)

(* The switch with the lowest number counts. *)
WriteDigit(c) ==
  /\ writes(c) /\ txt_mode = 1
  /\ Put(Digit(Min(c))) /\ right' = -1
  /\ UNCHANGED <<dot, txt_mode, txt_prev>>
  /\ Finish(1)

(* The letter after the one that stands there; after one that is none of   *)
(* this switch the loop ends with j = 3.                                   *)
NextLetter(i, ch) ==
  LET found == {j \in 0..2 : ch = Letter(i, j)}
      j == IF found = {} THEN 3 ELSE Min(found)
  IN  Letter(i, (j + 1) % 3)

WriteLetter(c) ==
  /\ writes(c) /\ txt_mode = 0
  /\ LET i == Min(c)
     IN  \/ /\ txt_prev = i
            /\ text' = [text EXCEPT ![txt_len] = NextLetter(i, text[txt_len])]
            /\ UNCHANGED <<txt_len, txt_prev>>
         \/ /\ txt_prev # i
            /\ Put(Letter(i, 0))
            /\ txt_prev' = i
  /\ right' = Min(c)
  /\ UNCHANGED <<dot, txt_mode>>
  /\ Finish(1)

(* No switch is on: a release, or the message that enters the mode. *)
TextIdle(c) ==
  /\ c = {}
  /\ UNCHANGED <<text, dot, txt_mode, txt_prev, txt_len, right>>
  /\ Finish(0)

(* What sets outflag.  Mutant: the change of the language does not. *)
edits_text(c) == c # {} /\ ~changes(c)

edits(c) == c # {}

TextPass(c, flag) ==
  /\ Clear(c) \/ Change(c) \/ PutSpace(c) \/ WriteDigit(c) \/ WriteLetter(c)
       \/ TextIdle(c)
  /\ UNCHANGED <<led, settime, cur, curmode>>
  /\ Send(flag \/ edits(c))

-----------------------------------------------------------------------------
(* The counters and the place of the last character stay in range.         *)
TextTypeOK ==
  /\ txt_mode \in 0..1
  /\ txt_cnt \in 0..(CntWrap - 1)
  /\ txt_prev \in -1..8 /\ right \in {-1, txt_prev}
  /\ txt_len \in -1..(Cap - 1)

(* The memory the code keeps of the switch pushed right before is stale,   *)
(* for a chord or digits came in between, and the pass goes by it; or the  *)
(* letter it would change is one that such a pass put before the text.     *)
Misled(c) ==
  \/ spaces(c) /\ txt_prev # right
  \/ /\ writes(c) /\ txt_mode = 0 /\ Min(c) = txt_prev
     /\ txt_prev # right \/ txt_len = -1

(* What was written: the characters up to txt_len. *)
written == [k \in 1..(txt_len + 1) |-> text[k - 1]]
=============================================================================
