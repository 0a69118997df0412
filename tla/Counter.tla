------------------------------ MODULE Counter ------------------------------
(***************************************************************************)
(* Mode 1 of main_process in [HW1]20151588/main.c, the counter: a number   *)
(* of three digits in one of four notations.                               *)
(***************************************************************************)
EXTENDS OutData

VARIABLES cnt_mode, cnt_n

counter == <<cnt_mode, cnt_n>>

(* The notation after this one, and the lamp of each. *)
notation(b) == CASE b = 10 -> 8 [] b = 8 -> 4 [] b = 4 -> 2 [] b = 2 -> 10

notationled(b) == CASE b = 10 -> 64 [] b = 8 -> 32 [] b = 4 -> 16 [] b = 2 -> 128

change_n(num, b) ==
  /\ cnt_n' = num % (b * b * b)
  /\ fnd' = <<fnd[1], cnt_n' \div (b * b), (cnt_n' % (b * b)) \div b, cnt_n' % b>>

(* Switch 0 changes the notation ... *)
Notation(c) ==
  /\ 0 \in c
  /\ cnt_mode' = notation(cnt_mode)
  /\ led' = notationled(cnt_mode')
  /\ change_n(cnt_n, cnt_mode')

(* ... and 1, 2 and 3 add to the hundreds, the tens and the units.         *)
(* Mutant: switch 2 adds to the wrong digit.                               *)
worth_swapped(c, b) == IF c \intersect {1, 2} # {} THEN b * b ELSE 1

worth(c, b) == IF 1 \in c THEN b * b ELSE IF 2 \in c THEN b ELSE 1

Increase(c) ==
  /\ 0 \notin c /\ c \intersect {1, 2, 3} # {}
  /\ change_n(cnt_n + worth(c, cnt_mode), cnt_mode)
  /\ UNCHANGED <<cnt_mode, led>>

CounterIdle(c) == c \intersect (0..3) = {} /\ UNCHANGED <<counter, fnd, led>>

CounterPass(c, flag) ==
  /\ Notation(c) \/ Increase(c) \/ CounterIdle(c)
  /\ UNCHANGED <<settime, dot, cur, curmode, text>>
  /\ Send(flag \/ c \intersect (0..3) # {})

-----------------------------------------------------------------------------
(* The number fits into three digits of its notation, also right after the *)
(* notation has changed.                                                   *)
CounterTypeOK ==
  /\ cnt_mode \in {10, 8, 4, 2}
  /\ cnt_n \in 0..(cnt_mode * cnt_mode * cnt_mode - 1)

(* The digits as an odometer: digit k goes on by one and takes its left    *)
(* neighbours along as long as all digits in between stand at their last.  *)
odometer(k, b, d) ==
  LET moves(j) == j \in 2..k /\ \A i \in (j + 1)..k : d[i] = b - 1
  IN  [j \in 1..4 |-> IF moves(j) THEN (d[j] + 1) % b ELSE d[j]]
=============================================================================
