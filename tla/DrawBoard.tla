----------------------------- MODULE DrawBoard -----------------------------
(***************************************************************************)
(* Mode 3 of main_process in [HW1]20151588/main.c, the draw board: a       *)
(* cursor moves over the dot matrix and turns cells on and off.            *)
(***************************************************************************)
EXTENDS OutData

CONSTANTS Width, Height   \* of the dot matrix: 7 and 10

ASSUME DrawAssumption == {Width, Height} \subseteq Nat \ {0}

VARIABLE brd_cnt

Cells == (0..(Width - 1)) \X (0..(Height - 1))

(* X is turned over. *)
Flip(X) == dot' = (dot \ X) \union (X \ dot)

(* The pass sees the switch with the lowest number only. *)
sees(c, s) == s \in c /\ \A r \in c : s <= r

Reset(c) ==
  /\ sees(c, 0)
  /\ dot' = {} /\ cur' = <<0, 0>> /\ curmode' = 1
  /\ brd_cnt' = 0

(* One cell back or on, but for the edges of n cells.  Mutant: the cursor  *)
(* leaves the matrix.                                                      *)
back(x) == IF x >= 1 THEN x - 1 ELSE x
on_off(x, n) == IF x <= n - 1 THEN x + 1 ELSE x

on(x, n) == IF x <= n - 2 THEN x + 1 ELSE x

(* Up, left, right and down. *)
Move(c) ==
  /\ \/ sees(c, 1) /\ cur' = <<cur[1], back(cur[2])>>
     \/ sees(c, 3) /\ cur' = <<back(cur[1]), cur[2]>>
     \/ sees(c, 5) /\ cur' = <<on(cur[1], Width), cur[2]>>
     \/ sees(c, 7) /\ cur' = <<cur[1], on(cur[2], Height)>>
  /\ UNCHANGED <<dot, curmode>>

Cursor(c) ==
  /\ sees(c, 2)
  /\ curmode' = 1 - curmode
  /\ UNCHANGED <<dot, cur>>

(* Select, clear and reverse. *)
Paint(c) ==
  /\ \/ sees(c, 4) /\ Flip({cur})
     \/ sees(c, 6) /\ dot' = {}
     \/ sees(c, 8) /\ Flip(Cells)
  /\ UNCHANGED <<cur, curmode>>

DrawIdle(c) == c = {} /\ UNCHANGED <<dot, cur, curmode, brd_cnt>>

DrawPass(c, flag) ==
  /\ \/ Reset(c) \/ DrawIdle(c)
     \/ /\ Move(c) \/ Cursor(c) \/ Paint(c)
        /\ brd_cnt' = (brd_cnt + 1) % CntWrap
  /\ fnd' = digits(brd_cnt')
  /\ UNCHANGED <<led, settime, text>>
  /\ Send(flag \/ c # {})

-----------------------------------------------------------------------------
(* The count of touches has four digits.                                   *)
DrawTypeOK == brd_cnt \in 0..(CntWrap - 1)
=============================================================================
