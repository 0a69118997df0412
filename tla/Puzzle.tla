------------------------------- MODULE Puzzle -------------------------------
(***************************************************************************)
(* The board of the sliding puzzle of [HW4]20151588, MainActivity2.java:   *)
(* size, shuffle, click and check.  num is the array of shuffle() and,     *)
(* from make_button() on, the labels of the buttons, 0 for the empty one.  *)
(* The activity that puts the board on the screen is in Activity.          *)
(***************************************************************************)
EXTENDS Integers, FiniteSetsExt

VARIABLES
  phase,      \* "size": no buttons yet; "shuffle"; "play"
  row, col, num

board == <<phase, row, col, num>>

Cells == 0..(row * col - 1)

(* check_shuffle and check_puzzle: all tiles but the gap are in order.     *)
sorted(n) == \A i \in Cells \ {row * col - 1} : n[i] = i + 1

(* Mutant of swap: the second label is overwritten first. *)
swap_loses(n, a, b) == [n EXCEPT ![a] = n[b]]

swap(n, a, b) == [n EXCEPT ![a] = n[b], ![b] = n[a]]

NoBoard    == phase = "size" /\ row = 0 /\ col = 0 /\ num = <<>>
ClearBoard == phase' = "size" /\ row' = 0 /\ col' = 0 /\ num' = <<>>

-----------------------------------------------------------------------------
(* The size is refused, or has no cells (num[row*col-1] = 0 does not       *)
(* exist); or the tiles are dealt in order.                                *)
refused(s) == s[1] > 5 \/ s[2] > 5 \/ s = <<1, 1>>
void(s)    == ~refused(s) /\ s[1] * s[2] = 0

Deal(s) ==
  /\ ~refused(s) /\ ~void(s)
  /\ row' = s[1] /\ col' = s[2]
  /\ num' = [i \in 0..(row' * col' - 1) |-> (i + 1) % (row' * col')]
  /\ phase' = "shuffle"

(* The four edges, for shuffle and for the clicks.  Mutant of has_right:   *)
(* the right edge is looked for at the end of the board only.              *)
has_right_wraps(i) == i # row * col - 1

has_left(i)  == i % col # 0
has_right(i) == i % col # col - 1
has_up(i)    == i \div col # 0
has_down(i)  == i \div col # row - 1

(* shuffle(): the gap goes one step left, right, up or down, unless it is  *)
(* at that edge; and this again and again, until check_shuffle says that   *)
(* the order is not the first one.                                         *)
gap == CHOOSE j \in Cells : num[j] = 0

Shuffle ==
  /\ phase = "shuffle"
  /\ \/ has_left(gap)  /\ num' = swap(num, gap, gap - 1)
     \/ has_right(gap) /\ num' = swap(num, gap, gap + 1)
     \/ has_up(gap)    /\ num' = swap(num, gap, gap - col)
     \/ has_down(gap)  /\ num' = swap(num, gap, gap + col)
  /\ UNCHANGED <<phase, row, col>>

(* A click on button i: four tests, one after the other, each on the       *)
(* labels the one before left behind.  One test: if the button b is there  *)
(* and empty, i slides into it.                                            *)
into(n, i, there, b) == IF there /\ n[b] = 0 THEN swap(n, i, b) ELSE n

clicked(i) ==
  LET left  == into(num, i, has_left(i), i - 1)
      right == into(left, i, has_right(i), i + 1)
      up    == into(right, i, has_up(i), i - col)
  IN  into(up, i, has_down(i), i + col)

Click(i) ==
  /\ phase = "play"
  /\ num' = clicked(i)
  /\ UNCHANGED <<phase, row, col>>

-----------------------------------------------------------------------------
(* The labels are those of the board, each once, from the deal on.         *)
BoardTypeOK ==
  /\ phase \in {"size", "shuffle", "play"}
  /\ {row, col} \subseteq Nat
  /\ phase # "size"
       => /\ DOMAIN num = Cells
          /\ {num[i] : i \in Cells} = Cells

(* The pairs of cells whose labels, the gap counted as the highest, are in *)
(* the wrong order.                                                        *)
rank(i) == IF num[i] = 0 THEN row * col ELSE num[i]
inversions == {p \in Cells \X Cells : p[1] < p[2] /\ rank(p[1]) > rank(p[2])}
away == (row - 1 - (gap \div col)) + (col - 1 - (gap % col))

(* The parity no slide can change: the order of the labels is odd or even  *)
(* as the gap is an odd or an even number of steps from its corner.  An    *)
(* order without it cannot be solved; on a board of one row or column not  *)
(* every order that has it can be either, there AbsSpec says more.         *)
SameParity ==
  phase # "size" => Cardinality(inversions) % 2 = away % 2

(* The index arithmetic of shuffle and of the click handler is the         *)
(* geometry of the grid: one tile slides, into a neighbouring cell, never  *)
(* round the edge of a row, and no click moves two tiles.                  *)
Abs == INSTANCE PuzzleSpec
         WITH grid <- IF phase = "size" THEN <<>>
                      ELSE [x \in (0..(row - 1)) \X (0..(col - 1))
                              |-> num[x[1] * col + x[2]]]

AbsSpec == Abs!Spec
=============================================================================
