----------------------------- MODULE PuzzleSpec -----------------------------
(***************************************************************************)
(* A sliding puzzle on a grid of cells <<line, place>>: a tile next to the *)
(* gap (tile 0) slides into it.                                            *)
(***************************************************************************)
EXTENDS Integers

VARIABLE grid

Distance(a, b) ==
  LET d(x, y) == IF x < y THEN y - x ELSE x - y
  IN  d(a[1], b[1]) + d(a[2], b[2])

Exchanged(a, b) == [grid EXCEPT ![a] = grid[b], ![b] = grid[a]]

Slide ==
  \E a, b \in DOMAIN grid :
    /\ grid[a] = 0
    /\ Distance(a, b) = 1
    /\ grid' = Exchanged(a, b)

(* A grid of some size with all tiles in order and the gap at the end. *)
InOrder(g) ==
  \E r, c \in 1..5 :
    /\ DOMAIN g = (0..(r - 1)) \X (0..(c - 1))
    /\ \A x \in DOMAIN g : g[x] = (x[1] * c + x[2] + 1) % (r * c)

Init == grid = <<>>

(* A game is dealt; the board is taken away. *)
Deal == InOrder(grid')

Gone == grid' = <<>>

Spec == Init /\ [][Gone \/ Slide \/ Deal]_grid
=============================================================================
