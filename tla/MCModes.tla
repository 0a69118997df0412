------------------------------ MODULE MCModes ------------------------------
(* Modes for TLC.  The switches of a message: none or one, in every mode;  *)
(* the chords of the text editor; two that are pressed together elsewhere. *)
EXTENDS Modes

SomeChords ==
  [m \in 0..4 |->
     CASE m = 0 -> {{}, {0}, {1}, {2}, {3}, {0, 3}, {1, 2}}
       [] m = 1 -> {{}, {0}, {1}, {2}, {3}, {2, 3}}
       [] m = 2 -> {{}, {1, 2}, {4, 5}, {7, 8}, {0}, {3, 8}}
       [] m = 3 -> {{}} \union {{s} : s \in 0..8} \union {{4, 5}}
       [] m = 4 -> {{}, {0}, {1}, {0, 1}, {1, 8}, {5}}]

(* What the states of a run differ in.  devtime is set on entering the     *)
(* clock and mol_n on entering the mole game; the other modes do not look  *)
(* at them, nor at the local time.                                         *)
live ==
  <<mode, in, flown, prevtime, counter, editor, brd_cnt, mol_pnt, out, shown,
    IF mode = 0 THEN <<now, devtime, IF touched THEN -1 ELSE missed>> ELSE <<>>,
    IF mode = 4 THEN mol_n ELSE 0>>
=============================================================================
