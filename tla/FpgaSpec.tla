------------------------------ MODULE FpgaSpec ------------------------------
(***************************************************************************)
(* What the FPGA timer driver of [HW2]20151588 shows its user.  A job has  *)
(* a number of repetitions, a position on the FND and a value.  Picture k  *)
(* of a job is given outright: the value goes round 1..8, the position     *)
(* moves on after each round, and the two texts walk to and fro on their   *)
(* lines.  After the last picture the board is cleared.                    *)
(***************************************************************************)
EXTENDS Integers

Jobs == [rep : 0..255, pos : 0..3, val : 1..8]

Blank == [pos |-> -1, val |-> -1, id |-> -1, name |-> -1]

VARIABLES busy, job, k, board

vars == <<busy, job, k, board>>

(* Where a text is that walks from 0 to room and back, one place a step.   *)
Walk(n, room) ==
  LET r == n % (2 * room) IN IF r <= room THEN r ELSE 2 * room - r

Picture(j, n) ==
  [pos  |-> (j.pos + n \div 8) % 4,
   val  |-> ((j.val - 1 + n) % 8) + 1,
   id   |-> Walk(n, 8),
   name |-> Walk(n, 5)]

Init == busy = FALSE /\ job \in Jobs /\ k = 0 /\ board = Blank

Start == ~busy /\ busy' = TRUE /\ job' \in Jobs /\ k' = 0 /\ UNCHANGED board

Show ==
  /\ busy /\ k < job.rep
  /\ board' = Picture(job, k)
  /\ k' = k + 1
  /\ UNCHANGED <<busy, job>>

Finish ==
  /\ busy /\ k = job.rep
  /\ busy' = FALSE /\ k' = 0 /\ board' = Blank
  /\ UNCHANGED job

(* The driver is removed: the board keeps its picture. *)
Remove == busy' = FALSE /\ k' = 0 /\ UNCHANGED <<job, board>>

Next == Start \/ Show \/ Finish \/ Remove

Spec == Init /\ [][Next]_vars
=============================================================================
