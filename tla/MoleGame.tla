----------------------------- MODULE MoleGame ------------------------------
(***************************************************************************)
(* Mode 4 of main_process in [HW1]20151588/main.c, the mole game: a mole   *)
(* stands at one of the lamps and is caught with the switch beside it.     *)
(***************************************************************************)
EXTENDS OutData, FiniteSetsExt

CONSTANTS
  Holes,     \* places of the mole, one lamp each (8)
  PntWrap    \* the points start again at 0 (10000)

ASSUME MoleAssumption == Holes \in 1..8 /\ PntWrap \in 1..10000

VARIABLES mol_pnt, mol_n

mole == <<mol_pnt, mol_n>>

mol_lis(n) == 2 ^ (7 - n)

(* What one loop over the switches c can catch while the mole stands at n: *)
(* nothing, or n and then whatever it moves to further on in the loop.     *)
catches(c, n) ==
  IF n \in c THEN {K \in SUBSET (c \intersect (0..(Holes - 1))) : K # {} /\ Min(K) = n}
             ELSE {{}}

(* The mole can be at n after the loop over c that caught the moles K.     *)
escapes(c, K, n) == n \notin c \/ n <= Max(K)

MolePass(c, flag) ==
  \E K \in catches(c, mol_n) :
    /\ \/ K = {} /\ UNCHANGED <<mol_n, led>>
       \/ /\ K # {}
          /\ \E n \in 0..(Holes - 1) : escapes(c, K, n) /\ mol_n' = n
          /\ led' = mol_lis(mol_n')
    /\ mol_pnt' = ((IF 8 \in c THEN 0 ELSE mol_pnt) + 100 * Cardinality(K)) % PntWrap
    /\ fnd' = digits(mol_pnt')
    /\ UNCHANGED <<settime, dot, cur, curmode, text>>
    /\ Send(flag \/ 8 \in c \/ K # {})

-----------------------------------------------------------------------------
(* The mole stands at a lamp, and the points have four digits.             *)
MoleTypeOK == mol_n \in 0..(Holes - 1) /\ mol_pnt \in 0..(PntWrap - 1)
=============================================================================
