------------------------------ MODULE OutData ------------------------------
(***************************************************************************)
(* out, the out_data of main_process in [HW1]20151588/main.c: the picture  *)
(* that the five modes fill in and that the main process sends to the      *)
(* output process whenever a pass has set outflag.                         *)
(*                                                                         *)
(* out.text is modelled with the byte before it, index -1: the most        *)
(* significant byte of out.curmode, which lies there in out_data on the    *)
(* little-endian ARM; curmode is the other bytes.  out.dot is the set of   *)
(* the cells <<x, y>> that are on; a letter of dot_mode, which is shown as *)
(* a whole, is one cell <<-1, k>>.                                         *)
(***************************************************************************)
EXTENDS Integers

CONSTANTS
  Cap,       \* bytes of out.text (32)
  CntWrap    \* the counts of the modes start again at 0 (10000)

ASSUME OutAssumption == Cap \in Nat \ {0} /\ CntWrap \in 1..10000

VARIABLES
  fnd, led, settime, dot, cur, curmode, text,  \* the fields of out
  shown      \* history: the last message to the output process carried out
             \*   as it is now

out == <<fnd, led, settime, dot, cur, curmode, text>>

(* The four decimal digits of a count. *)
digits(n) == <<n \div 1000, (n % 1000) \div 100, (n % 100) \div 10, n % 10>>

NUL      == <<"nul", 0, 0>>
Blank    == [k \in -1..(Cap - 1) |-> NUL]

dot_mode(k) == {<<-1, k>>}

(* The end of a pass: with outflag set, out goes to the output process. *)
Send(outflag) == shown' = (outflag \/ (shown /\ UNCHANGED out))
=============================================================================
