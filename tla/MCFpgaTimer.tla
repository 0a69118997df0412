---------------------------- MODULE MCFpgaTimer ----------------------------
(* FpgaTimer for TLC.  17 pictures take the position on twice and turn     *)
(* both texts round; no picture; and, for the run that takes it, a start   *)
(* that does not fit.                                                      *)
EXTENDS FpgaTimer

GoodArgs == {<<3, 17, 300>>, <<1, 3, 7000>>, <<5, 0, 42>>}

AnyArgs == {<<3, 17, 300>>, <<1, 3, 7000>>, <<5, 0, 42>>, <<1, 1, 0>>}
=============================================================================
