----------------------------- MODULE MCActivity -----------------------------
(* Activity for TLC: a larger board in the first activity, small ones in   *)
(* the second; sizes that are refused or crash.  SmallSizes: two games of  *)
(* two tiles.                                                              *)
EXTENDS Activity

SomeSizes ==
  <<{<<2, 3>>, <<1, 1>>, <<6, 2>>, <<0, 3>>}, {<<2, 2>>, <<1, 2>>}>>

SmallSizes == <<{<<1, 2>>}, {<<1, 2>>}>>
=============================================================================
