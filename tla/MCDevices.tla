------------------------------ MODULE MCDevices ------------------------------
(* Devices for TLC: pictures of each mode, on a matrix of two by two.      *)
EXTENDS Devices

SmallCells == (0..1) \X (0..1)

pic(v, l, s, d, c, m) ==
  [end |-> FALSE, val |-> v, led |-> l, settime |-> s, dot |-> d, cur |-> c,
   curmode |-> m]

(* The clock, the clock being set, the text editor (the second time with a *)
(* letter in out.curmode), the draw board, the mole game, the end.         *)
SomeMessages ==
  {pic(1, 128, 0, {}, <<0, 0>>, 0),
   pic(1, 32, 1, {}, <<0, 0>>, 0), pic(0, 32, 1, {}, <<0, 0>>, 0),
   pic(0, 0, 0, {<<0, 0>>, <<1, 0>>}, <<0, 0>>, 0),
   pic(1, 0, 0, {<<0, 0>>, <<1, 0>>}, <<0, 0>>, 46 * 2 ^ 24),
   pic(0, 0, 0, {}, <<1, 0>>, 1), pic(1, 0, 0, {<<1, 0>>}, <<1, 0>>, 1),
   pic(0, 0, 0, {<<0, 1>>}, <<1, 0>>, 0),
   pic(0, 8, 0, {}, <<0, 0>>, 0),
   [pic(0, 0, 0, {}, <<0, 0>>, 0) EXCEPT !.end = TRUE]}

SomeLeftData ==
  {pic(0, 0, 0, {}, <<0, 0>>, 0), pic(1, 300, 0, SmallCells, <<0, 0>>, 0),
   pic(1, -1, 7, {}, <<0, 1>>, 5),
   [pic(1, 300, 0, {<<0, 0>>}, <<1, 1>>, 1) EXCEPT !.end = TRUE]}
=============================================================================
