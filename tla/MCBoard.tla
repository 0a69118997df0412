------------------------------ MODULE MCBoard ------------------------------
(* Board for TLC: what the memory of a process can hold when it starts.    *)
EXTENDS Board

CleanEvents == {NoEvent}
CleanData   == {mode_init(0)}

DirtyEvents == {NoEvent, <<"vol+", TRUE>>, <<"back", TRUE>>}
DirtyData   == {mode_init(0), mode_init(3), [mode_init(0) EXCEPT !.end = TRUE]}
=============================================================================
