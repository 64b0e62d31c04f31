--------------------------- MODULE MCChronoTasks ---------------------------
(* Instances of ChronoTasks for TLC.                                             *)
EXTENDS ChronoTasks, TLC
CONSTANTS every, delay, dog, food
Feeding == dog :> food
Forth == {-1, 2}
=============================================================================
