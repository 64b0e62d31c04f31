--------------------------- MODULE MCNodeBinding ---------------------------
(* Instances of NodeBinding for TLC.                                             *)
EXTENDS NodeBinding
CONSTANTS packet, ping
OwnKey == [e \in Event |-> e]
=============================================================================
