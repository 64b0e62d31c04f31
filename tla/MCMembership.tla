---------------------------- MODULE MCMembership ----------------------------
(* Instances of Membership for TLC. *)
EXTENDS Membership

CONSTANTS k1, k2, t1, t2
=============================================================================
