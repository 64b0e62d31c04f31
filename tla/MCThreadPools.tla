--------------------------- MODULE MCThreadPools ---------------------------
(* Instances of ThreadPools for TLC: the main pool and one more.                 *)
EXTENDS ThreadPools
CONSTANTS main, work, trace, m, w, x, g1, g2
OneThreadEach == (m :> main) @@ (w :> work) @@ (x :> trace)

(* Tasks 1 and 2 share a group; 1 emits 3, which runs inline if it can; 4 is idle. *)
FewTask == 1..4
FewId == [h \in FewTask |-> h]
FewPriority == [h \in FewTask |-> IF h = 2 THEN 1 ELSE 0]
FewGroups == (1 :> <<g2>>) @@ (2 :> <<g1>>) @@ (3 :> <<g1, g2>>) @@ (4 :> <<>>)
BothGroups == (1 :> <<g2>>) @@ (2 :> <<g1, g2>>) @@ (3 :> <<g1, g2>>) @@ (4 :> <<>>)
FewTarget == (1 :> work) @@ (2 :> trace) @@ (3 :> main) @@ (4 :> main)
FewChildren == (1 :> {3}) @@ (2 :> {}) @@ (3 :> {}) @@ (4 :> {})
BothChildren == (1 :> {2, 3}) @@ (2 :> {}) @@ (3 :> {}) @@ (4 :> {})
FewIdlePool == (2 :> work) @@ (4 :> None)
OneEach == [g \in Group |-> 1]
=============================================================================
