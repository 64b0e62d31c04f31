------------------------- MODULE MCReliableTransfer -------------------------
(* Small instances of ReliableTransfer: the messages each of them sends.    *)
EXTENDS ReliableTransfer, TLC

CONSTANTS n1, n2, m1, m2, m3

\* A reliable message to everyone in one fragment, a reliable one to n1 in three,
\* an unreliable one to everyone in two.
MixedFragments == m1 :> 1 @@ m2 :> 3 @@ m3 :> 2
MixedReliable  == m1 :> TRUE @@ m2 :> TRUE @@ m3 :> FALSE
MixedTarget    == m1 :> Everyone @@ m2 :> n1 @@ m3 :> Everyone

\* A reliable message to everyone, of three fragments.
SplitFragments == m2 :> 3
SplitReliable  == m2 :> TRUE
SplitTarget    == m2 :> Everyone

\* A reliable message to everyone and two to n1: of two fragments, and unreliable.
WrapFragments == m1 :> 1 @@ m2 :> 1 @@ m3 :> 2
WrapReliable  == m1 :> TRUE @@ m2 :> TRUE @@ m3 :> FALSE
WrapTarget    == m1 :> Everyone @@ m2 :> n1 @@ m3 :> n1
=============================================================================
