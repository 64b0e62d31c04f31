----------------------------- MODULE MCIOWatch -----------------------------
(* Instances of IOWatch for TLC.                                                 *)
EXTENDS IOWatch, TLC
CONSTANTS a, b
Words == (a :> "IO") @@ (b :> "UDP")
Apart == (a :> 1) @@ (b :> 2)
ReadClose == (a :> {"read", "close"}) @@ (b :> {"read", "close"})
=============================================================================
