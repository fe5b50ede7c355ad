---------------------------- MODULE MCMultiPath ----------------------------
(* An instance of MultiPath for TLC: the hashes of two of three flows      *)
(* collide, and two ECMP keys differ by a multiple of the number of ports. *)
EXTENDS MultiPath, TLC

CONSTANTS f1, f2, f3

Hash == (f1 :> "x") @@ (f2 :> "x") @@ (f3 :> "y")
HashKeys == (f1 :> 0) @@ (f2 :> 2) @@ (f3 :> 1)
=============================================================================
