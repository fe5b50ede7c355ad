------------------------------ MODULE MCConga ------------------------------
(* An instance of Conga for TLC: two leaves that talk to each other, one   *)
(* with two up-link ports, the other with one.                             *)
EXTENDS Conga, TLC

CONSTANTS a, b

Slots == (a :> 2) @@ (b :> 1)
Pairs == {<<a, b>>, <<b, a>>}
=============================================================================
