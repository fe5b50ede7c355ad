------------------------------ MODULE MCHermes ------------------------------
(* An instance of Hermes for TLC: two paths to the peer and one from it,   *)
(* delays in units of 1E-5 s.  The turns of several rows (CaRows) are      *)
(* checked with Clove.                                                     *)
EXTENDS Hermes, TLC

CONSTANTS k1

Packets == {k1} \X BOOLEAN \X {1, 2}
SomeRatios == {<<0, 1>>, <<1, 2>>, <<1, 1>>}
ThEcn == <<2, 5>>
DeltaEcn == <<1, 20>>
=============================================================================
