--------------------------- MODULE OrderedChannel ---------------------------
(***************************************************************************)
(* What CLB promises the node above it: although packets take several      *)
(* paths, the receiving node sees them as over one FIFO channel, in the    *)
(* order in which the sending node's CLBProcessor numbered them.           *)
(***************************************************************************)
EXTENDS Integers, Sequences

CONSTANT MaxSeq         \* bound: how many packets are sent

VARIABLES
  sent,                 \* number of packets sent
  delivered             \* packets received by the node, in order

vars == <<sent, delivered>>

Init == sent = 0 /\ delivered = << >>

Send ==
  /\ sent < MaxSeq
  /\ sent' = sent + 1
  /\ UNCHANGED delivered

(* The next n packets reach the node together.                             *)
Deliver ==
  \E n \in 1 .. sent - Len(delivered) :
    /\ delivered' = delivered \o [i \in 1 .. n |-> Len(delivered) + i]
    /\ UNCHANGED sent

Next == Send \/ Deliver

Spec == Init /\ [][Next]_vars

FairSpec == Spec /\ WF_vars(Deliver)
=============================================================================
