------------------------------ MODULE MultiPath ------------------------------
(***************************************************************************)
(* MultiPathForwarder (classifier/classifier-mpath.cc), which picks one of *)
(* the equal-cost next hops of a switch for every packet: at random or by  *)
(* Conga for every packet (loadBalancePerPacket_), or for every flowlet    *)
(* (loadBalanceFlowlet_), or by the packet's hash key (ECMP).  What        *)
(* mpath_route returns, rand() or the choice of Conga, is any key.         *)
(*                                                                         *)
(* The network behind the ports is external: a port keeps its packets in   *)
(* order and delivers each within MaxDelay, which may be far more than the *)
(* gap of a flowlet (queues).  The state keeps ages in place of time       *)
(* stamps.                                                                 *)
(***************************************************************************)
EXTENDS Integers, Sequences

CONSTANTS
  Flows,          \* flows through the switch
  crc,            \* hash of a flow's addresses, ports and hash key
  ecmpHashKey,    \* hash key in the headers of a flow's packets
  SLOTS,          \* maxslot_ + 1
  Keys,           \* numbers that mpath_route may return
  T_FLOWLET,      \* 1E-4 s, the gap that ends a flowlet
  MaxDelay,       \* bound: longest time from the switch to the destination
  MaxTransit      \* bound: packets under way on a port

ASSUME HashAssumption == ecmpHashKey \in [Flows -> Nat] /\ DOMAIN crc = Flows
ASSUME SlotsAssumption == SLOTS \in Nat \ {0} /\ Keys \subseteq Nat
ASSUME DelayAssumption == T_FLOWLET \in Nat /\ MaxDelay \in Nat
ASSUME MaxTransitAssumption == MaxTransit \in Nat

Ports == 0 .. SLOTS - 1

VARIABLES
  balance,        \* "packet", "flowlet" or "ecmp"
  FlowletTable,   \* flowHashKey -> flowChosenKey and age of the time stamp
  transit         \* per port, the packets under way, in order

vars == <<balance, FlowletTable, transit>>

Init ==
  /\ balance \in {"packet", "flowlet", "ecmp"}
  /\ FlowletTable = << >>
  /\ transit = [p \in Ports |-> << >>]

-----------------------------------------------------------------------------

(* Mutant: the flowlet ends a fixed time after its first packet.           *)
SameFlowlet_First(h) == [key |-> FlowletTable[h].key, age |-> FlowletTable[h].age]

(* The record after another packet of the flowlet.                         *)
SameFlowlet(h) == [key |-> FlowletTable[h].key, age |-> 0]

(* A packet of hash h belongs to the flowlet in the table.                 *)
Continues(h) == h \in DOMAIN FlowletTable /\ FlowletTable[h].age <= T_FLOWLET

(* balance_flowlet() with the result k: mpath_route is called for a new    *)
(* flowlet only.                                                           *)
balance_flowlet(h, k) ==
  /\ IF Continues(h) THEN k = FlowletTable[h].key ELSE k \in Keys
  /\ FlowletTable' = [g \in DOMAIN FlowletTable \cup {h} |->
                        IF g # h THEN FlowletTable[g]
                        ELSE IF Continues(h) THEN SameFlowlet(h)
                        ELSE [key |-> k, age |-> 0]]

balance_ecmp(key) == key % SLOTS

(* cl = key % (maxslot_ + 1).                                              *)
Slot(k) == k % SLOTS

(* classify(): a packet of flow f leaves on the port of key k.             *)
Classify(f, k) ==
  /\ Len(transit[Slot(k)]) < MaxTransit
  /\ CASE balance = "packet"  -> k \in Keys /\ UNCHANGED FlowletTable
       [] balance = "flowlet" -> balance_flowlet(crc[f], k)
       [] balance = "ecmp"    -> k = balance_ecmp(ecmpHashKey[f])
                                 /\ UNCHANGED FlowletTable
  /\ transit' = [transit EXCEPT ![Slot(k)] = Append(@, [flow |-> f, age |-> 0])]
  /\ UNCHANGED balance

(* The first packet on port p reaches its destination.                     *)
Deliver(p) ==
  /\ transit[p] # << >>
  /\ transit' = [transit EXCEPT ![p] = Tail(@)]
  /\ UNCHANGED <<balance, FlowletTable>>

Older(age) == IF age > T_FLOWLET THEN age ELSE age + 1

(* Time passes, but no packet is under way for longer than MaxDelay.       *)
Tick ==
  /\ \A p \in Ports : \A i \in DOMAIN transit[p] : transit[p][i].age < MaxDelay
  /\ transit' = [p \in Ports |->
                   [i \in DOMAIN transit[p] |-> [transit[p][i] EXCEPT !.age = @ + 1]]]
  /\ FlowletTable' = [h \in DOMAIN FlowletTable |->
                        [FlowletTable[h] EXCEPT !.age = Older(@)]]
  /\ UNCHANGED balance

Next ==
  \/ \E f \in Flows, k \in Keys \cup Ports : Classify(f, k)
  \/ \E p \in Ports : Deliver(p)
  \/ Tick

Spec == Init /\ [][Next]_vars

-----------------------------------------------------------------------------
(* Properties.                                                             *)

(* How far load balancing can reorder a flow.  Two packets of a flow that  *)
(* are under way on different ports, so that one can overtake the other,   *)
(* are never an ECMP choice; with flowlets (balance_flowlet) they left     *)
(* more than T_FLOWLET apart.  So a packet is overtaken only if its port   *)
(* is slower than the other by more than the gap, although flows with the  *)
(* same hash share a record and move each other.                           *)
OvertakenByGap ==
  \A p, q \in Ports : \A i \in DOMAIN transit[p], j \in DOMAIN transit[q] :
    LET x == transit[p][i]
        y == transit[q][j]
    IN  p # q /\ x.flow = y.flow =>
          \/ balance = "packet"
          \/ balance = "flowlet" /\ (x.age > y.age + T_FLOWLET \/ y.age > x.age + T_FLOWLET)
=============================================================================
