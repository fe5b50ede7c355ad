--------------------------- MODULE MultiPathProofs ---------------------------
(***************************************************************************)
(* Proofs about MultiPath, for every number of flows, ports and packets    *)
(* under way, and however long they are under way.  What a new packet has  *)
(* to be compared with are all packets of its flow under way, of which the *)
(* forwarder only knows the record of the last one: each packet under way  *)
(* is on the record's port or more than a gap old.                         *)
(***************************************************************************)
EXTENDS MultiPath, SequenceTheorems, TLAPS

UnderWay == [flow : Flows, age : 0 .. MaxDelay]

(* The ages that the two clocks compare.                                   *)
AgesOK ==
  /\ transit \in [Ports -> Seq(UnderWay)]
  /\ \A h \in DOMAIN FlowletTable : FlowletTable[h] \in [key : Nat, age : Nat]

(* A packet x on port p that agrees with the record of its flow: sent no   *)
(* later than the record's last packet, and on the record's port unless a  *)
(* gap has passed.                                                         *)
WithRecord(p, x) ==
  LET h == crc[x.flow]
  IN  /\ h \in DOMAIN FlowletTable
      /\ FlowletTable[h].age <= x.age
      /\ p = Slot(FlowletTable[h].key) \/ x.age > T_FLOWLET

ByHash(p, x) == p = Slot(balance_ecmp(ecmpHashKey[x.flow]))

(* Two packets of a flow left more than a gap apart.                       *)
Spaced(x, y) ==
  x.flow = y.flow => x.age > y.age + T_FLOWLET \/ y.age > x.age + T_FLOWLET

Apart ==
  \A p, q \in Ports : \A i \in DOMAIN transit[p], j \in DOMAIN transit[q] :
    p # q => Spaced(transit[p][i], transit[q][j])

FlowInv ==
  /\ AgesOK
  /\ balance = "flowlet" =>
       \A p \in Ports : \A i \in DOMAIN transit[p] : WithRecord(p, transit[p][i])
  /\ balance = "ecmp" =>
       \A p \in Ports : \A i \in DOMAIN transit[p] : ByHash(p, transit[p][i])
  /\ balance = "flowlet" => Apart
  /\ balance \in {"packet", "flowlet", "ecmp"}

-----------------------------------------------------------------------------

LEMMA FlowInit == Init => FlowInv
  BY DEF Init, FlowInv, AgesOK, Apart

(* Every key stands for a port.                                            *)
LEMMA SlotIsPort == \A k \in Keys \cup Ports : k \in Nat /\ Slot(k) \in Ports
  BY SlotsAssumption DEF Slot, Ports

(* What every branch of classify does to the packets under way.            *)
LEMMA ClassifyTransit ==
  ASSUME FlowInv, NEW f \in Flows, NEW k \in Keys \cup Ports, Classify(f, k)
  PROVE  /\ transit' \in [Ports -> Seq(UnderWay)]
         /\ \A p \in Ports : \A i \in DOMAIN transit'[p] :
              \/ i \in DOMAIN transit[p] /\ transit'[p][i] = transit[p][i]
              \/ p = Slot(k) /\ transit'[p][i] = [flow |-> f, age |-> 0]
<1> DEFINE x == [flow |-> f, age |-> 0]
           s == transit[Slot(k)]
<1>1. x \in UnderWay
  BY DelayAssumption DEF UnderWay
<1>2. s \in Seq(UnderWay) /\ transit \in [Ports -> Seq(UnderWay)] /\ Slot(k) \in Ports
  BY SlotIsPort DEF FlowInv, AgesOK
<1>3. transit' = [transit EXCEPT ![Slot(k)] = Append(s, x)]
  BY DEF Classify
<1> HIDE DEF x
<1>4. /\ Append(s, x) \in Seq(UnderWay)
      /\ Len(Append(s, x)) = Len(s) + 1
      /\ \A i \in 1 .. Len(s) : Append(s, x)[i] = s[i]
      /\ Append(s, x)[Len(s) + 1] = x
  BY <1>1, <1>2, AppendProperties
<1>5. \A i \in DOMAIN Append(s, x) :
        \/ i \in DOMAIN s /\ Append(s, x)[i] = s[i]
        \/ Append(s, x)[i] = x
  BY <1>2, <1>4
<1> HIDE DEF s
<1>6. \A p \in Ports : transit'[p] = IF p = Slot(k) THEN Append(s, x) ELSE transit[p]
  BY <1>2, <1>3
<1>7. transit' \in [Ports -> Seq(UnderWay)]
  BY <1>2, <1>3, <1>4
<1> QED
  BY <1>5, <1>6, <1>7 DEF x, s

(* A flow's record is replaced only when its last packet, and so each of   *)
(* its packets under way, is more than a gap old.                          *)
LEMMA ClassifyInv ==
  ASSUME FlowInv, NEW f \in Flows, NEW k \in Keys \cup Ports, Classify(f, k)
  PROVE  FlowInv'
<1>1. balance' = balance
  BY DEF Classify
<1>2. /\ transit' \in [Ports -> Seq(UnderWay)]
      /\ \A p \in Ports : \A i \in DOMAIN transit'[p] :
           \/ i \in DOMAIN transit[p] /\ transit'[p][i] = transit[p][i]
           \/ p = Slot(k) /\ transit'[p][i] = [flow |-> f, age |-> 0]
  BY ClassifyTransit
<1>3. /\ \A p \in Ports : \A i \in DOMAIN transit[p] : transit[p][i] \in UnderWay
      /\ \A g \in DOMAIN FlowletTable : FlowletTable[g] \in [key : Nat, age : Nat]
  BY DEF FlowInv, AgesOK
<1>4. CASE balance = "flowlet"
  <2> DEFINE h == crc[f]
  <2>1. balance_flowlet(h, k)
    BY <1>4 DEF Classify
  <2>2. /\ DOMAIN FlowletTable' = DOMAIN FlowletTable \cup {h}
        /\ \A g \in DOMAIN FlowletTable : g # h => FlowletTable'[g] = FlowletTable[g]
        /\ FlowletTable'[h] = [key |-> k, age |-> 0]
    BY <2>1 DEF balance_flowlet, SameFlowlet, Continues
  <2>3. AgesOK'
    BY <1>2, <1>3, <2>2, SlotIsPort DEF AgesOK
  <2>4. ASSUME NEW p \in Ports, NEW i \in DOMAIN transit'[p]
        PROVE  WithRecord(p, transit[p][i])'
    <3>1. CASE i \in DOMAIN transit[p] /\ transit'[p][i] = transit[p][i]
      <4>1. WithRecord(p, transit[p][i]) /\ transit[p][i] \in UnderWay
        BY <1>4, <1>3, <3>1 DEF FlowInv
      <4>2. CASE crc[transit[p][i].flow] # h
        BY <2>2, <3>1, <4>1, <4>2 DEF WithRecord, Slot
      <4>3. CASE crc[transit[p][i].flow] = h
        <5>1. CASE Continues(h)
          <6>1. k = FlowletTable[h].key
            BY <2>1, <5>1 DEF balance_flowlet
          <6> QED
            BY <2>2, <3>1, <4>1, <4>3, <6>1 DEF WithRecord, Slot, UnderWay
        <5>2. CASE ~ Continues(h)
          <6>1. transit[p][i].age > T_FLOWLET
            BY <1>3, <4>1, <4>3, <5>2, DelayAssumption DEF WithRecord, Continues, UnderWay
          <6> QED
            BY <2>2, <3>1, <4>1, <4>3, <6>1 DEF WithRecord, Slot, UnderWay
        <5> QED
          BY <5>1, <5>2
      <4> QED
        BY <4>2, <4>3
    <3>2. CASE p = Slot(k) /\ transit'[p][i] = [flow |-> f, age |-> 0]
      BY <2>2, <3>2 DEF WithRecord, Slot
    <3> QED
      BY <1>2, <3>1, <3>2
  <2>5. ASSUME NEW p \in Ports, NEW i \in DOMAIN transit'[p], p # Slot(k),
               transit'[p][i].flow = f
        PROVE  transit'[p][i].age > T_FLOWLET
    BY <2>2, <2>4, <2>5 DEF WithRecord, Slot
  <2>6. ASSUME NEW p \in Ports, NEW q \in Ports, p # q,
               NEW i \in DOMAIN transit'[p], NEW j \in DOMAIN transit'[q]
        PROVE  Spaced(transit'[p][i], transit'[q][j])
    <3>1. CASE p = Slot(k) /\ transit'[p][i] = [flow |-> f, age |-> 0]
      BY <2>5, <2>6, <3>1, DelayAssumption DEF Spaced
    <3>2. CASE q = Slot(k) /\ transit'[q][j] = [flow |-> f, age |-> 0]
      BY <2>5, <2>6, <3>2, DelayAssumption DEF Spaced
    <3>3. CASE /\ i \in DOMAIN transit[p] /\ transit'[p][i] = transit[p][i]
               /\ j \in DOMAIN transit[q] /\ transit'[q][j] = transit[q][j]
      BY <1>4, <2>6, <3>3 DEF FlowInv, Apart
    <3> QED
      BY <1>2, <3>1, <3>2, <3>3
  <2>7. Apart'
    BY <2>6 DEF Apart, Spaced
  <2> QED
    BY <1>1, <1>4, <2>3, <2>4, <2>7 DEF FlowInv
<1>5. CASE balance = "ecmp"
  <2>1. k = balance_ecmp(ecmpHashKey[f]) /\ UNCHANGED FlowletTable
    BY <1>5 DEF Classify
  <2>2. AgesOK'
    BY <1>2, <1>3, <2>1 DEF AgesOK
  <2>3. ASSUME NEW p \in Ports, NEW i \in DOMAIN transit'[p]
        PROVE  ByHash(p, transit[p][i])'
    BY <1>5, <1>2, <2>1 DEF ByHash, FlowInv, Slot, balance_ecmp
  <2> QED
    BY <1>1, <1>5, <2>2, <2>3 DEF FlowInv
<1>6. CASE balance = "packet"
  <2>1. UNCHANGED FlowletTable
    BY <1>6 DEF Classify
  <2> QED
    BY <1>1, <1>6, <1>2, <1>3, <2>1 DEF FlowInv, AgesOK
<1> QED
  BY <1>4, <1>5, <1>6 DEF FlowInv

LEMMA DeliverInv ==
  ASSUME FlowInv, NEW p \in Ports, Deliver(p)
  PROVE  FlowInv'
<1>1. UNCHANGED <<balance, FlowletTable>>
  BY DEF Deliver
<1>2. /\ transit' \in [Ports -> Seq(UnderWay)]
      /\ \A q \in Ports : \A j \in DOMAIN transit'[q] :
           \E l \in DOMAIN transit[q] : transit'[q][j] = transit[q][l]
  <2> DEFINE s == transit[p]
  <2>1. /\ transit \in [Ports -> Seq(UnderWay)] /\ s \in Seq(UnderWay) /\ s # << >>
        /\ transit' = [transit EXCEPT ![p] = Tail(s)]
    BY DEF Deliver, FlowInv, AgesOK
  <2> HIDE DEF s
  <2>2. /\ Tail(s) \in Seq(UnderWay)
        /\ \A j \in DOMAIN Tail(s) : j + 1 \in DOMAIN s /\ Tail(s)[j] = s[j + 1]
    BY <2>1
  <2>3. \A q \in Ports : transit'[q] = IF q = p THEN Tail(s) ELSE transit[q]
    BY <2>1
  <2> QED
    BY <2>1, <2>2, <2>3 DEF s
<1>3. AgesOK'
  BY <1>1, <1>2 DEF AgesOK, FlowInv
<1>4. ASSUME balance = "flowlet", NEW q \in Ports, NEW j \in DOMAIN transit'[q]
      PROVE  WithRecord(q, transit[q][j])'
  BY <1>1, <1>2, <1>4 DEF FlowInv, WithRecord, Slot
<1>5. ASSUME balance = "ecmp", NEW q \in Ports, NEW j \in DOMAIN transit'[q]
      PROVE  ByHash(q, transit[q][j])'
  BY <1>1, <1>2, <1>5 DEF FlowInv, ByHash, Slot, balance_ecmp
<1>6. ASSUME balance = "flowlet"
      PROVE  Apart'
  <2>1. ASSUME NEW q \in Ports, NEW r \in Ports, q # r,
               NEW i \in DOMAIN transit'[q], NEW j \in DOMAIN transit'[r]
        PROVE  Spaced(transit'[q][i], transit'[r][j])
    <3>1. PICK l \in DOMAIN transit[q] : transit'[q][i] = transit[q][l]
      BY <1>2
    <3>2. PICK m \in DOMAIN transit[r] : transit'[r][j] = transit[r][m]
      BY <1>2
    <3>3. Spaced(transit[q][l], transit[r][m])
      BY <1>6, <2>1 DEF FlowInv, Apart
    <3> QED
      BY <3>1, <3>2, <3>3
  <2> QED
    BY <2>1 DEF Apart, Spaced
<1> QED
  BY <1>1, <1>3, <1>4, <1>5, <1>6 DEF FlowInv

(* The two clocks advance together, so that a record stays younger than    *)
(* its packets.                                                            *)
LEMMA TickInv ==
  ASSUME FlowInv, Tick
  PROVE  FlowInv'
<1>1. balance' = balance
  BY DEF Tick
<1>2. /\ DOMAIN FlowletTable' = DOMAIN FlowletTable
      /\ \A h \in DOMAIN FlowletTable :
           FlowletTable'[h] = [FlowletTable[h] EXCEPT !.age = Older(@)]
  BY DEF Tick
<1>3. \A h \in DOMAIN FlowletTable :
        /\ FlowletTable'[h].key = FlowletTable[h].key
        /\ FlowletTable'[h] \in [key : Nat, age : Nat]
        /\ FlowletTable'[h].age <= FlowletTable[h].age + 1
  BY <1>2, DelayAssumption DEF Older, FlowInv, AgesOK
<1>4. ASSUME NEW p \in Ports
      PROVE  /\ transit'[p] \in Seq(UnderWay)
             /\ DOMAIN transit'[p] = DOMAIN transit[p]
             /\ \A i \in DOMAIN transit[p] :
                  /\ transit[p][i].age \in Nat
                  /\ transit'[p][i].age = transit[p][i].age + 1
                  /\ transit'[p][i].flow = transit[p][i].flow
  <2>1. /\ transit[p] \in Seq(UnderWay)
        /\ transit'[p] = [i \in DOMAIN transit[p] |-> [transit[p][i] EXCEPT !.age = @ + 1]]
    BY DEF Tick, FlowInv, AgesOK
  <2>2. ASSUME NEW i \in DOMAIN transit[p]
        PROVE  /\ [transit[p][i] EXCEPT !.age = @ + 1] \in UnderWay
               /\ [transit[p][i] EXCEPT !.age = @ + 1].age = transit[p][i].age + 1
               /\ [transit[p][i] EXCEPT !.age = @ + 1].flow = transit[p][i].flow
               /\ transit[p][i].age \in Nat
    <3>1. transit[p][i] \in UnderWay /\ transit[p][i].age < MaxDelay
      BY <2>1 DEF Tick
    <3> QED
      BY <3>1, DelayAssumption DEF UnderWay
  <2>3. Len(transit[p]) \in Nat /\ DOMAIN transit[p] = 1 .. Len(transit[p])
    BY <2>1
  <2>4. transit'[p] \in [1 .. Len(transit[p]) -> UnderWay]
    BY <2>1, <2>2, <2>3
  <2> QED
    BY <2>1, <2>2, <2>3, <2>4
<1>5. AgesOK'
  <2>1. transit' \in [Ports -> Seq(UnderWay)]
    BY <1>4 DEF Tick
  <2> QED
    BY <1>2, <1>3, <2>1 DEF AgesOK
<1>6. ASSUME balance = "flowlet", NEW p \in Ports, NEW i \in DOMAIN transit'[p]
      PROVE  WithRecord(p, transit[p][i])'
  <2> DEFINE h == crc[transit[p][i].flow]
  <2>1. WithRecord(p, transit[p][i]) /\ i \in DOMAIN transit[p]
    BY <1>4, <1>6 DEF FlowInv
  <2>2. h \in DOMAIN FlowletTable /\ h \in DOMAIN FlowletTable'
    BY <1>2, <2>1 DEF WithRecord
  <2>3. /\ FlowletTable'[h].key = FlowletTable[h].key
        /\ FlowletTable'[h].age <= FlowletTable[h].age + 1
        /\ FlowletTable'[h].age \in Nat /\ FlowletTable[h].age \in Nat
    BY <1>3, <2>2 DEF FlowInv, AgesOK
  <2>4. /\ transit[p][i].age \in Nat
        /\ transit'[p][i].age = transit[p][i].age + 1
        /\ transit'[p][i].flow = transit[p][i].flow
    BY <1>4, <2>1
  <2>5. /\ FlowletTable[h].age <= transit[p][i].age
        /\ p = Slot(FlowletTable[h].key) \/ transit[p][i].age > T_FLOWLET
    BY <2>1 DEF WithRecord
  <2> HIDE DEF h
  <2>6. crc[transit'[p][i].flow] = h
    BY <2>4 DEF h
  <2> QED
    BY <2>2, <2>3, <2>4, <2>5, <2>6, DelayAssumption DEF WithRecord, Slot
<1>7. ASSUME balance = "ecmp", NEW p \in Ports, NEW i \in DOMAIN transit'[p]
      PROVE  ByHash(p, transit[p][i])'
  BY <1>4, <1>7 DEF FlowInv, ByHash, Slot, balance_ecmp
<1>8. ASSUME balance = "flowlet"
      PROVE  Apart'
  <2>1. ASSUME NEW p \in Ports, NEW q \in Ports, p # q,
               NEW i \in DOMAIN transit'[p], NEW j \in DOMAIN transit'[q]
        PROVE  Spaced(transit'[p][i], transit'[q][j])
    <3>1. Spaced(transit[p][i], transit[q][j])
      BY <1>4, <1>8, <2>1 DEF FlowInv, Apart
    <3>2. /\ i \in DOMAIN transit[p] /\ j \in DOMAIN transit[q]
          /\ transit[p][i].age \in Nat /\ transit[q][j].age \in Nat
          /\ transit'[p][i].age = transit[p][i].age + 1
          /\ transit'[q][j].age = transit[q][j].age + 1
          /\ transit'[p][i].flow = transit[p][i].flow
          /\ transit'[q][j].flow = transit[q][j].flow
      BY <1>4
    <3> QED
      BY <3>1, <3>2, DelayAssumption DEF Spaced
  <2> QED
    BY <2>1 DEF Apart, Spaced
<1> QED
  BY <1>1, <1>5, <1>6, <1>7, <1>8 DEF FlowInv

LEMMA FlowNext == FlowInv /\ [Next]_vars => FlowInv'
<1>1. ASSUME FlowInv, UNCHANGED vars PROVE FlowInv'
  BY <1>1 DEF vars, FlowInv, AgesOK, WithRecord, ByHash, Apart, Spaced, Slot, balance_ecmp
<1> QED
  BY <1>1, ClassifyInv, DeliverInv, TickInv DEF Next

(* A packet of a flow can be overtaken by another only if it is under way  *)
(* for more than T_FLOWLET longer (balance_flowlet), and never with ECMP   *)
(* (balance_ecmp).  Nothing is assumed about the delays of the ports.      *)
THEOREM OvertakenByGapTheorem == Spec => []OvertakenByGap
<1>1. FlowInv => OvertakenByGap
  BY DEF FlowInv, OvertakenByGap, ByHash, Apart, Spaced
<1> QED
  BY <1>1, FlowInit, FlowNext, PTL DEF Spec

(* Where no packet is under way for longer than the gap, all packets of a  *)
(* flow under way are on one port: the condition under which flowlets do   *)
(* not reorder at all.                                                     *)
COROLLARY OnePortIfFast ==
  ASSUME MaxDelay <= T_FLOWLET
  PROVE  Spec => [](balance # "packet" =>
           \A p, q \in Ports : \A i \in DOMAIN transit[p], j \in DOMAIN transit[q] :
             transit[p][i].flow = transit[q][j].flow => p = q)
<1> DEFINE OnePort ==
      balance # "packet" =>
        \A p, q \in Ports : \A i \in DOMAIN transit[p], j \in DOMAIN transit[q] :
          transit[p][i].flow = transit[q][j].flow => p = q
<1>1. FlowInv /\ OvertakenByGap => OnePort
  <2> SUFFICES ASSUME FlowInv, OvertakenByGap, balance # "packet",
                      NEW p \in Ports, NEW q \in Ports,
                      NEW i \in DOMAIN transit[p], NEW j \in DOMAIN transit[q],
                      transit[p][i].flow = transit[q][j].flow
               PROVE  p = q
    OBVIOUS
  <2>1. transit[p][i] \in UnderWay /\ transit[q][j] \in UnderWay
    BY DEF FlowInv, AgesOK
  <2>2. transit[p][i].age \in 0 .. MaxDelay /\ transit[q][j].age \in 0 .. MaxDelay
    BY <2>1 DEF UnderWay
  <2> QED
    BY <2>2, DelayAssumption DEF OvertakenByGap
<1>2. Spec => []FlowInv
  BY FlowInit, FlowNext, PTL DEF Spec
<1>3. Spec => []OvertakenByGap
  BY OvertakenByGapTheorem
<1> QED
  BY <1>1, <1>2, <1>3, PTL
=============================================================================
