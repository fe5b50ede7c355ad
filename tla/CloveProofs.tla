----------------------------- MODULE CloveProofs -----------------------------
(***************************************************************************)
(* Proofs about Clove, for every number of paths, every weight and every   *)
(* time limit.                                                             *)
(*                                                                         *)
(* EchoJustified needs that a path below its full weight was cut after a   *)
(* mark that the history knows, and is not older than the cut; the rows'   *)
(* turns need that no key is twice in the queue, and that only a row with  *)
(* a mark waits; and a row is never older than the last loss on its path.  *)
(***************************************************************************)
EXTENDS Clove, FiniteSetTheorems, WellFoundedInduction, TLAPS

(* A path below its full weight: a mark was reported for it, no longer ago *)
(* than r_time.                                                            *)
CutOK(v) == weight[v] # CLOVE_WI => evidence[v].seen = TRUE /\ evidence[v].age <= r_age[v]

SenderInv ==
  /\ DOMAIN weight = VPs
  /\ r_age \in [VPs -> Nat]
  /\ evidence \in [VPs -> [age : Nat, seen : BOOLEAN]]
  /\ \A v \in VPs : CutOK(v)
  /\ EchoJustified

Row == [recv_ecn : BOOLEAN, age : Nat]

ReceiverType ==
  /\ ca_queue \in Seq(RecvPaths)
  /\ DOMAIN ca_map \subseteq RecvPaths
  /\ \A k \in DOMAIN ca_map : ca_map[k] \in Row
  /\ wait \in [RecvPaths -> Nat]
  /\ loss_age \in [RecvPaths -> Nat]

LossOK == \A k \in DOMAIN ca_map : ca_map[k].age <= loss_age[k]

(* The queue holds the rows, each once.                                    *)
QueueOK ==
  /\ \A i \in DOMAIN ca_queue : ca_queue[i] \in DOMAIN ca_map
  /\ \A k \in DOMAIN ca_map : \E i \in DOMAIN ca_queue : ca_queue[i] = k
  /\ \A i, j \in DOMAIN ca_queue : i # j => ca_queue[i] # ca_queue[j]

Waits(k) == k \in DOMAIN ca_map /\ ca_map[k].recv_ecn = TRUE

WaitOK ==
  /\ \A k \in RecvPaths : ~ Waits(k) => wait[k] = 0
  /\ \A i \in DOMAIN ca_queue :
       Waits(ca_queue[i]) => wait[ca_queue[i]] + i <= Cardinality(RecvPaths)

ReceiverInv == ReceiverType /\ LossOK /\ QueueOK /\ WaitOK

-----------------------------------------------------------------------------
(* The sender.                                                             *)

LEMMA OlderFacts ==
  /\ \A a, n \in Nat : Older(a, n) \in Nat
  /\ \A a, b, n \in Nat : a <= b => Older(a, n) <= Older(b, n)
  BY DEF Older

LEMMA SenderInit == Init => SenderInv
<1> SUFFICES ASSUME Init PROVE SenderInv
  OBVIOUS
<1>1. [age |-> T_WEIGHT_EXPIRE + 1, seen |-> FALSE] \in [age : Nat, seen : BOOLEAN]
  BY TimesAssumption
<1> QED
  BY <1>1 DEF Init, SenderInv, CutOK, EchoJustified

(* A weight that survives vp_next was cut at most T_WEIGHT_EXPIRE ago.     *)
LEMMA SendSender == SenderInv /\ Send => SenderInv'
<1> SUFFICES ASSUME SenderInv, Send PROVE SenderInv'
  OBVIOUS
<1>1. /\ weight' = Aged /\ r_age' = r_age /\ ece' = FALSE
      /\ evidence' = [v \in VPs |->
                        [evidence[v] EXCEPT !.seen = evidence[v].age <= T_WEIGHT_EXPIRE]]
  BY DEF Send
<1>2. ASSUME NEW v \in VPs
      PROVE  /\ evidence'[v] \in [age : Nat, seen : BOOLEAN]
             /\ evidence'[v].age = evidence[v].age
             /\ evidence'[v].seen = (evidence[v].age <= T_WEIGHT_EXPIRE)
  <2> DEFINE e == evidence[v]
  <2>1. evidence'[v] = [e EXCEPT !.seen = (e.age <= T_WEIGHT_EXPIRE)]
    BY <1>1
  <2>2. e \in [age : Nat, seen : BOOLEAN]
    BY DEF SenderInv
  <2> HIDE DEF e
  <2>3. evidence'[v] = [age |-> e.age, seen |-> (e.age <= T_WEIGHT_EXPIRE)]
    BY <2>1, <2>2
  <2> QED
    BY <2>2, <2>3 DEF e
<1>3. evidence' \in [VPs -> [age : Nat, seen : BOOLEAN]]
  BY <1>1, <1>2
<1>4. ASSUME NEW v \in VPs, weight'[v] # CLOVE_WI
      PROVE  evidence'[v].seen = TRUE /\ evidence'[v].age <= r_age'[v]
  <2>1. weight'[v] = IF r_age[v] > T_WEIGHT_EXPIRE THEN CLOVE_WI ELSE weight[v]
    BY <1>1 DEF Aged
  <2>2. ~ (r_age[v] > T_WEIGHT_EXPIRE) /\ weight[v] # CLOVE_WI
    BY <1>4, <2>1
  <2>3. evidence[v].age <= r_age[v] /\ evidence[v].age \in Nat /\ r_age[v] \in Nat
    BY <2>2 DEF SenderInv, CutOK
  <2>4. evidence[v].age <= T_WEIGHT_EXPIRE
    BY <2>2, <2>3, TimesAssumption
  <2> QED
    BY <1>1, <1>2, <2>3, <2>4
<1>5. DOMAIN weight' = VPs
  BY <1>1 DEF Aged
<1> QED
  BY <1>1, <1>3, <1>4, <1>5 DEF SenderInv, CutOK, EchoJustified

LEMMA MarkedFacts ==
  ASSUME SenderInv, NEW v \in VPs, Marked(v)
  PROVE  /\ DOMAIN weight' = VPs /\ r_age' \in [VPs -> Nat]
         /\ evidence' \in [VPs -> [age : Nat, seen : BOOLEAN]]
         /\ \A u \in VPs : CutOK(u)'
<1> DEFINE fresh == [age |-> 0, seen |-> TRUE]
<1>1. fresh \in [age : Nat, seen : BOOLEAN] /\ fresh.age = 0 /\ fresh.seen = TRUE
  OBVIOUS
<1>2. evidence' = [evidence EXCEPT ![v] = fresh]
  BY DEF Marked
<1> HIDE DEF fresh
<1>3. /\ evidence' \in [VPs -> [age : Nat, seen : BOOLEAN]]
      /\ evidence'[v] = fresh
      /\ \A u \in VPs : u # v => evidence'[u] = evidence[u]
  BY <1>1, <1>2 DEF SenderInv
<1>4. /\ DOMAIN weight' = VPs /\ r_age' \in [VPs -> Nat]
      /\ \A u \in VPs : u # v => weight'[u] = weight[u] /\ r_age'[u] = r_age[u]
  BY DEF Marked, SenderInv
<1>5. \A u \in VPs : CutOK(u)'
  <2> TAKE u \in VPs
  <2>1. CASE u = v
    <3>1. r_age'[v] \in Nat
      BY <1>4
    <3>2. evidence'[v].age = 0 /\ evidence'[v].seen = TRUE
      BY <1>1, <1>3
    <3> QED
      BY <2>1, <3>1, <3>2 DEF CutOK
  <2>2. CASE u # v
    BY <1>3, <1>4, <2>2 DEF CutOK, SenderInv
  <2> QED
    BY <2>1, <2>2
<1> QED
  BY <1>3, <1>4, <1>5

LEMMA RecvSender ==
  ASSUME SenderInv, NEW k, NEW ce, NEW marks \in Reports, NEW echo, Recv(k, ce, marks, echo)
  PROVE  SenderInv'
<1>1. /\ DOMAIN weight' = VPs /\ r_age' \in [VPs -> Nat]
      /\ evidence' \in [VPs -> [age : Nat, seen : BOOLEAN]]
      /\ \A u \in VPs : CutOK(u)'
  <2>1. CASE marks = {}
    <3>1. UNCHANGED <<weight, r_age, evidence>>
      BY <2>1 DEF Recv
    <3> QED
      BY <3>1 DEF SenderInv, CutOK
  <2>2. CASE marks # {}
    <3>1. PICK v \in marks : Marked(v)
      BY <2>2 DEF Recv
    <3>2. v \in VPs
      BY DEF Reports
    <3> QED
      BY <3>1, <3>2, MarkedFacts
  <2> QED
    BY <2>1, <2>2
<1>2. ASSUME ece' = TRUE, NEW v \in VPs
      PROVE  evidence'[v].seen = TRUE
  <2>1. ~ (CLOVE_WI - weight'[v] < SCALE)
    BY <1>2 DEF Recv, Truncates
  <2>2. weight'[v] # CLOVE_WI
    BY <2>1, WeightAssumption, ScaleAssumption
  <2> QED
    BY <1>1, <2>2 DEF CutOK
<1>3. ece' \in BOOLEAN
  BY DEF Recv
<1>4. EchoJustified'
  BY <1>2, <1>3 DEF EchoJustified
<1> QED
  BY <1>1, <1>4 DEF SenderInv

LEMMA TickSender == SenderInv /\ Tick => SenderInv'
<1> SUFFICES ASSUME SenderInv, Tick PROVE SenderInv'
  OBVIOUS
<1>1. /\ r_age' = [v \in VPs |-> Older(r_age[v], T_WEIGHT_EXPIRE)]
      /\ evidence' = [v \in VPs |-> [evidence[v] EXCEPT !.age = Older(@, T_WEIGHT_EXPIRE)]]
      /\ ece' = FALSE /\ weight' = weight
  BY DEF Tick
<1>2. ASSUME NEW v \in VPs
      PROVE  /\ evidence'[v] \in [age : Nat, seen : BOOLEAN]
             /\ r_age'[v] \in Nat
             /\ CutOK(v)'
  <2> DEFINE e == evidence[v]
  <2>1. evidence'[v] = [e EXCEPT !.age = Older(e.age, T_WEIGHT_EXPIRE)] /\ r_age'[v] = Older(r_age[v], T_WEIGHT_EXPIRE)
    BY <1>1
  <2>2. e \in [age : Nat, seen : BOOLEAN] /\ r_age[v] \in Nat /\ T_WEIGHT_EXPIRE \in Nat
    BY TimesAssumption DEF SenderInv
  <2>3. weight[v] # CLOVE_WI => e.seen = TRUE /\ e.age <= r_age[v]
    BY DEF SenderInv, CutOK
  <2> HIDE DEF e
  <2>4. evidence'[v] = [age |-> Older(e.age, T_WEIGHT_EXPIRE), seen |-> e.seen]
    BY <2>1, <2>2
  <2>5. Older(e.age, T_WEIGHT_EXPIRE) \in Nat /\ Older(r_age[v], T_WEIGHT_EXPIRE) \in Nat
    BY <2>2, OlderFacts
  <2>6. e.age <= r_age[v] => Older(e.age, T_WEIGHT_EXPIRE) <= Older(r_age[v], T_WEIGHT_EXPIRE)
    BY <2>2, OlderFacts
  <2>7. weight'[v] = weight[v]
    BY <1>1
  <2> QED
    BY <2>1, <2>2, <2>3, <2>4, <2>5, <2>6, <2>7 DEF CutOK
<1>3. r_age' \in [VPs -> Nat] /\ evidence' \in [VPs -> [age : Nat, seen : BOOLEAN]]
  BY <1>1, <1>2
<1> QED
  BY <1>1, <1>2, <1>3 DEF SenderInv, EchoJustified

LEMMA SenderStep == SenderInv /\ [Next]_vars => SenderInv'
<1> SUFFICES ASSUME SenderInv, [Next]_vars PROVE SenderInv'
  OBVIOUS
<1>1. CASE \E k \in RecvPaths, ce, echo \in BOOLEAN, marks \in Reports : Recv(k, ce, marks, echo)
  BY <1>1, RecvSender
<1>2. CASE UNCHANGED vars
  BY <1>2 DEF vars, sender, history, SenderInv, CutOK, EchoJustified
<1> QED
  BY <1>1, <1>2, SendSender, TickSender DEF Next

(* The host sees TCP's echo only when every path had a mark reported at    *)
(* most T_WEIGHT_EXPIRE before the last packet was sent, or since (recv,   *)
(* ecn_truncate, vp_next).                                                 *)
THEOREM EchoJustifiedTheorem == Spec => []EchoJustified
<1>1. SenderInv => EchoJustified
  BY DEF SenderInv
<1> QED
  BY SenderInit, SenderStep, <1>1, PTL DEF Spec

-----------------------------------------------------------------------------
(* The queue of rows.                                                      *)

LEMMA LeastNatural ==
  ASSUME NEW S \in SUBSET Nat, S # {}
  PROVE  \E k \in S : \A j \in S : k <= j
<1>1. PICK k \in S : \A j \in S : ~ (<<j, k>> \in OpToRel(<, Nat))
  BY NatLessThanWellFounded, WFMin
<1>2. \A j \in S : ~ (j < k)
  BY <1>1 DEF OpToRel
<1> QED
  BY <1>2

(* ca_next stops at the first live row, and passes over the others.        *)
LEMMA PlaceFacts ==
  ASSUME NEW map, NEW q \in Seq(RecvPaths), NEW n, n = Place(map, q)
  PROVE  /\ n \in 1 .. Len(q) + 1
         /\ n \in 1 .. Len(q) => Live(map, q[n])
         /\ \A i \in 1 .. n - 1 : ~ Live(map, q[i])
         /\ Freed(map, q) = {q[i] : i \in 1 .. n - 1}
         /\ Reported(map, q) = {q[i] : i \in (1 .. Len(q)) \cap {n}}
         /\ n = Len(q) + 1 => Rotated(map, q) = << >>
         /\ n \in 1 .. Len(q) =>
              /\ Rotated(map, q) \in Seq(RecvPaths)
              /\ Len(Rotated(map, q)) = (Len(q) - n) + 1
              /\ \A i \in 1 .. Len(q) - n : Rotated(map, q)[i] = q[n + i]
              /\ Rotated(map, q)[(Len(q) - n) + 1] = q[n]
<1> DEFINE S == LivePlaces(map, q)
<1>1. S \in SUBSET Nat /\ DOMAIN q = 1 .. Len(q) /\ Len(q) \in Nat
  BY DEF LivePlaces
<1>2. /\ n \in 1 .. Len(q) + 1
      /\ n \in 1 .. Len(q) => Live(map, q[n])
      /\ \A i \in 1 .. n - 1 : ~ Live(map, q[i])
  <2>1. CASE S = {}
    BY <1>1, <2>1 DEF Place, LivePlaces
  <2>2. CASE S # {}
    <3>1. PICK k \in S : \A j \in S : k <= j
      BY <1>1, <2>2, LeastNatural
    <3>2. First(S) \in S /\ \A j \in S : First(S) <= j
      BY <3>1 DEF First
    <3>3. n = First(S)
      BY <2>2 DEF Place
    <3>4. n \in 1 .. Len(q) /\ Live(map, q[n])
      BY <1>1, <3>2, <3>3 DEF LivePlaces
    <3>5. \A i \in 1 .. n - 1 : i \in DOMAIN q /\ i \notin S
      BY <1>1, <3>2, <3>3, <3>4
    <3> QED
      BY <1>1, <3>4, <3>5 DEF LivePlaces
  <2> QED
    BY <2>1, <2>2
<1>3. Freed(map, q) = {q[i] : i \in 1 .. n - 1} /\ Reported(map, q) = {q[i] : i \in (1 .. Len(q)) \cap {n}}
  BY <1>1 DEF Reported, Freed
<1>4. n = Len(q) + 1 => Rotated(map, q) = << >>
  BY <1>1 DEF Rotated
<1>5. ASSUME n \in 1 .. Len(q)
      PROVE  /\ Rotated(map, q) \in Seq(RecvPaths)
             /\ Len(Rotated(map, q)) = (Len(q) - n) + 1
             /\ \A i \in 1 .. Len(q) - n : Rotated(map, q)[i] = q[n + i]
             /\ Rotated(map, q)[(Len(q) - n) + 1] = q[n]
  <2> DEFINE t == SubSeq(q, n + 1, Len(q))
  <2>1. Rotated(map, q) = Append(t, q[n])
    BY <1>1, <1>5 DEF Rotated
  <2>2. /\ t \in Seq(RecvPaths) /\ Len(t) = Len(q) - n
        /\ \A i \in 1 .. Len(q) - n : t[i] = q[n + i]
        /\ q[n] \in RecvPaths
    BY <1>1, <1>5, SMTT(30)
  <2> HIDE DEF t
  <2> QED
    BY <2>1, <2>2
<1> QED
  BY <1>2, <1>3, <1>4, <1>5

(* A queue without repetitions is as long as its set of keys is large.     *)
LEMMA QueueLength ==
  ASSUME ReceiverType, QueueOK
  PROVE  /\ {ca_queue[i] : i \in DOMAIN ca_queue} = DOMAIN ca_map
         /\ IsFiniteSet(DOMAIN ca_map)
         /\ Len(ca_queue) = Cardinality(DOMAIN ca_map)
         /\ Cardinality(RecvPaths) \in Nat
         /\ Len(ca_queue) <= Cardinality(RecvPaths)
         /\ \A k \in RecvPaths \ DOMAIN ca_map : Len(ca_queue) + 1 <= Cardinality(RecvPaths)
<1> DEFINE q == ca_queue
           S == DOMAIN ca_map
<1>1. q \in Seq(RecvPaths) /\ DOMAIN q = 1 .. Len(q) /\ Len(q) \in Nat
  BY DEF ReceiverType
<1>2. {q[i] : i \in DOMAIN q} = S
  BY DEF QueueOK
<1>3. q \in Bijection(1 .. Len(q), S)
  <2>1. q \in [1 .. Len(q) -> S]
    BY <1>1, <1>2
  <2>2. \A a, b \in 1 .. Len(q) : q[a] = q[b] => a = b
    BY <1>1 DEF QueueOK
  <2>3. \A k \in S : \E i \in 1 .. Len(q) : q[i] = k
    BY <1>1 DEF QueueOK
  <2> QED
    BY <2>1, <2>2, <2>3 DEF Bijection, Injection, Surjection, IsInjective
<1>4. ExistsBijection(1 .. Len(q), S)
  BY <1>3 DEF ExistsBijection
<1>5. IsFiniteSet(S) /\ Cardinality(S) = Len(q)
  BY <1>1, <1>4, FS_CountingElements, FS_NatBijection
<1>6. S \in SUBSET RecvPaths
  BY DEF ReceiverType
<1>7. /\ Cardinality(RecvPaths) \in Nat
      /\ Cardinality(S) <= Cardinality(RecvPaths)
      /\ Cardinality(RecvPaths) = Cardinality(S) => RecvPaths = S
  BY <1>6, RecvPathsAssumption, FS_Subset, FS_CardinalityType
<1>8. \A k \in RecvPaths \ S : Cardinality(S) # Cardinality(RecvPaths)
  BY <1>7
<1> QED
  BY <1>1, <1>2, <1>5, <1>7, <1>8

-----------------------------------------------------------------------------
(* The receiver.                                                           *)

LEMMA ReceiverInit == Init => ReceiverInv
<1> SUFFICES ASSUME Init PROVE ReceiverInv
  OBVIOUS
<1>1. ReceiverType
  BY VpExpireAssumption DEF Init, ReceiverType
<1> QED
  BY <1>1 DEF Init, ReceiverInv, LossOK, QueueOK, WaitOK, Waits

(* What send() does to each row.                                           *)
LEMMA SendRows ==
  ASSUME ReceiverInv, Send
  PROVE  /\ DOMAIN ca_map' = DOMAIN ca_map \ Freed(ca_map, ca_queue)
         /\ \A k \in DOMAIN ca_map' :
              /\ ca_map'[k] \in Row /\ ca_map'[k].age = ca_map[k].age
              /\ k \in Reported(ca_map, ca_queue) => ca_map'[k].recv_ecn = FALSE
              /\ k \notin Reported(ca_map, ca_queue) => ca_map'[k].recv_ecn = ca_map[k].recv_ecn
              /\ loss_age'[k] = loss_age[k]
         /\ \A k \in Freed(ca_map, ca_queue) \cap DOMAIN ca_map : ca_map[k].age > T_VP_EXPIRE
         /\ wait' \in [RecvPaths -> Nat] /\ loss_age' \in [RecvPaths -> Nat]
         /\ \A k \in RecvPaths : wait'[k] = IF Waits(k)' THEN wait[k] + 1 ELSE 0
<1>1. /\ ca_map' = [k \in DOMAIN ca_map \ Freed(ca_map, ca_queue) |->
                  IF k \in Reported(ca_map, ca_queue) THEN Unmarked(k) ELSE ca_map[k]]
      /\ wait' = [k \in RecvPaths |->
                    IF k \in DOMAIN ca_map' /\ ca_map'[k].recv_ecn THEN wait[k] + 1 ELSE 0]
      /\ loss_age' = [k \in RecvPaths |-> IF Lost(k) THEN 0 ELSE loss_age[k]]
  BY DEF Send
<1>2. ReceiverType
  BY DEF ReceiverInv
<1>3. DOMAIN ca_map' = DOMAIN ca_map \ Freed(ca_map, ca_queue)
  BY <1>1
<1>4. ASSUME NEW k \in DOMAIN ca_map'
      PROVE  /\ ca_map'[k] \in Row /\ ca_map'[k].age = ca_map[k].age
             /\ k \in Reported(ca_map, ca_queue) => ca_map'[k].recv_ecn = FALSE
             /\ k \notin Reported(ca_map, ca_queue) => ca_map'[k].recv_ecn = ca_map[k].recv_ecn
             /\ loss_age'[k] = loss_age[k]
  <2>1. k \in DOMAIN ca_map /\ k \in RecvPaths /\ ca_map[k] \in Row /\ k \notin Freed(ca_map, ca_queue)
    BY <1>2, <1>3, <1>4 DEF ReceiverType
  <2>2. loss_age'[k] = loss_age[k]
    BY <1>1, <2>1 DEF Lost
  <2>3. CASE k \in Reported(ca_map, ca_queue)
    <3>1. ca_map'[k] = [ca_map[k] EXCEPT !.recv_ecn = FALSE]
      BY <1>1, <1>3, <1>4, <2>3 DEF Unmarked
    <3> QED
      BY <2>1, <2>2, <2>3, <3>1 DEF Row
  <2>4. CASE k \notin Reported(ca_map, ca_queue)
    BY <1>1, <1>3, <1>4, <2>1, <2>2, <2>4
  <2> QED
    BY <2>3, <2>4
<1>5. ASSUME NEW k \in Freed(ca_map, ca_queue) \cap DOMAIN ca_map
      PROVE  ca_map[k].age > T_VP_EXPIRE
  <2> DEFINE n == Place(ca_map, ca_queue)
  <2>1. ca_queue \in Seq(RecvPaths)
    BY <1>2 DEF ReceiverType
  <2>2. /\ \A i \in 1 .. n - 1 : ~ Live(ca_map, ca_queue[i])
        /\ Freed(ca_map, ca_queue) = {ca_queue[i] : i \in 1 .. n - 1}
    BY <2>1, PlaceFacts
  <2>3. ~ Live(ca_map, k)
    BY <2>2
  <2>4. ca_map[k].age \in Nat
    BY <1>2 DEF ReceiverType, Row
  <2> QED
    BY <2>3, <2>4, VpExpireAssumption DEF Live
<1>6. ASSUME NEW k \in RecvPaths
      PROVE  /\ wait'[k] \in Nat /\ loss_age'[k] \in Nat
             /\ wait'[k] = IF Waits(k)' THEN wait[k] + 1 ELSE 0
  <2>1. wait[k] \in Nat /\ loss_age[k] \in Nat
    BY <1>2 DEF ReceiverType
  <2>2. loss_age'[k] \in Nat
    BY <1>1, <2>1
  <2>3. Waits(k)' <=> (k \in DOMAIN ca_map' /\ ca_map'[k].recv_ecn)
    BY <1>4 DEF Waits, Row
  <2>4. wait'[k] = IF Waits(k)' THEN wait[k] + 1 ELSE 0
    BY <1>1, <2>3
  <2> QED
    BY <2>1, <2>2, <2>4
<1>7. wait' \in [RecvPaths -> Nat] /\ loss_age' \in [RecvPaths -> Nat]
  BY <1>1, <1>6
<1> QED
  BY <1>3, <1>4, <1>5, <1>6, <1>7

LEMMA SendReceiver == ReceiverInv /\ Send => ReceiverInv'
<1> SUFFICES ASSUME ReceiverInv, Send PROVE ReceiverInv'
  OBVIOUS
<1> DEFINE q == ca_queue
           n == Place(ca_map, ca_queue)
           rot == Rotated(ca_map, ca_queue)
           gone == Freed(ca_map, ca_queue)
           rep == Reported(ca_map, ca_queue)
<1>1. ReceiverType /\ LossOK /\ QueueOK /\ WaitOK
  BY DEF ReceiverInv
<1>2. q \in Seq(RecvPaths) /\ DOMAIN q = 1 .. Len(q) /\ Len(q) \in Nat
  BY <1>1 DEF ReceiverType
<1>3. /\ n \in 1 .. Len(q) + 1
      /\ gone = {q[i] : i \in 1 .. n - 1}
      /\ rep = {q[i] : i \in (1 .. Len(q)) \cap {n}}
      /\ n = Len(q) + 1 => rot = << >>
      /\ n \in 1 .. Len(q) =>
           /\ rot \in Seq(RecvPaths) /\ Len(rot) = (Len(q) - n) + 1
           /\ \A i \in 1 .. Len(q) - n : rot[i] = q[n + i]
           /\ rot[(Len(q) - n) + 1] = q[n]
  BY <1>2, PlaceFacts
<1>4. /\ DOMAIN ca_map' = DOMAIN ca_map \ gone
      /\ \A k \in DOMAIN ca_map' :
           /\ ca_map'[k] \in Row /\ ca_map'[k].age = ca_map[k].age
           /\ k \in rep => ca_map'[k].recv_ecn = FALSE
           /\ k \notin rep => ca_map'[k].recv_ecn = ca_map[k].recv_ecn
           /\ loss_age'[k] = loss_age[k]
      /\ wait' \in [RecvPaths -> Nat] /\ loss_age' \in [RecvPaths -> Nat]
      /\ \A k \in RecvPaths : wait'[k] = IF Waits(k)' THEN wait[k] + 1 ELSE 0
  BY SendRows
<1>5. ca_queue' = rot
  BY DEF Send
<1>6. rot \in Seq(RecvPaths)
  <2>1. << >> \in Seq(RecvPaths)
    OBVIOUS
  <2>2. n = Len(q) + 1 \/ n \in 1 .. Len(q)
    BY <1>2, <1>3
  <2> QED
    BY <1>3, <2>1, <2>2
<1> HIDE DEF n, rot, gone, rep
<1>7. ReceiverType'
  BY <1>1, <1>4, <1>5, <1>6 DEF ReceiverType
<1>8. LossOK'
  BY <1>1, <1>4 DEF LossOK
<1>9. \A i \in DOMAIN rot :
        \/ i \in 1 .. Len(q) - n /\ n + i \in DOMAIN q /\ n \in DOMAIN q /\ rot[i] = q[n + i]
        \/ i = (Len(q) - n) + 1 /\ n \in DOMAIN q /\ rot[i] = q[n]
  <2>1. CASE n = Len(q) + 1
    BY <1>3, <2>1
  <2>2. CASE n \in 1 .. Len(q)
    <3>1. DOMAIN rot = 1 .. (Len(q) - n) + 1
      BY <1>3, <1>6, <2>2
    <3> QED
      BY <1>2, <1>3, <2>2, <3>1
  <2> QED
    BY <1>2, <1>3, <2>1, <2>2
<1>10. QueueOK'
  <2>1. ASSUME NEW i \in DOMAIN rot
        PROVE  rot[i] \in DOMAIN ca_map \ gone
    <3>1. PICK j \in DOMAIN q : j >= n /\ rot[i] = q[j]
      <4>1. CASE i \in 1 .. Len(q) - n /\ n + i \in DOMAIN q /\ rot[i] = q[n + i]
        <5>1. n + i >= n
          BY <1>2, <1>3, <4>1
        <5> QED
          BY <4>1, <5>1
      <4>2. CASE n \in DOMAIN q /\ rot[i] = q[n]
        BY <1>2, <4>2
      <4> QED
        BY <1>9, <4>1, <4>2
    <3>2. \A m \in 1 .. n - 1 : m \in DOMAIN q /\ m # j
      BY <1>2, <1>3, <3>1
    <3>3. q[j] \notin gone
      BY <1>1, <1>3, <3>1, <3>2 DEF QueueOK
    <3> QED
      BY <1>1, <3>1, <3>3 DEF QueueOK
  <2>2. ASSUME NEW k \in DOMAIN ca_map \ gone
        PROVE  \E i \in DOMAIN rot : rot[i] = k
    <3>1. PICK j \in DOMAIN q : q[j] = k
      BY <1>1 DEF QueueOK
    <3>2. j >= n /\ j \in 1 .. Len(q) /\ n \in 1 .. Len(q)
      BY <1>2, <1>3, <3>1
    <3>3. DOMAIN rot = 1 .. (Len(q) - n) + 1
      BY <1>3, <1>6, <3>2
    <3>4. CASE j = n
      BY <1>2, <1>3, <3>1, <3>2, <3>3, <3>4
    <3>5. CASE j > n
      <4>1. j - n \in 1 .. Len(q) - n /\ n + (j - n) = j
        BY <1>2, <3>2, <3>5
      <4>2. rot[j - n] = q[n + (j - n)]
        BY <1>3, <3>2, <4>1
      <4>3. j - n \in DOMAIN rot
        BY <1>2, <3>2, <3>3, <4>1
      <4> QED
        BY <3>1, <4>1, <4>2, <4>3
    <3> QED
      BY <1>2, <3>2, <3>4, <3>5
  <2>3. ASSUME NEW i \in DOMAIN rot, NEW j \in DOMAIN rot, i # j
        PROVE  rot[i] # rot[j]
    <3> DEFINE From(m) == IF m = (Len(q) - n) + 1 THEN n ELSE n + m
    <3>1. From(i) \in DOMAIN q /\ rot[i] = q[From(i)] /\ From(j) \in DOMAIN q /\ rot[j] = q[From(j)]
      <4>1. ASSUME NEW m \in DOMAIN rot
            PROVE  From(m) \in DOMAIN q /\ rot[m] = q[From(m)]
        <5>1. CASE m \in 1 .. Len(q) - n /\ n + m \in DOMAIN q /\ n \in DOMAIN q /\ rot[m] = q[n + m]
          <6>1. m # (Len(q) - n) + 1
            BY <1>2, <1>3, <5>1
          <6> QED
            BY <5>1, <6>1
        <5>2. CASE m = (Len(q) - n) + 1 /\ n \in DOMAIN q /\ rot[m] = q[n]
          BY <5>2
        <5> QED
          BY <1>9, <5>1, <5>2
      <4> QED
        BY <4>1
    <3>3. i \in Nat /\ j \in Nat /\ i > 0 /\ j > 0
      BY <1>6
    <3>4. From(i) # From(j)
      BY <1>2, <1>3, <2>3, <3>3
    <3> HIDE DEF From
    <3> QED
      BY <1>1, <3>1, <3>4 DEF QueueOK
  <2> QED
    BY <1>4, <1>5, <2>1, <2>2, <2>3 DEF QueueOK
<1>11. ASSUME NEW i \in DOMAIN rot, NEW k, k = rot[i],
              k \in DOMAIN ca_map', ca_map'[k].recv_ecn = TRUE
       PROVE  wait'[k] + i <= Cardinality(RecvPaths)
  <2>1. k \in DOMAIN ca_map' /\ ca_map'[k].recv_ecn = TRUE /\ k \in RecvPaths
    BY <1>6, <1>11 DEF Waits
  <2>2. k \notin rep
    BY <1>4, <2>1
  <2>3. ~ (n \in DOMAIN q /\ k = q[n])
    BY <1>2, <1>3, <2>2
  <2>4. i \in 1 .. Len(q) - n /\ n + i \in DOMAIN q /\ k = q[n + i] /\ n \in 1 .. Len(q)
    BY <1>2, <1>9, <1>11, <2>3
  <2>5. Waits(q[n + i])
    BY <1>4, <2>1, <2>2, <2>4 DEF Waits
  <2>6. wait[q[n + i]] + (n + i) <= Cardinality(RecvPaths)
    BY <1>1, <2>4, <2>5 DEF WaitOK
  <2>7. wait'[k] = wait[q[n + i]] + 1
    BY <1>4, <2>1, <2>4 DEF Waits
  <2>8. wait[q[n + i]] \in Nat /\ Cardinality(RecvPaths) \in Nat
    BY <1>1, <1>2, <2>4, QueueLength DEF ReceiverType
  <2> QED
    BY <1>2, <2>4, <2>6, <2>7, <2>8
<1>12. WaitOK'
  <2>1. (\A i \in DOMAIN ca_queue :
           Waits(ca_queue[i]) => wait[ca_queue[i]] + i <= Cardinality(RecvPaths))'
    BY <1>5, <1>11 DEF Waits
  <2>2. \A k \in RecvPaths : ~ Waits(k)' => wait'[k] = 0
    BY <1>4
  <2> QED
    BY <2>1, <2>2 DEF WaitOK
<1> QED
  BY <1>7, <1>8, <1>10, <1>12 DEF ReceiverInv

(* What recv() does to each row.                                           *)
LEMMA RecvRows ==
  ASSUME ReceiverInv, NEW k \in RecvPaths, NEW ce \in BOOLEAN, NEW marks, NEW echo,
         Recv(k, ce, marks, echo)
  PROVE  /\ DOMAIN ca_map' = DOMAIN ca_map \cup {k}
         /\ ca_map'[k] \in Row
         /\ k \in DOMAIN ca_map => /\ ca_map'[k].age = ca_map[k].age
                                   /\ ca_map[k].recv_ecn = TRUE => ca_map'[k].recv_ecn = TRUE
         /\ k \notin DOMAIN ca_map => ca_map'[k].age = 0
         /\ \A j \in DOMAIN ca_map : j # k => ca_map'[j] = ca_map[j]
<1>1. ca_map' = [j \in DOMAIN ca_map \cup {k} |-> IF j = k THEN Noted(k, ce) ELSE ca_map[j]]
  BY DEF Recv
<1>2. ca_map'[k] = Noted(k, ce)
  BY <1>1
<1>3. CASE k \in DOMAIN ca_map
  <2> DEFINE row == ca_map[k]
  <2>1. row \in Row
    BY <1>3 DEF ReceiverInv, ReceiverType
  <2>2. ca_map'[k] = [row EXCEPT !.recv_ecn = (row.recv_ecn \/ ce)]
    BY <1>2, <1>3 DEF Noted
  <2> HIDE DEF row
  <2>3. ca_map'[k] = [recv_ecn |-> (row.recv_ecn \/ ce), age |-> row.age]
    BY <2>1, <2>2 DEF Row
  <2>4. (row.recv_ecn \/ ce) \in BOOLEAN /\ row.age \in Nat /\ row.recv_ecn \in BOOLEAN
    BY <2>1 DEF Row
  <2>5. ca_map'[k] \in Row /\ ca_map'[k].age = row.age /\ ca_map'[k].recv_ecn = (row.recv_ecn \/ ce)
    BY <2>3, <2>4 DEF Row
  <2> QED
    BY <1>1, <1>3, <2>4, <2>5 DEF row
<1>4. CASE k \notin DOMAIN ca_map
  <2>1. ca_map'[k] = [recv_ecn |-> ce, age |-> 0]
    BY <1>2, <1>4 DEF Noted
  <2>2. ca_map'[k] \in Row /\ ca_map'[k].age = 0
    BY <2>1 DEF Row
  <2> QED
    BY <1>1, <1>4, <2>2
<1> QED
  BY <1>3, <1>4

LEMMA RecvReceiver ==
  ASSUME ReceiverInv, NEW k \in RecvPaths, NEW ce \in BOOLEAN, NEW marks, NEW echo,
         Recv(k, ce, marks, echo)
  PROVE  ReceiverInv'
<1> DEFINE q == ca_queue
           r == Append(q, k)
<1>1. ReceiverType /\ LossOK /\ QueueOK /\ WaitOK
  BY DEF ReceiverInv
<1>2. q \in Seq(RecvPaths) /\ DOMAIN q = 1 .. Len(q) /\ Len(q) \in Nat
  BY <1>1 DEF ReceiverType
<1>3. /\ DOMAIN ca_map' = DOMAIN ca_map \cup {k}
      /\ ca_map'[k] \in Row
      /\ k \in DOMAIN ca_map => ca_map'[k].age = ca_map[k].age
      /\ k \notin DOMAIN ca_map => ca_map'[k].age = 0
      /\ k \in DOMAIN ca_map /\ ca_map[k].recv_ecn = TRUE => ca_map'[k].recv_ecn = TRUE
      /\ \A j \in DOMAIN ca_map : j # k => ca_map'[j] = ca_map[j]
  BY RecvRows
<1>4. /\ ca_queue' = IF k \in DOMAIN ca_map THEN q ELSE r
      /\ wait' = wait /\ loss_age' = loss_age
  BY DEF Recv, Queued
<1>5. /\ r \in Seq(RecvPaths) /\ Len(r) = Len(q) + 1 /\ r[Len(q) + 1] = k
      /\ \A i \in 1 .. Len(q) : r[i] = q[i]
  BY <1>2
<1>6. /\ Len(q) \in Nat /\ Cardinality(RecvPaths) \in Nat
      /\ Len(q) <= Cardinality(RecvPaths)
      /\ k \notin DOMAIN ca_map => Len(q) + 1 <= Cardinality(RecvPaths)
  BY <1>1, <1>2, QueueLength
<1> HIDE DEF r
<1>7. ReceiverType'
  BY <1>1, <1>3, <1>4, <1>5 DEF ReceiverType
<1>8. LossOK'
  <2>1. loss_age[k] \in Nat
    BY <1>1 DEF ReceiverType
  <2> QED
    BY <1>1, <1>3, <1>4, <2>1 DEF LossOK
<1>9. /\ ca_queue' \in Seq(RecvPaths)
      /\ \A i \in DOMAIN ca_queue' :
           \/ i \in DOMAIN q /\ ca_queue'[i] = q[i]
           \/ i = Len(q) + 1 /\ k \notin DOMAIN ca_map /\ ca_queue'[i] = k
      /\ \A i \in DOMAIN q : i \in DOMAIN ca_queue' /\ ca_queue'[i] = q[i]
      /\ k \notin DOMAIN ca_map => Len(q) + 1 \in DOMAIN ca_queue' /\ ca_queue'[Len(q) + 1] = k
  <2>1. CASE k \in DOMAIN ca_map
    BY <1>2, <1>4, <2>1
  <2>2. CASE k \notin DOMAIN ca_map
    <3>1. ca_queue' = r /\ DOMAIN r = 1 .. Len(q) + 1
      BY <1>4, <1>5, <2>2
    <3> QED
      BY <1>2, <1>5, <2>2, <3>1
  <2> QED
    BY <2>1, <2>2
<1>10. QueueOK'
  <2>1. \A i \in DOMAIN ca_queue' : ca_queue'[i] \in DOMAIN ca_map'
    BY <1>1, <1>3, <1>9 DEF QueueOK
  <2>2. \A j \in DOMAIN ca_map' : \E i \in DOMAIN ca_queue' : ca_queue'[i] = j
    BY <1>1, <1>3, <1>9 DEF QueueOK
  <2>3. \A i, j \in DOMAIN ca_queue' : i # j => ca_queue'[i] # ca_queue'[j]
    BY <1>1, <1>9 DEF QueueOK
  <2> QED
    BY <2>1, <2>2, <2>3 DEF QueueOK
<1>11. \A j \in RecvPaths : j # k => (Waits(j)' <=> Waits(j))
  BY <1>3 DEF Waits
<1>12. \A j \in RecvPaths : Waits(j) => Waits(j)'
  BY <1>3 DEF Waits
<1>13. ASSUME NEW i \in DOMAIN ca_queue', NEW j, j = ca_queue'[i], j \in DOMAIN ca_map',
              ca_map'[j].recv_ecn = TRUE
       PROVE  wait'[j] + i <= Cardinality(RecvPaths)
  <2>1. j \in RecvPaths /\ wait[j] \in Nat /\ wait'[j] = wait[j]
    BY <1>1, <1>4, <1>9, <1>13 DEF ReceiverType
  <2>2. CASE Waits(j)
    <3>1. i \in DOMAIN q /\ j = q[i]
      BY <1>9, <1>13, <2>2 DEF Waits
    <3> QED
      BY <1>1, <2>1, <2>2, <3>1 DEF WaitOK
  <2>3. CASE ~ Waits(j)
    <3>1. wait[j] = 0
      BY <1>1, <2>1, <2>3 DEF WaitOK
    <3>2. i \in Nat /\ i <= Cardinality(RecvPaths)
      BY <1>2, <1>6, <1>9, <1>13
    <3> QED
      BY <2>1, <3>1, <3>2
  <2> QED
    BY <2>2, <2>3
<1>14. WaitOK'
  <2>1. (\A i \in DOMAIN ca_queue :
           Waits(ca_queue[i]) => wait[ca_queue[i]] + i <= Cardinality(RecvPaths))'
    BY <1>13 DEF Waits
  <2>2. \A j \in RecvPaths : ~ Waits(j)' => wait'[j] = 0
    BY <1>1, <1>4, <1>12 DEF WaitOK
  <2> QED
    BY <2>1, <2>2 DEF WaitOK
<1> QED
  BY <1>7, <1>8, <1>10, <1>14 DEF ReceiverInv

LEMMA TickRows ==
  ASSUME ReceiverInv, Tick
  PROVE  /\ DOMAIN ca_map' = DOMAIN ca_map
         /\ \A k \in DOMAIN ca_map : /\ ca_map'[k] \in Row
                                     /\ ca_map'[k].recv_ecn = ca_map[k].recv_ecn
                                     /\ ca_map'[k].age = Older(ca_map[k].age, T_VP_EXPIRE)
<1>1. ca_map' = [k \in DOMAIN ca_map |-> [ca_map[k] EXCEPT !.age = Older(@, T_VP_EXPIRE)]]
  BY DEF Tick
<1>2. ASSUME NEW k \in DOMAIN ca_map
      PROVE  /\ ca_map'[k] \in Row
             /\ ca_map'[k].recv_ecn = ca_map[k].recv_ecn
             /\ ca_map'[k].age = Older(ca_map[k].age, T_VP_EXPIRE)
  <2> DEFINE row == ca_map[k]
  <2>1. ca_map'[k] = [row EXCEPT !.age = Older(row.age, T_VP_EXPIRE)] /\ row \in Row
    BY <1>1 DEF ReceiverInv, ReceiverType
  <2> HIDE DEF row
  <2>2. Older(row.age, T_VP_EXPIRE) \in Nat
    BY <2>1, OlderFacts, VpExpireAssumption DEF Row
  <2>3. ca_map'[k] = [recv_ecn |-> row.recv_ecn, age |-> Older(row.age, T_VP_EXPIRE)]
    BY <2>1 DEF Row
  <2> QED
    BY <2>1, <2>2, <2>3 DEF Row, row
<1> QED
  BY <1>1, <1>2

LEMMA TickReceiver == ReceiverInv /\ Tick => ReceiverInv'
<1> SUFFICES ASSUME ReceiverInv, Tick PROVE ReceiverInv'
  OBVIOUS
<1>1. ReceiverType /\ LossOK /\ QueueOK /\ WaitOK
  BY DEF ReceiverInv
<1>2. /\ DOMAIN ca_map' = DOMAIN ca_map
      /\ \A k \in DOMAIN ca_map : /\ ca_map'[k] \in Row
                                  /\ ca_map'[k].recv_ecn = ca_map[k].recv_ecn
                                  /\ ca_map'[k].age = Older(ca_map[k].age, T_VP_EXPIRE)
  BY TickRows
<1>3. /\ loss_age' = [k \in RecvPaths |-> Older(loss_age[k], T_VP_EXPIRE)]
      /\ ca_queue' = ca_queue /\ wait' = wait
  BY DEF Tick
<1>4. \A k \in RecvPaths : loss_age[k] \in Nat /\ Older(loss_age[k], T_VP_EXPIRE) \in Nat
  BY <1>1, OlderFacts, VpExpireAssumption DEF ReceiverType
<1>5. ReceiverType'
  BY <1>1, <1>2, <1>3, <1>4 DEF ReceiverType
<1>6. LossOK'
  <2> SUFFICES ASSUME NEW k \in DOMAIN ca_map PROVE ca_map'[k].age <= loss_age'[k]
    BY <1>2 DEF LossOK
  <2>1. k \in RecvPaths /\ ca_map[k].age \in Nat /\ ca_map[k].age <= loss_age[k]
    BY <1>1 DEF ReceiverType, LossOK, Row
  <2>2. Older(ca_map[k].age, T_VP_EXPIRE) <= Older(loss_age[k], T_VP_EXPIRE)
    BY <1>4, <2>1, OlderFacts, VpExpireAssumption
  <2> QED
    BY <1>2, <1>3, <2>1, <2>2
<1>7. QueueOK' /\ WaitOK'
  BY <1>1, <1>2, <1>3 DEF QueueOK, WaitOK, Waits
<1> QED
  BY <1>5, <1>6, <1>7 DEF ReceiverInv

LEMMA ReceiverStep == ReceiverInv /\ [Next]_vars => ReceiverInv'
<1> SUFFICES ASSUME ReceiverInv, [Next]_vars PROVE ReceiverInv'
  OBVIOUS
<1>1. CASE \E k \in RecvPaths, ce, echo \in BOOLEAN, marks \in Reports : Recv(k, ce, marks, echo)
  BY <1>1, RecvReceiver
<1>2. CASE UNCHANGED vars
  BY <1>2 DEF vars, receiver, history, ReceiverInv, ReceiverType, LossOK, QueueOK, WaitOK, Waits
<1> QED
  BY <1>1, <1>2, SendReceiver, TickReceiver DEF Next

(* The queue holds exactly the rows, each once, and a mark waits for its   *)
(* report at most until every other path had its turn, for any number of   *)
(* paths (ca_alloc, ca_free, ca_next).                                     *)
THEOREM ReportedInTurnTheorem == Spec => []ReportedInTurn
<1>1. ReceiverInv => ReportedInTurn
  <2> SUFFICES ASSUME ReceiverInv PROVE ReportedInTurn
    OBVIOUS
  <2>1. /\ {ca_queue[i] : i \in DOMAIN ca_queue} = DOMAIN ca_map
        /\ Len(ca_queue) = Cardinality(DOMAIN ca_map)
    BY QueueLength DEF ReceiverInv
  <2>2. ASSUME NEW i \in DOMAIN ca_queue, NEW k, k = ca_queue[i], ca_map[k].recv_ecn
        PROVE  wait[k] + i <= Cardinality(RecvPaths)
    <3>1. k \in DOMAIN ca_map
      BY <2>2 DEF ReceiverInv, QueueOK
    <3>2. ca_map[k].recv_ecn \in BOOLEAN
      BY <3>1 DEF ReceiverInv, ReceiverType, Row
    <3>3. Waits(k)
      BY <2>2, <3>1, <3>2 DEF Waits
    <3> QED
      BY <2>2, <3>3 DEF ReceiverInv, WaitOK
  <2> QED
    BY <2>1, <2>2 DEF ReportedInTurn
<1> QED
  BY ReceiverInit, ReceiverStep, <1>1, PTL DEF Spec

(* No step but the row's own report, or its end, takes a mark away (send,  *)
(* recv, ca_next).                                                         *)
THEOREM MarksKeptTheorem == Spec => MarksKept
<1>1. ReceiverInv /\ [Next]_vars =>
        [\A k \in DOMAIN ca_map :
           ca_map[k].recv_ecn =>
             \/ k \in DOMAIN ca_map' /\ ca_map'[k].recv_ecn
             \/ Send /\ (k \in Reported(ca_map, ca_queue) \/ ca_map[k].age > T_VP_EXPIRE)]_vars
  <2> SUFFICES ASSUME ReceiverInv, Next, NEW k \in DOMAIN ca_map, ca_map[k].recv_ecn = TRUE,
                      Send => /\ k \notin Reported(ca_map, ca_queue)
                              /\ ~ (ca_map[k].age > T_VP_EXPIRE)
               PROVE  k \in DOMAIN ca_map' /\ ca_map'[k].recv_ecn = TRUE
    <3>1. \A k \in DOMAIN ca_map : ReceiverInv => ca_map[k].recv_ecn \in BOOLEAN
      BY DEF ReceiverInv, ReceiverType, Row
    <3> QED
      BY <3>1
  <2>1. CASE Send
    BY <2>1, SendRows
  <2>2. CASE \E j \in RecvPaths, ce, echo \in BOOLEAN, marks \in Reports : Recv(j, ce, marks, echo)
    BY <2>2, RecvRows
  <2>3. CASE Tick
    BY <2>3, TickRows
  <2> QED
    BY <2>1, <2>2, <2>3 DEF Next
<1> QED
  BY ReceiverInit, ReceiverStep, <1>1, PTL DEF Spec, MarksKept

(* A row takes an unreported mark with it at most once in T_VP_EXPIRE per  *)
(* path (ca_next, ca_free, ca_alloc).                                      *)
THEOREM LossesSpacedTheorem == Spec => LossesSpaced
<1>1. ReceiverInv /\ [Next]_vars =>
        [\A k \in RecvPaths : Send /\ Lost(k) => loss_age[k] > T_VP_EXPIRE]_vars
  <2> SUFFICES ASSUME ReceiverInv, NEW k \in RecvPaths, Send, Lost(k)
               PROVE  loss_age[k] > T_VP_EXPIRE
    OBVIOUS
  <2>1. k \in Freed(ca_map, ca_queue) \cap DOMAIN ca_map
    BY DEF Lost
  <2>2. ca_map[k].age > T_VP_EXPIRE
    BY <2>1, SendRows
  <2>3. ca_map[k].age <= loss_age[k] /\ ca_map[k].age \in Nat /\ loss_age[k] \in Nat
    BY <2>1 DEF ReceiverInv, LossOK, ReceiverType, Row
  <2> QED
    BY <2>2, <2>3, VpExpireAssumption
<1> QED
  BY ReceiverInit, ReceiverStep, <1>1, PTL DEF Spec, LossesSpaced
=============================================================================
