---------------------------- MODULE HermesProofs ----------------------------
(***************************************************************************)
(* Proofs about Hermes, for every number of paths and flows, every         *)
(* threshold and every time limit.                                         *)
(*                                                                         *)
(* None of the three properties is inductive.  A report is as good as the  *)
(* row it is made of, so that RttFresh and MarksFade follow from what is   *)
(* true of the rows: their ages agree with the time since the path's last  *)
(* packet as long as they are below the limits, and the newest bits are 0, *)
(* one for each report since the marks began to fade.  A flow does not     *)
(* return because the delay of its path, as last reported, falls with      *)
(* every move.                                                             *)
(***************************************************************************)
EXTENDS Hermes, FiniteSetTheorems, WellFoundedInduction, TLAPS

Row == [ecn_bitmap : Seq(BOOLEAN), recv_rtt : Nat, rtt_age : Nat, ecn_age : Nat, age : Nat]

Quiet == [age : Nat, reports : 0 .. ECN_PCNT]

SenderType ==
  /\ c_rtt \in [VPs -> Nat]
  /\ rank \in [VPs -> {"GOOD", "GREY", "CONGESTED"}]
  /\ send_undefined \in [VPs -> Nat]
  /\ DOMAIN flow_table \subseteq Flows
  /\ \A f \in DOMAIN flow_table : flow_table[f] \in VPs
  /\ left \in [Flows -> SUBSET VPs]

ReceiverType ==
  /\ ca_queue \in Seq(RecvPaths)
  /\ DOMAIN ca_map \subseteq RecvPaths
  /\ \A k \in DOMAIN ca_map : ca_map[k] \in Row
  /\ quiet \in [RecvPaths -> Quiet]
  /\ measured \in [RecvPaths -> Nat]

(* The paths that a flow has left are slower than the one it is on.        *)
LeftSlower ==
  \A f \in Flows :
    /\ f \in DOMAIN flow_table => \A w \in left[f] : c_rtt[w] > c_rtt[flow_table[f]]
    /\ f \notin DOMAIN flow_table => left[f] = {}

(* The last n bits are 0.                                                  *)
Shaded(bitmap, n) == \A i \in DOMAIN bitmap : bitmap[i] = TRUE => i + n <= Len(bitmap)

(* A delay is that of the last packet, and its age is right until it is    *)
(* past its time.                                                          *)
RttOK(row, q, m) ==
  row.recv_rtt # 0 => /\ row.recv_rtt = m
                      /\ row.rtt_age <= T_RTT_EXPIRE => row.rtt_age = q.age

EcnOK(row, q) ==
  /\ row.ecn_age <= T_ECN_EXPIRE => row.ecn_age = q.age
  /\ row.ecn_age > T_ECN_EXPIRE => q.age > T_ECN_EXPIRE
  /\ Len(row.ecn_bitmap) <= ECN_PCNT
  /\ Shaded(row.ecn_bitmap, q.reports)

RowsOK ==
  \A k \in DOMAIN ca_map : /\ RttOK(ca_map[k], quiet[k], measured[k])
                           /\ EcnOK(ca_map[k], quiet[k])

(* A report is made of a row, which is not past its time.                  *)
ReportOK ==
  \A r \in report : /\ r.vp_rid \in DOMAIN ca_map
                    /\ r.vp_rtt = ca_map[r.vp_rid].recv_rtt
                    /\ r.ecn_ratio[1] = Ones(ca_map[r.vp_rid].ecn_bitmap)
                    /\ ca_map[r.vp_rid].rtt_age <= T_RTT_EXPIRE

SenderInv == SenderType /\ LeftSlower
ReceiverInv == ReceiverType /\ RowsOK /\ ReportOK

-----------------------------------------------------------------------------
(* The choice of a path.                                                   *)

LEMMA LeastNatural ==
  ASSUME NEW S \in SUBSET Nat, S # {}
  PROVE  \E k \in S : \A j \in S : k <= j
<1>1. PICK k \in S : \A j \in S : ~ (<<j, k>> \in OpToRel(<, Nat))
  BY NatLessThanWellFounded, WFMin
<1>2. \A j \in S : ~ (j < k)
  BY <1>1 DEF OpToRel
<1> QED
  BY <1>2

(* Some path has the best rank, and one of these the fewest packets.       *)
LEMMA NextIsPath == SenderType => vp_next \in VPs
<1> SUFFICES ASSUME SenderType PROVE vp_next \in VPs
  OBVIOUS
<1>1. BestRank \subseteq VPs
  BY DEF BestRank, Ranked
<1>2. BestRank # {}
  <2>1. 0 \in VPs
    BY SizeAssumption DEF VPs
  <2>2. rank[0] \in {"GOOD", "GREY", "CONGESTED"}
    BY <2>1 DEF SenderType
  <2> QED
    BY <2>1, <2>2 DEF BestRank, Ranked
<1> DEFINE N == {send_undefined[v] : v \in BestRank}
<1>3. N \in SUBSET Nat /\ N # {}
  BY <1>1, <1>2 DEF SenderType
<1>4. PICK n \in N : \A m \in N : n <= m
  BY <1>3, LeastNatural
<1> DEFINE L == {v \in BestRank : send_undefined[v] = n}
<1>9. VPs \subseteq Nat
  BY SizeAssumption DEF VPs
<1>5. L \in SUBSET Nat /\ L # {}
  BY <1>1, <1>4, <1>9
<1>6. PICK v \in L : \A u \in L : v <= u
  BY <1>5, LeastNatural
<1>7. \A u \in BestRank : send_undefined[v] <= send_undefined[u] /\ send_undefined[u] \in Nat
  BY <1>1, <1>4, <1>6 DEF SenderType
<1>8. \A u \in BestRank : \/ send_undefined[v] < send_undefined[u]
                          \/ send_undefined[v] = send_undefined[u] /\ v <= u
  BY <1>6, <1>7
<1> QED
  BY <1>1, <1>6, <1>8 DEF vp_next

-----------------------------------------------------------------------------
(* The sender.                                                             *)

LEMMA SenderInit == Init => SenderInv
  BY DEF Init, SenderInv, SenderType, LeftSlower

LEMMA SendSender ==
  ASSUME SenderInv, NEW f \in Flows, Send(f)
  PROVE  SenderInv'
<1> DEFINE v == PathOf(f)
<1>1. SenderType /\ LeftSlower
  BY DEF SenderInv
<1>2. /\ v \in VPs
      /\ f \in DOMAIN flow_table /\ v # flow_table[f] => c_rtt[flow_table[f]] > c_rtt[v]
  <2>1. vp_next \in VPs
    BY <1>1, NextIsPath
  <2>2. CASE f \notin DOMAIN flow_table
    BY <2>1, <2>2 DEF PathOf
  <2>3. CASE f \in DOMAIN flow_table
    <3> DEFINE o == flow_table[f]
    <3>1. o \in VPs
      BY <1>1, <2>3 DEF SenderType
    <3>2. v = o \/ (v = vp_next /\ Better(vp_next, o))
      BY <2>3 DEF PathOf
    <3>3. c_rtt[o] \in Nat /\ c_rtt[vp_next] \in Nat /\ DELTA_RTT \in Nat
      BY <1>1, <2>1, <3>1, RttAssumption DEF SenderType
    <3>4. Better(vp_next, o) => c_rtt[o] > c_rtt[vp_next]
      BY <3>3 DEF Better
    <3> QED
      BY <2>1, <3>1, <3>2, <3>4
  <2> QED
    BY <2>2, <2>3
<1>3. /\ flow_table' = [g \in DOMAIN flow_table \cup {f} |->
                          IF g = f THEN v ELSE flow_table[g]]
      /\ left' = IF f \in DOMAIN flow_table /\ v # flow_table[f]
                 THEN [left EXCEPT ![f] = @ \cup {flow_table[f]}] ELSE left
      /\ send_undefined' = [send_undefined EXCEPT ![v] = @ + 1]
      /\ UNCHANGED <<c_rtt, rank>>
  BY DEF Send
<1> HIDE DEF v
<1>4. SenderType'
  BY <1>1, <1>2, <1>3 DEF SenderType
<1>5. ASSUME NEW g \in Flows, g # f
      PROVE  /\ g \in DOMAIN flow_table' => \A w \in left'[g] : c_rtt'[w] > c_rtt'[flow_table'[g]]
             /\ g \notin DOMAIN flow_table' => left'[g] = {}
  BY <1>1, <1>3, <1>5 DEF SenderType, LeftSlower
<1>6. f \in DOMAIN flow_table' /\ \A w \in left'[f] : c_rtt'[w] > c_rtt'[flow_table'[f]]
  <2>1. flow_table'[f] = v /\ f \in DOMAIN flow_table' /\ c_rtt' = c_rtt
    BY <1>3
  <2>2. CASE f \notin DOMAIN flow_table
    BY <1>1, <1>3, <2>1, <2>2 DEF LeftSlower
  <2>3. CASE f \in DOMAIN flow_table /\ v = flow_table[f]
    BY <1>1, <1>3, <2>1, <2>3 DEF LeftSlower
  <2>4. CASE f \in DOMAIN flow_table /\ v # flow_table[f]
    <3> DEFINE o == flow_table[f]
    <3>1. left'[f] = left[f] \cup {o}
      BY <1>1, <1>3, <2>4 DEF SenderType
    <3>2. c_rtt[o] > c_rtt[v] /\ \A w \in left[f] : c_rtt[w] > c_rtt[o]
      BY <1>1, <1>2, <2>4 DEF LeftSlower
    <3>3. /\ c_rtt[v] \in Nat /\ c_rtt[o] \in Nat
          /\ \A w \in left[f] : c_rtt[w] \in Nat
      BY <1>1, <1>2, <2>4 DEF SenderType
    <3>4. \A w \in left[f] : c_rtt[w] > c_rtt[v]
      BY <3>2, <3>3
    <3> QED
      BY <2>1, <3>1, <3>2, <3>4
  <2> QED
    BY <2>2, <2>3, <2>4
<1>7. LeftSlower'
  BY <1>5, <1>6 DEF LeftSlower
<1> QED
  BY <1>4, <1>7 DEF SenderInv

(* A report starts the comparison of the paths anew.                       *)
LEMMA RecvSender ==
  ASSUME SenderInv, NEW x \in Arrivals, NEW reps \in Reports, Recv(x[1], x[2], x[3], reps)
  PROVE  SenderInv'
<1>1. flow_table' = flow_table /\ send_undefined' = send_undefined
  BY DEF Recv
<1>2. CASE reps = {}
  BY <1>1, <1>2 DEF Recv, SenderInv, SenderType, LeftSlower
<1>3. ASSUME NEW v \in VPs, NEW rtt \in Rtts, NEW ratio \in Ratios, reps = {<<v, rtt, ratio>>}
      PROVE  SenderInv'
  <2>1. Learn(v, rtt, ratio)
    <3> DEFINE y == <<v, rtt, ratio>>
    <3>1. y[1] = v /\ y[2] = rtt /\ y[3] = ratio /\ reps = {y}
      BY <1>3
    <3> HIDE DEF y
    <3>2. \E r \in reps : Learn(r[1], r[2], r[3])
      BY <3>1 DEF Recv
    <3> QED
      BY <3>1, <3>2
  <2>2. Rank(rtt, ratio) \in {"GOOD", "GREY", "CONGESTED"} /\ rtt \in Nat
    BY RttAssumption DEF Rank
  <2>3. SenderType'
    BY <1>1, <2>1, <2>2 DEF SenderInv, SenderType, Learn
  <2>4. LeftSlower'
    BY <1>1, <2>1 DEF LeftSlower, Learn
  <2> QED
    BY <2>3, <2>4 DEF SenderInv
<1> QED
  BY <1>2, <1>3 DEF Reports

LEMMA SenderStep == SenderInv /\ [Next]_vars => SenderInv'
<1> SUFFICES ASSUME SenderInv, [Next]_vars PROVE SenderInv'
  OBVIOUS
<1>1. CASE \E f \in Flows : Send(f)
  BY <1>1, SendSender
<1>2. CASE \E x \in Arrivals, reps \in Reports : Recv(x[1], x[2], x[3], reps)
  BY <1>2, RecvSender
<1>3. CASE Expire
  BY <1>3 DEF Expire, SenderInv, SenderType, LeftSlower
<1>4. CASE Tick \/ UNCHANGED vars
  BY <1>4 DEF Tick, vars, sender, SenderInv, SenderType, LeftSlower
<1> QED
  BY <1>1, <1>2, <1>3, <1>4 DEF Next

(* Without a new report a flow never returns to a path it left, for any    *)
(* number of paths, flows and packets and any margins (send, vp_next).     *)
THEOREM NoReturnTheorem == Spec => []NoReturn
<1>1. SenderInv => NoReturn
  <2> SUFFICES ASSUME SenderInv, NEW f \in DOMAIN flow_table, flow_table[f] \in left[f]
               PROVE  FALSE
    BY DEF NoReturn
  <2>1. f \in Flows /\ flow_table[f] \in VPs
    BY DEF SenderInv, SenderType
  <2>2. c_rtt[flow_table[f]] > c_rtt[flow_table[f]] /\ c_rtt[flow_table[f]] \in Nat
    BY <2>1 DEF SenderInv, SenderType, LeftSlower
  <2> QED
    BY <2>2
<1> QED
  BY SenderInit, SenderStep, <1>1, PTL DEF Spec

-----------------------------------------------------------------------------
(* The bitmap.                                                             *)

(* One more bit is the last one.                                           *)
LEMMA PushedFacts ==
  ASSUME NEW bm \in Seq(BOOLEAN), NEW b \in BOOLEAN, NEW n \in Nat,
         Len(bm) <= ECN_PCNT, Shaded(bm, n)
  PROVE  /\ Pushed(bm, b) \in Seq(BOOLEAN)
         /\ Len(Pushed(bm, b)) <= ECN_PCNT
         /\ b = FALSE => Shaded(Pushed(bm, b), n + 1)
         /\ Shaded(Pushed(bm, b), 0)
<1> DEFINE s == Append(bm, b)
<1>1. /\ s \in Seq(BOOLEAN) /\ Len(s) = Len(bm) + 1
      /\ \A i \in 1 .. Len(bm) : s[i] = bm[i]
      /\ s[Len(bm) + 1] = b
  OBVIOUS
<1>2. Len(bm) \in Nat /\ ECN_PCNT \in Nat /\ DOMAIN bm = 1 .. Len(bm)
  BY SizeAssumption
<1> HIDE DEF s
<1>3. b = FALSE => Shaded(s, n + 1)
  <2> SUFFICES ASSUME b = FALSE, NEW i \in DOMAIN s, s[i] = TRUE
               PROVE  i + (n + 1) <= Len(s)
    BY DEF Shaded
  <2>1. i \in 1 .. Len(bm) + 1 /\ i # Len(bm) + 1
    BY <1>1
  <2>2. i \in 1 .. Len(bm)
    BY <2>1, <1>2
  <2>3. i + n <= Len(bm)
    BY <1>1, <1>2, <2>2 DEF Shaded
  <2> QED
    BY <1>1, <1>2, <2>2, <2>3
<1>4. CASE ~ (Len(s) > ECN_PCNT)
  <2>1. Pushed(bm, b) = s
    BY <1>4 DEF Pushed, s
  <2>2. Shaded(s, 0)
    BY <1>1 DEF Shaded
  <2>3. Len(s) <= ECN_PCNT
    BY <1>1, <1>2, <1>4
  <2> QED
    BY <1>1, <1>3, <2>1, <2>2, <2>3
<1>5. CASE Len(s) > ECN_PCNT
  <2>1. Pushed(bm, b) = Tail(s)
    BY <1>5 DEF Pushed, s
  <2>2. s # << >>
    BY <1>1, <1>2
  <2>3. /\ Tail(s) \in Seq(BOOLEAN) /\ Len(Tail(s)) = Len(s) - 1
        /\ \A i \in DOMAIN Tail(s) : i + 1 \in DOMAIN s /\ Tail(s)[i] = s[i + 1] /\ i \in Nat /\ i <= Len(s) - 1
    BY <1>1, <2>2
  <2>4. Shaded(Tail(s), 0)
    BY <1>1, <1>2, <2>3 DEF Shaded
  <2>5. ASSUME Shaded(s, n + 1), NEW i \in DOMAIN Tail(s), Tail(s)[i] = TRUE
        PROVE  i + (n + 1) <= Len(Tail(s))
    <3>1. (i + 1) + (n + 1) <= Len(s)
      BY <2>3, <2>5 DEF Shaded
    <3> QED
      BY <1>1, <1>2, <2>3, <3>1
  <2>6. Shaded(s, n + 1) => Shaded(Tail(s), n + 1)
    BY <2>5 DEF Shaded
  <2> QED
    BY <1>1, <1>2, <1>3, <2>1, <2>3, <2>4, <2>6
<1> QED
  BY <1>4, <1>5

LEMMA ShadedLess ==
  ASSUME NEW bm \in Seq(BOOLEAN), NEW n \in Nat, Shaded(bm, n + 1)
  PROVE  Shaded(bm, n)
  BY DEF Shaded

(* A bit of 0 is no mark.                                                  *)
LEMMA OnesBound ==
  ASSUME NEW bm \in Seq(BOOLEAN), NEW n \in 0 .. ECN_PCNT, Len(bm) <= ECN_PCNT, Shaded(bm, n)
  PROVE  Ones(bm) \in Nat /\ Ones(bm) + n <= ECN_PCNT
<1> DEFINE S == {i \in DOMAIN bm : bm[i]}
           m == Len(bm) - n
<1>1. Len(bm) \in Nat /\ ECN_PCNT \in Nat /\ DOMAIN bm = 1 .. Len(bm) /\ m \in Int /\ m = Len(bm) - n
  BY SizeAssumption
<1>2. S \in SUBSET (1 .. m)
  BY <1>1 DEF Shaded
<1> HIDE DEF m
<1>3. IsFiniteSet(1 .. m) /\ Cardinality(1 .. m) = IF 1 > m THEN 0 ELSE m - 1 + 1
  <2>1. m \in Int /\ 1 \in Int
    BY <1>1
  <2> QED
    BY <2>1, FS_Interval, Zenon
<1>4. IsFiniteSet(S) /\ Cardinality(S) <= Cardinality(1 .. m)
  BY <1>2, <1>3, FS_Subset
<1>5. Cardinality(S) \in Nat
  BY <1>4, FS_CardinalityType
<1>6. Ones(bm) = Cardinality(S)
  BY DEF Ones
<1> HIDE DEF S
<1> QED
  BY <1>1, <1>3, <1>4, <1>5, <1>6

-----------------------------------------------------------------------------
(* The queue of rows.                                                      *)

(* The row that ca_next returns is live, those it frees are not.           *)
LEMMA NextRow ==
  ASSUME NEW map, NEW q \in Seq(RecvPaths)
  PROVE  /\ \A k \in Reported(map, q) : Live(map, k) /\ k \notin Freed(map, q)
         /\ Rotated(map, q) \in Seq(RecvPaths)
<1> DEFINE S == LivePlaces(map, q)
           n == Place(map, q)
<1>1. S \in SUBSET Nat /\ DOMAIN q = 1 .. Len(q) /\ Len(q) \in Nat
  BY DEF LivePlaces
<1>2. /\ n \in 1 .. Len(q) + 1
      /\ n \in 1 .. Len(q) => Live(map, q[n])
      /\ \A i \in 1 .. n - 1 : ~ Live(map, q[i])
  <2>1. CASE S = {}
    BY <1>1, <2>1 DEF Place, LivePlaces
  <2>2. CASE S # {}
    <3>1. PICK k \in S : \A j \in S : k <= j
      BY <1>1, <2>2, LeastNatural
    <3>2. First(S) \in S /\ \A j \in S : First(S) <= j
      BY <3>1 DEF First
    <3>3. n = First(S)
      BY <2>2 DEF Place
    <3> HIDE DEF n
    <3>4. n \in 1 .. Len(q) /\ Live(map, q[n])
      BY <1>1, <3>2, <3>3 DEF LivePlaces
    <3>5. \A i \in 1 .. n - 1 : i \in DOMAIN q /\ i \notin S
      BY <1>1, <3>2, <3>3, <3>4
    <3> QED
      BY <1>1, <3>4, <3>5 DEF LivePlaces
  <2> QED
    BY <2>1, <2>2
<1> HIDE DEF n
<1>3. Reported(map, q) \subseteq {q[i] : i \in 1 .. Len(q) \cap {n}} /\ Freed(map, q) = {q[i] : i \in 1 .. n - 1}
  BY <1>1 DEF Reported, Freed, n
<1>4. \A k \in Reported(map, q) : k = q[n] /\ n \in 1 .. Len(q)
  BY <1>3
<1>5. Rotated(map, q) \in Seq(RecvPaths)
  <2>1. CASE n > Len(q)
    BY <2>1 DEF Rotated, n
  <2>2. CASE n <= Len(q)
    <3>1. q[n] \in RecvPaths
      BY <1>1, <1>2, <2>2
    <3>2. SubSeq(q, n + 1, Len(q)) \in Seq(RecvPaths)
      BY <1>1, <1>2, <2>2
    <3>3. Rotated(map, q) = Append(SubSeq(q, n + 1, Len(q)), q[n])
      BY <1>1, <1>2, <2>2 DEF Rotated, n
    <3> QED
      BY <3>1, <3>2, <3>3
  <2> QED
    BY <1>1, <1>2, <2>1, <2>2
<1> QED
  BY <1>2, <1>3, <1>4, <1>5

-----------------------------------------------------------------------------
(* A row and the history of its path, step by step.                        *)

(* One more report of a path that has fallen silent.                       *)
Counted(q) ==
  IF q.age > T_ECN_EXPIRE
  THEN [q EXCEPT !.reports = IF @ < ECN_PCNT THEN @ + 1 ELSE @] ELSE q

LEMMA CountedFacts ==
  ASSUME NEW q \in Quiet
  PROVE  /\ Counted(q) \in Quiet
         /\ Counted(q).age = q.age
         /\ ~ (q.age > T_ECN_EXPIRE) => Counted(q).reports = q.reports
         /\ q.age > T_ECN_EXPIRE =>
              \/ Counted(q).reports = q.reports + 1
              \/ Counted(q).reports = q.reports
<1>1. q.age \in Nat /\ q.reports \in 0 .. ECN_PCNT /\ ECN_PCNT \in Nat /\ T_ECN_EXPIRE \in Nat
  BY SizeAssumption, TimesAssumption DEF Quiet
<1>2. CASE q.age > T_ECN_EXPIRE /\ q.reports < ECN_PCNT
  <2>1. Counted(q) = [q EXCEPT !.reports = q.reports + 1]
    BY <1>2 DEF Counted
  <2> QED
    BY <1>1, <1>2, <2>1 DEF Quiet
<1>3. CASE q.age > T_ECN_EXPIRE /\ ~ (q.reports < ECN_PCNT)
  <2>1. Counted(q) = [q EXCEPT !.reports = q.reports]
    BY <1>3 DEF Counted
  <2> QED
    BY <1>1, <1>3, <2>1 DEF Quiet
<1>4. CASE ~ (q.age > T_ECN_EXPIRE)
  BY <1>1, <1>4 DEF Counted
<1> QED
  BY <1>2, <1>3, <1>4

LEMMA FadedFacts ==
  ASSUME NEW row \in Row, NEW q \in Quiet, NEW m \in Nat, RttOK(row, q, m), EcnOK(row, q)
  PROVE  /\ Faded(row) \in Row
         /\ Faded(row).rtt_age <= T_RTT_EXPIRE
         /\ RttOK(Faded(row), Counted(q), m)
         /\ EcnOK(Faded(row), Counted(q))
<1> DEFINE new == Faded(row)
           rtt == IF row.rtt_age > T_RTT_EXPIRE THEN 0 ELSE row.recv_rtt
           rage == IF row.rtt_age > T_RTT_EXPIRE THEN 0 ELSE row.rtt_age
           bm == IF row.ecn_age > T_ECN_EXPIRE THEN Pushed(row.ecn_bitmap, FALSE) ELSE row.ecn_bitmap
<1>1. /\ row.ecn_bitmap \in Seq(BOOLEAN) /\ row.recv_rtt \in Nat /\ row.rtt_age \in Nat
      /\ row.ecn_age \in Nat /\ row.age \in Nat
      /\ q.age \in Nat /\ q.reports \in Nat
      /\ T_RTT_EXPIRE \in Nat /\ T_ECN_EXPIRE \in Nat
  BY TimesAssumption, SizeAssumption DEF Row, Quiet
<1>2. new = [row EXCEPT !.recv_rtt = rtt, !.rtt_age = rage, !.ecn_bitmap = bm]
  BY DEF Faded
<1>3. /\ Counted(q) \in Quiet
      /\ Counted(q).age = q.age
      /\ ~ (q.age > T_ECN_EXPIRE) => Counted(q).reports = q.reports
      /\ q.age > T_ECN_EXPIRE =>
           Counted(q).reports = q.reports + 1 \/ Counted(q).reports = q.reports
  BY CountedFacts
<1>4. /\ rtt \in Nat /\ rage \in Nat /\ rage <= T_RTT_EXPIRE
      /\ rtt # 0 => (rtt = row.recv_rtt /\ rage = row.rtt_age /\ row.rtt_age <= T_RTT_EXPIRE)
  <2>1. CASE row.rtt_age > T_RTT_EXPIRE
    BY <1>1, <2>1
  <2>2. CASE ~ (row.rtt_age > T_RTT_EXPIRE)
    BY <1>1, <2>2
  <2> QED
    BY <2>1, <2>2
<1>5. bm \in Seq(BOOLEAN) /\ Len(bm) <= ECN_PCNT /\ Shaded(bm, Counted(q).reports)
  <2>1. CASE ~ (row.ecn_age > T_ECN_EXPIRE)
    <3>1. Counted(q).reports = q.reports
      BY <1>1, <1>3, <2>1 DEF EcnOK
    <3> QED
      BY <1>1, <2>1, <3>1 DEF EcnOK
  <2>2. CASE row.ecn_age > T_ECN_EXPIRE
    <3>1. bm = Pushed(row.ecn_bitmap, FALSE)
      BY <2>2
    <3>2. Len(row.ecn_bitmap) <= ECN_PCNT /\ Shaded(row.ecn_bitmap, q.reports)
      BY DEF EcnOK
    <3>3. /\ bm \in Seq(BOOLEAN)
          /\ Len(bm) <= ECN_PCNT
          /\ Shaded(bm, q.reports + 1)
      BY <1>1, <3>1, <3>2, PushedFacts
    <3> HIDE DEF bm
    <3>4. Shaded(bm, q.reports)
      BY <1>1, <3>3, ShadedLess
    <3>5. q.age > T_ECN_EXPIRE
      BY <2>2 DEF EcnOK
    <3> QED
      BY <1>3, <3>3, <3>4, <3>5
  <2> QED
    BY <2>1, <2>2
<1> HIDE DEF rtt, rage, bm
<1>9. new = [ecn_bitmap |-> bm, recv_rtt |-> rtt, rtt_age |-> rage, ecn_age |-> row.ecn_age,
             age |-> row.age]
  BY <1>2 DEF Row
<1> HIDE DEF new
<1>6. new \in Row /\ new.recv_rtt = rtt /\ new.rtt_age = rage /\ new.ecn_bitmap = bm /\ new.ecn_age = row.ecn_age
  BY <1>1, <1>4, <1>5, <1>9 DEF Row
<1>7. RttOK(new, Counted(q), m)
  BY <1>3, <1>4, <1>6 DEF RttOK
<1>8. EcnOK(new, Counted(q))
  BY <1>3, <1>5, <1>6 DEF EcnOK
<1> QED
  BY <1>4, <1>6, <1>7, <1>8 DEF new

LEMMA NotedFacts ==
  ASSUME NEW row \in Row, NEW ce \in BOOLEAN, NEW rtt \in Nat, Len(row.ecn_bitmap) <= ECN_PCNT,
         NEW q \in Quiet, q.age = 0, q.reports = 0
  PROVE  /\ Noted(row, ce, rtt) \in Row
         /\ RttOK(Noted(row, ce, rtt), q, rtt)
         /\ EcnOK(Noted(row, ce, rtt), q)
<1> DEFINE new == Noted(row, ce, rtt)
           bm == Pushed(row.ecn_bitmap, ce)
<1>1. row.ecn_bitmap \in Seq(BOOLEAN) /\ row.age \in Nat /\ T_ECN_EXPIRE \in Nat
  BY TimesAssumption DEF Row
<1>2. Shaded(row.ecn_bitmap, 0)
  BY <1>1 DEF Shaded
<1>3. bm \in Seq(BOOLEAN) /\ Len(bm) <= ECN_PCNT /\ Shaded(bm, 0)
  BY <1>1, <1>2, PushedFacts
<1>4. new = [row EXCEPT !.recv_rtt = rtt, !.rtt_age = 0, !.ecn_age = 0, !.ecn_bitmap = bm]
  BY DEF Noted
<1> HIDE DEF bm
<1>6. new = [ecn_bitmap |-> bm, recv_rtt |-> rtt, rtt_age |-> 0, ecn_age |-> 0, age |-> row.age]
  BY <1>4 DEF Row
<1> HIDE DEF new
<1>5. new \in Row /\ new.recv_rtt = rtt /\ new.rtt_age = 0 /\ new.ecn_bitmap = bm /\ new.ecn_age = 0
  BY <1>1, <1>3, <1>6 DEF Row
<1> QED
  BY <1>1, <1>3, <1>5 DEF RttOK, EcnOK, new

(* The row and the history grow old together.                              *)
LEMMA OlderFacts ==
  ASSUME NEW row \in Row, NEW q \in Quiet, NEW m \in Nat, RttOK(row, q, m), EcnOK(row, q),
         NEW row2 \in Row, NEW q2 \in Quiet,
         row2.recv_rtt = row.recv_rtt, row2.ecn_bitmap = row.ecn_bitmap,
         row2.rtt_age = Older(row.rtt_age, T_RTT_EXPIRE),
         row2.ecn_age = Older(row.ecn_age, T_ECN_EXPIRE),
         q2.age = Older(q.age, Limit), q2.reports = q.reports
  PROVE  RttOK(row2, q2, m) /\ EcnOK(row2, q2)
<1>1. /\ row.recv_rtt \in Nat /\ row.rtt_age \in Nat /\ row.ecn_age \in Nat
      /\ q.age \in Nat /\ q.reports \in Nat
      /\ T_RTT_EXPIRE \in Nat /\ T_ECN_EXPIRE \in Nat /\ Limit \in Nat
      /\ T_RTT_EXPIRE <= Limit /\ T_ECN_EXPIRE <= Limit
  BY TimesAssumption, SizeAssumption DEF Row, Quiet, Limit
<1>2. RttOK(row2, q2, m)
  BY <1>1 DEF RttOK, Older
<1>3. EcnOK(row2, q2)
  BY <1>1 DEF EcnOK, Older
<1> QED
  BY <1>2, <1>3

-----------------------------------------------------------------------------
(* The receiver.                                                           *)

LEMMA ReceiverInit == Init => ReceiverInv
<1> SUFFICES ASSUME Init PROVE ReceiverInv
  OBVIOUS
<1>1. [age |-> Limit + 1, reports |-> 0] \in Quiet
  BY TimesAssumption, SizeAssumption DEF Limit, Quiet
<1>2. ReceiverType
  BY <1>1 DEF Init, ReceiverType
<1>3. RowsOK /\ ReportOK
  BY DEF Init, RowsOK, ReportOK
<1> QED
  BY <1>2, <1>3 DEF ReceiverInv

LEMMA SendReceiver ==
  ASSUME ReceiverInv, NEW f \in Flows, Send(f)
  PROVE  ReceiverInv'
<1> DEFINE keys == Reported(ca_map, ca_queue)
           gone == Freed(ca_map, ca_queue)
<1>1. ReceiverType /\ RowsOK
  BY DEF ReceiverInv
<1>2. /\ \A k \in keys : Live(ca_map, k) /\ k \notin gone
      /\ Rotated(ca_map, ca_queue) \in Seq(RecvPaths)
  BY <1>1, NextRow DEF ReceiverType
<1>3. /\ ca_queue' = Rotated(ca_map, ca_queue)
      /\ ca_map' = [k \in DOMAIN ca_map \ gone |->
                      IF k \in keys THEN Faded(ca_map[k]) ELSE ca_map[k]]
      /\ report' = {[vp_rid |-> k, vp_rtt |-> ca_map'[k].recv_rtt,
                     ecn_ratio |-> <<Ones(ca_map'[k].ecn_bitmap),
                                     Len(ca_map'[k].ecn_bitmap)>>] : k \in keys}
      /\ quiet' = [k \in RecvPaths |->
                     IF k \in keys /\ quiet[k].age > T_ECN_EXPIRE
                     THEN [quiet[k] EXCEPT !.reports = IF @ < ECN_PCNT THEN @ + 1 ELSE @]
                     ELSE quiet[k]]
      /\ measured' = measured
  BY DEF Send
<1> HIDE DEF keys, gone
<1>4. \A k \in RecvPaths : quiet'[k] = IF k \in keys THEN Counted(quiet[k]) ELSE quiet[k]
  <2> TAKE k \in RecvPaths
  <2>1. quiet'[k] = IF k \in keys /\ quiet[k].age > T_ECN_EXPIRE
                    THEN [quiet[k] EXCEPT !.reports = IF @ < ECN_PCNT THEN @ + 1 ELSE @]
                    ELSE quiet[k]
    BY <1>3
  <2>2. CASE k \in keys
    BY <2>1, <2>2 DEF Counted
  <2>3. CASE k \notin keys
    BY <2>1, <2>3
  <2> QED
    BY <2>2, <2>3
<1>5. \A k \in RecvPaths : quiet[k] \in Quiet /\ quiet'[k] \in Quiet
  BY <1>1, <1>4, CountedFacts DEF ReceiverType
<1>6. ASSUME NEW k \in DOMAIN ca_map'
      PROVE  /\ k \in DOMAIN ca_map /\ k \in RecvPaths
             /\ ca_map'[k] \in Row
             /\ RttOK(ca_map'[k], quiet'[k], measured'[k]) /\ EcnOK(ca_map'[k], quiet'[k])
             /\ k \in keys => ca_map'[k].rtt_age <= T_RTT_EXPIRE
  <2>1. k \in DOMAIN ca_map /\ k \in RecvPaths
    BY <1>1, <1>3, <1>6 DEF ReceiverType
  <2>2. /\ ca_map[k] \in Row /\ RttOK(ca_map[k], quiet[k], measured[k])
        /\ EcnOK(ca_map[k], quiet[k]) /\ measured[k] \in Nat /\ measured' = measured
    BY <1>1, <1>3, <2>1 DEF ReceiverType, RowsOK
  <2>3. CASE k \in keys
    <3>1. ca_map'[k] = Faded(ca_map[k]) /\ quiet'[k] = Counted(quiet[k])
      BY <1>3, <1>4, <1>6, <2>1, <2>3
    <3>2. /\ Faded(ca_map[k]) \in Row
          /\ Faded(ca_map[k]).rtt_age <= T_RTT_EXPIRE
          /\ RttOK(Faded(ca_map[k]), Counted(quiet[k]), measured[k])
          /\ EcnOK(Faded(ca_map[k]), Counted(quiet[k]))
      BY <1>5, <2>1, <2>2, FadedFacts
    <3> QED
      BY <2>1, <2>2, <3>1, <3>2
  <2>4. CASE k \notin keys
    <3>1. ca_map'[k] = ca_map[k] /\ quiet'[k] = quiet[k]
      BY <1>3, <1>4, <1>6, <2>1, <2>4
    <3> QED
      BY <2>1, <2>2, <2>4, <3>1
  <2> QED
    BY <2>3, <2>4
<1>7. ReceiverType'
  <2>1. quiet' \in [RecvPaths -> Quiet]
    BY <1>3, <1>5
  <2> QED
    BY <1>1, <1>2, <1>3, <1>6, <2>1 DEF ReceiverType
<1>8. RowsOK'
  BY <1>6 DEF RowsOK
<1>9. ReportOK'
  <2> SUFFICES ASSUME NEW r \in report'
               PROVE  /\ r.vp_rid \in DOMAIN ca_map'
                      /\ r.vp_rtt = ca_map'[r.vp_rid].recv_rtt
                      /\ r.ecn_ratio[1] = Ones(ca_map'[r.vp_rid].ecn_bitmap)
                      /\ ca_map'[r.vp_rid].rtt_age <= T_RTT_EXPIRE
    BY DEF ReportOK
  <2>3. PICK k \in keys :
          r = [vp_rid |-> k, vp_rtt |-> ca_map'[k].recv_rtt,
               ecn_ratio |-> <<Ones(ca_map'[k].ecn_bitmap), Len(ca_map'[k].ecn_bitmap)>>]
    BY <1>3, Zenon
  <2>1. /\ r.vp_rid = k /\ r.vp_rtt = ca_map'[k].recv_rtt
        /\ r.ecn_ratio[1] = Ones(ca_map'[k].ecn_bitmap)
    BY <2>3
  <2>2. k \in DOMAIN ca_map'
    BY <1>2, <1>3 DEF Live
  <2> QED
    BY <1>6, <2>1, <2>2
<1> QED
  BY <1>7, <1>8, <1>9 DEF ReceiverInv

LEMMA RecvReceiver ==
  ASSUME ReceiverInv, NEW x \in Arrivals, NEW reps, Recv(x[1], x[2], x[3], reps)
  PROVE  ReceiverInv'
<1> DEFINE k == x[1]
           ce == x[2]
           rtt == x[3]
           row == IF k \in DOMAIN ca_map THEN ca_map[k] ELSE NewRow
           zero == [age |-> 0, reports |-> 0]
<1>1. ReceiverType /\ RowsOK
  BY DEF ReceiverInv
<1>2. k \in RecvPaths /\ ce \in BOOLEAN /\ rtt \in Nat
  BY BoundsAssumption
<1>3. /\ ca_queue' = Queued(ca_map, ca_queue, k)
      /\ ca_map' = [j \in DOMAIN ca_map \cup {k} |->
                      IF j # k THEN ca_map[j] ELSE Noted(row, ce, rtt)]
      /\ quiet' = [quiet EXCEPT ![k] = zero]
      /\ measured' = [measured EXCEPT ![k] = rtt]
      /\ report' = {}
  BY DEF Recv
<1>4. row \in Row /\ Len(row.ecn_bitmap) <= ECN_PCNT
  <2>1. CASE k \in DOMAIN ca_map
    BY <1>1, <2>1 DEF ReceiverType, RowsOK, EcnOK
  <2>2. CASE k \notin DOMAIN ca_map
    <3>1. << >> \in Seq(BOOLEAN) /\ Len(<< >>) <= ECN_PCNT
      BY SizeAssumption
    <3> QED
      BY <2>2, <3>1 DEF NewRow, Row
  <2> QED
    BY <2>1, <2>2
<1>5. zero \in Quiet /\ zero.age = 0 /\ zero.reports = 0
  BY SizeAssumption DEF Quiet
<1> HIDE DEF k, ce, rtt, row, zero
<1>6. /\ Noted(row, ce, rtt) \in Row
      /\ RttOK(Noted(row, ce, rtt), zero, rtt)
      /\ EcnOK(Noted(row, ce, rtt), zero)
  BY <1>2, <1>4, <1>5, NotedFacts
<1>7. ca_queue' \in Seq(RecvPaths)
  BY <1>1, <1>2, <1>3 DEF Queued, ReceiverType
<1>8. quiet' \in [RecvPaths -> Quiet] /\ measured' \in [RecvPaths -> Nat]
  BY <1>1, <1>2, <1>3, <1>5 DEF ReceiverType
<1>9. ASSUME NEW j \in DOMAIN ca_map'
      PROVE  /\ j \in RecvPaths /\ ca_map'[j] \in Row
             /\ RttOK(ca_map'[j], quiet'[j], measured'[j]) /\ EcnOK(ca_map'[j], quiet'[j])
  <2>1. CASE j = k
    <3>1. ca_map'[j] = Noted(row, ce, rtt) /\ quiet'[j] = zero /\ measured'[j] = rtt
      BY <1>1, <1>2, <1>3, <2>1 DEF ReceiverType
    <3> QED
      BY <1>2, <1>6, <2>1, <3>1
  <2>2. CASE j # k
    <3>1. j \in DOMAIN ca_map /\ j \in RecvPaths
      BY <1>1, <1>3, <1>9, <2>2 DEF ReceiverType
    <3>2. ca_map'[j] = ca_map[j] /\ quiet'[j] = quiet[j] /\ measured'[j] = measured[j]
      BY <1>1, <1>3, <2>2, <3>1 DEF ReceiverType
    <3> QED
      BY <1>1, <3>1, <3>2 DEF ReceiverType, RowsOK
  <2> QED
    BY <2>1, <2>2
<1>10. ReceiverType'
  BY <1>7, <1>8, <1>9 DEF ReceiverType
<1> QED
  BY <1>3, <1>9, <1>10 DEF ReceiverInv, RowsOK, ReportOK

LEMMA TickReceiver ==
  ASSUME ReceiverInv, Tick
  PROVE  ReceiverInv'
<1>1. ReceiverType /\ RowsOK
  BY DEF ReceiverInv
<1>2. /\ ca_map' = [k \in DOMAIN ca_map |->
                      [ca_map[k] EXCEPT !.age = Older(@, T_VP_EXPIRE),
                                        !.rtt_age = Older(@, T_RTT_EXPIRE),
                                        !.ecn_age = Older(@, T_ECN_EXPIRE)]]
      /\ quiet' = [k \in RecvPaths |-> [quiet[k] EXCEPT !.age = Older(@, Limit)]]
      /\ report' = {} /\ ca_queue' = ca_queue /\ measured' = measured
  BY DEF Tick
<1>3. \A a, b \in Nat : Older(a, b) \in Nat
  BY DEF Older
<1>4. Limit \in Nat /\ T_RTT_EXPIRE \in Nat /\ T_ECN_EXPIRE \in Nat /\ T_VP_EXPIRE \in Nat
  BY TimesAssumption, VpExpireAssumption DEF Limit
<1>5. ASSUME NEW k \in RecvPaths
      PROVE  /\ quiet'[k] \in Quiet /\ quiet[k] \in Quiet
             /\ quiet'[k].age = Older(quiet[k].age, Limit)
             /\ quiet'[k].reports = quiet[k].reports
  <2> DEFINE q == quiet[k]
  <2>1. q \in Quiet /\ quiet'[k] = [q EXCEPT !.age = Older(q.age, Limit)]
    BY <1>1, <1>2 DEF ReceiverType
  <2> HIDE DEF q
  <2>2. Older(q.age, Limit) \in Nat
    BY <1>3, <1>4, <2>1 DEF Quiet
  <2> QED
    BY <2>1, <2>2 DEF Quiet, q
<1>6. ASSUME NEW k \in DOMAIN ca_map
      PROVE  /\ k \in RecvPaths /\ ca_map'[k] \in Row
             /\ RttOK(ca_map'[k], quiet'[k], measured'[k]) /\ EcnOK(ca_map'[k], quiet'[k])
  <2> DEFINE row == ca_map[k]
             new == ca_map'[k]
  <2>1. /\ k \in RecvPaths /\ row \in Row /\ measured[k] \in Nat
        /\ RttOK(row, quiet[k], measured[k]) /\ EcnOK(row, quiet[k])
    BY <1>1 DEF ReceiverType, RowsOK
  <2>2. new = [row EXCEPT !.age = Older(row.age, T_VP_EXPIRE),
                          !.rtt_age = Older(row.rtt_age, T_RTT_EXPIRE),
                          !.ecn_age = Older(row.ecn_age, T_ECN_EXPIRE)]
    BY <1>2
  <2> HIDE DEF row, new
  <2>3. new = [ecn_bitmap |-> row.ecn_bitmap, recv_rtt |-> row.recv_rtt,
               rtt_age |-> Older(row.rtt_age, T_RTT_EXPIRE),
               ecn_age |-> Older(row.ecn_age, T_ECN_EXPIRE),
               age |-> Older(row.age, T_VP_EXPIRE)]
    BY <2>1, <2>2 DEF Row
  <2>4. /\ Older(row.rtt_age, T_RTT_EXPIRE) \in Nat /\ Older(row.ecn_age, T_ECN_EXPIRE) \in Nat
        /\ Older(row.age, T_VP_EXPIRE) \in Nat
        /\ row.ecn_bitmap \in Seq(BOOLEAN) /\ row.recv_rtt \in Nat
    BY <1>3, <1>4, <2>1 DEF Row
  <2>5. /\ new \in Row /\ new.recv_rtt = row.recv_rtt /\ new.ecn_bitmap = row.ecn_bitmap
        /\ new.rtt_age = Older(row.rtt_age, T_RTT_EXPIRE)
        /\ new.ecn_age = Older(row.ecn_age, T_ECN_EXPIRE)
    BY <2>3, <2>4 DEF Row
  <2>6. RttOK(new, quiet'[k], measured[k]) /\ EcnOK(new, quiet'[k])
    BY <1>5, <2>1, <2>5, OlderFacts
  <2> QED
    BY <1>2, <2>1, <2>5, <2>6 DEF new
<1>7. ReceiverType'
  <2>1. quiet' \in [RecvPaths -> Quiet]
    BY <1>2, <1>5
  <2> QED
    BY <1>1, <1>2, <1>6, <2>1 DEF ReceiverType
<1> QED
  BY <1>2, <1>6, <1>7 DEF ReceiverInv, RowsOK, ReportOK

LEMMA ReceiverStep == ReceiverInv /\ [Next]_vars => ReceiverInv'
<1> SUFFICES ASSUME ReceiverInv, [Next]_vars PROVE ReceiverInv'
  OBVIOUS
<1>1. CASE \E f \in Flows : Send(f)
  BY <1>1, SendReceiver
<1>2. CASE \E x \in Arrivals, reps \in Reports : Recv(x[1], x[2], x[3], reps)
  BY <1>2, RecvReceiver
<1>3. CASE Expire
  BY <1>3 DEF Expire, receiver, ReceiverInv, ReceiverType, RowsOK, ReportOK
<1>4. CASE Tick
  BY <1>4, TickReceiver
<1>5. CASE UNCHANGED vars
  BY <1>5 DEF vars, receiver, ReceiverInv, ReceiverType, RowsOK, ReportOK
<1> QED
  BY <1>1, <1>2, <1>3, <1>4, <1>5 DEF Next

(* A delay other than 0 is only reported within T_RTT_EXPIRE of the packet *)
(* it was measured on, and no other packet came since (send, recv).        *)
THEOREM RttFreshTheorem == Spec => []RttFresh
<1>1. ReceiverInv => RttFresh
  BY DEF ReceiverInv, ReportOK, RowsOK, RttOK, RttFresh
<1> QED
  BY ReceiverInit, ReceiverStep, <1>1, PTL DEF Spec

(* After T_ECN_EXPIRE of silence every report leaves room for one mark     *)
(* less, whatever the size of the bitmap (send).                           *)
THEOREM MarksFadeTheorem == Spec => []MarksFade
<1>1. ReceiverInv => MarksFade
  <2> SUFFICES ASSUME ReceiverInv, NEW r \in report
               PROVE  r.ecn_ratio[1] + quiet[r.vp_rid].reports <= ECN_PCNT
    BY DEF MarksFade
  <2> DEFINE k == r.vp_rid
             bm == ca_map[k].ecn_bitmap
  <2>1. k \in DOMAIN ca_map /\ r.ecn_ratio[1] = Ones(bm)
    BY DEF ReceiverInv, ReportOK
  <2>2. ca_map[k] \in Row /\ quiet[k] \in Quiet /\ EcnOK(ca_map[k], quiet[k])
    BY <2>1 DEF ReceiverInv, ReceiverType, RowsOK
  <2>3. /\ bm \in Seq(BOOLEAN) /\ Len(bm) <= ECN_PCNT /\ Shaded(bm, quiet[k].reports)
        /\ quiet[k].reports \in 0 .. ECN_PCNT
    BY <2>2 DEF EcnOK, Row, Quiet
  <2>4. Ones(bm) + quiet[k].reports <= ECN_PCNT
    BY <2>3, OnesBound
  <2> QED
    BY <2>1, <2>4
<1> QED
  BY ReceiverInit, ReceiverStep, <1>1, PTL DEF Spec
=============================================================================
