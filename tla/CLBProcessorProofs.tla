------------------------- MODULE CLBProcessorProofs -------------------------
(***************************************************************************)
(* Proofs about CLBProcessor, for every number of paths, every probe       *)
(* length, every period and any number of packets, marks and losses.       *)
(*                                                                         *)
(* The member functions are functions on a processor's state, so that the  *)
(* proofs come in two layers.  IsProc is what every member function keeps  *)
(* of a processor by itself; the lemmas on send and recv say what they do  *)
(* to its fields.  The invariants of the network then relate the packets   *)
(* under way to the processors at both ends.                               *)
(***************************************************************************)
EXTENDS CLBProcessor, CLBSwrr, PacketQueueProofs, FiniteSetTheorems, WellFoundedInduction,
        TLAPS

ProcFields ==
  {"sequence", "vp_map", "burst_pending", "burst_vp", "burst_cnt", "ca_keys", "ca_map",
   "ca_queue", "buf", "update_time"}

RecordFields ==
  {"send_cnt", "recv_cnt", "send_undefined", "recv_undefined", "rate", "r_rate", "c_rate",
   "r_time", "recv_ece_cnt"}

IsRecord(ca) ==
  /\ DOMAIN ca = RecordFields
  /\ ca.send_cnt \in Nat /\ ca.recv_cnt \in Nat
  /\ ca.send_undefined \in Nat /\ ca.recv_undefined \in Nat
  /\ ca.r_time \in Nat /\ ca.recv_ece_cnt \in Nat

CaResponse ==
  [recv_cnt : Nat, recv_ecn : BOOLEAN, recv_ecn_cnt : Nat, burst_pending : BOOLEAN,
   burst_cnt : Nat, burst_time : Nat]

(* A train that is being received has begun.                               *)
TrainBegun(row) == row.burst_pending = TRUE => row.burst_cnt >= 1

Untouched(row) == row.recv_cnt = 0 /\ row.recv_ecn = FALSE /\ row.recv_ecn_cnt = 0

(* The rows in use, the rows that take turns and the rows with packets are *)
(* the same, and none has two turns.                                       *)
TurnsOK(p) ==
  /\ \A v \in p.ca_keys : p.ca_map[v].recv_cnt > 0
  /\ \A v \in VPs \ p.ca_keys : Untouched(p.ca_map[v])
  /\ \A i \in DOMAIN p.ca_queue : p.ca_queue[i] \in p.ca_keys
  /\ \A v \in p.ca_keys : \E i \in DOMAIN p.ca_queue : p.ca_queue[i] = v
  /\ \A i, j \in DOMAIN p.ca_queue : i # j => p.ca_queue[i] # p.ca_queue[j]

IsProc(p) ==
  /\ DOMAIN p = ProcFields
  /\ p.sequence \in Nat
  /\ DOMAIN p.vp_map = VPs /\ \A v \in VPs : IsRecord(p.vp_map[v])
  /\ p.burst_pending \in BOOLEAN /\ p.burst_vp \in VPs /\ p.burst_cnt \in 0 .. BURST_PKTCNT
  /\ p.burst_pending = TRUE => p.burst_cnt >= 1
  /\ p.ca_keys \in SUBSET VPs
  /\ p.ca_map \in [VPs -> CaResponse]
  /\ \A v \in VPs : TrainBegun(p.ca_map[v])
  /\ p.ca_queue \in Seq(VPs)
  /\ TurnsOK(p)

Packet ==
  [vp_id : VPs, SN_HSN : Nat, burst_id : 0 .. BURST_PKTCNT, response_en : BOOLEAN,
   vp_rid : VPs, vp_rcnt : Nat, vp_recn : BOOLEAN, burst_rate : Nat]

-----------------------------------------------------------------------------
(* The choices.                                                            *)

LEMMA PathFacts == 0 \in VPs /\ VPs \subseteq Nat /\ \A v \in VPs : v < VP_SIZE
  BY VpSizeAssumption DEF VPs

(* When some path leads, the round robin chooses the last one that does.   *)
LEMMA ChosenLeads ==
  ASSUME NEW c, NEW r, \E v \in VPs : Leads(v, c, r)
  PROVE  /\ Chosen(c, r) \in VPs /\ Leads(Chosen(c, r), c, r)
         /\ \A u \in Chosen(c, r) + 1 .. VP_SIZE - 1 : ~ Leads(u, c, r)
<1> DEFINE L == {v \in VPs : Leads(v, c, r)}
           D == {VP_SIZE - v : v \in L}
<1>1. \A v \in L : v \in Nat /\ v < VP_SIZE /\ v \in VPs /\ Leads(v, c, r)
  BY PathFacts
<1>2. D \in SUBSET Nat /\ D # {}
  BY <1>1, VpSizeAssumption
<1>3. PICK d \in D : \A e \in D : d <= e
  BY <1>2, LeastNatural
<1>4. PICK v \in L : d = VP_SIZE - v
  BY <1>3
<1>5. \A u \in L : VP_SIZE - v <= VP_SIZE - u
  BY <1>3, <1>4
<1>6. \A u \in v + 1 .. VP_SIZE - 1 : u \in VPs /\ u \notin L
  BY <1>1, <1>5, VpSizeAssumption DEF VPs
<1>7. \A u \in v + 1 .. VP_SIZE - 1 : ~ Leads(u, c, r)
  BY <1>6
<1>8. v \in VPs /\ Leads(v, c, r)
  BY <1>1
<1> HIDE DEF L, D
<1> QED
  BY <1>7, <1>8 DEF Chosen

(* The round robin chooses a path.                                         *)
LEMMA ChosenIsPath ==
  ASSUME NEW c, NEW r
  PROVE  Chosen(c, r) \in VPs
<1>1. CASE \E v \in VPs : Leads(v, c, r)
  BY <1>1, ChosenLeads
<1>2. CASE ~ \E v \in VPs : Leads(v, c, r)
  <2>1. Chosen(c, r) = 0
    BY <1>2 DEF Chosen
  <2> QED
    BY <2>1, PathFacts
<1> QED
  BY <1>1, <1>2, Zenon

(* The path to probe is a path.                                            *)
LEMMA BurstIsPath ==
  ASSUME NEW p, \A u \in VPs : p.vp_map[u].r_time \in Nat, NEW v \in VPs
  PROVE  vp_burst_get(p, v) \in VPs
<1> DEFINE t == Field(p, "r_time")
           oldest == {u \in VPs : \A w \in VPs : t[u] <= t[w]}
           T == {t[u] : u \in VPs}
<1>1. \A u \in VPs : t[u] \in Nat
  BY DEF Field
<1> HIDE DEF t
<1>2. T \in SUBSET Nat /\ T # {}
  BY <1>1, PathFacts
<1>3. PICK a \in T : \A b \in T : a <= b
  BY <1>2, LeastNatural
<1>4. oldest # {} /\ oldest \in SUBSET Nat
  <2>1. PICK u \in VPs : t[u] = a
    BY <1>3
  <2>2. \A w \in VPs : t[u] <= t[w]
    BY <1>3, <2>1
  <2> QED
    BY <2>2, PathFacts
<1>5. PICK u \in oldest : \A w \in oldest : u <= w
  BY <1>4, LeastNatural
<1>6. (CHOOSE x \in oldest : \A w \in oldest : x <= w) \in oldest
  BY <1>5
<1>7. vp_burst_get(p, v) = IF v \in oldest THEN v ELSE CHOOSE x \in oldest : \A w \in oldest : x <= w
  BY DEF vp_burst_get, t
<1> HIDE DEF oldest
<1>8. oldest \subseteq VPs
  BY DEF oldest
<1> QED
  BY <1>6, <1>7, <1>8

-----------------------------------------------------------------------------
(* send().                                                                 *)

LEMMA CaNextFacts ==
  ASSUME NEW p, DOMAIN p = ProcFields
  PROVE  /\ DOMAIN ca_next(p) = ProcFields
         /\ \A f \in ProcFields \ {"ca_queue"} : ca_next(p)[f] = p[f]
         /\ ca_next(p).ca_queue = IF p.ca_queue = << >> THEN p.ca_queue
                                  ELSE Append(Tail(p.ca_queue), Head(p.ca_queue))
  BY DEF ca_next, ProcFields

LEMMA NextFacts ==
  ASSUME NEW p, IsProc(p)
  PROVE  /\ vp_next(p).vp \in VPs
         /\ p.burst_pending = TRUE => vp_next(p).vp = p.burst_vp
         /\ DOMAIN vp_next(p).p = ProcFields
         /\ \A f \in ProcFields \ {"vp_map"} : vp_next(p).p[f] = p[f]
         /\ DOMAIN vp_next(p).p.vp_map = VPs
         /\ \A v \in VPs : DOMAIN vp_next(p).p.vp_map[v] = RecordFields
         /\ \A v \in VPs : \A f \in RecordFields \ {"c_rate"} :
              vp_next(p).p.vp_map[v][f] = p.vp_map[v][f]
<1>1. CASE p.burst_pending = TRUE
  BY <1>1 DEF vp_next, IsProc, IsRecord
<1>2. CASE p.burst_pending = FALSE
  <2> DEFINE c == Field(p, "c_rate")
             r == Field(p, "r_rate")
             map == [v \in VPs |-> [p.vp_map[v] EXCEPT !.c_rate = Charged(c, r)[v]]]
  <2>1. vp_next(p).p = [p EXCEPT !.vp_map = map] /\ vp_next(p).vp = Chosen(c, r)
    BY <1>2 DEF vp_next
  <2>2. DOMAIN map = VPs /\ \A v \in VPs : DOMAIN map[v] = RecordFields
    BY DEF IsProc, IsRecord
  <2>3. \A v \in VPs : \A f \in RecordFields \ {"c_rate"} : map[v][f] = p.vp_map[v][f]
    BY DEF IsProc, IsRecord, RecordFields
  <2>4. Chosen(c, r) \in VPs
    BY ChosenIsPath
  <2> HIDE DEF map
  <2> QED
    BY <1>2, <2>1, <2>2, <2>3, <2>4 DEF IsProc, ProcFields
<1> QED
  BY <1>1, <1>2 DEF IsProc

(* A sequence that holds each element of K, and nothing else, once.        *)
Holds(s, K) ==
  /\ \A i \in DOMAIN s : s[i] \in K
  /\ \A v \in K : \E i \in DOMAIN s : s[i] = v
  /\ \A i, j \in DOMAIN s : i # j => s[i] # s[j]

LEMMA RotateHolds ==
  ASSUME NEW s \in Seq(VPs), NEW K, Holds(s, K), s # << >>
  PROVE  /\ Append(Tail(s), Head(s)) \in Seq(VPs)
         /\ Holds(Append(Tail(s), Head(s)), K)
         /\ Head(s) \in VPs
<1> DEFINE r == Append(Tail(s), Head(s))
           From(i) == IF i = Len(s) THEN 1 ELSE i + 1
<1>1. Len(s) \in Nat /\ Len(s) >= 1 /\ DOMAIN s = 1 .. Len(s)
  OBVIOUS
<1>2. /\ Tail(s) \in Seq(VPs) /\ Len(Tail(s)) = Len(s) - 1
      /\ \A i \in 1 .. Len(s) - 1 : Tail(s)[i] = s[i + 1]
      /\ Head(s) = s[1] /\ Head(s) \in VPs
  BY <1>1
<1>3. /\ r \in Seq(VPs) /\ Len(r) = Len(s) /\ DOMAIN r = 1 .. Len(s)
      /\ \A i \in 1 .. Len(s) - 1 : r[i] = s[i + 1]
      /\ r[Len(s)] = s[1]
  BY <1>1, <1>2
<1> HIDE DEF r
<1>4. \A i \in DOMAIN r : From(i) \in DOMAIN s /\ r[i] = s[From(i)]
  <2> TAKE i \in DOMAIN r
  <2>1. CASE i = Len(s)
    BY <1>1, <1>3, <2>1
  <2>2. CASE i # Len(s)
    <3>1. i \in 1 .. Len(s) - 1
      BY <1>1, <1>3, <2>2
    <3> QED
      BY <1>1, <1>3, <2>2, <3>1
  <2> QED
    BY <2>1, <2>2
<1>5. \A i, j \in DOMAIN r : i # j => From(i) # From(j)
  BY <1>1, <1>3
<1>6. \A m \in DOMAIN s : \E i \in DOMAIN r : From(i) = m
  <2> TAKE m \in DOMAIN s
  <2>1. CASE m = 1
    BY <1>1, <1>3, <2>1
  <2>2. CASE m # 1
    <3>1. m - 1 \in DOMAIN r /\ m - 1 # Len(s) /\ (m - 1) + 1 = m
      BY <1>1, <1>3, <2>2
    <3>2. From(m - 1) = m
      BY <3>1
    <3> HIDE DEF From
    <3> QED
      BY <3>1, <3>2
  <2> QED
    BY <2>1, <2>2
<1> HIDE DEF From
<1>7. Holds(r, K)
  <2>1. \A i \in DOMAIN r : r[i] \in K
    BY <1>4 DEF Holds
  <2>2. \A v \in K : \E i \in DOMAIN r : r[i] = v
    BY <1>4, <1>6 DEF Holds
  <2>3. \A i, j \in DOMAIN r : i # j => r[i] # r[j]
    BY <1>4, <1>5 DEF Holds
  <2> QED
    BY <2>1, <2>2, <2>3 DEF Holds
<1> QED
  BY <1>2, <1>3, <1>7 DEF r

LEMMA AppendHolds ==
  ASSUME NEW s \in Seq(VPs), NEW K, Holds(s, K), NEW v \in VPs, v \notin K
  PROVE  Append(s, v) \in Seq(VPs) /\ Holds(Append(s, v), K \cup {v})
<1> DEFINE r == Append(s, v)
<1>1. /\ Len(s) \in Nat /\ DOMAIN s = 1 .. Len(s)
      /\ r \in Seq(VPs) /\ DOMAIN r = 1 .. Len(s) + 1
      /\ r[Len(s) + 1] = v /\ \A i \in 1 .. Len(s) : r[i] = s[i]
  OBVIOUS
<1> HIDE DEF r
<1>2. \A i \in DOMAIN r : (i \in DOMAIN s /\ r[i] = s[i]) \/ (i = Len(s) + 1 /\ r[i] = v)
  BY <1>1
<1>3. \A i \in DOMAIN s : i \in DOMAIN r /\ r[i] = s[i]
  BY <1>1
<1>4. Len(s) + 1 \in DOMAIN r
  BY <1>1
<1>5. \A i \in DOMAIN r : r[i] \in K \cup {v}
  BY <1>2 DEF Holds
<1>6. \A u \in K \cup {v} : \E i \in DOMAIN r : r[i] = u
  BY <1>1, <1>3, <1>4 DEF Holds
<1>7. \A i, j \in DOMAIN r : i # j => r[i] # r[j]
  BY <1>2 DEF Holds
<1> QED
  BY <1>1, <1>5, <1>6, <1>7 DEF Holds, r

(* What send() does to the processor, and the packet it sends.             *)
Sent(p, q, k) ==
  /\ k.SN_HSN = p.sequence + 1 /\ k.burst_rate = 0
  /\ q.sequence = p.sequence + 1
  /\ p.burst_pending = TRUE => /\ k.vp_id = p.burst_vp /\ k.burst_id = p.burst_cnt
                               /\ q.burst_cnt = p.burst_cnt - 1
                               /\ q.burst_pending = (p.burst_cnt # 1)
  /\ p.burst_pending = FALSE => k.burst_id = 0 /\ q.burst_pending = FALSE
  /\ q.burst_vp = p.burst_vp
  /\ \A u \in VPs : /\ q.vp_map[u].send_cnt = p.vp_map[u].send_cnt
                    /\ q.vp_map[u].recv_cnt = p.vp_map[u].recv_cnt
                    /\ q.vp_map[u].recv_undefined = p.vp_map[u].recv_undefined
                    /\ q.vp_map[u].recv_ece_cnt = p.vp_map[u].recv_ece_cnt
                    /\ u # k.vp_id => q.vp_map[u].send_undefined = p.vp_map[u].send_undefined
  /\ q.vp_map[k.vp_id].send_undefined = p.vp_map[k.vp_id].send_undefined + 1
  /\ \A u \in VPs : /\ q.ca_map[u].recv_cnt = p.ca_map[u].recv_cnt
                    /\ q.ca_map[u].recv_ecn_cnt = p.ca_map[u].recv_ecn_cnt
                    /\ q.ca_map[u].recv_ecn = TRUE => p.ca_map[u].recv_ecn = TRUE
  /\ k.vp_rcnt <= p.ca_map[k.vp_rid].recv_cnt
  /\ k.vp_recn = TRUE => /\ p.ca_map[k.vp_rid].recv_ecn = TRUE
                         /\ q.ca_map[k.vp_rid].recv_ecn = FALSE

LEMMA SendFacts ==
  ASSUME NEW p, IsProc(p), NEW t \in Nat, NEW q, NEW k,
         q = send(p, t).p, k = send(p, t).pkt
  PROVE  IsProc(q) /\ k \in Packet /\ Sent(p, q, k)
<1> USE DEF Sent
<1> DEFINE n == vp_next(p)
           v == n.vp
           x == ca_next(n.p)
           probing == p.burst_pending /\ v = p.burst_vp
           last == probing /\ LastOfTrain(p)
           respond == p.ca_queue # << >>
           rid == IF respond THEN Head(p.ca_queue) ELSE 0
           y == [x EXCEPT
                   !.sequence = @ + 1,
                   !.vp_map[v].send_undefined = @ + 1,
                   !.vp_map[v].r_time = IF last THEN t ELSE @,
                   !.burst_cnt = IF probing THEN @ - 1 ELSE @,
                   !.burst_pending = @ /\ ~ last,
                   !.ca_map[rid] = IF respond THEN Reported(@) ELSE @]
           z == [vp_id |-> v, SN_HSN |-> y.sequence,
                 burst_id |-> IF probing THEN p.burst_cnt ELSE 0,
                 response_en |-> respond, vp_rid |-> rid,
                 vp_rcnt |-> IF respond THEN p.ca_map[rid].recv_cnt ELSE 0,
                 vp_recn |-> respond /\ p.ca_map[rid].recv_ecn,
                 burst_rate |-> 0]
<1>1. /\ v \in VPs
      /\ p.burst_pending = TRUE => v = p.burst_vp
      /\ DOMAIN n.p = ProcFields
      /\ \A f \in ProcFields \ {"vp_map"} : n.p[f] = p[f]
      /\ DOMAIN n.p.vp_map = VPs
      /\ \A u \in VPs : DOMAIN n.p.vp_map[u] = RecordFields
      /\ \A u \in VPs : \A f \in RecordFields \ {"c_rate"} : n.p.vp_map[u][f] = p.vp_map[u][f]
  BY NextFacts
<1>2. /\ DOMAIN x = ProcFields
      /\ \A f \in ProcFields \ {"ca_queue"} : x[f] = n.p[f]
      /\ x.ca_queue = IF n.p.ca_queue = << >> THEN n.p.ca_queue
                      ELSE Append(Tail(n.p.ca_queue), Head(n.p.ca_queue))
  BY <1>1, CaNextFacts
<1>3. q = y
  BY DEF send
<1>4. k = z
  BY DEF send
<1>5. /\ probing = p.burst_pending /\ probing \in BOOLEAN /\ respond \in BOOLEAN /\ last \in BOOLEAN
      /\ last = (p.burst_pending /\ p.burst_cnt = 1)
  BY <1>1 DEF IsProc, LastOfTrain
<1>6. /\ rid \in VPs /\ x.ca_queue \in Seq(VPs) /\ Holds(x.ca_queue, p.ca_keys)
  <2>1. p.ca_queue \in Seq(VPs) /\ Holds(p.ca_queue, p.ca_keys)
    BY DEF IsProc, TurnsOK, Holds
  <2>2. n.p.ca_queue = p.ca_queue
    BY <1>1 DEF ProcFields
  <2>3. CASE p.ca_queue = << >>
    <3>1. rid = 0 /\ x.ca_queue = p.ca_queue
      BY <1>2, <2>2, <2>3
    <3> QED
      BY <2>1, <3>1, PathFacts
  <2>4. CASE p.ca_queue # << >>
    <3>1. rid = Head(p.ca_queue) /\ x.ca_queue = Append(Tail(p.ca_queue), Head(p.ca_queue))
      BY <1>2, <2>2, <2>4
    <3> QED
      BY <2>1, <2>4, <3>1, RotateHolds
  <2> QED
    BY <2>3, <2>4
<1>7. /\ x.sequence = p.sequence /\ x.burst_vp = p.burst_vp /\ x.burst_cnt = p.burst_cnt
      /\ x.burst_pending = p.burst_pending /\ x.ca_keys = p.ca_keys /\ x.ca_map = p.ca_map
      /\ x.vp_map = n.p.vp_map
  BY <1>1, <1>2 DEF ProcFields
<1>8. \A u \in VPs : /\ DOMAIN x.vp_map[u] = RecordFields
                     /\ x.vp_map[u].send_cnt = p.vp_map[u].send_cnt
                     /\ x.vp_map[u].recv_cnt = p.vp_map[u].recv_cnt
                     /\ x.vp_map[u].send_undefined = p.vp_map[u].send_undefined
                     /\ x.vp_map[u].recv_undefined = p.vp_map[u].recv_undefined
                     /\ x.vp_map[u].recv_ece_cnt = p.vp_map[u].recv_ece_cnt
                     /\ x.vp_map[u].r_time = p.vp_map[u].r_time
                     /\ IsRecord(p.vp_map[u])
  BY <1>1, <1>7 DEF RecordFields, IsProc
<1>9. DOMAIN x.vp_map = VPs /\ DOMAIN x.ca_map = VPs
  BY <1>1, <1>7 DEF IsProc
<1> HIDE DEF n, v, x, probing, last, respond, rid, z
<1>10. /\ DOMAIN q = ProcFields
       /\ q.sequence = x.sequence + 1
       /\ q.burst_vp = x.burst_vp /\ q.ca_keys = x.ca_keys /\ q.ca_queue = x.ca_queue
       /\ q.burst_cnt = IF probing THEN x.burst_cnt - 1 ELSE x.burst_cnt
       /\ q.burst_pending = (x.burst_pending /\ ~ last)
       /\ DOMAIN q.vp_map = VPs /\ DOMAIN q.ca_map = VPs
       /\ \A u \in VPs : DOMAIN q.vp_map[u] = RecordFields
       /\ \A u \in VPs : u # v => q.vp_map[u] = x.vp_map[u]
       /\ \A u \in VPs : u # rid => q.ca_map[u] = x.ca_map[u]
       /\ q.ca_map[rid] = IF respond THEN Reported(x.ca_map[rid]) ELSE x.ca_map[rid]
       /\ q.vp_map[v].send_undefined = x.vp_map[v].send_undefined + 1
       /\ q.vp_map[v].r_time = IF last THEN t ELSE x.vp_map[v].r_time
       /\ q.vp_map[v].send_cnt = x.vp_map[v].send_cnt
       /\ q.vp_map[v].recv_cnt = x.vp_map[v].recv_cnt
       /\ q.vp_map[v].recv_undefined = x.vp_map[v].recv_undefined
       /\ q.vp_map[v].recv_ece_cnt = x.vp_map[v].recv_ece_cnt
  <2>1. DOMAIN q = ProcFields /\ q.sequence = x.sequence + 1
    BY <1>2, <1>3 DEF ProcFields
  <2>2. q.burst_vp = x.burst_vp /\ q.ca_keys = x.ca_keys /\ q.ca_queue = x.ca_queue
    BY <1>2, <1>3 DEF ProcFields
  <2>3. q.burst_cnt = IF probing THEN x.burst_cnt - 1 ELSE x.burst_cnt
    BY <1>2, <1>3 DEF ProcFields
  <2>4. q.burst_pending = (x.burst_pending /\ ~ last)
    BY <1>2, <1>3 DEF ProcFields
  <2>5. DOMAIN q.vp_map = VPs /\ DOMAIN q.ca_map = VPs
    BY <1>2, <1>3, <1>9 DEF ProcFields
  <2>6. \A u \in VPs : DOMAIN q.vp_map[u] = RecordFields
    BY <1>2, <1>3, <1>8, <1>9 DEF ProcFields
  <2>7. \A u \in VPs : u # v => q.vp_map[u] = x.vp_map[u]
    BY <1>2, <1>3, <1>9 DEF ProcFields
  <2>8. \A u \in VPs : u # rid => q.ca_map[u] = x.ca_map[u]
    BY <1>2, <1>3, <1>9 DEF ProcFields
  <2>9. q.ca_map[rid] = IF respond THEN Reported(x.ca_map[rid]) ELSE x.ca_map[rid]
    BY <1>2, <1>3, <1>6, <1>9 DEF ProcFields
  <2>10. q.vp_map[v].send_undefined = x.vp_map[v].send_undefined + 1
    BY <1>1, <1>2, <1>3, <1>8, <1>9 DEF ProcFields, RecordFields
  <2>11. q.vp_map[v].r_time = IF last THEN t ELSE x.vp_map[v].r_time
    BY <1>1, <1>2, <1>3, <1>8, <1>9 DEF ProcFields, RecordFields
  <2>12. q.vp_map[v].send_cnt = x.vp_map[v].send_cnt
    BY <1>1, <1>2, <1>3, <1>8, <1>9 DEF ProcFields, RecordFields
  <2>13. q.vp_map[v].recv_cnt = x.vp_map[v].recv_cnt
    BY <1>1, <1>2, <1>3, <1>8, <1>9 DEF ProcFields, RecordFields
  <2>14. q.vp_map[v].recv_undefined = x.vp_map[v].recv_undefined
    BY <1>1, <1>2, <1>3, <1>8, <1>9 DEF ProcFields, RecordFields
  <2>15. q.vp_map[v].recv_ece_cnt = x.vp_map[v].recv_ece_cnt
    BY <1>1, <1>2, <1>3, <1>8, <1>9 DEF ProcFields, RecordFields
  <2> QED
    BY <2>1, <2>2, <2>3, <2>4, <2>5, <2>6, <2>7, <2>8, <2>9, <2>10, <2>11, <2>12, <2>13,
       <2>14, <2>15
<1>11. \A u \in VPs : /\ IsRecord(q.vp_map[u])
                      /\ q.vp_map[u].send_cnt = p.vp_map[u].send_cnt
                      /\ q.vp_map[u].recv_cnt = p.vp_map[u].recv_cnt
                      /\ q.vp_map[u].recv_undefined = p.vp_map[u].recv_undefined
                      /\ q.vp_map[u].recv_ece_cnt = p.vp_map[u].recv_ece_cnt
                      /\ u # v => q.vp_map[u].send_undefined = p.vp_map[u].send_undefined
                      /\ u = v => q.vp_map[u].send_undefined = p.vp_map[u].send_undefined + 1
  <2> TAKE u \in VPs
  <2>1. /\ DOMAIN x.vp_map[u] = RecordFields
        /\ x.vp_map[u].send_cnt = p.vp_map[u].send_cnt
        /\ x.vp_map[u].recv_cnt = p.vp_map[u].recv_cnt
        /\ x.vp_map[u].send_undefined = p.vp_map[u].send_undefined
        /\ x.vp_map[u].recv_undefined = p.vp_map[u].recv_undefined
        /\ x.vp_map[u].recv_ece_cnt = p.vp_map[u].recv_ece_cnt
        /\ x.vp_map[u].r_time = p.vp_map[u].r_time
        /\ p.vp_map[u].send_cnt \in Nat /\ p.vp_map[u].recv_cnt \in Nat
        /\ p.vp_map[u].send_undefined \in Nat /\ p.vp_map[u].recv_undefined \in Nat
        /\ p.vp_map[u].r_time \in Nat /\ p.vp_map[u].recv_ece_cnt \in Nat
    BY <1>8 DEF IsRecord
  <2>2. CASE u # v
    <3>1. q.vp_map[u] = x.vp_map[u]
      BY <1>10, <2>2
    <3> QED
      BY <2>1, <2>2, <3>1 DEF IsRecord
  <2>3. CASE u = v
    <3>1. /\ DOMAIN q.vp_map[u] = RecordFields
          /\ q.vp_map[u].send_undefined = x.vp_map[u].send_undefined + 1
          /\ q.vp_map[u].r_time = IF last THEN t ELSE x.vp_map[u].r_time
          /\ q.vp_map[u].send_cnt = x.vp_map[u].send_cnt
          /\ q.vp_map[u].recv_cnt = x.vp_map[u].recv_cnt
          /\ q.vp_map[u].recv_undefined = x.vp_map[u].recv_undefined
          /\ q.vp_map[u].recv_ece_cnt = x.vp_map[u].recv_ece_cnt
      BY <1>10, <2>3
    <3> QED
      BY <2>1, <2>3, <3>1 DEF IsRecord
  <2> QED
    BY <2>2, <2>3
<1>12. \A u \in VPs : /\ q.ca_map[u] \in CaResponse
                      /\ q.ca_map[u].recv_cnt = p.ca_map[u].recv_cnt
                      /\ q.ca_map[u].recv_ecn_cnt = p.ca_map[u].recv_ecn_cnt
                      /\ q.ca_map[u].burst_pending = p.ca_map[u].burst_pending
                      /\ q.ca_map[u].burst_cnt = p.ca_map[u].burst_cnt
                      /\ q.ca_map[u].recv_ecn = TRUE => p.ca_map[u].recv_ecn = TRUE
                      /\ u = rid /\ respond => q.ca_map[u].recv_ecn = FALSE
  <2> TAKE u \in VPs
  <2>1. p.ca_map[u] \in CaResponse
    BY DEF IsProc
  <2>2. CASE u = rid /\ respond
    <3>1. q.ca_map[u] = [p.ca_map[u] EXCEPT !.recv_ecn = FALSE]
      BY <1>7, <1>10, <2>2 DEF Reported
    <3> QED
      BY <2>1, <3>1 DEF CaResponse
  <2>3. CASE ~ (u = rid /\ respond)
    BY <1>5, <1>7, <1>10, <2>1, <2>3
  <2> QED
    BY <2>2, <2>3
<1>13. /\ p.sequence \in Nat /\ p.burst_pending \in BOOLEAN /\ p.burst_vp \in VPs
       /\ p.burst_cnt \in 0 .. BURST_PKTCNT
       /\ p.burst_pending = TRUE => p.burst_cnt >= 1
  BY DEF IsProc
<1>14. /\ q.burst_cnt \in 0 .. BURST_PKTCNT
       /\ q.burst_pending \in BOOLEAN
       /\ q.burst_pending = TRUE => q.burst_cnt >= 1
       /\ p.burst_pending = TRUE => q.burst_cnt = p.burst_cnt - 1 /\ q.burst_pending = (p.burst_cnt # 1)
       /\ p.burst_pending = FALSE => q.burst_pending = FALSE
  <2>1. CASE p.burst_pending = TRUE
    <3>1. probing /\ last = (p.burst_cnt = 1)
      BY <1>5, <2>1, Zenon
    <3>2. q.burst_cnt = p.burst_cnt - 1
      BY <1>7, <1>10, <3>1
    <3>3. q.burst_pending = (p.burst_cnt # 1)
      BY <1>7, <1>10, <2>1, <3>1, Zenon
    <3>4. q.burst_pending \in BOOLEAN /\ (q.burst_pending = TRUE => p.burst_cnt # 1)
      BY <3>3, Zenon
    <3>5. p.burst_cnt \in 1 .. BURST_PKTCNT
      BY <1>13, <2>1, BurstAssumption
    <3>6. q.burst_cnt \in 0 .. BURST_PKTCNT /\ (q.burst_pending = TRUE => q.burst_cnt >= 1)
      BY <3>2, <3>4, <3>5, BurstAssumption
    <3> QED
      BY <2>1, <3>2, <3>3, <3>4, <3>6, Zenon
  <2>2. CASE p.burst_pending = FALSE
    <3>1. ~ probing /\ q.burst_pending = FALSE
      BY <1>5, <1>7, <1>10, <2>2, Zenon
    <3>2. q.burst_cnt = p.burst_cnt
      BY <1>7, <1>10, <3>1
    <3> QED
      BY <1>13, <2>2, <3>1, <3>2
  <2> QED
    BY <1>13, <2>1, <2>2
<1>15. TurnsOK(q)
  <2>1. q.ca_keys = p.ca_keys /\ Holds(q.ca_queue, q.ca_keys)
    BY <1>6, <1>7, <1>10
  <2>2. \A u \in q.ca_keys : q.ca_map[u].recv_cnt > 0
    BY <1>12, <2>1 DEF IsProc, TurnsOK
  <2>3. \A u \in VPs \ q.ca_keys : Untouched(q.ca_map[u])
    BY <1>12, <2>1 DEF IsProc, TurnsOK, Untouched, CaResponse
  <2> QED
    BY <2>1, <2>2, <2>3 DEF TurnsOK, Holds
<1>16. q.ca_map \in [VPs -> CaResponse]
  <2>1. q.ca_map = [x.ca_map EXCEPT ![rid] = IF respond THEN Reported(@) ELSE @]
    BY <1>2, <1>3 DEF ProcFields, y
  <2>2. p.ca_map \in [VPs -> CaResponse]
    BY DEF IsProc
  <2> QED
    BY <1>7, <1>12, <2>1, <2>2
<1>17. IsProc(q)
  BY <1>6, <1>7, <1>10, <1>11, <1>12, <1>13, <1>14, <1>15, <1>16, SMTT(30) DEF IsProc, TrainBegun
<1>18. /\ k.vp_id = v /\ k.SN_HSN = q.sequence /\ k.burst_id = IF probing THEN p.burst_cnt ELSE 0
       /\ k.vp_rid = rid /\ k.vp_rcnt = IF respond THEN p.ca_map[rid].recv_cnt ELSE 0
       /\ k.vp_recn = (respond /\ p.ca_map[rid].recv_ecn)
       /\ k.burst_rate = 0
  BY <1>3, <1>4 DEF z
<1>19. p.ca_map[rid] \in CaResponse
  BY <1>6 DEF IsProc
<1>20. /\ p.ca_map[rid].recv_cnt \in Nat /\ p.ca_map[rid].recv_ecn \in BOOLEAN
  BY <1>19 DEF CaResponse
<1>21. k \in Packet
  <2>1. (respond /\ p.ca_map[rid].recv_ecn) \in BOOLEAN
    OBVIOUS
  <2>2. (IF respond THEN p.ca_map[rid].recv_cnt ELSE 0) \in Nat
    BY <1>5, <1>20
  <2>3. (IF probing THEN p.burst_cnt ELSE 0) \in 0 .. BURST_PKTCNT
    <3>1. CASE probing
      BY <1>13, <3>1, Zenon
    <3>2. CASE ~ probing
      BY <3>2, BurstAssumption
    <3> QED
      BY <3>1, <3>2
  <2>4. q.sequence \in Nat
    BY <1>7, <1>10, <1>13
  <2> QED
    BY <1>1, <1>3, <1>4, <1>5, <1>6, <2>1, <2>2, <2>3, <2>4 DEF Packet, z
<1> QED
  BY <1>1, <1>5, <1>7, <1>10, <1>11, <1>12, <1>13, <1>14, <1>17, <1>18, <1>20, <1>21, <1>6, SMTT(30)
-----------------------------------------------------------------------------
(* recv().                                                                 *)

(* What a report does to the record of the path it is about.               *)
LEMMA RecordRecvFacts ==
  ASSUME NEW ca, IsRecord(ca), NEW c \in Nat, NEW d, d = ca_record_recv(ca, c)
  PROVE  /\ IsRecord(d)
         /\ d.send_cnt = ca.send_cnt /\ d.send_undefined = ca.send_undefined
         /\ d.recv_cnt = ca.recv_cnt /\ d.recv_ece_cnt = ca.recv_ece_cnt
         /\ d.r_time = ca.r_time
         /\ d.recv_undefined = ca.recv_undefined \/ d.recv_cnt + d.recv_undefined = c
<1> DEFINE w == IF c < ca.recv_cnt THEN ca.recv_undefined ELSE c - ca.recv_cnt
<1>1. ca.recv_cnt \in Nat /\ ca.recv_undefined \in Nat
  BY DEF IsRecord
<1>2. w \in Nat /\ (w = ca.recv_undefined \/ ca.recv_cnt + w = c)
  BY <1>1
<1>3. d = [ca EXCEPT !.recv_undefined = w]
  BY DEF ca_record_recv
<1> HIDE DEF w
<1>4. DOMAIN d = RecordFields /\ d.recv_undefined = w
  BY <1>3 DEF IsRecord, RecordFields
<1>5. \A f \in RecordFields \ {"recv_undefined"} : d[f] = ca[f]
  BY <1>3 DEF IsRecord, RecordFields
<1>6. /\ d.send_cnt = ca.send_cnt /\ d.send_undefined = ca.send_undefined
      /\ d.recv_cnt = ca.recv_cnt /\ d.recv_ece_cnt = ca.recv_ece_cnt
      /\ d.r_time = ca.r_time
  BY <1>5 DEF RecordFields
<1> QED
  BY <1>2, <1>4, <1>6 DEF IsRecord

(* The record of a path after a mark on it.                                *)
Marked(ca, t) == [ca EXCEPT !.r_rate = ca.rate, !.recv_ece_cnt = @ + 1, !.r_time = t]

LEMMA MarkedFacts ==
  ASSUME NEW ca, IsRecord(ca), NEW t \in Nat, NEW d, d = Marked(ca, t)
  PROVE  /\ IsRecord(d)
         /\ d.send_cnt = ca.send_cnt /\ d.send_undefined = ca.send_undefined
         /\ d.recv_cnt = ca.recv_cnt /\ d.recv_undefined = ca.recv_undefined
         /\ d.recv_ece_cnt = ca.recv_ece_cnt + 1
<1>1. DOMAIN d = RecordFields /\ d.recv_ece_cnt = ca.recv_ece_cnt + 1 /\ d.r_time = t
  BY DEF IsRecord, RecordFields, Marked
<1>2. \A f \in RecordFields \ {"r_rate", "recv_ece_cnt", "r_time"} : d[f] = ca[f]
  BY DEF IsRecord, RecordFields, Marked
<1>3. /\ d.send_cnt = ca.send_cnt /\ d.send_undefined = ca.send_undefined
      /\ d.recv_cnt = ca.recv_cnt /\ d.recv_undefined = ca.recv_undefined
  BY <1>2 DEF RecordFields
<1> QED
  BY <1>1, <1>3 DEF IsRecord

(* The fields that reports of the peer act on.                             *)
SenderSide(p) ==
  /\ DOMAIN p = ProcFields /\ DOMAIN p.vp_map = VPs
  /\ \A u \in VPs : IsRecord(p.vp_map[u])
  /\ p.burst_pending \in BOOLEAN

(* The probe goes on as it was, or a new one starts.                       *)
ProbeKept(p, q) ==
  \/ /\ q.burst_pending = p.burst_pending /\ q.burst_vp = p.burst_vp
     /\ q.burst_cnt = p.burst_cnt
  \/ /\ p.burst_pending = FALSE /\ q.burst_pending = TRUE
     /\ q.burst_vp \in VPs /\ q.burst_cnt = BURST_PKTCNT

Reporting == {"vp_map", "burst_pending", "burst_vp", "burst_cnt"}

Rated(p, q, v, recn, t) ==
  /\ DOMAIN q = ProcFields
  /\ \A f \in ProcFields \ Reporting : q[f] = p[f]
  /\ DOMAIN q.vp_map = VPs
  /\ \A u \in VPs : u # v => q.vp_map[u] = p.vp_map[u]
  /\ recn = TRUE => q.vp_map[v] = Marked(p.vp_map[v], t)
  /\ recn = FALSE => q.vp_map[v] = p.vp_map[v]
  /\ ProbeKept(p, q)

(* vp_update_rrate acts on one record and may start a probe.               *)
LEMMA RateFacts ==
  ASSUME NEW p, SenderSide(p), NEW v \in VPs, NEW recn, recn = TRUE \/ recn = FALSE,
         NEW t \in Nat, NEW q, q = vp_update_rrate(p, v, recn, t)
  PROVE  Rated(p, q, v, recn, t)
<1> USE DEF SenderSide, Rated, ProbeKept, Reporting
<1> DEFINE m == IF recn
                THEN [p EXCEPT !.vp_map[v].r_rate = p.vp_map[v].rate,
                               !.vp_map[v].recv_ece_cnt = @ + 1,
                               !.vp_map[v].r_time = t]
                ELSE p
           b == vp_burst_get(m, v)
<1>1. q = IF ProbeDue(m, v, t)
          THEN [m EXCEPT !.burst_pending = TRUE, !.burst_vp = b, !.burst_cnt = BURST_PKTCNT]
          ELSE m
  BY DEF vp_update_rrate
<1>2. /\ DOMAIN m = ProcFields /\ DOMAIN m.vp_map = VPs
      /\ \A f \in ProcFields \ {"vp_map"} : m[f] = p[f]
      /\ \A u \in VPs : u # v => m.vp_map[u] = p.vp_map[u]
      /\ recn = TRUE => m.vp_map[v] = Marked(p.vp_map[v], t)
      /\ recn = FALSE => m.vp_map[v] = p.vp_map[v]
  <2>1. CASE recn = TRUE
    <3> DEFINE g == [p EXCEPT !.vp_map[v].r_rate = p.vp_map[v].rate,
                              !.vp_map[v].recv_ece_cnt = @ + 1,
                              !.vp_map[v].r_time = t]
    <3>1. m = g
      BY <2>1
    <3>2. DOMAIN g = ProcFields /\ \A f \in ProcFields \ {"vp_map"} : g[f] = p[f]
      BY DEF ProcFields
    <3>3. DOMAIN g.vp_map = VPs /\ \A u \in VPs : u # v => g.vp_map[u] = p.vp_map[u]
      BY DEF ProcFields
    <3>4. g.vp_map[v] = Marked(p.vp_map[v], t)
      BY DEF ProcFields, Marked, IsRecord, RecordFields
    <3> HIDE DEF m, g
    <3> QED
      BY <2>1, <3>1, <3>2, <3>3, <3>4
  <2>2. CASE recn = FALSE
    BY <2>2
  <2> QED
    BY <2>1, <2>2
<1> HIDE DEF m
<1>3. \A u \in VPs : m.vp_map[u].r_time \in Nat
  <2> TAKE u \in VPs
  <2>1. IsRecord(p.vp_map[u]) /\ IsRecord(Marked(p.vp_map[u], t))
    BY MarkedFacts
  <2>2. m.vp_map[u] = p.vp_map[u] \/ m.vp_map[u] = Marked(p.vp_map[u], t)
    BY <1>2
  <2> QED
    BY <2>1, <2>2 DEF IsRecord
<1>4. b \in VPs
  BY <1>3, BurstIsPath
<1>5. m.burst_pending = p.burst_pending /\ m.burst_vp = p.burst_vp /\ m.burst_cnt = p.burst_cnt
  BY <1>2 DEF ProcFields
<1> HIDE DEF b
<1>6. CASE ProbeDue(m, v, t)
  <2>1. p.burst_pending = FALSE
    BY <1>5, <1>6, Zenon DEF ProbeDue
  <2>2. q = [m EXCEPT !.burst_pending = TRUE, !.burst_vp = b, !.burst_cnt = BURST_PKTCNT]
    BY <1>1, <1>6
  <2>3. /\ DOMAIN q = ProcFields /\ q.burst_pending = TRUE /\ q.burst_vp = b
        /\ q.burst_cnt = BURST_PKTCNT /\ q.vp_map = m.vp_map
        /\ \A f \in ProcFields \ {"vp_map", "burst_pending", "burst_vp", "burst_cnt"} : q[f] = m[f]
    BY <1>2, <2>2 DEF ProcFields
  <2> QED
    BY <1>2, <1>4, <2>1, <2>3
<1>7. CASE ~ ProbeDue(m, v, t)
  <2>1. q = m
    BY <1>1, <1>7
  <2> QED
    BY <1>2, <1>5, <2>1
<1> QED
  BY <1>6, <1>7

(* What a report leaves alone, adds to the record it is about, and the     *)
(* probe it may start.                                                     *)
Heard(p, q, pkt) ==
  /\ \A u \in VPs :
       /\ q.vp_map[u].send_cnt = p.vp_map[u].send_cnt
       /\ q.vp_map[u].send_undefined = p.vp_map[u].send_undefined
       /\ q.vp_map[u].recv_cnt = p.vp_map[u].recv_cnt
       /\ \/ q.vp_map[u].recv_undefined = p.vp_map[u].recv_undefined
          \/ /\ pkt.response_en = TRUE /\ u = pkt.vp_rid
             /\ q.vp_map[u].recv_cnt + q.vp_map[u].recv_undefined = pkt.vp_rcnt
       /\ \/ q.vp_map[u].recv_ece_cnt = p.vp_map[u].recv_ece_cnt
          \/ /\ pkt.vp_recn = TRUE /\ u = pkt.vp_rid
             /\ q.vp_map[u].recv_ece_cnt = p.vp_map[u].recv_ece_cnt + 1
  /\ ProbeKept(p, q)

LEMMA ResponseFacts ==
  ASSUME NEW p, SenderSide(p), NEW pkt \in Packet, NEW t \in Nat,
         NEW q, q = TakeResponse(p, pkt, t)
  PROVE  /\ SenderSide(q)
         /\ \A f \in ProcFields \ Reporting : q[f] = p[f]
         /\ Heard(p, q, pkt)
<1> DEFINE v == pkt.vp_rid
           c == ca_record_recv(p.vp_map[v], pkt.vp_rcnt)
           m == [p EXCEPT !.vp_map[v] = c]
<1>1. v \in VPs /\ pkt.vp_rcnt \in Nat /\ pkt.response_en \in BOOLEAN /\ pkt.vp_recn \in BOOLEAN
  BY DEF Packet
<1>2. CASE pkt.response_en = FALSE
  BY <1>2 DEF TakeResponse, Heard, ProbeKept
<1>3. CASE pkt.response_en = TRUE
  <2>1. q = vp_update_rrate(m, v, pkt.vp_recn, t)
    BY <1>3 DEF TakeResponse
  <2>2. /\ IsRecord(c)
        /\ c.send_cnt = p.vp_map[v].send_cnt /\ c.send_undefined = p.vp_map[v].send_undefined
        /\ c.recv_cnt = p.vp_map[v].recv_cnt /\ c.recv_ece_cnt = p.vp_map[v].recv_ece_cnt
        /\ \/ c.recv_undefined = p.vp_map[v].recv_undefined
           \/ c.recv_cnt + c.recv_undefined = pkt.vp_rcnt
    BY <1>1, RecordRecvFacts, SMTT(30) DEF SenderSide
  <2> HIDE DEF c
  <2>3. /\ DOMAIN m = ProcFields /\ DOMAIN m.vp_map = VPs /\ m.vp_map[v] = c
        /\ \A f \in ProcFields \ {"vp_map"} : m[f] = p[f]
        /\ \A u \in VPs : u # v => m.vp_map[u] = p.vp_map[u]
        /\ m.burst_pending = p.burst_pending /\ m.burst_vp = p.burst_vp
        /\ m.burst_cnt = p.burst_cnt
    BY <1>1 DEF ProcFields, SenderSide
  <2> HIDE DEF m
  <2>4. SenderSide(m)
    BY <2>2, <2>3 DEF SenderSide
  <2> HIDE DEF v
  <2>5. Rated(m, q, v, pkt.vp_recn, t)
    <3>1. pkt.vp_recn = TRUE \/ pkt.vp_recn = FALSE
      BY <1>1
    <3> QED
      BY <1>1, <2>1, <2>4, <3>1, RateFacts
  <2>6. /\ DOMAIN q = ProcFields
        /\ \A f \in ProcFields \ Reporting : q[f] = m[f]
        /\ DOMAIN q.vp_map = VPs
        /\ \A u \in VPs : u # v => q.vp_map[u] = m.vp_map[u]
        /\ pkt.vp_recn = TRUE => q.vp_map[v] = Marked(m.vp_map[v], t)
        /\ pkt.vp_recn = FALSE => q.vp_map[v] = m.vp_map[v]
        /\ ProbeKept(m, q)
    BY <2>5 DEF Rated
  <2> DEFINE d == Marked(c, t)
  <2>7. /\ IsRecord(d)
        /\ d.send_cnt = c.send_cnt /\ d.send_undefined = c.send_undefined
        /\ d.recv_cnt = c.recv_cnt /\ d.recv_undefined = c.recv_undefined
        /\ d.recv_ece_cnt = c.recv_ece_cnt + 1
    BY <2>2, MarkedFacts
  <2>8. q.vp_map[v] = c \/ (pkt.vp_recn = TRUE /\ q.vp_map[v] = d)
    <3>1. CASE pkt.vp_recn = TRUE
      BY <2>3, <2>6, <3>1, Zenon
    <3>2. CASE pkt.vp_recn = FALSE
      BY <2>3, <2>6, <3>2, Zenon
    <3> QED
      BY <1>1, <3>1, <3>2
  <2> HIDE DEF d
  <2>9. \A f \in ProcFields \ Reporting : q[f] = p[f]
    BY <2>3, <2>6 DEF Reporting
  <2>10. \A u \in VPs : IsRecord(q.vp_map[u])
    BY <2>2, <2>3, <2>6, <2>7, <2>8 DEF SenderSide
  <2>11. \A u \in VPs :
       /\ q.vp_map[u].send_cnt = p.vp_map[u].send_cnt
       /\ q.vp_map[u].send_undefined = p.vp_map[u].send_undefined
       /\ q.vp_map[u].recv_cnt = p.vp_map[u].recv_cnt
       /\ \/ q.vp_map[u].recv_undefined = p.vp_map[u].recv_undefined
          \/ /\ pkt.response_en = TRUE /\ u = v
             /\ q.vp_map[u].recv_cnt + q.vp_map[u].recv_undefined = pkt.vp_rcnt
       /\ \/ q.vp_map[u].recv_ece_cnt = p.vp_map[u].recv_ece_cnt
          \/ /\ pkt.vp_recn = TRUE /\ u = v
             /\ q.vp_map[u].recv_ece_cnt = p.vp_map[u].recv_ece_cnt + 1
    <3> TAKE u \in VPs
    <3>1. CASE u # v
      <4>1. q.vp_map[u] = p.vp_map[u]
        BY <2>3, <2>6, <3>1
      <4> QED
        BY <4>1
    <3>2. CASE u = v
      <4>1. CASE q.vp_map[u] = c
        BY <1>3, <2>2, <3>2, <4>1
      <4>2. CASE pkt.vp_recn = TRUE /\ q.vp_map[u] = d
        BY <1>3, <2>2, <2>7, <3>2, <4>2
      <4> QED
        BY <2>8, <3>2, <4>1, <4>2
    <3> QED
      BY <3>1, <3>2
  <2>12. ProbeKept(p, q) /\ q.burst_pending \in BOOLEAN
    BY <2>3, <2>6 DEF ProbeKept, SenderSide
  <2> QED
    BY <2>6, <2>9, <2>10, <2>11, <2>12 DEF Heard, v, SenderSide
<1> QED
  BY <1>1, <1>2, <1>3

(* The fields that packets of the peer act on.                             *)
ReceiverSide(p) ==
  /\ DOMAIN p = ProcFields
  /\ p.ca_keys \in SUBSET VPs
  /\ p.ca_map \in [VPs -> CaResponse] /\ \A u \in VPs : TrainBegun(p.ca_map[u])
  /\ p.ca_queue \in Seq(VPs) /\ Holds(p.ca_queue, p.ca_keys)
  /\ \A u \in VPs \ p.ca_keys : Untouched(p.ca_map[u])

Receiving == {"ca_keys", "ca_map", "ca_queue"}

SameCounts(row, new) ==
  /\ new.recv_cnt = row.recv_cnt
  /\ new.recv_ecn = row.recv_ecn
  /\ new.recv_ecn_cnt = row.recv_ecn_cnt

(* ca_alloc adds the path to the rows and to the turns, with nothing       *)
(* counted yet.                                                            *)
LEMMA AllocFacts ==
  ASSUME NEW p, ReceiverSide(p), NEW v \in VPs, NEW t \in Nat,
         NEW q, q = ca_alloc(p, v, t)
  PROVE  /\ ReceiverSide(q)
         /\ \A f \in ProcFields \ Receiving : q[f] = p[f]
         /\ q.ca_keys = p.ca_keys \cup {v}
         /\ \A u \in VPs : SameCounts(p.ca_map[u], q.ca_map[u])
<1> USE DEF ReceiverSide, Receiving, SameCounts
<1>1. Holds(p.ca_queue, p.ca_keys)
  OBVIOUS
<1>2. CASE v \in p.ca_keys
  <2>1. q = p /\ p.ca_keys \cup {v} = p.ca_keys
    BY <1>2 DEF ca_alloc
  <2> QED
    BY <1>1, <2>1
<1>3. CASE v \notin p.ca_keys
  <2> DEFINE n == init_ca_response(t)
  <2>1. q = [p EXCEPT !.ca_keys = @ \cup {v}, !.ca_map[v] = n, !.ca_queue = Append(@, v)]
    BY <1>3 DEF ca_alloc
  <2>2. /\ n \in CaResponse /\ TrainBegun(n) /\ n.recv_cnt = 0 /\ n.recv_ecn = FALSE
        /\ n.recv_ecn_cnt = 0
    BY DEF init_ca_response, CaResponse, TrainBegun
  <2> HIDE DEF n
  <2>3. DOMAIN q = ProcFields
    BY <2>1
  <2>4. \A f \in ProcFields \ {"ca_keys", "ca_map", "ca_queue"} : q[f] = p[f]
    BY <2>1 DEF ProcFields
  <2>5. q.ca_keys = p.ca_keys \cup {v} /\ q.ca_queue = Append(p.ca_queue, v)
    BY <2>1 DEF ProcFields
  <2>6. q.ca_map = [p.ca_map EXCEPT ![v] = n]
    BY <2>1 DEF ProcFields
  <2>7. q.ca_queue \in Seq(VPs) /\ Holds(q.ca_queue, q.ca_keys)
    BY <1>1, <1>3, <2>5, AppendHolds
  <2>8. q.ca_map \in [VPs -> CaResponse] /\ \A u \in VPs : TrainBegun(q.ca_map[u])
    BY <2>2, <2>6
  <2>9. Untouched(p.ca_map[v])
    BY <1>3
  <2>10. \A u \in VPs : /\ q.ca_map[u].recv_cnt = p.ca_map[u].recv_cnt
                        /\ q.ca_map[u].recv_ecn = p.ca_map[u].recv_ecn
                        /\ q.ca_map[u].recv_ecn_cnt = p.ca_map[u].recv_ecn_cnt
    <3> TAKE u \in VPs
    <3>1. CASE u = v
      BY <2>2, <2>6, <2>9, <3>1 DEF Untouched
    <3>2. CASE u # v
      BY <2>6, <3>2
    <3> QED
      BY <3>1, <3>2
  <2> QED
    BY <2>3, <2>4, <2>5, <2>6, <2>7, <2>8, <2>10
<1> QED
  BY <1>2, <1>3

LEMMA Monotone == \A x, y, z \in Nat : x <= y => x * z <= y * z
<1> SUFFICES ASSUME NEW x \in Nat, NEW y \in Nat, NEW z \in Nat, x <= y
             PROVE  x * z <= y * z
  OBVIOUS
<1>1. (y - x) * z >= 0
  BY SMTT(30)
<1>2. (y - x) * z = y * z - x * z
  BY SMTT(30)
<1> QED
  BY <1>1, <1>2, SMTT(30)

LEMMA Quotient ==
  ASSUME NEW a \in Nat, NEW d \in Nat \ {0}, NEW m \in Nat, m * d <= a
  PROVE  a \div d \in Nat /\ m <= a \div d
<1> DEFINE q == a \div d
           r == a % d
<1>1. q \in Int /\ r \in 0 .. d - 1 /\ a = q * d + r
  BY SMTT(30)
<1> HIDE DEF q, r
<1>2. q >= 0
  <2> SUFFICES ASSUME q <= -1 PROVE FALSE
    BY <1>1
  <2>1. q * d <= (-1) * d
    BY <1>1, SMTT(30)
  <2> QED
    BY <1>1, <2>1, SMTT(30)
<1>3. m <= q
  <2> SUFFICES ASSUME q + 1 <= m PROVE FALSE
    BY <1>1
  <2>1. (q + 1) * d <= m * d
    BY <1>1, <1>2, Monotone
  <2>2. (q + 1) * d = q * d + d
    BY <1>1, SMTT(30)
  <2> QED
    BY <1>1, <2>1, <2>2, SMTT(30)
<1> QED
  BY <1>1, <1>2, <1>3 DEF q

(* The rate of a completed train is more than a packet per second.         *)
LEMMA ReplyRate ==
  ASSUME NEW cnt \in Nat, cnt >= 2, NEW delta \in Nat, delta >= 1, delta <= T_RSSTIME
  PROVE  /\ (cnt * TICKS_PER_SEC * SCALE) \div delta \in Nat
         /\ (cnt * TICKS_PER_SEC * SCALE) \div delta > SCALE
<1>1. SCALE \in Nat /\ SCALE >= 1 /\ TICKS_PER_SEC \in Nat /\ delta <= TICKS_PER_SEC
  BY ScaleAssumption, TimesAssumption, ProbeRateAssumption
<1>2. 2 * delta <= cnt * TICKS_PER_SEC
  <2>1. 2 * delta <= cnt * delta
    BY Monotone
  <2>2. delta * cnt <= TICKS_PER_SEC * cnt
    BY <1>1, Monotone
  <2>3. delta * cnt = cnt * delta /\ TICKS_PER_SEC * cnt = cnt * TICKS_PER_SEC
    BY <1>1, SMTT(30)
  <2>4. cnt * delta \in Nat /\ cnt * TICKS_PER_SEC \in Nat
    BY <1>1, SMTT(30)
  <2> QED
    BY <2>1, <2>2, <2>3, <2>4
<1> DEFINE n == cnt * TICKS_PER_SEC
<1>3. n \in Nat
  BY <1>1, SMTT(30)
<1>4. 2 * delta <= n
  BY <1>2
<1> HIDE DEF n
<1>5. (2 * delta) * SCALE <= n * SCALE
  BY <1>1, <1>3, <1>4, Monotone
<1>6. (2 * delta) * SCALE = (2 * SCALE) * delta /\ n * SCALE \in Nat /\ 2 * SCALE \in Nat
  BY <1>1, <1>3, SMTT(30)
<1> DEFINE a == n * SCALE
           m == 2 * SCALE
<1>7. a \in Nat /\ m \in Nat /\ m * delta <= a
  BY <1>5, <1>6
<1> HIDE DEF a
<1>8. a \div delta \in Nat /\ m <= a \div delta
  BY <1>7, Quotient
<1>9. a \div delta > SCALE
  BY <1>1, <1>8
<1> QED
  BY <1>8, <1>9 DEF a, n

(* A packet that recv() recognises as a probe reply, and what it carries.  *)
ProbeReply(k) ==
  /\ k.vp_id = 0 /\ k.SN_HSN = 0 /\ k.vp_recn = FALSE /\ k.vp_rcnt = 0
  /\ k.response_en = TRUE /\ k.burst_rate > SCALE

LEMMA BurstRowFacts ==
  ASSUME NEW row \in CaResponse, TrainBegun(row), NEW v \in VPs,
         NEW id \in 0 .. BURST_PKTCNT, NEW t \in Nat,
         NEW b, b = update_ca_burst(row, v, id, t)
  PROVE  /\ b.row \in CaResponse /\ TrainBegun(b.row) /\ SameCounts(row, b.row)
         /\ b.reply = << >> \/ \E k \in Packet : ProbeReply(k) /\ b.reply = <<k>>
<1>1. /\ row.burst_pending \in BOOLEAN /\ row.burst_cnt \in Nat /\ row.burst_time \in Nat
      /\ row.recv_cnt \in Nat /\ row.recv_ecn \in BOOLEAN /\ row.recv_ecn_cnt \in Nat
  BY DEF CaResponse
<1>2. CASE id = 0
  BY <1>2 DEF update_ca_burst, SameCounts
<1>3. CASE id # 0 /\ StartsTrain(row, t)
  <2> DEFINE n == [row EXCEPT !.burst_pending = TRUE, !.burst_cnt = 1, !.burst_time = t]
  <2>1. b = [row |-> n, reply |-> << >>]
    BY <1>3 DEF update_ca_burst
  <2>2. n \in CaResponse /\ TrainBegun(n) /\ SameCounts(row, n)
    <3>1. n \in CaResponse
      BY DEF CaResponse
    <3>2. /\ n.recv_cnt = row.recv_cnt /\ n.recv_ecn = row.recv_ecn
          /\ n.recv_ecn_cnt = row.recv_ecn_cnt
      BY DEF CaResponse
    <3>3. n.burst_cnt = 1
      BY DEF CaResponse
    <3> HIDE DEF n
    <3> QED
      BY <3>1, <3>2, <3>3 DEF TrainBegun, SameCounts
  <2> HIDE DEF n
  <2> QED
    BY <2>1, <2>2
<1>4. CASE id # 0 /\ ~ StartsTrain(row, t)
  <2> DEFINE n == [row EXCEPT !.burst_cnt = @ + 1, !.burst_pending = (id # 1)]
             e == Elapsed(t, row.burst_time)
             k == ReplyPacket(v, row.burst_cnt + 1, e)
  <2>1. b = [row |-> n, reply |-> IF id = 1 THEN <<k>> ELSE << >>]
    BY <1>4 DEF update_ca_burst
  <2>2. row.burst_pending = TRUE /\ ~ (t - row.burst_time > T_RSSTIME)
    BY <1>1, <1>4 DEF StartsTrain
  <2>3. row.burst_cnt >= 1
    BY <2>2 DEF TrainBegun
  <2>4. n \in CaResponse /\ SameCounts(row, n) /\ n.burst_cnt = row.burst_cnt + 1
    <3>1. n \in CaResponse
      <4>1. PICK d \in BOOLEAN : d = (id # 1)
        OBVIOUS
      <4>2. PICK c \in Nat : c = row.burst_cnt + 1
        BY <1>1
      <4>3. n = [row EXCEPT !.burst_cnt = c, !.burst_pending = d]
        BY <4>1, <4>2
      <4>4. [row EXCEPT !.burst_cnt = c, !.burst_pending = d] \in CaResponse
        BY DEF CaResponse
      <4> QED
        BY <4>3, <4>4
    <3>2. /\ n.recv_cnt = row.recv_cnt /\ n.recv_ecn = row.recv_ecn
          /\ n.recv_ecn_cnt = row.recv_ecn_cnt
      BY DEF CaResponse
    <3>3. n.burst_cnt = row.burst_cnt + 1
      BY DEF CaResponse
    <3> HIDE DEF n
    <3> QED
      BY <3>1, <3>2, <3>3 DEF SameCounts
  <2>5. TrainBegun(n)
    BY <1>1, <2>3, <2>4 DEF TrainBegun
  <2>6. e \in Nat /\ e >= 1 /\ e <= T_RSSTIME
    BY <1>1, <2>2, TimesAssumption DEF Elapsed
  <2> HIDE DEF e, n
  <2>7. /\ k.burst_rate \in Nat /\ k.burst_rate > SCALE
    <3>1. row.burst_cnt + 1 \in Nat /\ row.burst_cnt + 1 >= 2
      BY <1>1, <2>3
    <3>2. k.burst_rate = ((row.burst_cnt + 1) * TICKS_PER_SEC * SCALE) \div e
      BY DEF ReplyPacket
    <3> QED
      BY <2>6, <3>1, <3>2, ReplyRate
  <2>8. k \in Packet /\ ProbeReply(k)
    <3>1. k = [vp_id |-> 0, SN_HSN |-> 0, burst_id |-> 0, response_en |-> TRUE,
               vp_rid |-> v, vp_rcnt |-> 0, vp_recn |-> FALSE,
               burst_rate |-> k.burst_rate]
      BY DEF ReplyPacket
    <3>2. PICK r \in Nat : r = k.burst_rate /\ r > SCALE
      BY <2>7
    <3> HIDE DEF k
    <3>3. k = [vp_id |-> 0, SN_HSN |-> 0, burst_id |-> 0, response_en |-> TRUE,
               vp_rid |-> v, vp_rcnt |-> 0, vp_recn |-> FALSE, burst_rate |-> r]
      BY <3>1, <3>2
    <3>4. 0 \in VPs /\ 0 \in 0 .. BURST_PKTCNT
      BY PathFacts, BurstAssumption
    <3>5. k \in Packet
      BY <3>3, <3>4 DEF Packet
    <3> QED
      BY <3>2, <3>3, <3>5 DEF ProbeReply
  <2> HIDE DEF k
  <2>9. b.row = n /\ (b.reply = << >> \/ b.reply = <<k>>)
    BY <2>1
  <2> QED
    BY <2>4, <2>5, <2>8, <2>9
<1> QED
  BY <1>2, <1>3, <1>4

(* The row of a path after a packet has been counted.                      *)
Counted(row, new, marked) ==
  /\ new.recv_cnt = row.recv_cnt + 1
  /\ new.recv_ecn = marked
  /\ new.recv_ecn_cnt = row.recv_ecn_cnt + (IF marked THEN 1 ELSE 0)

LEMMA CountedFacts ==
  ASSUME NEW row \in CaResponse, TrainBegun(row), NEW marked, marked = TRUE \/ marked = FALSE,
         NEW w, w = update_ca_response(row, marked)
  PROVE  w \in CaResponse /\ TrainBegun(w) /\ Counted(row, w, marked)
<1>1. row.recv_cnt \in Nat /\ row.recv_ecn_cnt \in Nat
  BY DEF CaResponse
<1>2. PICK c \in Nat : c = row.recv_cnt + 1
  BY <1>1
<1>3. PICK e \in Nat : e = row.recv_ecn_cnt + (IF marked THEN 1 ELSE 0)
  BY <1>1
<1>4. w = [row EXCEPT !.recv_cnt = c, !.recv_ecn = marked, !.recv_ecn_cnt = e]
  <2>1. CASE marked = TRUE
    <3>1. e = row.recv_ecn_cnt + 1
      BY <1>3, <2>1
    <3> QED
      BY <1>2, <2>1, <3>1 DEF update_ca_response
  <2>2. CASE marked = FALSE
    <3>1. e = row.recv_ecn_cnt
      BY <1>1, <1>3, <2>2
    <3> QED
      BY <1>2, <2>2, <3>1 DEF update_ca_response
  <2> QED
    BY <2>1, <2>2
<1>5. PICK m \in BOOLEAN : m = marked
  OBVIOUS
<1>6. w = [row EXCEPT !.recv_cnt = c, !.recv_ecn = m, !.recv_ecn_cnt = e]
  BY <1>4, <1>5
<1>7. w \in CaResponse
  BY <1>6 DEF CaResponse
<1>8. w.recv_cnt = c /\ w.recv_ecn = m /\ w.recv_ecn_cnt = e
  BY <1>6 DEF CaResponse
<1>9. w.burst_pending = row.burst_pending /\ w.burst_cnt = row.burst_cnt
  BY <1>6 DEF CaResponse
<1> QED
  BY <1>2, <1>3, <1>5, <1>7, <1>8, <1>9 DEF Counted, TrainBegun

LEMMA Sides ==
  ASSUME NEW p
  PROVE  IsProc(p) <=> /\ SenderSide(p) /\ ReceiverSide(p)
                       /\ p.sequence \in Nat /\ p.burst_vp \in VPs
                       /\ p.burst_cnt \in 0 .. BURST_PKTCNT
                       /\ p.burst_pending = TRUE => p.burst_cnt >= 1
                       /\ \A v \in p.ca_keys : p.ca_map[v].recv_cnt > 0
  BY DEF IsProc, SenderSide, ReceiverSide, TurnsOK, Holds

(* What recv() does to the processor with a data packet.                   *)
Received(p, q, pkt, marked) ==
  /\ q.sequence = p.sequence
  /\ Heard(p, q, pkt)
  /\ \A u \in VPs : u # pkt.vp_id => SameCounts(p.ca_map[u], q.ca_map[u])
  /\ Counted(p.ca_map[pkt.vp_id], q.ca_map[pkt.vp_id], marked)

LEMMA RecvDataFacts ==
  ASSUME NEW p, IsProc(p), NEW pkt \in Packet, ~ IsReply(pkt), NEW t \in Nat,
         NEW marked, marked = TRUE \/ marked = FALSE, NEW r, r = recv(p, pkt, marked, t)
  PROVE  /\ IsProc(r.p) /\ Received(p, r.p, pkt, marked)
         /\ r.reply = << >> \/ \E k \in Packet : ProbeReply(k) /\ r.reply = <<k>>
<1> DEFINE v == pkt.vp_id
           a == TakeResponse(p, pkt, t)
           c == ca_alloc(a, v, t)
           b == update_ca_burst(c.ca_map[v], v, pkt.burst_id, t)
           w == update_ca_response(b.row, marked)
           o == reorder(c.buf, pkt.SN_HSN)
           q == [c EXCEPT !.ca_map[v] = w, !.buf = o.buf]
<1>1. r = [p |-> q, reply |-> b.reply, out |-> o.out]
  BY DEF recv
<1>2. v \in VPs /\ pkt.burst_id \in 0 .. BURST_PKTCNT
  BY DEF Packet
<1> HIDE DEF v
<1>3. /\ SenderSide(p) /\ ReceiverSide(p)
      /\ p.sequence \in Nat /\ p.burst_vp \in VPs /\ p.burst_cnt \in 0 .. BURST_PKTCNT
      /\ p.burst_pending = TRUE => p.burst_cnt >= 1
      /\ \A u \in p.ca_keys : p.ca_map[u].recv_cnt > 0
  BY Sides
<1>4. /\ SenderSide(a)
      /\ \A f \in ProcFields \ Reporting : a[f] = p[f]
      /\ Heard(p, a, pkt)
  BY <1>3, ResponseFacts
<1> HIDE DEF a
<1>5. /\ a.sequence = p.sequence /\ a.ca_keys = p.ca_keys /\ a.ca_map = p.ca_map
      /\ a.ca_queue = p.ca_queue
  BY <1>4 DEF ProcFields, Reporting
<1>6. ReceiverSide(a)
  BY <1>3, <1>4, <1>5 DEF ReceiverSide, SenderSide
<1>7. /\ ReceiverSide(c)
      /\ \A f \in ProcFields \ Receiving : c[f] = a[f]
      /\ c.ca_keys = a.ca_keys \cup {v}
      /\ \A u \in VPs : SameCounts(a.ca_map[u], c.ca_map[u])
  BY <1>2, <1>6, AllocFacts
<1> HIDE DEF c
<1>8. /\ c.sequence = a.sequence /\ c.vp_map = a.vp_map /\ c.burst_pending = a.burst_pending
      /\ c.burst_vp = a.burst_vp /\ c.burst_cnt = a.burst_cnt
  BY <1>7 DEF ProcFields, Receiving
<1>9. c.ca_map[v] \in CaResponse /\ TrainBegun(c.ca_map[v])
  BY <1>2, <1>7 DEF ReceiverSide
<1>10. /\ b.row \in CaResponse /\ TrainBegun(b.row) /\ SameCounts(c.ca_map[v], b.row)
       /\ b.reply = << >> \/ \E k \in Packet : ProbeReply(k) /\ b.reply = <<k>>
  BY <1>2, <1>9, BurstRowFacts
<1> HIDE DEF b
<1>11. w \in CaResponse /\ TrainBegun(w) /\ Counted(b.row, w, marked)
  BY <1>10, CountedFacts
<1> HIDE DEF w, o
<1>12. DOMAIN c = ProcFields /\ c.ca_map \in [VPs -> CaResponse]
  BY <1>7 DEF ReceiverSide
<1>13. /\ DOMAIN q = ProcFields
       /\ \A f \in ProcFields \ {"ca_map", "buf"} : q[f] = c[f]
       /\ q.ca_map = [c.ca_map EXCEPT ![v] = w]
  BY <1>12 DEF ProcFields
<1> HIDE DEF q
<1>14. /\ q.sequence = p.sequence /\ q.vp_map = a.vp_map /\ q.burst_pending = a.burst_pending
       /\ q.burst_vp = a.burst_vp /\ q.burst_cnt = a.burst_cnt
       /\ q.ca_keys = c.ca_keys /\ q.ca_queue = c.ca_queue
  BY <1>5, <1>8, <1>13 DEF ProcFields
<1>15. /\ q.ca_map \in [VPs -> CaResponse] /\ q.ca_map[v] = w
       /\ \A u \in VPs : u # v => q.ca_map[u] = c.ca_map[u]
  BY <1>2, <1>11, <1>12, <1>13
<1>16. SenderSide(q)
  BY <1>4, <1>13, <1>14 DEF SenderSide
<1>17. ReceiverSide(q)
  <2>1. \A u \in VPs : TrainBegun(q.ca_map[u])
    BY <1>7, <1>11, <1>15 DEF ReceiverSide
  <2>2. \A u \in VPs \ q.ca_keys : Untouched(q.ca_map[u])
    BY <1>7, <1>14, <1>15 DEF ReceiverSide
  <2> QED
    BY <1>7, <1>13, <1>14, <1>15, <2>1, <2>2 DEF ReceiverSide
<1>18. Counted(p.ca_map[v], q.ca_map[v], marked)
  BY <1>2, <1>5, <1>7, <1>10, <1>11, <1>15 DEF Counted, SameCounts
<1>19. \A u \in VPs : u # v => SameCounts(p.ca_map[u], q.ca_map[u])
  BY <1>5, <1>7, <1>15
<1>20. \A u \in q.ca_keys : q.ca_map[u].recv_cnt > 0
  <2> TAKE u \in q.ca_keys
  <2>1. CASE u = v
    <3>1. p.ca_map[v] \in CaResponse
      BY <1>2, <1>3 DEF ReceiverSide
    <3>2. p.ca_map[v].recv_cnt \in Nat
      BY <3>1 DEF CaResponse
    <3> QED
      BY <1>18, <2>1, <3>2 DEF Counted
  <2>2. CASE u # v
    <3>1. u \in p.ca_keys /\ u \in VPs
      BY <1>3, <1>5, <1>7, <1>14, <2>2 DEF ReceiverSide
    <3> QED
      BY <1>3, <1>19, <2>2, <3>1 DEF SameCounts
  <2> QED
    BY <2>1, <2>2
<1>21. Heard(p, q, pkt)
  BY <1>4, <1>14 DEF Heard, ProbeKept
<1>22. /\ q.burst_vp \in VPs /\ q.burst_cnt \in 0 .. BURST_PKTCNT
       /\ q.burst_pending = TRUE => q.burst_cnt >= 1
  BY <1>3, <1>21, BurstAssumption DEF Heard, ProbeKept
<1>23. IsProc(q)
  BY <1>3, <1>14, <1>16, <1>17, <1>20, <1>22, Sides
<1>24. r.p = q /\ r.reply = b.reply
  BY <1>1
<1> QED
  BY <1>10, <1>14, <1>18, <1>19, <1>21, <1>23, <1>24 DEF Received, v

(* A probe reply only changes the weight of a path.                        *)
LEMMA RecvReplyFacts ==
  ASSUME NEW p, IsProc(p), NEW pkt \in Packet, IsReply(pkt), NEW t, NEW marked,
         NEW r, r = recv(p, pkt, marked, t)
  PROVE  /\ IsProc(r.p) /\ r.reply = << >>
         /\ r.p.sequence = p.sequence
         /\ \A u \in VPs :
              /\ r.p.vp_map[u].send_cnt = p.vp_map[u].send_cnt
              /\ r.p.vp_map[u].send_undefined = p.vp_map[u].send_undefined
              /\ r.p.vp_map[u].recv_cnt = p.vp_map[u].recv_cnt
              /\ r.p.vp_map[u].recv_undefined = p.vp_map[u].recv_undefined
              /\ r.p.vp_map[u].recv_ece_cnt = p.vp_map[u].recv_ece_cnt
         /\ ProbeKept(p, r.p) /\ r.p.ca_map = p.ca_map
<1> DEFINE v == pkt.vp_rid
           w == IF p.vp_map[v].r_rate < pkt.burst_rate THEN pkt.burst_rate ELSE p.vp_map[v].r_rate
           q == [p EXCEPT !.vp_map[v].r_rate = w]
<1>1. r.p = q /\ r.reply = << >>
  BY DEF recv, TakeReply
<1>2. v \in VPs
  BY DEF Packet
<1> HIDE DEF v, w
<1>3. /\ SenderSide(p) /\ ReceiverSide(p)
      /\ p.sequence \in Nat /\ p.burst_vp \in VPs /\ p.burst_cnt \in 0 .. BURST_PKTCNT
      /\ p.burst_pending = TRUE => p.burst_cnt >= 1
      /\ \A u \in p.ca_keys : p.ca_map[u].recv_cnt > 0
  BY Sides
<1>4. DOMAIN p = ProcFields /\ DOMAIN p.vp_map = VPs /\ \A u \in VPs : IsRecord(p.vp_map[u])
  BY <1>3 DEF SenderSide
<1>5. /\ DOMAIN q = ProcFields /\ DOMAIN q.vp_map = VPs
      /\ \A f \in ProcFields \ {"vp_map"} : q[f] = p[f]
  BY <1>4 DEF ProcFields
<1>6. \A u \in VPs : u # v => q.vp_map[u] = p.vp_map[u]
  BY <1>4 DEF ProcFields
<1>7. q.vp_map[v] = [p.vp_map[v] EXCEPT !.r_rate = w]
  BY <1>2, <1>4 DEF ProcFields
<1> HIDE DEF q
<1>8. /\ DOMAIN q.vp_map[v] = RecordFields
      /\ \A f \in RecordFields \ {"r_rate"} : q.vp_map[v][f] = p.vp_map[v][f]
  BY <1>2, <1>4, <1>7 DEF IsRecord, RecordFields
<1>9. \A u \in VPs : /\ IsRecord(q.vp_map[u])
                     /\ q.vp_map[u].send_cnt = p.vp_map[u].send_cnt
                     /\ q.vp_map[u].send_undefined = p.vp_map[u].send_undefined
                     /\ q.vp_map[u].recv_cnt = p.vp_map[u].recv_cnt
                     /\ q.vp_map[u].recv_undefined = p.vp_map[u].recv_undefined
                     /\ q.vp_map[u].recv_ece_cnt = p.vp_map[u].recv_ece_cnt
  <2> TAKE u \in VPs
  <2>1. CASE u = v
    BY <1>2, <1>4, <1>8, <2>1 DEF IsRecord, RecordFields
  <2>2. CASE u # v
    BY <1>4, <1>6, <2>2
  <2> QED
    BY <2>1, <2>2
<1>10. /\ q.sequence = p.sequence /\ q.burst_pending = p.burst_pending /\ q.burst_vp = p.burst_vp
       /\ q.burst_cnt = p.burst_cnt /\ q.ca_keys = p.ca_keys /\ q.ca_map = p.ca_map
       /\ q.ca_queue = p.ca_queue
  BY <1>5 DEF ProcFields
<1>11. SenderSide(q) /\ ReceiverSide(q)
  BY <1>3, <1>5, <1>9, <1>10 DEF SenderSide, ReceiverSide
<1>12. IsProc(q)
  BY <1>3, <1>10, <1>11, Sides
<1> QED
  BY <1>1, <1>9, <1>10, <1>12 DEF ProbeKept
-----------------------------------------------------------------------------
(* Totals over the paths.                                                  *)

(* f adds up r path by path.                                               *)
Sums(f, r) ==
  /\ f \in [0 .. VP_SIZE -> Int]
  /\ f[0] = 0
  /\ \A i \in 1 .. VP_SIZE : f[i] = f[i - 1] + r[i - 1]

LEMMA TotalFacts ==
  ASSUME NEW r, \A v \in VPs : r[v] \in Int
  PROVE  \E f : Sums(f, r) /\ Total(r) = f[VP_SIZE]
<1> DEFINE Adds(f, n) == /\ f \in [0 .. n -> Int]
                         /\ f[0] = 0
                         /\ \A i \in 1 .. n : f[i] = f[i - 1] + r[i - 1]
           S == {n \in 0 .. VP_SIZE : ~ \E f : Adds(f, n)}
<1>1. VP_SIZE \in Nat /\ VPs = 0 .. VP_SIZE - 1
  BY VpSizeAssumption DEF VPs
<1>2. S = {}
  <2> SUFFICES ASSUME S # {} PROVE FALSE
    OBVIOUS
  <2>a. S \in SUBSET Nat
    BY <1>1
  <2>b. \A n : n \in S <=> n \in 0 .. VP_SIZE /\ ~ \E f : Adds(f, n)
    OBVIOUS
  <2> HIDE DEF S
  <2>1. PICK n \in S : \A m \in S : n <= m
    BY <2>a, LeastNatural
  <2>2. n \in 0 .. VP_SIZE /\ ~ \E f : Adds(f, n)
    BY <2>b, <2>1
  <2>3. CASE n = 0
    <3>1. Adds([i \in 0 .. 0 |-> 0], 0)
      OBVIOUS
    <3> QED
      BY <2>2, <2>3, <3>1
  <2>4. CASE n # 0
    <3>1. n - 1 \in 0 .. VP_SIZE /\ n - 1 < n
      BY <1>1, <2>2, <2>4
    <3>2. n - 1 \notin S
      BY <2>1, <2>2, <3>1
    <3>0. PICK f : Adds(f, n - 1)
      BY <2>b, <3>1, <3>2
    <3> DEFINE g == [i \in 0 .. n |-> IF i = n THEN f[n - 1] + r[n - 1] ELSE f[i]]
    <3>3. n - 1 \in VPs /\ r[n - 1] \in Int /\ f[n - 1] \in Int /\ n \in Nat
      BY <1>1, <2>2, <2>4, <3>0
    <3>4. g \in [0 .. n -> Int] /\ g[0] = 0 /\ g[n] = f[n - 1] + r[n - 1]
      BY <2>4, <3>0, <3>3
    <3>5. \A i \in 0 .. n - 1 : g[i] = f[i]
      BY <3>3
    <3> HIDE DEF g
    <3>6. \A i \in 1 .. n : g[i] = g[i - 1] + r[i - 1]
      <4> TAKE i \in 1 .. n
      <4>1. CASE i = n
        BY <3>3, <3>4, <3>5, <4>1, <2>4
      <4>2. CASE i # n
        <5>1. i \in 1 .. n - 1 /\ i \in 0 .. n - 1 /\ i - 1 \in 0 .. n - 1
          BY <3>3, <4>2
        <5> QED
          BY <3>0, <3>5, <5>1
      <4> QED
        BY <4>1, <4>2
    <3>7. Adds(g, n)
      BY <3>4, <3>6
    <3> QED
      BY <2>2, <3>7
  <2> QED
    BY <2>3, <2>4
<1>3. PICK f : Adds(f, VP_SIZE)
  <2>1. VP_SIZE \in 0 .. VP_SIZE
    BY <1>1
  <2>2. \A n \in 0 .. VP_SIZE : \E f : Adds(f, n)
    BY <1>2, Zenon
  <2> QED
    BY <2>1, <2>2
<1>4. f = [i \in 0 .. VP_SIZE |-> IF i = 0 THEN 0 ELSE f[i - 1] + r[i - 1]]
  BY <1>1, <1>3
<1> DEFINE sum == CHOOSE g : g = [i \in 0 .. VP_SIZE |-> IF i = 0 THEN 0 ELSE g[i - 1] + r[i - 1]]
<1>5. sum = [i \in 0 .. VP_SIZE |-> IF i = 0 THEN 0 ELSE sum[i - 1] + r[i - 1]]
  BY <1>4
<1>6. Total(r) = sum[VP_SIZE]
  BY DEF Total
<1> HIDE DEF sum
<1>7. sum[0] = 0 /\ \A i \in 1 .. VP_SIZE : sum[i] = sum[i - 1] + r[i - 1]
  <2>1. 0 \in 0 .. VP_SIZE /\ \A i \in 1 .. VP_SIZE : i \in 0 .. VP_SIZE /\ i # 0
    BY <1>1
  <2> QED
    BY <1>5, <2>1
<1> DEFINE D == {n \in 0 .. VP_SIZE : sum[n] # f[n]}
<1>8. D = {}
  <2> SUFFICES ASSUME D # {} PROVE FALSE
    OBVIOUS
  <2>a. D \in SUBSET Nat
    BY <1>1
  <2>b. \A n : n \in D <=> n \in 0 .. VP_SIZE /\ sum[n] # f[n]
    OBVIOUS
  <2> HIDE DEF D
  <2>1. PICK n \in D : \A m \in D : n <= m
    BY <2>a, LeastNatural
  <2>2. n \in 1 .. VP_SIZE /\ n - 1 \in 0 .. VP_SIZE /\ n - 1 \notin D
    BY <1>1, <1>3, <1>7, <2>b, <2>1
  <2>3. sum[n - 1] = f[n - 1]
    BY <2>b, <2>2
  <2> QED
    BY <1>3, <1>7, <2>b, <2>1, <2>2, <2>3
<1>9. Total(r) = f[VP_SIZE]
  BY <1>1, <1>6, <1>8
<1> QED
  BY <1>3, <1>9 DEF Sums

(* A change of one path's value changes the total by as much.              *)
LEMMA TotalUpdate ==
  ASSUME NEW r, NEW s, \A v \in VPs : r[v] \in Int /\ s[v] \in Int,
         NEW u \in VPs, \A v \in VPs : v # u => s[v] = r[v]
  PROVE  /\ Total(r) \in Int /\ Total(s) \in Int
         /\ Total(s) = Total(r) + (s[u] - r[u])
<1>1. VP_SIZE \in Nat /\ VPs = 0 .. VP_SIZE - 1 /\ u \in 0 .. VP_SIZE - 1
  BY VpSizeAssumption DEF VPs
<1>2. PICK f : Sums(f, r) /\ Total(r) = f[VP_SIZE]
  BY TotalFacts
<1>3. PICK g : Sums(g, s) /\ Total(s) = g[VP_SIZE]
  BY TotalFacts
<1>4. /\ f \in [0 .. VP_SIZE -> Int] /\ f[0] = 0
      /\ \A i \in 1 .. VP_SIZE : f[i] = f[i - 1] + r[i - 1]
      /\ g \in [0 .. VP_SIZE -> Int] /\ g[0] = 0
      /\ \A i \in 1 .. VP_SIZE : g[i] = g[i - 1] + s[i - 1]
  BY <1>2, <1>3 DEF Sums
<1> DEFINE Diff(i) == IF i <= u THEN 0 ELSE s[u] - r[u]
           D == {n \in 0 .. VP_SIZE : g[n] # f[n] + Diff(n)}
<1>5. D = {}
  <2> SUFFICES ASSUME D # {} PROVE FALSE
    OBVIOUS
  <2>a. D \in SUBSET Nat
    BY <1>1
  <2>b. \A n : n \in D <=> n \in 0 .. VP_SIZE /\ g[n] # f[n] + Diff(n)
    OBVIOUS
  <2> HIDE DEF D
  <2>1. PICK n \in D : \A m \in D : n <= m
    BY <2>a, LeastNatural
  <2>2. n # 0
    BY <1>1, <1>4, <2>b, <2>1
  <2>3. n \in 1 .. VP_SIZE /\ n - 1 \in 0 .. VP_SIZE /\ n - 1 \notin D /\ n - 1 \in VPs
    BY <1>1, <2>b, <2>1, <2>2
  <2>4. g[n - 1] = f[n - 1] + Diff(n - 1)
    BY <2>b, <2>3
  <2>5. /\ g[n] = g[n - 1] + s[n - 1] /\ f[n] = f[n - 1] + r[n - 1]
        /\ g[n - 1] \in Int /\ f[n - 1] \in Int /\ s[n - 1] \in Int /\ r[n - 1] \in Int
        /\ s[u] \in Int /\ r[u] \in Int
    BY <1>4, <2>3
  <2>6. CASE n - 1 = u
    BY <1>1, <2>b, <2>1, <2>3, <2>4, <2>5, <2>6
  <2>7. CASE n - 1 # u
    <3>1. s[n - 1] = r[n - 1] /\ Diff(n) = Diff(n - 1)
      BY <1>1, <2>3, <2>7
    <3> QED
      BY <2>b, <2>1, <2>3, <2>4, <2>5, <3>1
  <2> QED
    BY <2>6, <2>7
<1>6. g[VP_SIZE] = f[VP_SIZE] + Diff(VP_SIZE) /\ Diff(VP_SIZE) = s[u] - r[u]
  BY <1>1, <1>5
<1> QED
  BY <1>1, <1>2, <1>3, <1>4, <1>6

LEMMA TotalZero ==
  ASSUME NEW r, \A v \in VPs : r[v] = 0
  PROVE  Total(r) = 0
<1>1. VP_SIZE \in Nat /\ VPs = 0 .. VP_SIZE - 1
  BY VpSizeAssumption DEF VPs
<1>2. PICK f : Sums(f, r) /\ Total(r) = f[VP_SIZE]
  BY TotalFacts
<1>3. f[0] = 0 /\ \A i \in 1 .. VP_SIZE : f[i] = f[i - 1] + r[i - 1]
  BY <1>2 DEF Sums
<1> DEFINE D == {n \in 0 .. VP_SIZE : f[n] # 0}
<1>4. D = {}
  <2> SUFFICES ASSUME D # {} PROVE FALSE
    OBVIOUS
  <2>a. D \in SUBSET Nat
    BY <1>1
  <2>b. \A n : n \in D <=> n \in 0 .. VP_SIZE /\ f[n] # 0
    OBVIOUS
  <2> HIDE DEF D
  <2>1. PICK n \in D : \A m \in D : n <= m
    BY <2>a, LeastNatural
  <2>2. n \in 1 .. VP_SIZE /\ n - 1 \in 0 .. VP_SIZE /\ n - 1 \notin D /\ n - 1 \in VPs
    BY <1>1, <1>3, <2>b, <2>1
  <2> QED
    BY <1>3, <2>b, <2>1, <2>2
<1> QED
  BY <1>1, <1>2, <1>4

-----------------------------------------------------------------------------
(* Counting the packets of a path.                                         *)

Places(s, P) == {i \in DOMAIN s : s[i] \in P}

Hits(s, P) == Cardinality(Places(s, P))

LEMMA PlacesFinite ==
  ASSUME NEW X, NEW s \in Seq(X), NEW P
  PROVE  IsFiniteSet(Places(s, P)) /\ Hits(s, P) \in Nat
<1>1. Len(s) \in Nat /\ DOMAIN s = 1 .. Len(s)
  OBVIOUS
<1>2. Len(s) \in Int /\ 1 \in Int
  BY <1>1
<1>3. IsFiniteSet(1 .. Len(s))
  BY <1>2, FS_Interval, Zenon
<1>4. Places(s, P) \subseteq 1 .. Len(s)
  BY <1>1 DEF Places
<1>5. IsFiniteSet(Places(s, P))
  BY <1>3, <1>4, FS_Subset
<1> QED
  BY <1>5, FS_CardinalityType DEF Hits

LEMMA HitsAppend ==
  ASSUME NEW X, NEW s \in Seq(X), NEW k \in X, NEW P
  PROVE  Hits(Append(s, k), P) = Hits(s, P) + (IF k \in P THEN 1 ELSE 0)
<1> DEFINE r == Append(s, k)
<1>1. /\ Len(s) \in Nat /\ DOMAIN s = 1 .. Len(s) /\ DOMAIN r = 1 .. Len(s) + 1
      /\ r[Len(s) + 1] = k /\ \A i \in 1 .. Len(s) : r[i] = s[i]
  OBVIOUS
<1> HIDE DEF r
<1>2. IsFiniteSet(Places(s, P)) /\ Hits(s, P) \in Nat
  BY PlacesFinite
<1>3. CASE k \in P
  <2>1. Places(r, P) = Places(s, P) \cup {Len(s) + 1}
    BY <1>1, <1>3 DEF Places
  <2>2. Len(s) + 1 \notin Places(s, P)
    BY <1>1 DEF Places
  <2>3. Cardinality(Places(s, P) \cup {Len(s) + 1}) = Cardinality(Places(s, P)) + 1
    BY <1>2, <2>2, FS_AddElement
  <2> QED
    BY <1>3, <2>1, <2>3 DEF Hits, r
<1>4. CASE k \notin P
  <2>1. Places(r, P) = Places(s, P)
    BY <1>1, <1>4 DEF Places
  <2> QED
    BY <1>2, <1>4, <2>1 DEF Hits, r
<1> QED
  BY <1>3, <1>4

LEMMA HitsTail ==
  ASSUME NEW X, NEW s \in Seq(X), s # << >>, NEW P
  PROVE  /\ Hits(Tail(s), P) = Hits(s, P) - (IF Head(s) \in P THEN 1 ELSE 0)
         /\ Hits(Tail(s), P) <= Hits(s, P)
<1> DEFINE r == Tail(s)
           A == Places(r, P)
           B == Places(s, P) \ {1}
           f == [i \in A |-> i + 1]
<1>1. /\ Len(s) \in Nat /\ Len(s) >= 1 /\ DOMAIN s = 1 .. Len(s) /\ r \in Seq(X)
      /\ DOMAIN r = 1 .. Len(s) - 1 /\ Head(s) = s[1]
      /\ \A i \in 1 .. Len(s) - 1 : r[i] = s[i + 1]
  OBVIOUS
<1> HIDE DEF r
<1>2. /\ IsFiniteSet(Places(s, P)) /\ Hits(s, P) \in Nat /\ IsFiniteSet(A) /\ Hits(r, P) \in Nat
  BY <1>1, PlacesFinite
<1>3. f \in Bijection(A, B)
  <2>1. \A i \in A : i \in Nat /\ f[i] = i + 1
    BY <1>1 DEF Places
  <2>2. \A i \in A : f[i] \in B
    BY <1>1, <2>1 DEF Places
  <2>3. \A j \in B : \E i \in A : f[i] = j
    <3> TAKE j \in B
    <3>1. j - 1 \in A /\ (j - 1) + 1 = j
      BY <1>1 DEF Places
    <3> QED
      BY <3>1
  <2>4. \A i, j \in A : f[i] = f[j] => i = j
    BY <2>1
  <2>5. f \in [A -> B]
    BY <2>2
  <2> QED
    BY <2>3, <2>4, <2>5 DEF Bijection, Injection, Surjection, IsInjective
<1>4. IsFiniteSet(B) /\ Cardinality(B) = Cardinality(A)
  <2>1. B \subseteq Places(s, P)
    OBVIOUS
  <2>2. ExistsBijection(A, B)
    BY <1>3 DEF ExistsBijection
  <2> HIDE DEF A, B, f
  <2> QED
    BY <1>2, <2>1, <2>2, FS_Bijection, FS_Subset
<1>5. 1 \in Places(s, P) <=> Head(s) \in P
  BY <1>1 DEF Places
<1>6. Hits(Tail(s), P) = Cardinality(B)
  BY <1>4 DEF Hits, r
<1>7. CASE Head(s) \in P
  <2>1. Cardinality(Places(s, P) \ {1}) = Cardinality(Places(s, P)) - 1
    BY <1>2, <1>5, <1>7, FS_RemoveElement
  <2>2. Hits(Tail(s), P) = Hits(s, P) - 1
    BY <1>6, <2>1 DEF Hits
  <2> QED
    BY <1>2, <1>7, <2>2
<1>8. CASE Head(s) \notin P
  <2>1. B = Places(s, P)
    BY <1>5, <1>8
  <2>2. Hits(Tail(s), P) = Hits(s, P)
    BY <1>6, <2>1 DEF Hits
  <2> QED
    BY <1>2, <1>8, <2>2
<1> QED
  BY <1>7, <1>8

-----------------------------------------------------------------------------
(* The refresh, a new processor and the peer.                              *)

(* The refresh moves what is undefined into the totals.                    *)
Refreshed(p, q) ==
  /\ q.sequence = p.sequence /\ ProbeKept(p, q) /\ q.ca_map = p.ca_map
  /\ \A u \in VPs :
       /\ q.vp_map[u].send_cnt + q.vp_map[u].send_undefined
            = p.vp_map[u].send_cnt + p.vp_map[u].send_undefined
       /\ q.vp_map[u].recv_cnt + q.vp_map[u].recv_undefined
            = p.vp_map[u].recv_cnt + p.vp_map[u].recv_undefined
       /\ q.vp_map[u].recv_ece_cnt = p.vp_map[u].recv_ece_cnt

LEMMA RefreshRecord ==
  ASSUME NEW ca, IsRecord(ca), NEW delta, NEW d, d = update_ca_record(ca, delta)
  PROVE  /\ IsRecord(d)
         /\ d.send_cnt + d.send_undefined = ca.send_cnt + ca.send_undefined
         /\ d.recv_cnt + d.recv_undefined = ca.recv_cnt + ca.recv_undefined
         /\ d.recv_ece_cnt = ca.recv_ece_cnt
<1> DEFINE w == (ca.recv_undefined * TICKS_PER_SEC * SCALE) \div delta
<1>1. d = [ca EXCEPT !.rate = w, !.send_cnt = @ + ca.send_undefined,
                     !.recv_cnt = @ + ca.recv_undefined,
                     !.send_undefined = 0, !.recv_undefined = 0]
  BY DEF update_ca_record
<1> HIDE DEF w
<1>2. DOMAIN ca = RecordFields
  BY DEF IsRecord
<1>3. DOMAIN d = RecordFields
  BY <1>1, <1>2
<1>4. d.send_cnt = ca.send_cnt + ca.send_undefined
  BY <1>1, <1>2 DEF RecordFields
<1>5. d.recv_cnt = ca.recv_cnt + ca.recv_undefined
  BY <1>1, <1>2 DEF RecordFields
<1>6. d.send_undefined = 0 /\ d.recv_undefined = 0
  BY <1>1, <1>2 DEF RecordFields
<1>7. d.r_time = ca.r_time /\ d.recv_ece_cnt = ca.recv_ece_cnt
  BY <1>1, <1>2 DEF RecordFields
<1>8. /\ ca.send_cnt \in Nat /\ ca.recv_cnt \in Nat /\ ca.send_undefined \in Nat
      /\ ca.recv_undefined \in Nat /\ ca.r_time \in Nat /\ ca.recv_ece_cnt \in Nat
  BY DEF IsRecord
<1> QED
  BY <1>3, <1>4, <1>5, <1>6, <1>7, <1>8 DEF IsRecord

LEMMA ExpireFacts ==
  ASSUME NEW p, IsProc(p), NEW t \in Nat, NEW q, q = expire(p, t)
  PROVE  IsProc(q) /\ Refreshed(p, q)
<1> DEFINE m == [v \in VPs |-> update_ca_record(p.vp_map[v], t - p.update_time)]
<1>1. q = [p EXCEPT !.vp_map = m, !.update_time = t]
  BY DEF expire
<1>2. \A u \in VPs : m[u] = update_ca_record(p.vp_map[u], t - p.update_time)
  OBVIOUS
<1>3. DOMAIN m = VPs
  OBVIOUS
<1> HIDE DEF m
<1>4. DOMAIN p = ProcFields /\ \A u \in VPs : IsRecord(p.vp_map[u])
  BY DEF IsProc
<1>5. /\ DOMAIN q = ProcFields /\ q.vp_map = m
      /\ \A f \in ProcFields \ {"vp_map", "update_time"} : q[f] = p[f]
  BY <1>1, <1>4 DEF ProcFields
<1>6. \A u \in VPs :
        /\ IsRecord(m[u])
        /\ m[u].send_cnt + m[u].send_undefined = p.vp_map[u].send_cnt + p.vp_map[u].send_undefined
        /\ m[u].recv_cnt + m[u].recv_undefined = p.vp_map[u].recv_cnt + p.vp_map[u].recv_undefined
        /\ m[u].recv_ece_cnt = p.vp_map[u].recv_ece_cnt
  BY <1>2, <1>4, RefreshRecord
<1>7. /\ q.sequence = p.sequence /\ q.burst_pending = p.burst_pending /\ q.burst_vp = p.burst_vp
      /\ q.burst_cnt = p.burst_cnt /\ q.ca_keys = p.ca_keys /\ q.ca_map = p.ca_map
      /\ q.ca_queue = p.ca_queue
  BY <1>5 DEF ProcFields
<1>8. /\ SenderSide(p) /\ ReceiverSide(p)
      /\ p.sequence \in Nat /\ p.burst_vp \in VPs /\ p.burst_cnt \in 0 .. BURST_PKTCNT
      /\ p.burst_pending = TRUE => p.burst_cnt >= 1
      /\ \A u \in p.ca_keys : p.ca_map[u].recv_cnt > 0
  BY Sides
<1>9. SenderSide(q) /\ ReceiverSide(q)
  BY <1>3, <1>5, <1>6, <1>7, <1>8 DEF SenderSide, ReceiverSide
<1>10. IsProc(q)
  BY <1>7, <1>8, <1>9, Sides
<1> QED
  BY <1>5, <1>6, <1>7, <1>10 DEF Refreshed, ProbeKept

(* Two processors that differ in their times only.                         *)
Agree(p, q) ==
  /\ q.sequence = p.sequence /\ q.burst_pending = p.burst_pending
  /\ q.burst_vp = p.burst_vp /\ q.burst_cnt = p.burst_cnt
  /\ \A u \in VPs : /\ q.vp_map[u].send_cnt = p.vp_map[u].send_cnt
                    /\ q.vp_map[u].send_undefined = p.vp_map[u].send_undefined
                    /\ q.vp_map[u].recv_cnt = p.vp_map[u].recv_cnt
                    /\ q.vp_map[u].recv_undefined = p.vp_map[u].recv_undefined
                    /\ q.vp_map[u].recv_ece_cnt = p.vp_map[u].recv_ece_cnt
                    /\ SameCounts(p.ca_map[u], q.ca_map[u])

LEMMA NewFacts ==
  ASSUME NEW t \in Nat, NEW p, p = NewProcessor(t)
  PROVE  /\ IsProc(p) /\ p.sequence = 0 /\ p.burst_pending = FALSE /\ p.burst_vp = 0
         /\ p.burst_cnt = 0
         /\ \A u \in VPs :
              /\ p.vp_map[u].send_cnt = 0 /\ p.vp_map[u].send_undefined = 0
              /\ p.vp_map[u].recv_cnt = 0 /\ p.vp_map[u].recv_undefined = 0
              /\ p.vp_map[u].recv_ece_cnt = 0 /\ p.ca_map[u].recv_cnt = 0
              /\ p.ca_map[u].recv_ecn = FALSE /\ p.ca_map[u].recv_ecn_cnt = 0
<1> DEFINE c == init_ca_record(t)
           d == init_ca_response(t)
<1>1. /\ IsRecord(c) /\ c.send_cnt = 0 /\ c.send_undefined = 0 /\ c.recv_cnt = 0
      /\ c.recv_undefined = 0 /\ c.recv_ece_cnt = 0
  BY DEF init_ca_record, IsRecord, RecordFields
<1>2. /\ d \in CaResponse /\ TrainBegun(d) /\ Untouched(d)
      /\ d.recv_cnt = 0 /\ d.recv_ecn = FALSE /\ d.recv_ecn_cnt = 0
  BY DEF init_ca_response, CaResponse, TrainBegun, Untouched
<1>3. p = [sequence |-> 0, vp_map |-> [v \in VPs |-> c], burst_pending |-> FALSE,
           burst_vp |-> 0, burst_cnt |-> 0, ca_keys |-> {}, ca_map |-> [v \in VPs |-> d],
           ca_queue |-> << >>, buf |-> Init_PacketQueue, update_time |-> t]
  BY DEF NewProcessor
<1> HIDE DEF c, d
<1>4. DOMAIN p = ProcFields
  BY <1>3 DEF ProcFields
<1>5. /\ p.sequence = 0 /\ p.burst_pending = FALSE /\ p.burst_vp = 0 /\ p.burst_cnt = 0
      /\ p.vp_map = [v \in VPs |-> c] /\ p.ca_map = [v \in VPs |-> d]
      /\ p.ca_keys = {} /\ p.ca_queue = << >>
  BY <1>3
<1>6. SenderSide(p)
  BY <1>1, <1>4, <1>5 DEF SenderSide
<1>7. ReceiverSide(p)
  <2>1. << >> \in Seq(VPs) /\ Holds(<< >>, {})
    BY DEF Holds
  <2> QED
    BY <1>2, <1>4, <1>5, <2>1 DEF ReceiverSide
<1>8. IsProc(p)
  <2>1. p.sequence \in Nat /\ p.burst_vp \in VPs /\ p.burst_cnt \in 0 .. BURST_PKTCNT
    BY <1>5, PathFacts, BurstAssumption
  <2>2. p.burst_pending = TRUE => p.burst_cnt >= 1
    BY <1>5
  <2>3. \A v \in p.ca_keys : p.ca_map[v].recv_cnt > 0
    BY <1>5
  <2> QED
    BY <1>6, <1>7, <2>1, <2>2, <2>3, Sides
<1> QED
  BY <1>1, <1>2, <1>5, <1>8

LEMMA PeerFacts ==
  ASSUME NEW h \in Hosts
  PROVE  /\ Peer(h) \in Hosts /\ Peer(h) # h
         /\ \A g \in Hosts : g = h \/ g = Peer(h)
         /\ Peer(Peer(h)) = h
<1>1. IsFiniteSet(Hosts \ {h}) /\ Cardinality(Hosts \ {h}) = 1
  BY HostsAssumption, FS_RemoveElement
<1>2. PICK x : Hosts \ {h} = {x}
  BY <1>1, FS_Singleton
<1>3. Peer(h) = x
  BY <1>2 DEF Peer
<1>4. x \in Hosts /\ x # h /\ \A g \in Hosts : g = h \/ g = x
  BY <1>2
<1>5. Peer(x) = h
  BY <1>4 DEF Peer
<1> QED
  BY <1>3, <1>4, <1>5

-----------------------------------------------------------------------------
(* The network: what an action does to the processors and the paths.       *)

(* The packet is on its path.  A data packet has one of the sequence       *)
(* numbers used so far and reports no more than has arrived.               *)
Fits(k, p, v) ==
  /\ k.vp_id = v
  /\ \/ ProbeReply(k)
     \/ /\ k.SN_HSN >= 1 /\ k.SN_HSN <= p.sequence /\ k.burst_rate = 0
        /\ k.vp_rcnt <= p.ca_map[k.vp_rid].recv_cnt

Good(p, v) == {k \in Packet : Fits(k, p, v)}

NetOK ==
  /\ now \in Nat /\ node_table \subseteq Hosts
  /\ DOMAIN proc = Hosts /\ \A h \in Hosts : IsProc(proc[h])
  /\ \A h \in Hosts \ node_table : proc[h] = NewProcessor(0)
  /\ DOMAIN net = Hosts /\ \A h \in Hosts : DOMAIN net[h] = VPs
  /\ \A h \in Hosts, v \in VPs : net[h][v] \in Seq(Good(proc[h], v))

LEMMA PathSeq ==
  ASSUME NetOK, NEW h \in Hosts, NEW v \in VPs
  PROVE  net[h][v] \in Seq(Packet)
<1>1. net[h][v] \in Seq(Good(proc[h], v))
  BY DEF NetOK
<1>2. Good(proc[h], v) \subseteq Packet
  BY DEF Good
<1> QED
  BY <1>1, <1>2

(* get_node_processor returns the processor, or a new one in place of one  *)
(* that has not been used.                                                 *)
LEMMA GetFacts ==
  ASSUME NetOK, NEW h \in Hosts, NEW p, p = get_node_processor(h)
  PROVE  IsProc(p) /\ Agree(proc[h], p)
<1>1. now \in Nat /\ IsProc(proc[h])
  BY DEF NetOK
<1>2. CASE h \in node_table
  <2>1. p = proc[h]
    BY <1>2 DEF get_node_processor
  <2> QED
    BY <1>1, <2>1 DEF Agree, SameCounts
<1>3. CASE h \notin node_table
  <2>1. p = NewProcessor(now) /\ proc[h] = NewProcessor(0) /\ 0 \in Nat
    BY <1>3 DEF get_node_processor, NetOK
  <2> DEFINE q == proc[h]
  <2>2. /\ IsProc(p) /\ p.sequence = 0 /\ p.burst_pending = FALSE /\ p.burst_vp = 0
        /\ p.burst_cnt = 0
        /\ \A u \in VPs :
             /\ p.vp_map[u].send_cnt = 0 /\ p.vp_map[u].send_undefined = 0
             /\ p.vp_map[u].recv_cnt = 0 /\ p.vp_map[u].recv_undefined = 0
             /\ p.vp_map[u].recv_ece_cnt = 0 /\ p.ca_map[u].recv_cnt = 0
             /\ p.ca_map[u].recv_ecn = FALSE /\ p.ca_map[u].recv_ecn_cnt = 0
    BY <1>1, <2>1, NewFacts
  <2>3. /\ IsProc(q) /\ q.sequence = 0 /\ q.burst_pending = FALSE /\ q.burst_vp = 0
        /\ q.burst_cnt = 0
        /\ \A u \in VPs :
             /\ q.vp_map[u].send_cnt = 0 /\ q.vp_map[u].send_undefined = 0
             /\ q.vp_map[u].recv_cnt = 0 /\ q.vp_map[u].recv_undefined = 0
             /\ q.vp_map[u].recv_ece_cnt = 0 /\ q.ca_map[u].recv_cnt = 0
             /\ q.ca_map[u].recv_ecn = FALSE /\ q.ca_map[u].recv_ecn_cnt = 0
    BY <2>1, NewFacts
  <2> HIDE DEF q
  <2>4. Agree(q, p)
    BY <2>2, <2>3 DEF Agree, SameCounts
  <2> QED
    BY <2>2, <2>4 DEF q
<1> QED
  BY <1>2, <1>3

LEMMA AgreeSent ==
  ASSUME NEW o, NEW p, NEW q, NEW k \in Packet, Agree(o, p), Sent(p, q, k)
  PROVE  Sent(o, q, k)
<1>1. k.vp_id \in VPs /\ k.vp_rid \in VPs
  BY DEF Packet
<1>2. /\ p.sequence = o.sequence /\ p.burst_pending = o.burst_pending
      /\ p.burst_vp = o.burst_vp /\ p.burst_cnt = o.burst_cnt
  BY DEF Agree
<1>3. \A u \in VPs : /\ p.vp_map[u].send_cnt = o.vp_map[u].send_cnt
                     /\ p.vp_map[u].send_undefined = o.vp_map[u].send_undefined
                     /\ p.vp_map[u].recv_cnt = o.vp_map[u].recv_cnt
                     /\ p.vp_map[u].recv_undefined = o.vp_map[u].recv_undefined
                     /\ p.vp_map[u].recv_ece_cnt = o.vp_map[u].recv_ece_cnt
  BY DEF Agree
<1>4. \A u \in VPs : /\ p.ca_map[u].recv_cnt = o.ca_map[u].recv_cnt
                     /\ p.ca_map[u].recv_ecn = o.ca_map[u].recv_ecn
                     /\ p.ca_map[u].recv_ecn_cnt = o.ca_map[u].recv_ecn_cnt
  BY DEF Agree, SameCounts
<1> QED
  BY <1>1, <1>2, <1>3, <1>4 DEF Sent

LEMMA AgreeReceived ==
  ASSUME NEW o, NEW p, NEW q, NEW pkt \in Packet, NEW marked, Agree(o, p),
         Received(p, q, pkt, marked)
  PROVE  Received(o, q, pkt, marked)
<1>1. pkt.vp_id \in VPs
  BY DEF Packet
<1>2. q.sequence = o.sequence
  BY DEF Agree, Received
<1>3. Heard(o, q, pkt)
  BY DEF Agree, Received, Heard, ProbeKept
<1>4. \A u \in VPs : SameCounts(o.ca_map[u], p.ca_map[u])
  BY DEF Agree
<1>5. \A u \in VPs : u # pkt.vp_id => SameCounts(o.ca_map[u], q.ca_map[u])
  BY <1>4 DEF Received, SameCounts
<1>6. Counted(o.ca_map[pkt.vp_id], q.ca_map[pkt.vp_id], marked)
  BY <1>1, <1>4 DEF Received, SameCounts, Counted
<1> QED
  BY <1>2, <1>3, <1>5, <1>6 DEF Received

(* What a host that receives a probe reply keeps.                          *)
Ignored(p, q) ==
  /\ q.sequence = p.sequence /\ ProbeKept(p, q)
  /\ \A u \in VPs : /\ q.vp_map[u].send_cnt = p.vp_map[u].send_cnt
                    /\ q.vp_map[u].send_undefined = p.vp_map[u].send_undefined
                    /\ q.vp_map[u].recv_cnt = p.vp_map[u].recv_cnt
                    /\ q.vp_map[u].recv_undefined = p.vp_map[u].recv_undefined
                    /\ q.vp_map[u].recv_ece_cnt = p.vp_map[u].recv_ece_cnt
                    /\ SameCounts(p.ca_map[u], q.ca_map[u])

LEMMA AgreeIgnored ==
  ASSUME NEW o, NEW p, NEW q, Agree(o, p), Ignored(p, q)
  PROVE  Ignored(o, q)
<1>1. q.sequence = o.sequence /\ ProbeKept(o, q)
  BY DEF Agree, Ignored, ProbeKept
<1> QED
  BY <1>1 DEF Agree, Ignored, SameCounts

(* A packet is put on path u, a packet is taken from path u.               *)
Put(n, m, u, k) ==
  /\ DOMAIN m = VPs /\ m[u] = Append(n[u], k)
  /\ \A w \in VPs : w # u => m[w] = n[w]

Taken(n, m, u) ==
  /\ DOMAIN m = VPs /\ n[u] # << >> /\ m[u] = Tail(n[u])
  /\ \A w \in VPs : w # u => m[w] = n[w]

Same(n, m) == DOMAIN m = VPs /\ \A w \in VPs : m[w] = n[w]

SendEffect(h, k) ==
  /\ k \in Packet /\ IsProc(proc'[h]) /\ Sent(proc[h], proc'[h], k)
  /\ DOMAIN proc' = Hosts /\ DOMAIN net' = Hosts
  /\ \A g \in Hosts : g # h => proc'[g] = proc[g] /\ net'[g] = net[g]
  /\ Put(net[h], net'[h], k.vp_id, k)
  /\ now' = now /\ node_table' = node_table \cup {h}

LEMMA SendStep ==
  ASSUME NetOK, NEW h \in Hosts, Send(h)
  PROVE  \E k : SendEffect(h, k)
<1> DEFINE p == get_node_processor(h)
           q == send(p, now).p
           k == send(p, now).pkt
<1>1. now \in Nat
  BY DEF NetOK
<1>2. IsProc(p) /\ Agree(proc[h], p)
  BY GetFacts
<1>3. /\ proc' = [proc EXCEPT ![h] = q] /\ node_table' = node_table \cup {h} /\ now' = now
      /\ net' = [net EXCEPT ![h][k.vp_id] = Append(net[h][k.vp_id], k)]
  BY DEF Send
<1> HIDE DEF p
<1>4. IsProc(q) /\ k \in Packet /\ Sent(p, q, k)
  BY <1>1, <1>2, SendFacts
<1> HIDE DEF q, k
<1>5. Sent(proc[h], q, k)
  BY <1>2, <1>4, AgreeSent
<1>6. /\ DOMAIN proc = Hosts /\ DOMAIN net = Hosts /\ DOMAIN net[h] = VPs
  BY DEF NetOK
<1>7. k.vp_id \in VPs
  BY <1>4 DEF Packet
<1>8. /\ DOMAIN proc' = Hosts /\ proc'[h] = q /\ DOMAIN net' = Hosts
      /\ \A g \in Hosts : g # h => proc'[g] = proc[g] /\ net'[g] = net[g]
  BY <1>3, <1>6
<1>9. Put(net[h], net'[h], k.vp_id, k)
  BY <1>3, <1>6, <1>7 DEF Put
<1>10. SendEffect(h, k)
  BY <1>3, <1>4, <1>5, <1>8, <1>9 DEF SendEffect
<1> QED
  BY <1>10

RecvEffect(h, v, marked, pkt) ==
  /\ pkt = Head(net[Peer(h)][v]) /\ pkt \in Good(proc[Peer(h)], v) /\ IsProc(proc'[h])
  /\ \/ IsReply(pkt) /\ Ignored(proc[h], proc'[h])
     \/ ~ IsReply(pkt) /\ Received(proc[h], proc'[h], pkt, marked)
  /\ Taken(net[Peer(h)], net'[Peer(h)], v)
  /\ \/ Same(net[h], net'[h])
     \/ \E k \in Packet : ProbeReply(k) /\ Put(net[h], net'[h], 0, k)
  /\ DOMAIN proc' = Hosts /\ DOMAIN net' = Hosts /\ proc'[Peer(h)] = proc[Peer(h)]
  /\ now' = now /\ node_table' = node_table \cup {h}

LEMMA RecvStep ==
  ASSUME NetOK, NEW h \in Hosts, NEW v \in VPs, NEW marked, marked = TRUE \/ marked = FALSE,
         Recv(h, v, marked)
  PROVE  \E pkt : RecvEffect(h, v, marked, pkt)
<1> DEFINE g == Peer(h)
           pkt == Head(net[g][v])
           p == get_node_processor(h)
           r == recv(p, pkt, marked, now)
<1>1. /\ g \in Hosts /\ g # h
  BY PeerFacts
<1>2. /\ now \in Nat /\ DOMAIN proc = Hosts /\ DOMAIN net = Hosts /\ DOMAIN net[h] = VPs
      /\ DOMAIN net[g] = VPs
      /\ net[g][v] \in Seq(Good(proc[g], v)) /\ net[h][0] \in Seq(Good(proc[h], 0))
  BY <1>1, PathFacts DEF NetOK
<1>3. /\ net[g][v] # << >>
      /\ proc' = [proc EXCEPT ![h] = r.p] /\ node_table' = node_table \cup {h} /\ now' = now
      /\ net' = [net EXCEPT ![g][v] = Tail(@), ![h][0] = @ \o r.reply]
  BY DEF Recv
<1>4. IsProc(p) /\ Agree(proc[h], p)
  BY GetFacts
<1> HIDE DEF g, p
<1>5. pkt \in Good(proc[g], v)
  BY <1>2, <1>3
<1>6. pkt \in Packet
  BY <1>5 DEF Good
<1> HIDE DEF pkt
<1>7. /\ IsProc(r.p)
      /\ \/ IsReply(pkt) /\ Ignored(proc[h], r.p)
         \/ ~ IsReply(pkt) /\ Received(proc[h], r.p, pkt, marked)
      /\ r.reply = << >> \/ \E k \in Packet : ProbeReply(k) /\ r.reply = <<k>>
  <2>1. CASE IsReply(pkt)
    <3>1. /\ IsProc(r.p) /\ r.reply = << >>
          /\ r.p.sequence = p.sequence
          /\ \A u \in VPs :
               /\ r.p.vp_map[u].send_cnt = p.vp_map[u].send_cnt
               /\ r.p.vp_map[u].send_undefined = p.vp_map[u].send_undefined
               /\ r.p.vp_map[u].recv_cnt = p.vp_map[u].recv_cnt
               /\ r.p.vp_map[u].recv_undefined = p.vp_map[u].recv_undefined
               /\ r.p.vp_map[u].recv_ece_cnt = p.vp_map[u].recv_ece_cnt
          /\ ProbeKept(p, r.p) /\ r.p.ca_map = p.ca_map
      BY <1>4, <1>6, <2>1, RecvReplyFacts
    <3> HIDE DEF r
    <3>2. Ignored(p, r.p)
      BY <3>1 DEF Ignored, SameCounts
    <3>3. Ignored(proc[h], r.p)
      BY <1>4, <3>2, AgreeIgnored
    <3> QED
      BY <2>1, <3>1, <3>3
  <2>2. CASE ~ IsReply(pkt)
    <3>1. /\ IsProc(r.p) /\ Received(p, r.p, pkt, marked)
          /\ r.reply = << >> \/ \E k \in Packet : ProbeReply(k) /\ r.reply = <<k>>
      BY <1>2, <1>4, <1>6, <2>2, RecvDataFacts, ZenonT(40)
    <3> HIDE DEF r
    <3>2. Received(proc[h], r.p, pkt, marked)
      BY <1>4, <1>6, <3>1, AgreeReceived
    <3> QED
      BY <2>2, <3>1, <3>2
  <2> QED
    BY <2>1, <2>2
<1> HIDE DEF r
<1>8. DOMAIN proc' = Hosts /\ DOMAIN net' = Hosts /\ proc'[h] = r.p /\ proc'[g] = proc[g]
  BY <1>1, <1>2, <1>3
<1>9. Taken(net[g], net'[g], v)
  BY <1>1, <1>2, <1>3 DEF Taken
<1>10. /\ DOMAIN net'[h] = VPs /\ net'[h][0] = net[h][0] \o r.reply
       /\ \A w \in VPs : w # 0 => net'[h][w] = net[h][w]
  BY <1>1, <1>2, <1>3, PathFacts
<1>11. \/ Same(net[h], net'[h])
       \/ \E k \in Packet : ProbeReply(k) /\ Put(net[h], net'[h], 0, k)
  <2>1. CASE r.reply = << >>
    <3>1. net[h][0] \o << >> = net[h][0]
      BY <1>2
    <3> QED
      BY <1>10, <2>1, <3>1 DEF Same
  <2>2. CASE \E k \in Packet : ProbeReply(k) /\ r.reply = <<k>>
    <3>1. PICK k \in Packet : ProbeReply(k) /\ r.reply = <<k>>
      BY <2>2
    <3>2. net[h][0] \o <<k>> = Append(net[h][0], k)
      BY <1>2
    <3>3. Put(net[h], net'[h], 0, k)
      BY <1>10, <3>1, <3>2 DEF Put
    <3> QED
      BY <3>1, <3>3
  <2> QED
    BY <1>7, <2>1, <2>2
<1>12. RecvEffect(h, v, marked, pkt)
  BY <1>3, <1>5, <1>7, <1>8, <1>9, <1>11 DEF RecvEffect, pkt, g
<1> QED
  BY <1>12

(* A sequence of good packets stays one when more becomes good, when a     *)
(* good packet is appended and when a packet is taken.                     *)
LEMMA MoreIsGood ==
  ASSUME NEW p, NEW q, NEW v, q.sequence \in Nat, p.sequence \in Nat,
         p.sequence <= q.sequence,
         \A u \in VPs : /\ p.ca_map[u].recv_cnt \in Nat /\ q.ca_map[u].recv_cnt \in Nat
                        /\ p.ca_map[u].recv_cnt <= q.ca_map[u].recv_cnt
  PROVE  Seq(Good(p, v)) \subseteq Seq(Good(q, v))
<1>1. Good(p, v) \subseteq Good(q, v)
  <2> SUFFICES ASSUME NEW k \in Good(p, v) PROVE k \in Good(q, v)
    OBVIOUS
  <2>1. k \in Packet /\ Fits(k, p, v)
    BY DEF Good
  <2>2. k.SN_HSN \in Nat /\ k.vp_rcnt \in Nat /\ k.vp_rid \in VPs
    BY <2>1 DEF Packet
  <2>3. Fits(k, q, v)
    BY <2>1, <2>2 DEF Fits
  <2> QED
    BY <2>1, <2>3 DEF Good
<1> QED
  BY <1>1

(* The paths of a host stay good.                                          *)
LEMMA RowCounts ==
  ASSUME NEW p, IsProc(p), NEW u \in VPs
  PROVE  /\ p.ca_map[u].recv_cnt \in Nat /\ p.ca_map[u].recv_ecn_cnt \in Nat
         /\ p.ca_map[u].recv_ecn \in BOOLEAN
<1>1. p.ca_map[u] \in CaResponse
  BY DEF IsProc
<1> QED
  BY <1>1 DEF CaResponse

LEMMA GoodPaths ==
  ASSUME NEW p, NEW q, IsProc(p), IsProc(q), p.sequence <= q.sequence,
         \A u \in VPs : p.ca_map[u].recv_cnt <= q.ca_map[u].recv_cnt,
         NEW n, \A v \in VPs : n[v] \in Seq(Good(p, v))
  PROVE  \A v \in VPs : n[v] \in Seq(Good(q, v))
<1> SUFFICES ASSUME NEW v \in VPs PROVE n[v] \in Seq(Good(q, v))
  OBVIOUS
<1>1. p.sequence \in Nat /\ q.sequence \in Nat
  BY DEF IsProc
<1>2. \A u \in VPs : p.ca_map[u].recv_cnt \in Nat /\ q.ca_map[u].recv_cnt \in Nat
  BY RowCounts
<1>3. Seq(Good(p, v)) \subseteq Seq(Good(q, v))
  BY <1>1, <1>2, MoreIsGood
<1> QED
  BY <1>3

LEMMA GoodPut ==
  ASSUME NEW p, NEW n, NEW m, NEW x \in VPs, NEW k \in Good(p, x), Put(n, m, x, k),
         \A v \in VPs : n[v] \in Seq(Good(p, v))
  PROVE  \A v \in VPs : m[v] \in Seq(Good(p, v))
<1> SUFFICES ASSUME NEW v \in VPs PROVE m[v] \in Seq(Good(p, v))
  OBVIOUS
<1>1. CASE v = x
  <2>1. m[v] = Append(n[v], k)
    BY <1>1 DEF Put
  <2> QED
    BY <1>1, <2>1
<1>2. CASE v # x
  BY <1>2 DEF Put
<1> QED
  BY <1>1, <1>2

LEMMA GoodTaken ==
  ASSUME NEW p, NEW n, NEW m, NEW x \in VPs, Taken(n, m, x),
         \A v \in VPs : n[v] \in Seq(Good(p, v))
  PROVE  \A v \in VPs : m[v] \in Seq(Good(p, v))
<1> SUFFICES ASSUME NEW v \in VPs PROVE m[v] \in Seq(Good(p, v))
  OBVIOUS
<1>1. CASE v = x
  <2>1. m[v] = Tail(n[v]) /\ n[v] # << >>
    BY <1>1 DEF Taken
  <2> QED
    BY <2>1
<1>2. CASE v # x
  BY <1>2 DEF Taken
<1> QED
  BY <1>1, <1>2

LEMMA NetInit == Init => NetOK
<1> SUFFICES ASSUME Init PROVE NetOK
  OBVIOUS
<1>1. IsProc(NewProcessor(0))
  BY NewFacts
<1>2. \A p, v : << >> \in Seq(Good(p, v))
  OBVIOUS
<1>3. /\ now \in Nat /\ node_table \subseteq Hosts /\ DOMAIN proc = Hosts
      /\ \A h \in Hosts : proc[h] = NewProcessor(0)
  BY DEF Init
<1>4. /\ DOMAIN net = Hosts
      /\ \A h \in Hosts : DOMAIN net[h] = VPs /\ \A v \in VPs : net[h][v] = << >>
  BY DEF Init
<1> QED
  BY <1>1, <1>2, <1>3, <1>4 DEF NetOK

LEMMA NetSend ==
  ASSUME NetOK, NEW h \in Hosts, NEW k, SendEffect(h, k)
  PROVE  NetOK'
<1> DEFINE p == proc[h]
<1>1. PICK q : q = proc'[h]
  OBVIOUS
<1>2. IsProc(p) /\ IsProc(q) /\ Sent(p, q, k) /\ k \in Packet /\ k.vp_id \in VPs
  BY <1>1 DEF NetOK, SendEffect, Packet
<1>3. \A v \in VPs : net[h][v] \in Seq(Good(p, v))
  BY DEF NetOK
<1> HIDE DEF p
<1>4. p.sequence <= q.sequence /\ \A u \in VPs : p.ca_map[u].recv_cnt <= q.ca_map[u].recv_cnt
  <2>1. p.sequence \in Nat /\ q.sequence = p.sequence + 1
    BY <1>2 DEF IsProc, Sent
  <2>2. \A u \in VPs : p.ca_map[u].recv_cnt \in Nat
    BY <1>2, RowCounts
  <2>3. \A u \in VPs : q.ca_map[u].recv_cnt = p.ca_map[u].recv_cnt
    BY <1>2 DEF Sent
  <2> QED
    BY <2>1, <2>2, <2>3
<1>5. \A v \in VPs : net[h][v] \in Seq(Good(q, v))
  BY <1>2, <1>3, <1>4, GoodPaths
<1>6. k \in Good(q, k.vp_id)
  <2>1. /\ p.sequence \in Nat /\ k.SN_HSN = p.sequence + 1 /\ q.sequence = p.sequence + 1
        /\ k.burst_rate = 0 /\ k.vp_rcnt <= p.ca_map[k.vp_rid].recv_cnt
    BY <1>2 DEF Sent, IsProc
  <2>2. k.vp_rid \in VPs
    BY <1>2 DEF Packet
  <2>3. q.ca_map[k.vp_rid].recv_cnt = p.ca_map[k.vp_rid].recv_cnt
    BY <1>2, <2>2 DEF Sent
  <2>4. k.SN_HSN >= 1 /\ k.SN_HSN <= q.sequence
    BY <2>1
  <2>5. k.vp_rcnt <= q.ca_map[k.vp_rid].recv_cnt
    BY <2>1, <2>3
  <2>6. Fits(k, q, k.vp_id)
    BY <2>1, <2>4, <2>5 DEF Fits
  <2> QED
    BY <1>2, <2>6 DEF Good
<1>7. PICK m : m = net'[h]
  OBVIOUS
<1>8. Put(net[h], m, k.vp_id, k)
  BY <1>7 DEF SendEffect
<1>9. DOMAIN m = VPs /\ \A v \in VPs : m[v] \in Seq(Good(q, v))
  <2>1. DOMAIN m = VPs
    BY <1>8 DEF Put
  <2>2. PICK x \in VPs : x = k.vp_id
    BY <1>2
  <2>3. Put(net[h], m, x, k) /\ k \in Good(q, x)
    BY <1>6, <1>8, <2>2
  <2> QED
    BY <1>5, <2>1, <2>3, GoodPut
<1>10. \A g \in Hosts : /\ IsProc(proc'[g]) /\ DOMAIN net'[g] = VPs
                        /\ \A v \in VPs : net'[g][v] \in Seq(Good(proc'[g], v))
  <2> TAKE g \in Hosts
  <2>1. CASE g = h
    BY <1>1, <1>2, <1>7, <1>9, <2>1
  <2>2. CASE g # h
    <3>1. proc'[g] = proc[g] /\ net'[g] = net[g]
      BY <2>2 DEF SendEffect
    <3> QED
      BY <3>1 DEF NetOK
  <2> QED
    BY <2>1, <2>2
<1>11. /\ now' \in Nat /\ node_table' \subseteq Hosts /\ DOMAIN proc' = Hosts /\ DOMAIN net' = Hosts
       /\ \A g \in Hosts \ node_table' : proc'[g] = NewProcessor(0)
  BY DEF NetOK, SendEffect
<1> QED
  BY <1>10, <1>11 DEF NetOK

(* Receiving adds to the counts of the receiver.                           *)
LEMMA ReceivedGrows ==
  ASSUME NEW p, NEW q, IsProc(p), IsProc(q), NEW pkt \in Packet,
         NEW marked, marked = TRUE \/ marked = FALSE,
         Ignored(p, q) \/ Received(p, q, pkt, marked)
  PROVE  /\ q.sequence = p.sequence /\ p.sequence \in Nat /\ ProbeKept(p, q)
         /\ \A u \in VPs : p.ca_map[u].recv_cnt <= q.ca_map[u].recv_cnt
<1>1. p.sequence \in Nat /\ \A u \in VPs : p.ca_map[u].recv_cnt \in Nat
  BY RowCounts DEF IsProc
<1>2. CASE Ignored(p, q)
  BY <1>1, <1>2 DEF Ignored, SameCounts
<1>3. CASE Received(p, q, pkt, marked)
  <2>1. \A u \in VPs : p.ca_map[u].recv_cnt <= q.ca_map[u].recv_cnt
    BY <1>1, <1>3 DEF Received, SameCounts, Counted
  <2> QED
    BY <1>1, <1>3, <2>1 DEF Received, Heard
<1> QED
  BY <1>2, <1>3

LEMMA NetRecv ==
  ASSUME NetOK, NEW h \in Hosts, NEW v \in VPs, NEW marked, marked = TRUE \/ marked = FALSE,
         NEW pkt, RecvEffect(h, v, marked, pkt)
  PROVE  NetOK'
<1> DEFINE p == proc[h]
           x == Peer(h)
<1>1. PICK q : q = proc'[h]
  OBVIOUS
<1>2. x \in Hosts /\ x # h /\ \A g \in Hosts : g = h \/ g = x
  BY PeerFacts
<1>3. pkt \in Packet
  BY DEF RecvEffect, Good
<1>4. /\ IsProc(p) /\ IsProc(q) /\ (Ignored(p, q) \/ Received(p, q, pkt, marked))
      /\ \A w \in VPs : net[h][w] \in Seq(Good(p, w))
      /\ \A w \in VPs : net[x][w] \in Seq(Good(proc[x], w))
  BY <1>1, <1>2 DEF NetOK, RecvEffect
<1>5. /\ Taken(net[x], net'[x], v) /\ proc'[x] = proc[x]
      /\ \/ Same(net[h], net'[h])
         \/ \E k \in Packet : ProbeReply(k) /\ Put(net[h], net'[h], 0, k)
  BY DEF RecvEffect
<1> HIDE DEF p, x
<1>6. /\ p.sequence <= q.sequence
      /\ \A u \in VPs : p.ca_map[u].recv_cnt <= q.ca_map[u].recv_cnt
  <2>1. /\ q.sequence = p.sequence /\ p.sequence \in Nat
        /\ \A u \in VPs : p.ca_map[u].recv_cnt <= q.ca_map[u].recv_cnt
    BY <1>3, <1>4, ReceivedGrows
  <2> QED
    BY <2>1
<1>7. \A w \in VPs : net[h][w] \in Seq(Good(q, w))
  BY <1>4, <1>6, GoodPaths
<1>8. PICK m : m = net'[h]
  OBVIOUS
<1>9. DOMAIN m = VPs /\ \A w \in VPs : m[w] \in Seq(Good(q, w))
  <2>1. CASE Same(net[h], m)
    BY <1>7, <2>1 DEF Same
  <2>2. CASE \E k \in Packet : ProbeReply(k) /\ Put(net[h], m, 0, k)
    <3>1. PICK k \in Packet : ProbeReply(k) /\ Put(net[h], m, 0, k)
      BY <2>2
    <3>2. k \in Good(q, 0) /\ 0 \in VPs
      BY <3>1, PathFacts DEF Good, Fits, ProbeReply
    <3> QED
      BY <1>7, <3>1, <3>2, GoodPut, SMTT(30) DEF Put
  <2> QED
    BY <1>5, <1>8, <2>1, <2>2
<1>10. PICK o : o = net'[x]
  OBVIOUS
<1>11. DOMAIN o = VPs /\ \A w \in VPs : o[w] \in Seq(Good(proc[x], w))
  <2>1. Taken(net[x], o, v)
    BY <1>5, <1>10
  <2> QED
    BY <1>4, <2>1, GoodTaken, ZenonT(40) DEF Taken
<1>12. \A g \in Hosts : /\ IsProc(proc'[g]) /\ DOMAIN net'[g] = VPs
                        /\ \A w \in VPs : net'[g][w] \in Seq(Good(proc'[g], w))
  <2> TAKE g \in Hosts
  <2>1. CASE g = h
    BY <1>1, <1>4, <1>8, <1>9, <2>1
  <2>2. CASE g = x
    BY <1>5, <1>10, <1>11, <2>2 DEF NetOK
  <2> QED
    BY <1>2, <2>1, <2>2
<1>13. /\ now' \in Nat /\ node_table' \subseteq Hosts /\ DOMAIN proc' = Hosts /\ DOMAIN net' = Hosts
  BY DEF NetOK, RecvEffect
<1>14. \A g \in Hosts \ node_table' : proc'[g] = NewProcessor(0)
  <2> TAKE g \in Hosts \ node_table'
  <2>1. g \in Hosts \ node_table /\ g # h
    BY DEF RecvEffect
  <2> QED
    BY <1>2, <1>5, <2>1 DEF NetOK
<1> QED
  BY <1>12, <1>13, <1>14 DEF NetOK

LoseEffect(h, v) ==
  /\ Taken(net[h], net'[h], v) /\ DOMAIN net' = Hosts
  /\ \A g \in Hosts : g # h => net'[g] = net[g]
  /\ now' = now /\ node_table' = node_table /\ proc' = proc

LEMMA LoseStep ==
  ASSUME NetOK, NEW h \in Hosts, NEW v \in VPs, Lose(h, v)
  PROVE  LoseEffect(h, v)
<1>1. DOMAIN net = Hosts /\ DOMAIN net[h] = VPs
  BY DEF NetOK
<1>2. /\ net[h][v] # << >> /\ net' = [net EXCEPT ![h][v] = Tail(@)]
      /\ now' = now /\ node_table' = node_table /\ proc' = proc
  BY DEF Lose
<1> QED
  BY <1>1, <1>2 DEF LoseEffect, Taken

LEMMA NetLose ==
  ASSUME NetOK, NEW h \in Hosts, NEW v \in VPs, LoseEffect(h, v)
  PROVE  NetOK'
<1>1. PICK m : m = net'[h]
  OBVIOUS
<1>2. Taken(net[h], m, v) /\ \A w \in VPs : net[h][w] \in Seq(Good(proc[h], w))
  BY <1>1 DEF NetOK, LoseEffect
<1>3. DOMAIN m = VPs /\ \A w \in VPs : m[w] \in Seq(Good(proc[h], w))
  BY <1>2, GoodTaken, SMTT(30) DEF Taken
<1>4. /\ DOMAIN net' = Hosts /\ proc' = proc /\ now' = now /\ node_table' = node_table
      /\ \A g \in Hosts : net'[g] = IF g = h THEN m ELSE net[g]
  BY <1>1 DEF LoseEffect
<1> QED
  BY <1>3, <1>4 DEF NetOK

ExpireEffect(h) ==
  /\ h \in node_table /\ IsProc(proc'[h]) /\ Refreshed(proc[h], proc'[h])
  /\ DOMAIN proc' = Hosts
  /\ \A g \in Hosts : g # h => proc'[g] = proc[g]
  /\ now' = now /\ node_table' = node_table /\ net' = net

LEMMA ExpireStep ==
  ASSUME NetOK, NEW h \in Hosts, Expire(h)
  PROVE  ExpireEffect(h)
<1> DEFINE q == expire(proc[h], now)
<1>1. now \in Nat /\ DOMAIN proc = Hosts /\ IsProc(proc[h])
  BY DEF NetOK
<1>2. /\ h \in node_table /\ proc' = [proc EXCEPT ![h] = q]
      /\ now' = now /\ node_table' = node_table /\ net' = net
  BY DEF Expire, Due
<1>3. IsProc(q) /\ Refreshed(proc[h], q)
  BY <1>1, ExpireFacts
<1> HIDE DEF q
<1> QED
  BY <1>1, <1>2, <1>3 DEF ExpireEffect

LEMMA NetExpire ==
  ASSUME NetOK, NEW h \in Hosts, ExpireEffect(h)
  PROVE  NetOK'
<1> DEFINE p == proc[h]
<1>1. PICK q : q = proc'[h]
  OBVIOUS
<1>2. /\ IsProc(p) /\ IsProc(q) /\ Refreshed(p, q)
      /\ \A w \in VPs : net[h][w] \in Seq(Good(p, w))
  BY <1>1 DEF NetOK, ExpireEffect
<1> HIDE DEF p
<1>3. p.sequence \in Nat /\ \A u \in VPs : p.ca_map[u].recv_cnt \in Nat
  BY <1>2, RowCounts DEF IsProc
<1>4. p.sequence <= q.sequence /\ \A u \in VPs : p.ca_map[u].recv_cnt <= q.ca_map[u].recv_cnt
  BY <1>2, <1>3 DEF Refreshed
<1>5. \A w \in VPs : net[h][w] \in Seq(Good(q, w))
  BY <1>2, <1>4, GoodPaths
<1>6. /\ DOMAIN proc' = Hosts /\ net' = net /\ now' = now /\ node_table' = node_table
      /\ h \in node_table
      /\ \A g \in Hosts : proc'[g] = IF g = h THEN q ELSE proc[g]
  BY <1>1 DEF ExpireEffect
<1>7. \A g \in Hosts : /\ IsProc(proc'[g])
                       /\ \A w \in VPs : net[g][w] \in Seq(Good(proc'[g], w))
  <2> TAKE g \in Hosts
  <2>1. CASE g = h
    BY <1>2, <1>5, <1>6, <2>1
  <2>2. CASE g # h
    BY <1>6, <2>2 DEF NetOK
  <2> QED
    BY <2>1, <2>2
<1>8. \A g \in Hosts \ node_table' : proc'[g] = NewProcessor(0)
  BY <1>6 DEF NetOK
<1> QED
  BY <1>6, <1>7, <1>8 DEF NetOK

(* Every step is one of the four effects, or leaves processors and paths   *)
(* alone.                                                                  *)
LEMMA Effects ==
  ASSUME NetOK, [Next]_vars
  PROVE  \/ \E h \in Hosts : \E k : SendEffect(h, k)
         \/ \E h \in Hosts, v \in VPs, marked \in BOOLEAN : \E k : RecvEffect(h, v, marked, k)
         \/ \E h \in Hosts, v \in VPs : LoseEffect(h, v)
         \/ \E h \in Hosts : ExpireEffect(h)
         \/ /\ proc' = proc /\ net' = net /\ node_table' = node_table
            /\ now' \in Nat
<1>1. ASSUME NEW h \in Hosts, Send(h) PROVE \E k : SendEffect(h, k)
  BY <1>1, SendStep
<1>2. ASSUME NEW h \in Hosts, NEW v \in VPs, NEW marked \in BOOLEAN, Recv(h, v, marked)
      PROVE \E k : RecvEffect(h, v, marked, k)
  <2>1. marked = TRUE \/ marked = FALSE
    OBVIOUS
  <2> QED
    BY <1>2, <2>1, RecvStep
<1>3. ASSUME NEW h \in Hosts, NEW v \in VPs, Lose(h, v) PROVE LoseEffect(h, v)
  BY <1>3, LoseStep
<1>4. ASSUME NEW h \in Hosts, Expire(h) PROVE ExpireEffect(h)
  BY <1>4, ExpireStep
<1>5. CASE Tick
  BY <1>5 DEF Tick, NetOK
<1>6. CASE UNCHANGED vars
  BY <1>6 DEF vars, NetOK
<1> QED
  BY <1>1, <1>2, <1>3, <1>4, <1>5, <1>6 DEF Next

LEMMA NetNext == NetOK /\ [Next]_vars => NetOK'
<1> SUFFICES ASSUME NetOK, [Next]_vars PROVE NetOK'
  OBVIOUS
<1>1. CASE \E h \in Hosts : \E k : SendEffect(h, k)
  BY <1>1, NetSend
<1>2. CASE \E h \in Hosts, v \in VPs, marked \in BOOLEAN : \E k : RecvEffect(h, v, marked, k)
  <2>1. PICK h \in Hosts, v \in VPs, marked \in BOOLEAN : \E k : RecvEffect(h, v, marked, k)
    BY <1>2
  <2>2. marked = TRUE \/ marked = FALSE
    OBVIOUS
  <2> QED
    BY <2>1, <2>2, NetRecv
<1>3. CASE \E h \in Hosts, v \in VPs : LoseEffect(h, v)
  BY <1>3, NetLose
<1>4. CASE \E h \in Hosts : ExpireEffect(h)
  BY <1>4, NetExpire
<1>5. CASE proc' = proc /\ net' = net /\ node_table' = node_table /\ now' \in Nat
  BY <1>5 DEF NetOK
<1> QED
  BY <1>1, <1>2, <1>3, <1>4, <1>5, Effects

(* In any run, every packet under way is on its path, carries a sequence   *)
(* number already used and reports no more packets than have arrived, and  *)
(* a processor that the dispatcher has not created is as new.              *)
THEOREM NetAlways == Spec => []NetOK
  BY NetInit, NetNext, PTL DEF Spec

(* RepliesCaught: every probe reply under way, in any run, is recognised   *)
(* by recv, because a train completed within T_RSSTIME is faster than the  *)
(* one packet per second that recv tests for.                              *)
THEOREM RepliesCaughtTheorem == Spec => []RepliesCaught
<1>1. NetOK => RepliesCaught
  <2> SUFFICES ASSUME NetOK, NEW h \in Hosts, NEW k \in InFlight(h), IsProbeReply(k)
               PROVE  IsReply(k)
    BY DEF RepliesCaught
  <2>1. PICK v \in VPs : \E i \in DOMAIN net[h][v] : k = net[h][v][i]
    BY DEF InFlight
  <2>2. net[h][v] \in Seq(Good(proc[h], v))
    BY DEF NetOK
  <2>3. k \in Good(proc[h], v)
    BY <2>1, <2>2
  <2>4. ProbeReply(k)
    BY <2>3 DEF Good, Fits, IsProbeReply
  <2> QED
    BY <2>4 DEF ProbeReply, IsReply
<1> QED
  BY <1>1, NetAlways, PTL

(* RowsTakeTurns: the rows in use, the queue of turns and the paths that   *)
(* packets have arrived on are the same set, without repetition.           *)
THEOREM RowsTakeTurnsTheorem == Spec => []RowsTakeTurns
<1>1. NetOK => RowsTakeTurns
  <2> SUFFICES ASSUME NetOK, NEW h \in Hosts, NEW p, p = proc[h]
               PROVE  /\ \A v \in VPs : v \in p.ca_keys <=> p.ca_map[v].recv_cnt > 0
                      /\ {p.ca_queue[i] : i \in DOMAIN p.ca_queue} = p.ca_keys
                      /\ Len(p.ca_queue) = Cardinality(p.ca_keys)
    BY DEF RowsTakeTurns
  <2> DEFINE q == p.ca_queue
             S == p.ca_keys
  <2>1. IsProc(p)
    BY DEF NetOK
  <2>2. /\ q \in Seq(VPs) /\ DOMAIN q = 1 .. Len(q) /\ Len(q) \in Nat
        /\ S \in SUBSET VPs
    BY <2>1 DEF IsProc
  <2>3. /\ \A v \in S : p.ca_map[v].recv_cnt > 0
        /\ \A v \in VPs \ S : p.ca_map[v].recv_cnt = 0
        /\ \A i \in DOMAIN q : q[i] \in S
        /\ \A v \in S : \E i \in DOMAIN q : q[i] = v
        /\ \A i, j \in DOMAIN q : i # j => q[i] # q[j]
    BY <2>1 DEF IsProc, TurnsOK, Untouched
  <2> HIDE DEF q, S
  <2>4. {q[i] : i \in DOMAIN q} = S
    BY <2>3
  <2>5. q \in Bijection(1 .. Len(q), S)
    <3>1. q \in [1 .. Len(q) -> S]
      BY <2>2, <2>3
    <3>2. \A a, b \in 1 .. Len(q) : q[a] = q[b] => a = b
      BY <2>2, <2>3
    <3>3. \A k \in S : \E i \in 1 .. Len(q) : q[i] = k
      BY <2>2, <2>3
    <3> QED
      BY <3>1, <3>2, <3>3 DEF Bijection, Injection, Surjection, IsInjective
  <2>6. ExistsBijection(1 .. Len(q), S)
    BY <2>5 DEF ExistsBijection
  <2>7. Cardinality(S) = Len(q)
    BY <2>2, <2>6, FS_CountingElements, FS_NatBijection
  <2>8. \A v \in VPs : v \in S <=> p.ca_map[v].recv_cnt > 0
    BY <2>3
  <2> QED
    BY <2>4, <2>7, <2>8 DEF q, S
<1> QED
  BY <1>1, NetAlways, PTL

-----------------------------------------------------------------------------
(* The probe trains.                                                       *)

Flying(n) == UNION {{n[v][i] : i \in DOMAIN n[v]} : v \in VPs}

(* The packet that may follow packet k.                                    *)
Follows(k, l) ==
  IF k.burst_id > 1
  THEN l.burst_id = k.burst_id - 1 /\ l.vp_id = k.vp_id
  ELSE l.burst_id \in {0, BURST_PKTCNT}

(* The state of the probe after packet k has been sent, until the next     *)
(* packet is: a train goes on, or it has ended and a new one may begin.    *)
Expects(p, k) ==
  IF k.burst_id > 1
  THEN p.burst_pending = TRUE /\ p.burst_cnt = k.burst_id - 1 /\ p.burst_vp = k.vp_id
  ELSE p.burst_pending = TRUE => p.burst_cnt = BURST_PKTCNT

TrainOK(p, n) ==
  /\ \A k \in Flying(n) : k.SN_HSN \in Nat /\ k.SN_HSN <= p.sequence
  /\ \A k, l \in Flying(n) : k.SN_HSN > 0 /\ l.SN_HSN = k.SN_HSN + 1 => Follows(k, l)
  /\ \A k \in Flying(n) : k.SN_HSN > 0 /\ k.SN_HSN = p.sequence => Expects(p, k)

LEMMA FlyingPut ==
  ASSUME NEW X, NEW n, NEW m, NEW u \in VPs, NEW k, Put(n, m, u, k), n[u] \in Seq(X), k \in X
  PROVE  \A x \in Flying(m) : x \in Flying(n) \/ x = k
<1> TAKE x \in Flying(m)
<1>1. PICK v \in VPs : \E i \in DOMAIN m[v] : x = m[v][i]
  BY DEF Flying
<1>2. PICK i \in DOMAIN m[v] : x = m[v][i]
  BY <1>1
<1>3. CASE v # u
  <2>1. m[v] = n[v]
    BY <1>3 DEF Put
  <2> QED
    BY <1>2, <2>1 DEF Flying
<1>4. CASE v = u
  <2> DEFINE s == n[u]
  <2>1. m[v] = Append(s, k) /\ s \in Seq(X)
    BY <1>4 DEF Put
  <2> HIDE DEF s
  <2>2. i \in 1 .. Len(s) + 1 /\ Len(s) \in Nat /\ DOMAIN s = 1 .. Len(s)
    BY <1>2, <2>1
  <2>3. x = k \/ (i \in DOMAIN s /\ x = s[i])
    BY <1>2, <2>1, <2>2
  <2> QED
    BY <2>3 DEF Flying, s
<1> QED
  BY <1>3, <1>4

LEMMA FlyingTaken ==
  ASSUME NEW X, NEW n, NEW m, NEW u \in VPs, Taken(n, m, u), n[u] \in Seq(X)
  PROVE  \A x \in Flying(m) : x \in Flying(n)
<1> TAKE x \in Flying(m)
<1>1. PICK v \in VPs : \E i \in DOMAIN m[v] : x = m[v][i]
  BY DEF Flying
<1>2. PICK i \in DOMAIN m[v] : x = m[v][i]
  BY <1>1
<1>3. CASE v # u
  <2>1. m[v] = n[v]
    BY <1>3 DEF Taken
  <2> QED
    BY <1>2, <2>1 DEF Flying
<1>4. CASE v = u
  <2> DEFINE s == n[u]
  <2>1. m[v] = Tail(s) /\ s \in Seq(X) /\ s # << >>
    BY <1>4 DEF Taken
  <2> HIDE DEF s
  <2>2. i + 1 \in DOMAIN s /\ x = s[i + 1]
    BY <1>2, <2>1
  <2> QED
    BY <2>2 DEF Flying, s
<1> QED
  BY <1>3, <1>4

LEMMA FlyingSame ==
  ASSUME NEW n, NEW m, Same(n, m)
  PROVE  \A x \in Flying(m) : x \in Flying(n)
  BY DEF Same, Flying

(* The sender's next packet continues the train.                           *)
LEMMA TrainSend ==
  ASSUME NEW p, NEW q, IsProc(p), IsProc(q), NEW k \in Packet, Sent(p, q, k), NEW n, NEW m,
         TrainOK(p, n), \A x \in Flying(m) : x \in Flying(n) \/ x = k
  PROVE  TrainOK(q, m)
<1>1. /\ p.sequence \in Nat /\ q.sequence = p.sequence + 1 /\ k.SN_HSN = p.sequence + 1
      /\ p.burst_pending \in BOOLEAN /\ p.burst_cnt \in Nat /\ BURST_PKTCNT \in Nat
      /\ p.burst_pending = TRUE => p.burst_cnt >= 1
  BY BurstAssumption DEF IsProc, Sent
<1>2. /\ p.burst_pending = TRUE => /\ k.vp_id = p.burst_vp /\ k.burst_id = p.burst_cnt
                                   /\ q.burst_cnt = p.burst_cnt - 1
                                   /\ q.burst_pending = (p.burst_cnt # 1)
      /\ p.burst_pending = FALSE => k.burst_id = 0 /\ q.burst_pending = FALSE
      /\ q.burst_vp = p.burst_vp
  BY DEF Sent
<1>3. \A x \in Flying(m) : x.SN_HSN \in Nat /\ x.SN_HSN <= q.sequence
  BY <1>1 DEF TrainOK
<1>4. ASSUME NEW x \in Flying(m), NEW y \in Flying(m), x.SN_HSN > 0, y.SN_HSN = x.SN_HSN + 1
      PROVE  Follows(x, y)
  <2>1. x \in Flying(n)
    BY <1>1, <1>3, <1>4
  <2>2. CASE y \in Flying(n)
    BY <1>4, <2>1, <2>2 DEF TrainOK
  <2>3. CASE y = k
    <3>1. x.SN_HSN = p.sequence
      BY <1>1, <1>3, <1>4, <2>3
    <3>2. Expects(p, x)
      BY <1>4, <2>1, <3>1 DEF TrainOK
    <3>3. CASE x.burst_id > 1
      <4>1. p.burst_pending = TRUE /\ p.burst_cnt = x.burst_id - 1 /\ p.burst_vp = x.vp_id
        BY <3>2, <3>3 DEF Expects
      <4> QED
        BY <1>2, <2>3, <3>3, <4>1 DEF Follows
    <3>4. CASE ~ (x.burst_id > 1)
      <4>1. p.burst_pending = TRUE => p.burst_cnt = BURST_PKTCNT
        BY <3>2, <3>4 DEF Expects
      <4>2. k.burst_id \in {0, BURST_PKTCNT}
        BY <1>1, <1>2, <4>1
      <4> QED
        BY <2>3, <3>4, <4>2 DEF Follows
    <3> QED
      BY <3>3, <3>4
  <2> QED
    BY <1>4, <2>2, <2>3
<1>5. Expects(q, k)
  <2>1. CASE p.burst_pending = TRUE
    <3>1. CASE k.burst_id > 1
      <4>1. p.burst_cnt # 1
        BY <1>2, <2>1, <3>1
      <4>2. q.burst_pending = TRUE
        BY <1>2, <2>1, <4>1
      <4> QED
        BY <1>2, <2>1, <3>1, <4>2 DEF Expects
    <3>2. CASE ~ (k.burst_id > 1)
      <4>1. p.burst_cnt = 1
        BY <1>1, <1>2, <2>1, <3>2
      <4>2. q.burst_pending = FALSE
        BY <1>2, <2>1, <4>1
      <4> QED
        BY <3>2, <4>2 DEF Expects
    <3> QED
      BY <3>1, <3>2
  <2>2. CASE p.burst_pending = FALSE
    <3>1. k.burst_id = 0 /\ q.burst_pending = FALSE
      BY <1>2, <2>2
    <3> QED
      BY <3>1 DEF Expects
  <2> QED
    BY <1>1, <2>1, <2>2
<1>6. ASSUME NEW x \in Flying(m), x.SN_HSN = q.sequence PROVE Expects(q, x)
  <2>1. x = k
    BY <1>1, <1>6 DEF TrainOK
  <2> QED
    BY <1>5, <2>1
<1> QED
  BY <1>3, <1>4, <1>6 DEF TrainOK

(* What arrives neither interrupts a train nor starts a second one.        *)
LEMMA TrainKept ==
  ASSUME NEW p, NEW q, p.sequence \in Nat, q.sequence = p.sequence, ProbeKept(p, q),
         NEW n, NEW m, TrainOK(p, n),
         \A x \in Flying(m) : x \in Flying(n) \/ x.SN_HSN = 0
  PROVE  TrainOK(q, m)
<1>1. \A x \in Flying(m) : x.SN_HSN \in Nat /\ x.SN_HSN <= q.sequence
  BY DEF TrainOK
<1>2. ASSUME NEW x \in Flying(m), NEW y \in Flying(m), x.SN_HSN > 0, y.SN_HSN = x.SN_HSN + 1
      PROVE  Follows(x, y)
  <2>1. x \in Flying(n) /\ y \in Flying(n)
    BY <1>1, <1>2
  <2> QED
    BY <1>2, <2>1 DEF TrainOK
<1>3. ASSUME NEW x \in Flying(m), x.SN_HSN > 0, x.SN_HSN = q.sequence PROVE Expects(q, x)
  <2>1. x \in Flying(n)
    BY <1>1, <1>3
  <2>2. Expects(p, x)
    BY <1>3, <2>1 DEF TrainOK
  <2> QED
    BY <2>2 DEF Expects, ProbeKept
<1> QED
  BY <1>1, <1>2, <1>3 DEF TrainOK

Trains == \A h \in Hosts : TrainOK(proc[h], net[h])

LEMMA TrainsInit == Init => Trains
<1> SUFFICES ASSUME Init, NEW h \in Hosts PROVE TrainOK(proc[h], net[h])
  BY DEF Trains
<1>1. \A v \in VPs : net[h][v] = << >>
  BY DEF Init
<1>2. Flying(net[h]) = {}
  BY <1>1 DEF Flying
<1> QED
  BY <1>2 DEF TrainOK

LEMMA TrainsNext == NetOK /\ Trains /\ [Next]_vars => Trains'
<1> SUFFICES ASSUME NetOK, Trains, [Next]_vars PROVE Trains'
  OBVIOUS
<1>1. ASSUME NEW h \in Hosts, NEW k, SendEffect(h, k) PROVE Trains'
  <2>1. PICK q, m : q = proc'[h] /\ m = net'[h]
    OBVIOUS
  <2>2. PICK u \in VPs : u = k.vp_id
    BY <1>1 DEF SendEffect, Packet
  <2>3. /\ IsProc(proc[h]) /\ IsProc(q) /\ k \in Packet /\ Sent(proc[h], q, k)
        /\ Put(net[h], m, u, k) /\ TrainOK(proc[h], net[h])
    BY <1>1, <2>1, <2>2 DEF NetOK, SendEffect, Trains
  <2>4. net[h][u] \in Seq(Packet)
    BY PathSeq
  <2>5. \A x \in Flying(m) : x \in Flying(net[h]) \/ x = k
    BY <2>3, <2>4, FlyingPut, ZenonT(40)
  <2>6. TrainOK(q, m)
    BY <2>3, <2>5, TrainSend
  <2>7. \A g \in Hosts : g # h => proc'[g] = proc[g] /\ net'[g] = net[g]
    BY <1>1 DEF SendEffect
  <2> QED
    BY <2>1, <2>6, <2>7 DEF Trains
<1>2. ASSUME NEW h \in Hosts, NEW v \in VPs, NEW marked \in BOOLEAN, NEW pkt,
             RecvEffect(h, v, marked, pkt)
      PROVE  Trains'
  <2> DEFINE y == Peer(h)
  <2>1. PICK q, m, o : q = proc'[h] /\ m = net'[h] /\ o = net'[y]
    OBVIOUS
  <2>2. y \in Hosts /\ \A g \in Hosts : g = h \/ g = y
    BY PeerFacts
  <2>3. /\ IsProc(proc[h]) /\ IsProc(q) /\ (Ignored(proc[h], q) \/ Received(proc[h], q, pkt, marked))
        /\ Taken(net[y], o, v) /\ proc'[y] = proc[y]
        /\ Same(net[h], m) \/ \E k \in Packet : ProbeReply(k) /\ Put(net[h], m, 0, k)
        /\ TrainOK(proc[h], net[h]) /\ TrainOK(proc[y], net[y]) /\ pkt \in Packet
    BY <1>2, <2>1, <2>2 DEF NetOK, RecvEffect, Trains, Good
  <2>4. net[y][v] \in Seq(Packet) /\ net[h][0] \in Seq(Packet) /\ 0 \in VPs
    BY <2>2, PathFacts, PathSeq
  <2> HIDE DEF y
  <2>5. \A x \in Flying(m) : x \in Flying(net[h]) \/ x.SN_HSN = 0
    <3>1. CASE Same(net[h], m)
      BY <3>1, FlyingSame
    <3>2. CASE \E k \in Packet : ProbeReply(k) /\ Put(net[h], m, 0, k)
      <4>1. PICK k \in Packet : ProbeReply(k) /\ Put(net[h], m, 0, k)
        BY <3>2
      <4>2. \A x \in Flying(m) : x \in Flying(net[h]) \/ x = k
        BY <2>4, <4>1, FlyingPut
      <4> QED
        BY <4>1, <4>2 DEF ProbeReply
    <3> QED
      BY <2>3, <3>1, <3>2
  <2>6. q.sequence = proc[h].sequence /\ proc[h].sequence \in Nat /\ ProbeKept(proc[h], q)
    <3>1. marked = TRUE \/ marked = FALSE
      OBVIOUS
    <3> QED
      BY <2>3, <3>1, ReceivedGrows
  <2>7. TrainOK(q, m)
    BY <2>3, <2>5, <2>6, TrainKept
  <2>8. TrainOK(proc[y], o)
    <3>1. \A x \in Flying(o) : x \in Flying(net[y])
      BY <2>3, <2>4, FlyingTaken
    <3>2. proc[y].sequence \in Nat /\ ProbeKept(proc[y], proc[y])
      BY <2>2 DEF NetOK, IsProc, ProbeKept
    <3> QED
      BY <2>3, <3>1, <3>2, TrainKept
  <2> QED
    BY <2>1, <2>2, <2>3, <2>7, <2>8 DEF Trains
<1>3. ASSUME NEW h \in Hosts, NEW v \in VPs, LoseEffect(h, v) PROVE Trains'
  <2>1. PICK m : m = net'[h]
    OBVIOUS
  <2>2. Taken(net[h], m, v) /\ TrainOK(proc[h], net[h])
    BY <1>3, <2>1 DEF LoseEffect, Trains
  <2>3. net[h][v] \in Seq(Packet)
    BY PathSeq
  <2>4. \A x \in Flying(m) : x \in Flying(net[h])
    BY <2>2, <2>3, FlyingTaken
  <2>5. proc[h].sequence \in Nat /\ ProbeKept(proc[h], proc[h])
    BY DEF NetOK, IsProc, ProbeKept
  <2>6. TrainOK(proc[h], m)
    BY <2>2, <2>4, <2>5, TrainKept
  <2>7. proc' = proc /\ \A g \in Hosts : g # h => net'[g] = net[g]
    BY <1>3 DEF LoseEffect
  <2> QED
    BY <2>1, <2>6, <2>7 DEF Trains
<1>4. ASSUME NEW h \in Hosts, ExpireEffect(h) PROVE Trains'
  <2>1. PICK q : q = proc'[h]
    OBVIOUS
  <2>2. /\ q.sequence = proc[h].sequence /\ ProbeKept(proc[h], q) /\ proc[h].sequence \in Nat
        /\ TrainOK(proc[h], net[h])
    BY <1>4, <2>1 DEF ExpireEffect, Refreshed, Trains, NetOK, IsProc
  <2>3. TrainOK(q, net[h])
    BY <2>2, TrainKept
  <2>4. net' = net /\ \A g \in Hosts : g # h => proc'[g] = proc[g]
    BY <1>4 DEF ExpireEffect
  <2> QED
    BY <2>1, <2>3, <2>4 DEF Trains
<1>5. CASE proc' = proc /\ net' = net
  BY <1>5 DEF Trains
<1> QED
  BY <1>1, <1>2, <1>3, <1>4, <1>5, Effects

(* In any run, the packets under way count their train down on one path,   *)
(* and the sender's burst state continues the last packet it sent.         *)
THEOREM TrainsAlways == Spec => []Trains
  BY TrainsInit, TrainsNext, NetAlways, PTL DEF Spec

(* ProbeTrain: consecutive packets under way belong to one train on one    *)
(* path or to no unfinished train, whatever arrives at the sender between  *)
(* them.                                                                   *)
THEOREM ProbeTrainTheorem == Spec => []ProbeTrain
<1>1. Trains => ProbeTrain
  <2> SUFFICES ASSUME Trains, NEW h \in Hosts, NEW k \in InFlight(h), NEW l \in InFlight(h),
                      k.SN_HSN > 0, l.SN_HSN = k.SN_HSN + 1
               PROVE  IF k.burst_id > 1
                      THEN l.burst_id = k.burst_id - 1 /\ l.vp_id = k.vp_id
                      ELSE l.burst_id \in {0, BURST_PKTCNT}
    BY DEF ProbeTrain
  <2>1. InFlight(h) = Flying(net[h])
    BY DEF InFlight, Flying
  <2>2. Follows(k, l)
    BY <2>1 DEF Trains, TrainOK
  <2> QED
    BY <2>2 DEF Follows
<1> QED
  BY <1>1, TrainsAlways, PTL

-----------------------------------------------------------------------------
(* The counters of the two ends of a path.                                 *)

Data == {k \in Packet : ~ IsProbeReply(k)}

OnPaths(n) == \A v \in VPs : n[v] \in Seq(Packet)

SentOn(p) == [v \in VPs |-> p.vp_map[v].send_cnt + p.vp_map[v].send_undefined]

Believed(p, v) == p.vp_map[v].recv_cnt + p.vp_map[v].recv_undefined

(* Accounting between sender p, the packets n on its paths and receiver r. *)
Even(p, r, n) ==
  /\ Total(SentOn(p)) = p.sequence
  /\ \A v \in VPs : /\ Believed(p, v) <= r.ca_map[v].recv_cnt
                    /\ r.ca_map[v].recv_cnt + Hits(n[v], Data) <= SentOn(p)[v]

LEMMA RecordCounts ==
  ASSUME NEW p, IsProc(p), NEW u \in VPs
  PROVE  /\ p.vp_map[u].send_cnt \in Nat /\ p.vp_map[u].send_undefined \in Nat
         /\ p.vp_map[u].recv_cnt \in Nat /\ p.vp_map[u].recv_undefined \in Nat
         /\ p.vp_map[u].recv_ece_cnt \in Nat
         /\ SentOn(p)[u] = p.vp_map[u].send_cnt + p.vp_map[u].send_undefined
         /\ SentOn(p)[u] \in Nat /\ Believed(p, u) \in Nat
<1>1. IsRecord(p.vp_map[u])
  BY DEF IsProc
<1>2. /\ p.vp_map[u].send_cnt \in Nat /\ p.vp_map[u].send_undefined \in Nat
      /\ p.vp_map[u].recv_cnt \in Nat /\ p.vp_map[u].recv_undefined \in Nat
      /\ p.vp_map[u].recv_ece_cnt \in Nat
  BY <1>1 DEF IsRecord
<1>3. SentOn(p)[u] = p.vp_map[u].send_cnt + p.vp_map[u].send_undefined
  BY DEF SentOn
<1> QED
  BY <1>2, <1>3 DEF Believed

LEMMA HitsType ==
  ASSUME NEW n, OnPaths(n), NEW v \in VPs, NEW P
  PROVE  Hits(n[v], P) \in Nat
  BY PlacesFinite DEF OnPaths

LEMMA HitsPut ==
  ASSUME NEW n, NEW m, OnPaths(n), NEW x \in VPs, NEW k \in Packet, Put(n, m, x, k), NEW P
  PROVE  /\ Hits(m[x], P) = Hits(n[x], P) + (IF k \in P THEN 1 ELSE 0)
         /\ \A v \in VPs : v # x => Hits(m[v], P) = Hits(n[v], P)
<1>1. m[x] = Append(n[x], k) /\ n[x] \in Seq(Packet)
  BY DEF Put, OnPaths
<1>2. Hits(Append(n[x], k), P) = Hits(n[x], P) + (IF k \in P THEN 1 ELSE 0)
  BY <1>1, HitsAppend
<1>3. \A v \in VPs : v # x => m[v] = n[v]
  BY DEF Put
<1> QED
  BY <1>1, <1>2, <1>3

LEMMA HitsTaken ==
  ASSUME NEW n, NEW m, OnPaths(n), NEW x \in VPs, Taken(n, m, x), NEW P
  PROVE  /\ Hits(m[x], P) = Hits(n[x], P) - (IF Head(n[x]) \in P THEN 1 ELSE 0)
         /\ Hits(m[x], P) <= Hits(n[x], P)
         /\ \A v \in VPs : v # x => Hits(m[v], P) = Hits(n[v], P)
<1>1. m[x] = Tail(n[x]) /\ n[x] \in Seq(Packet) /\ n[x] # << >>
  BY DEF Taken, OnPaths
<1>2. /\ Hits(Tail(n[x]), P) = Hits(n[x], P) - (IF Head(n[x]) \in P THEN 1 ELSE 0)
      /\ Hits(Tail(n[x]), P) <= Hits(n[x], P)
  BY <1>1, HitsTail
<1>3. \A v \in VPs : v # x => m[v] = n[v]
  BY DEF Taken
<1> QED
  BY <1>1, <1>2, <1>3

LEMMA PutOnPaths ==
  ASSUME NEW n, NEW m, OnPaths(n), NEW x \in VPs, NEW k \in Packet, Put(n, m, x, k)
  PROVE  OnPaths(m)
<1> SUFFICES ASSUME NEW v \in VPs PROVE m[v] \in Seq(Packet)
  BY DEF OnPaths
<1>1. n[v] \in Seq(Packet)
  BY DEF OnPaths
<1>2. CASE v = x
  BY <1>1, <1>2 DEF Put
<1>3. CASE v # x
  BY <1>1, <1>3 DEF Put
<1> QED
  BY <1>2, <1>3

LEMMA TakenOnPaths ==
  ASSUME NEW n, NEW m, OnPaths(n), NEW x \in VPs, Taken(n, m, x)
  PROVE  OnPaths(m)
<1> SUFFICES ASSUME NEW v \in VPs PROVE m[v] \in Seq(Packet)
  BY DEF OnPaths
<1>1. n[v] \in Seq(Packet)
  BY DEF OnPaths
<1>2. CASE v = x
  BY <1>1, <1>2 DEF Taken
<1>3. CASE v # x
  BY <1>1, <1>3 DEF Taken
<1> QED
  BY <1>2, <1>3

(* The sender sends.                                                       *)
LEMMA EvenSend ==
  ASSUME NEW p, NEW q, NEW r, IsProc(p), IsProc(q), IsProc(r), NEW k \in Packet, Sent(p, q, k),
         NEW n, NEW m, OnPaths(n), Put(n, m, k.vp_id, k), Even(p, r, n)
  PROVE  Even(q, r, m)
<1>1. PICK x \in VPs : x = k.vp_id
  BY DEF Packet
<1>2. /\ q.sequence = p.sequence + 1 /\ k.SN_HSN = p.sequence + 1 /\ p.sequence \in Nat
      /\ \A u \in VPs : /\ q.vp_map[u].send_cnt = p.vp_map[u].send_cnt
                        /\ q.vp_map[u].recv_cnt = p.vp_map[u].recv_cnt
                        /\ q.vp_map[u].recv_undefined = p.vp_map[u].recv_undefined
                        /\ u # x => q.vp_map[u].send_undefined = p.vp_map[u].send_undefined
      /\ q.vp_map[x].send_undefined = p.vp_map[x].send_undefined + 1
  BY <1>1 DEF Sent, IsProc
<1>3. k \in Data
  BY <1>2 DEF Data, IsProbeReply
<1>4. /\ Hits(m[x], Data) = Hits(n[x], Data) + 1
      /\ \A v \in VPs : v # x => Hits(m[v], Data) = Hits(n[v], Data)
  <2>1. Put(n, m, x, k)
    BY <1>1
  <2>2. /\ Hits(m[x], Data) = Hits(n[x], Data) + (IF k \in Data THEN 1 ELSE 0)
        /\ \A v \in VPs : v # x => Hits(m[v], Data) = Hits(n[v], Data)
    BY <2>1, HitsPut
  <2> QED
    BY <1>3, <2>2
<1>5. \A v \in VPs : Hits(n[v], Data) \in Nat /\ r.ca_map[v].recv_cnt \in Nat
  BY HitsType, RowCounts
<1>6. \A v \in VPs : /\ SentOn(p)[v] \in Nat /\ SentOn(q)[v] \in Nat
                     /\ p.vp_map[v].send_cnt \in Nat /\ p.vp_map[v].send_undefined \in Nat
                     /\ SentOn(p)[v] = p.vp_map[v].send_cnt + p.vp_map[v].send_undefined
                     /\ SentOn(q)[v] = q.vp_map[v].send_cnt + q.vp_map[v].send_undefined
  BY RecordCounts
<1>7. SentOn(q)[x] = SentOn(p)[x] + 1 /\ \A v \in VPs : v # x => SentOn(q)[v] = SentOn(p)[v]
  BY <1>2, <1>6
<1>8. Total(SentOn(q)) = q.sequence
  <2>1. \A v \in VPs : SentOn(p)[v] \in Int /\ SentOn(q)[v] \in Int
    BY <1>6
  <2>2. Total(SentOn(q)) = Total(SentOn(p)) + (SentOn(q)[x] - SentOn(p)[x])
    BY <1>7, <2>1, TotalUpdate
  <2>3. Total(SentOn(p)) = p.sequence
    BY DEF Even
  <2> QED
    BY <1>2, <1>6, <1>7, <2>2, <2>3
<1>9. ASSUME NEW v \in VPs
      PROVE  /\ Believed(q, v) <= r.ca_map[v].recv_cnt
             /\ r.ca_map[v].recv_cnt + Hits(m[v], Data) <= SentOn(q)[v]
  <2>1. /\ Believed(p, v) <= r.ca_map[v].recv_cnt
        /\ r.ca_map[v].recv_cnt + Hits(n[v], Data) <= SentOn(p)[v]
    BY DEF Even
  <2>2. Believed(q, v) = Believed(p, v)
    BY <1>2 DEF Believed
  <2>3. r.ca_map[v].recv_cnt + Hits(m[v], Data) <= SentOn(q)[v]
    <3>1. CASE v = x
      BY <1>4, <1>5, <1>6, <1>7, <2>1, <3>1
    <3>2. CASE v # x
      BY <1>4, <1>7, <2>1, <3>2
    <3> QED
      BY <3>1, <3>2
  <2> QED
    BY <2>1, <2>2, <2>3
<1> QED
  BY <1>8, <1>9 DEF Even

(* The sender's counters are refreshed or a report is heard, and a reply   *)
(* may leave; the packets that count stay.                                 *)
LEMMA EvenHeard ==
  ASSUME NEW p, NEW q, NEW r, IsProc(p), IsProc(q), IsProc(r), NEW n, NEW m, Even(p, r, n),
         q.sequence = p.sequence,
         \A v \in VPs : SentOn(q)[v] = SentOn(p)[v],
         \A v \in VPs : Believed(q, v) = Believed(p, v) \/ Believed(q, v) <= r.ca_map[v].recv_cnt,
         \A v \in VPs : Hits(m[v], Data) = Hits(n[v], Data)
  PROVE  Even(q, r, m)
<1>1. SentOn(q) = SentOn(p)
  <2>1. SentOn(q) = [v \in VPs |-> SentOn(q)[v]] /\ SentOn(p) = [v \in VPs |-> SentOn(p)[v]]
    BY DEF SentOn
  <2> QED
    BY <2>1
<1>2. \A v \in VPs : /\ Believed(q, v) <= r.ca_map[v].recv_cnt
                     /\ r.ca_map[v].recv_cnt + Hits(m[v], Data) <= SentOn(q)[v]
  BY <1>1 DEF Even
<1> QED
  BY <1>1, <1>2 DEF Even

(* The receiver's rows stay, and packets may be lost.                      *)
LEMMA EvenRows ==
  ASSUME NEW p, NEW r, NEW s, IsProc(p), IsProc(r), IsProc(s), NEW n, NEW m, OnPaths(n), OnPaths(m),
         Even(p, r, n),
         \A v \in VPs : s.ca_map[v].recv_cnt = r.ca_map[v].recv_cnt,
         \A v \in VPs : Hits(m[v], Data) <= Hits(n[v], Data)
  PROVE  Even(p, s, m)
<1>1. Total(SentOn(p)) = p.sequence
  BY DEF Even
<1>2. ASSUME NEW v \in VPs
      PROVE  /\ Believed(p, v) <= s.ca_map[v].recv_cnt
             /\ s.ca_map[v].recv_cnt + Hits(m[v], Data) <= SentOn(p)[v]
  <2>1. /\ Believed(p, v) <= r.ca_map[v].recv_cnt
        /\ r.ca_map[v].recv_cnt + Hits(n[v], Data) <= SentOn(p)[v]
    BY DEF Even
  <2>2. Hits(n[v], Data) \in Nat /\ Hits(m[v], Data) \in Nat
    BY HitsType
  <2>3. r.ca_map[v].recv_cnt \in Nat /\ SentOn(p)[v] \in Nat
    BY RowCounts, RecordCounts
  <2> QED
    BY <2>1, <2>2, <2>3
<1> QED
  BY <1>1, <1>2 DEF Even

(* The receiver takes a data packet from path x and counts it.             *)
LEMMA EvenCounted ==
  ASSUME NEW p, NEW r, NEW s, IsProc(p), IsProc(r), IsProc(s), NEW n, NEW m, OnPaths(n),
         NEW x \in VPs, Taken(n, m, x), Even(p, r, n), Head(n[x]) \in Data,
         s.ca_map[x].recv_cnt = r.ca_map[x].recv_cnt + 1,
         \A v \in VPs : v # x => s.ca_map[v].recv_cnt = r.ca_map[v].recv_cnt
  PROVE  Even(p, s, m)
<1>1. Total(SentOn(p)) = p.sequence
  BY DEF Even
<1>2. /\ Hits(m[x], Data) = Hits(n[x], Data) - 1
      /\ \A v \in VPs : v # x => Hits(m[v], Data) = Hits(n[v], Data)
  <2>1. /\ Hits(m[x], Data) = Hits(n[x], Data) - (IF Head(n[x]) \in Data THEN 1 ELSE 0)
        /\ \A v \in VPs : v # x => Hits(m[v], Data) = Hits(n[v], Data)
    BY HitsTaken
  <2> QED
    BY <2>1
<1>3. ASSUME NEW v \in VPs
      PROVE  /\ Believed(p, v) <= s.ca_map[v].recv_cnt
             /\ s.ca_map[v].recv_cnt + Hits(m[v], Data) <= SentOn(p)[v]
  <2>1. /\ Believed(p, v) <= r.ca_map[v].recv_cnt
        /\ r.ca_map[v].recv_cnt + Hits(n[v], Data) <= SentOn(p)[v]
    BY DEF Even
  <2>2. Hits(n[v], Data) \in Nat
    BY HitsType
  <2>3. r.ca_map[v].recv_cnt \in Nat /\ SentOn(p)[v] \in Nat /\ Believed(p, v) \in Nat
    BY RowCounts, RecordCounts
  <2>4. CASE v = x
    BY <1>2, <2>1, <2>2, <2>3, <2>4
  <2>5. CASE v # x
    BY <1>2, <2>1, <2>5
  <2> QED
    BY <2>4, <2>5
<1> QED
  BY <1>1, <1>3 DEF Even

(* What a host that receives learns about its own packets.                 *)
LEMMA EvenReport ==
  ASSUME NEW p, NEW q, NEW r, IsProc(p), IsProc(q), IsProc(r), NEW n, NEW m, Even(p, r, n),
         NEW pkt \in Packet, NEW marked, Ignored(p, q) \/ Received(p, q, pkt, marked),
         pkt.vp_rcnt <= r.ca_map[pkt.vp_rid].recv_cnt,
         \A v \in VPs : Hits(m[v], Data) = Hits(n[v], Data)
  PROVE  Even(q, r, m)
<1>1. /\ q.sequence = p.sequence
      /\ \A u \in VPs : /\ q.vp_map[u].send_cnt = p.vp_map[u].send_cnt
                        /\ q.vp_map[u].send_undefined = p.vp_map[u].send_undefined
                        /\ q.vp_map[u].recv_cnt = p.vp_map[u].recv_cnt
                        /\ \/ q.vp_map[u].recv_undefined = p.vp_map[u].recv_undefined
                           \/ /\ u = pkt.vp_rid
                              /\ q.vp_map[u].recv_cnt + q.vp_map[u].recv_undefined = pkt.vp_rcnt
  <2>1. CASE Ignored(p, q)
    BY <2>1 DEF Ignored
  <2>2. CASE Received(p, q, pkt, marked)
    BY <2>2 DEF Received, Heard
  <2> QED
    BY <2>1, <2>2
<1>2. \A v \in VPs : SentOn(q)[v] = SentOn(p)[v]
  BY <1>1 DEF SentOn
<1>3. \A v \in VPs : Believed(q, v) = Believed(p, v) \/ Believed(q, v) <= r.ca_map[v].recv_cnt
  BY <1>1 DEF Believed
<1> QED
  BY <1>1, <1>2, <1>3, EvenHeard

(* Taking a packet leaves no more data on any path.                        *)
LEMMA DataTaken ==
  ASSUME NEW n, NEW m, OnPaths(n), NEW x \in VPs, Taken(n, m, x)
  PROVE  OnPaths(m) /\ \A u \in VPs : Hits(m[u], Data) <= Hits(n[u], Data)
<1>1. OnPaths(m)
  BY TakenOnPaths
<1>2. \A u \in VPs : Hits(n[u], Data) \in Nat
  BY HitsType
<1>3. /\ Hits(m[x], Data) = Hits(n[x], Data) - (IF Head(n[x]) \in Data THEN 1 ELSE 0)
      /\ Hits(m[x], Data) <= Hits(n[x], Data)
      /\ \A u \in VPs : u # x => Hits(m[u], Data) = Hits(n[u], Data)
  BY HitsTaken
<1> QED
  BY <1>1, <1>2, <1>3

(* What a host that receives the packet at the head of path v counts.      *)
LEMMA EvenArrival ==
  ASSUME NEW p, NEW r, NEW s, IsProc(p), IsProc(r), IsProc(s), NEW n, NEW m, OnPaths(n),
         NEW v \in VPs, Taken(n, m, v), Even(p, r, n), NEW pkt, pkt = Head(n[v]),
         pkt \in Good(p, v), NEW marked,
         \/ IsReply(pkt) /\ Ignored(r, s)
         \/ ~ IsReply(pkt) /\ Received(r, s, pkt, marked)
  PROVE  Even(p, s, m)
<1>1. CASE IsReply(pkt) /\ Ignored(r, s)
  <2>1. \A u \in VPs : s.ca_map[u].recv_cnt = r.ca_map[u].recv_cnt
    BY <1>1 DEF Ignored, SameCounts
  <2>2. OnPaths(m) /\ \A u \in VPs : Hits(m[u], Data) <= Hits(n[u], Data)
    BY DataTaken
  <2> QED
    BY <2>1, <2>2, EvenRows
<1>2. CASE ~ IsReply(pkt) /\ Received(r, s, pkt, marked)
  <2>1. pkt \in Packet /\ pkt.vp_id = v /\ ~ ProbeReply(pkt)
    BY <1>2 DEF Good, Fits, ProbeReply, IsReply
  <2>2. pkt \in Data
    BY <2>1 DEF Good, Fits, Data, IsProbeReply
  <2>3. /\ s.ca_map[v].recv_cnt = r.ca_map[v].recv_cnt + 1
        /\ \A u \in VPs : u # v => s.ca_map[u].recv_cnt = r.ca_map[u].recv_cnt
    BY <1>2, <2>1 DEF Received, Counted, SameCounts
  <2> QED
    BY <2>2, <2>3, EvenCounted
<1> QED
  BY <1>1, <1>2

(* A probe reply is no data.                                               *)
LEMMA ReplyIsNoData ==
  ASSUME NEW n, NEW m, OnPaths(n),
         Same(n, m) \/ \E k \in Packet : ProbeReply(k) /\ Put(n, m, 0, k)
  PROVE  /\ OnPaths(m)
         /\ \A v \in VPs : Hits(m[v], Data) = Hits(n[v], Data)
<1>1. CASE Same(n, m)
  BY <1>1 DEF Same, OnPaths
<1>2. CASE \E k \in Packet : ProbeReply(k) /\ Put(n, m, 0, k)
  <2>1. PICK k \in Packet : ProbeReply(k) /\ Put(n, m, 0, k)
    BY <1>2
  <2>2. k \notin Data /\ 0 \in VPs
    BY <2>1, PathFacts DEF ProbeReply, Data, IsProbeReply
  <2>3. OnPaths(m)
    BY <2>1, <2>2, PutOnPaths
  <2>4. /\ Hits(m[0], Data) = Hits(n[0], Data) + (IF k \in Data THEN 1 ELSE 0)
        /\ \A v \in VPs : v # 0 => Hits(m[v], Data) = Hits(n[v], Data)
    BY <2>1, <2>2, HitsPut
  <2>5. Hits(n[0], Data) \in Nat
    BY <2>2, HitsType
  <2> QED
    BY <2>2, <2>3, <2>4, <2>5
<1> QED
  BY <1>1, <1>2

Accounts == \A h \in Hosts : Even(proc[h], proc[Peer(h)], net[h])

LEMMA PathsOf ==
  ASSUME NetOK, NEW h \in Hosts
  PROVE  OnPaths(net[h])
  BY PathSeq DEF OnPaths

LEMMA AccountsInit == Init => Accounts
<1> SUFFICES ASSUME Init, NEW h \in Hosts PROVE Even(proc[h], proc[Peer(h)], net[h])
  BY DEF Accounts
<1>1. Peer(h) \in Hosts
  BY PeerFacts
<1>2. PICK p : p = NewProcessor(0)
  OBVIOUS
<1>3. /\ p.sequence = 0
      /\ \A u \in VPs :
           /\ p.vp_map[u].send_cnt = 0 /\ p.vp_map[u].send_undefined = 0
           /\ p.vp_map[u].recv_cnt = 0 /\ p.vp_map[u].recv_undefined = 0
           /\ p.ca_map[u].recv_cnt = 0
  <2>1. 0 \in Nat
    OBVIOUS
  <2> QED
    BY <1>2, <2>1, NewFacts
<1>4. proc[h] = p /\ proc[Peer(h)] = p /\ \A v \in VPs : net[h][v] = << >>
  BY <1>1, <1>2 DEF Init
<1>5. Hits(<< >>, Data) = 0
  <2>1. Places(<< >>, Data) = {}
    BY DEF Places
  <2> QED
    BY <2>1, FS_EmptySet DEF Hits
<1>6. \A v \in VPs : SentOn(p)[v] = 0 /\ Believed(p, v) = 0
  BY <1>3 DEF SentOn, Believed
<1>7. Total(SentOn(p)) = 0
  BY <1>6, TotalZero
<1>8. \A v \in VPs : Hits(net[h][v], Data) = 0
  BY <1>4, <1>5
<1>9. Even(p, p, net[h])
  BY <1>3, <1>6, <1>7, <1>8 DEF Even
<1> QED
  BY <1>4, <1>9

LEMMA AccountsNext == NetOK /\ Accounts /\ [Next]_vars => Accounts'
<1> SUFFICES ASSUME NetOK, Accounts, [Next]_vars PROVE Accounts'
  OBVIOUS
<1>1. ASSUME NEW h \in Hosts, NEW k, SendEffect(h, k) PROVE Accounts'
  <2> DEFINE y == Peer(h)
  <2>1. PICK q, m : q = proc'[h] /\ m = net'[h]
    OBVIOUS
  <2>2. y \in Hosts /\ y # h /\ Peer(y) = h /\ \A g \in Hosts : g = h \/ g = y
    BY PeerFacts
  <2>3. proc'[y] = proc[y] /\ net'[y] = net[y]
    BY <1>1, <2>2 DEF SendEffect
  <2>4. /\ Even(proc[h], proc[y], net[h]) /\ Even(proc[y], proc[h], net[y])
        /\ OnPaths(net[h]) /\ OnPaths(net[y])
    BY <2>2, PathsOf DEF Accounts
  <2> HIDE DEF y
  <2>5. /\ IsProc(proc[h]) /\ IsProc(q) /\ IsProc(proc[y]) /\ k \in Packet
        /\ Sent(proc[h], q, k) /\ Put(net[h], m, k.vp_id, k)
    BY <1>1, <2>1, <2>2 DEF NetOK, SendEffect
  <2>6. Even(q, proc[y], m)
    BY <2>4, <2>5, EvenSend
  <2>7. Even(proc[y], q, net[y])
    <3>1. \A v \in VPs : q.ca_map[v].recv_cnt = proc[h].ca_map[v].recv_cnt
      BY <2>5 DEF Sent
    <3>2. \A v \in VPs : Hits(net[y][v], Data) <= Hits(net[y][v], Data)
      BY <2>4, HitsType
    <3> QED
      BY <2>4, <2>5, <3>1, <3>2, EvenRows
  <2> QED
    BY <2>1, <2>2, <2>3, <2>6, <2>7 DEF Accounts, y
<1>2. ASSUME NEW h \in Hosts, NEW v \in VPs, NEW marked \in BOOLEAN, NEW pkt,
             RecvEffect(h, v, marked, pkt)
      PROVE  Accounts'
  <2> DEFINE y == Peer(h)
  <2>1. PICK q, m, o : q = proc'[h] /\ m = net'[h] /\ o = net'[y]
    OBVIOUS
  <2>2. y \in Hosts /\ y # h /\ Peer(y) = h /\ \A g \in Hosts : g = h \/ g = y
    BY PeerFacts
  <2>3. /\ proc'[y] = proc[y] /\ Taken(net[y], o, v) /\ IsProc(q)
        /\ pkt = Head(net[y][v]) /\ pkt \in Good(proc[y], v)
        /\ Same(net[h], m) \/ \E k \in Packet : ProbeReply(k) /\ Put(net[h], m, 0, k)
        /\ \/ IsReply(pkt) /\ Ignored(proc[h], q)
           \/ ~ IsReply(pkt) /\ Received(proc[h], q, pkt, marked)
    BY <1>2, <2>1 DEF RecvEffect
  <2>4. /\ Even(proc[h], proc[y], net[h]) /\ Even(proc[y], proc[h], net[y])
        /\ OnPaths(net[h]) /\ OnPaths(net[y])
    BY <2>2, PathsOf DEF Accounts
  <2>5. IsProc(proc[h]) /\ IsProc(proc[y])
    BY <2>2 DEF NetOK
  <2> HIDE DEF y
  <2>6. Even(q, proc[y], m)
    <3>1. pkt \in Packet /\ pkt.vp_rcnt <= proc[y].ca_map[pkt.vp_rid].recv_cnt
      <4>1. pkt \in Packet /\ pkt.vp_rid \in VPs
        BY <2>3 DEF Good, Packet
      <4>2. proc[y].ca_map[pkt.vp_rid].recv_cnt \in Nat
        BY <2>5, <4>1, RowCounts
      <4> QED
        BY <2>3, <4>1, <4>2, SMTT(30) DEF Good, Fits, ProbeReply
    <3>2. Ignored(proc[h], q) \/ Received(proc[h], q, pkt, marked)
      BY <2>3
    <3>3. \A u \in VPs : Hits(m[u], Data) = Hits(net[h][u], Data)
      BY <2>3, <2>4, ReplyIsNoData
    <3> QED
      BY <2>3, <2>4, <2>5, <3>1, <3>2, <3>3, EvenReport
  <2>7. Even(proc[y], q, o)
    BY <2>3, <2>4, <2>5, EvenArrival
  <2> QED
    BY <2>1, <2>2, <2>3, <2>6, <2>7 DEF Accounts, y
<1>3. ASSUME NEW h \in Hosts, NEW v \in VPs, LoseEffect(h, v) PROVE Accounts'
  <2>1. PICK m : m = net'[h]
    OBVIOUS
  <2>2. Taken(net[h], m, v) /\ Even(proc[h], proc[Peer(h)], net[h]) /\ OnPaths(net[h])
    BY <1>3, <2>1, PathsOf DEF LoseEffect, Accounts
  <2>3. IsProc(proc[h]) /\ IsProc(proc[Peer(h)])
    BY PeerFacts DEF NetOK
  <2>4. OnPaths(m) /\ \A u \in VPs : Hits(m[u], Data) <= Hits(net[h][u], Data)
    BY <2>2, DataTaken
  <2>5. Even(proc[h], proc[Peer(h)], m)
    BY <2>2, <2>3, <2>4, EvenRows
  <2>6. proc' = proc /\ \A g \in Hosts : g # h => net'[g] = net[g]
    BY <1>3 DEF LoseEffect
  <2> QED
    BY <2>1, <2>5, <2>6 DEF Accounts
<1>4. ASSUME NEW h \in Hosts, ExpireEffect(h) PROVE Accounts'
  <2> DEFINE y == Peer(h)
  <2>1. PICK q : q = proc'[h]
    OBVIOUS
  <2>2. y \in Hosts /\ y # h /\ Peer(y) = h /\ \A g \in Hosts : g = h \/ g = y
    BY PeerFacts
  <2>3. /\ proc'[y] = proc[y] /\ net' = net /\ IsProc(q) /\ Refreshed(proc[h], q)
        /\ IsProc(proc[h]) /\ IsProc(proc[y])
    BY <1>4, <2>1, <2>2 DEF ExpireEffect, NetOK
  <2>4. /\ Even(proc[h], proc[y], net[h]) /\ Even(proc[y], proc[h], net[y])
        /\ OnPaths(net[h]) /\ OnPaths(net[y])
    BY <2>2, PathsOf DEF Accounts
  <2> HIDE DEF y
  <2>5. Even(q, proc[y], net[h])
    <3>1. q.sequence = proc[h].sequence
      BY <2>3 DEF Refreshed
    <3>2. \A v \in VPs : SentOn(q)[v] = SentOn(proc[h])[v]
      BY <2>3 DEF Refreshed, SentOn
    <3>3. \A v \in VPs : Believed(q, v) = Believed(proc[h], v)
      BY <2>3 DEF Refreshed, Believed
    <3> QED
      BY <2>3, <2>4, <3>1, <3>2, <3>3, EvenHeard
  <2>6. Even(proc[y], q, net[y])
    <3>1. \A v \in VPs : q.ca_map[v].recv_cnt = proc[h].ca_map[v].recv_cnt
      BY <2>3 DEF Refreshed
    <3>2. \A v \in VPs : Hits(net[y][v], Data) <= Hits(net[y][v], Data)
      BY <2>4, HitsType
    <3> QED
      BY <2>3, <2>4, <3>1, <3>2, EvenRows
  <2> QED
    BY <2>1, <2>2, <2>3, <2>5, <2>6 DEF Accounts, y
<1>5. CASE proc' = proc /\ net' = net
  BY <1>5 DEF Accounts
<1> QED
  BY <1>1, <1>2, <1>3, <1>4, <1>5, Effects

(* The counters of both ends stay even in every run, together with what is *)
(* under way between them.                                                 *)
THEOREM AccountsAlways == Spec => []Accounts
  BY AccountsInit, AccountsNext, NetAlways, PTL DEF Spec

(* Accounting: what a sender believes to have arrived on a path has        *)
(* arrived, what arrived or is under way was sent, and the paths add up to *)
(* the sequence number, for any number of losses, marks and refreshes.     *)
THEOREM AccountingTheorem == Spec => []Accounting
<1>1. NetOK /\ Accounts => Accounting
  <2> SUFFICES ASSUME NetOK, Accounts, NEW h \in Hosts
               PROVE  /\ Total(SentOn(proc[h])) = proc[h].sequence
                      /\ \A v \in VPs :
                           /\ Believed(proc[h], v) <= proc[Peer(h)].ca_map[v].recv_cnt
                           /\ proc[Peer(h)].ca_map[v].recv_cnt
                                + Count(h, v, LAMBDA k : ~ IsProbeReply(k))
                                <= SentOn(proc[h])[v]
    BY DEF Accounting, SentOn, Believed
  <2>1. Even(proc[h], proc[Peer(h)], net[h])
    BY DEF Accounts
  <2>2. ASSUME NEW v \in VPs
        PROVE  Count(h, v, LAMBDA k : ~ IsProbeReply(k)) = Hits(net[h][v], Data)
    <3>1. net[h][v] \in Seq(Packet)
      BY PathSeq
    <3>2. {i \in DOMAIN net[h][v] : ~ IsProbeReply(net[h][v][i])} = Places(net[h][v], Data)
      BY <3>1 DEF Places, Data
    <3> QED
      BY <3>2 DEF Count, Hits
  <2> QED
    BY <2>1, <2>2 DEF Even
<1> QED
  BY <1>1, NetAlways, AccountsAlways, PTL

-----------------------------------------------------------------------------
(* The congestion marks on their way back to the sender.                   *)

Echo(v) == {k \in Packet : k.vp_recn = TRUE /\ k.vp_rid = v}

Carried(n, v) == [u \in VPs |-> Hits(n[u], Echo(v))]

Waiting(row) == IF row.recv_ecn = TRUE THEN 1 ELSE 0

(* EchoOnce between sender p, receiver r and the receiver's packets n.      *)
EchoOK(p, r, n) ==
  \A v \in VPs : p.vp_map[v].recv_ece_cnt + Total(Carried(n, v)) + Waiting(r.ca_map[v])
                   <= r.ca_map[v].recv_ecn_cnt

LEMMA CarriedPut ==
  ASSUME NEW n, NEW m, OnPaths(n), NEW x \in VPs, NEW k \in Packet, Put(n, m, x, k), NEW v
  PROVE  /\ Total(Carried(n, v)) \in Int
         /\ Total(Carried(m, v)) = Total(Carried(n, v)) + (IF k \in Echo(v) THEN 1 ELSE 0)
<1>1. OnPaths(m)
  BY PutOnPaths
<1>2. \A u \in VPs : Hits(n[u], Echo(v)) \in Nat /\ Hits(m[u], Echo(v)) \in Nat
  BY <1>1, HitsType
<1>3. /\ Hits(m[x], Echo(v)) = Hits(n[x], Echo(v)) + (IF k \in Echo(v) THEN 1 ELSE 0)
      /\ \A u \in VPs : u # x => Hits(m[u], Echo(v)) = Hits(n[u], Echo(v))
  BY HitsPut
<1>4. PICK r, s : r = Carried(n, v) /\ s = Carried(m, v)
  OBVIOUS
<1>5. \A u \in VPs : r[u] = Hits(n[u], Echo(v)) /\ s[u] = Hits(m[u], Echo(v))
  BY <1>4 DEF Carried
<1>6. /\ \A u \in VPs : r[u] \in Int /\ s[u] \in Int
      /\ \A u \in VPs : u # x => s[u] = r[u]
  BY <1>2, <1>3, <1>5
<1>7. Total(r) \in Int /\ Total(s) = Total(r) + (s[x] - r[x])
  BY <1>6, TotalUpdate
<1>8. s[x] - r[x] = IF k \in Echo(v) THEN 1 ELSE 0
  BY <1>2, <1>3, <1>5
<1> QED
  BY <1>4, <1>7, <1>8

LEMMA CarriedTaken ==
  ASSUME NEW n, NEW m, OnPaths(n), NEW x \in VPs, Taken(n, m, x), NEW v
  PROVE  /\ Total(Carried(n, v)) \in Int
         /\ Total(Carried(m, v)) = Total(Carried(n, v)) - (IF Head(n[x]) \in Echo(v) THEN 1 ELSE 0)
<1>1. OnPaths(m)
  BY TakenOnPaths
<1>2. \A u \in VPs : Hits(n[u], Echo(v)) \in Nat /\ Hits(m[u], Echo(v)) \in Nat
  BY <1>1, HitsType
<1>3. /\ Hits(m[x], Echo(v)) = Hits(n[x], Echo(v)) - (IF Head(n[x]) \in Echo(v) THEN 1 ELSE 0)
      /\ \A u \in VPs : u # x => Hits(m[u], Echo(v)) = Hits(n[u], Echo(v))
  BY HitsTaken
<1>4. PICK r, s : r = Carried(n, v) /\ s = Carried(m, v)
  OBVIOUS
<1>5. \A u \in VPs : r[u] = Hits(n[u], Echo(v)) /\ s[u] = Hits(m[u], Echo(v))
  BY <1>4 DEF Carried
<1>6. /\ \A u \in VPs : r[u] \in Int /\ s[u] \in Int
      /\ \A u \in VPs : u # x => s[u] = r[u]
  BY <1>2, <1>3, <1>5
<1>7. Total(r) \in Int /\ Total(s) = Total(r) + (s[x] - r[x])
  BY <1>6, TotalUpdate
<1>8. r[x] - s[x] = IF Head(n[x]) \in Echo(v) THEN 1 ELSE 0
  BY <1>2, <1>3, <1>5
<1>9. PICK d \in {0, 1} : d = IF Head(n[x]) \in Echo(v) THEN 1 ELSE 0
  OBVIOUS
<1>10. r[x] - s[x] = d /\ r[x] \in Int /\ s[x] \in Int
  BY <1>6, <1>8, <1>9
<1>11. Total(s) = Total(r) - d
  BY <1>7, <1>10
<1> QED
  BY <1>4, <1>7, <1>9, <1>11

LEMMA CarriedSame ==
  ASSUME NEW n, NEW m, OnPaths(n), NEW v,
         Same(n, m) \/ \E k \in Packet : ProbeReply(k) /\ Put(n, m, 0, k)
  PROVE  Total(Carried(m, v)) = Total(Carried(n, v))
<1>1. CASE Same(n, m)
  <2>1. Carried(m, v) = Carried(n, v)
    BY <1>1 DEF Same, Carried
  <2> QED
    BY <2>1
<1>2. CASE \E k \in Packet : ProbeReply(k) /\ Put(n, m, 0, k)
  <2>1. PICK k \in Packet : ProbeReply(k) /\ Put(n, m, 0, k)
    BY <1>2
  <2>2. k \notin Echo(v) /\ 0 \in VPs
    BY <2>1, PathFacts DEF ProbeReply, Echo
  <2>3. /\ Total(Carried(n, v)) \in Int
        /\ Total(Carried(m, v)) = Total(Carried(n, v)) + (IF k \in Echo(v) THEN 1 ELSE 0)
    BY <2>1, <2>2, CarriedPut
  <2> QED
    BY <2>2, <2>3
<1> QED
  BY <1>1, <1>2

(* The values that EchoOK compares.                                        *)
LEMMA EchoTypes ==
  ASSUME NEW p, NEW r, IsProc(p), IsProc(r), NEW n, OnPaths(n), NEW v \in VPs
  PROVE  /\ p.vp_map[v].recv_ece_cnt \in Nat /\ r.ca_map[v].recv_ecn_cnt \in Nat
         /\ Waiting(r.ca_map[v]) \in {0, 1} /\ Total(Carried(n, v)) \in Int
<1>1. p.vp_map[v].recv_ece_cnt \in Nat /\ r.ca_map[v].recv_ecn_cnt \in Nat
  BY RecordCounts, RowCounts
<1>2. Waiting(r.ca_map[v]) \in {0, 1}
  BY DEF Waiting
<1>3. \A u \in VPs : Hits(n[u], Echo(v)) \in Nat
  BY HitsType
<1>4. PICK c : c = Carried(n, v)
  OBVIOUS
<1>5. \A u \in VPs : c[u] \in Int
  BY <1>3, <1>4 DEF Carried
<1>6. Total(c) \in Int
  BY <1>5, TotalUpdate
<1> QED
  BY <1>1, <1>2, <1>4, <1>6

(* Nothing is counted, reported or heard, and packets may be lost.         *)
LEMMA EchoKept ==
  ASSUME NEW p, NEW q, NEW r, NEW s, IsProc(p), IsProc(q), IsProc(r), IsProc(s),
         NEW n, NEW m, OnPaths(n), OnPaths(m), EchoOK(p, r, n),
         \A v \in VPs : q.vp_map[v].recv_ece_cnt = p.vp_map[v].recv_ece_cnt,
         \A v \in VPs : SameCounts(r.ca_map[v], s.ca_map[v]),
         \A v \in VPs : Total(Carried(m, v)) <= Total(Carried(n, v))
  PROVE  EchoOK(q, s, m)
<1> SUFFICES ASSUME NEW v \in VPs
             PROVE  q.vp_map[v].recv_ece_cnt + Total(Carried(m, v)) + Waiting(s.ca_map[v])
                      <= s.ca_map[v].recv_ecn_cnt
  BY DEF EchoOK
<1>1. p.vp_map[v].recv_ece_cnt + Total(Carried(n, v)) + Waiting(r.ca_map[v])
        <= r.ca_map[v].recv_ecn_cnt
  BY DEF EchoOK
<1>2. /\ p.vp_map[v].recv_ece_cnt \in Nat /\ r.ca_map[v].recv_ecn_cnt \in Nat
      /\ Waiting(r.ca_map[v]) \in {0, 1} /\ Total(Carried(n, v)) \in Int
  BY EchoTypes
<1>3. Total(Carried(m, v)) \in Int
  BY EchoTypes
<1>4. s.ca_map[v].recv_ecn_cnt = r.ca_map[v].recv_ecn_cnt /\ Waiting(s.ca_map[v]) = Waiting(r.ca_map[v])
  BY DEF SameCounts, Waiting
<1> QED
  BY <1>1, <1>2, <1>3, <1>4

(* The receiver sends packet k, with a mark it was waiting to report or    *)
(* with none.                                                              *)
LEMMA EchoSend ==
  ASSUME NEW p, NEW r, NEW s, IsProc(p), IsProc(r), IsProc(s), NEW k \in Packet, Sent(r, s, k),
         NEW n, NEW m, OnPaths(n), Put(n, m, k.vp_id, k), EchoOK(p, r, n)
  PROVE  EchoOK(p, s, m)
<1> SUFFICES ASSUME NEW v \in VPs
             PROVE  p.vp_map[v].recv_ece_cnt + Total(Carried(m, v)) + Waiting(s.ca_map[v])
                      <= s.ca_map[v].recv_ecn_cnt
  BY DEF EchoOK
<1>1. p.vp_map[v].recv_ece_cnt + Total(Carried(n, v)) + Waiting(r.ca_map[v])
        <= r.ca_map[v].recv_ecn_cnt
  BY DEF EchoOK
<1>2. /\ p.vp_map[v].recv_ece_cnt \in Nat /\ r.ca_map[v].recv_ecn_cnt \in Nat
      /\ Waiting(r.ca_map[v]) \in {0, 1} /\ Total(Carried(n, v)) \in Int
  BY EchoTypes
<1>3. PICK x \in VPs : x = k.vp_id
  BY DEF Packet
<1>4. Put(n, m, x, k)
  BY <1>3
<1>5. Total(Carried(m, v)) = Total(Carried(n, v)) + (IF k \in Echo(v) THEN 1 ELSE 0)
  BY <1>4, CarriedPut
<1>6. s.ca_map[v].recv_ecn_cnt = r.ca_map[v].recv_ecn_cnt
  BY DEF Sent
<1>7. CASE k \in Echo(v)
  <2>1. Waiting(r.ca_map[v]) = 1 /\ Waiting(s.ca_map[v]) = 0
    BY <1>7 DEF Echo, Sent, Waiting
  <2> QED
    BY <1>1, <1>2, <1>5, <1>6, <1>7, <2>1
<1>8. CASE k \notin Echo(v)
  <2>1. s.ca_map[v].recv_ecn = TRUE => r.ca_map[v].recv_ecn = TRUE
    BY DEF Sent
  <2>2. Waiting(s.ca_map[v]) \in {0, 1} /\ Waiting(s.ca_map[v]) <= Waiting(r.ca_map[v])
    BY <2>1 DEF Waiting
  <2> QED
    BY <1>1, <1>2, <1>5, <1>6, <1>8, <2>2
<1> QED
  BY <1>7, <1>8

(* The sender takes the packet at the head of path x and acts on its mark. *)
LEMMA EchoHeard ==
  ASSUME NEW p, NEW q, NEW r, IsProc(p), IsProc(q), IsProc(r), NEW n, NEW m, OnPaths(n),
         NEW x \in VPs, Taken(n, m, x), EchoOK(p, r, n), NEW pkt \in Packet, pkt = Head(n[x]),
         NEW marked, Ignored(p, q) \/ Received(p, q, pkt, marked)
  PROVE  EchoOK(q, r, m)
<1> SUFFICES ASSUME NEW v \in VPs
             PROVE  q.vp_map[v].recv_ece_cnt + Total(Carried(m, v)) + Waiting(r.ca_map[v])
                      <= r.ca_map[v].recv_ecn_cnt
  BY DEF EchoOK
<1>1. p.vp_map[v].recv_ece_cnt + Total(Carried(n, v)) + Waiting(r.ca_map[v])
        <= r.ca_map[v].recv_ecn_cnt
  BY DEF EchoOK
<1>2. /\ p.vp_map[v].recv_ece_cnt \in Nat /\ r.ca_map[v].recv_ecn_cnt \in Nat
      /\ Waiting(r.ca_map[v]) \in {0, 1} /\ Total(Carried(n, v)) \in Int
  BY EchoTypes
<1>3. Total(Carried(m, v)) = Total(Carried(n, v)) - (IF Head(n[x]) \in Echo(v) THEN 1 ELSE 0)
  BY CarriedTaken
<1>4. \/ q.vp_map[v].recv_ece_cnt = p.vp_map[v].recv_ece_cnt
      \/ /\ pkt.vp_recn = TRUE /\ v = pkt.vp_rid
         /\ q.vp_map[v].recv_ece_cnt = p.vp_map[v].recv_ece_cnt + 1
  <2>1. CASE Ignored(p, q)
    BY <2>1 DEF Ignored
  <2>2. CASE Received(p, q, pkt, marked)
    BY <2>2 DEF Received, Heard
  <2> QED
    BY <2>1, <2>2
<1>5. CASE pkt \in Echo(v)
  BY <1>1, <1>2, <1>3, <1>4, <1>5
<1>6. CASE pkt \notin Echo(v)
  <2>1. q.vp_map[v].recv_ece_cnt = p.vp_map[v].recv_ece_cnt
    BY <1>4, <1>6 DEF Echo
  <2> QED
    BY <1>1, <1>2, <1>3, <1>6, <2>1
<1> QED
  BY <1>5, <1>6

(* The receiver counts a packet: its mark waits to be reported in place of *)
(* the one before.                                                         *)
LEMMA EchoCounted ==
  ASSUME NEW p, NEW r, NEW s, IsProc(p), IsProc(r), IsProc(s), NEW n, NEW m, OnPaths(n),
         EchoOK(p, r, n), Same(n, m) \/ \E k \in Packet : ProbeReply(k) /\ Put(n, m, 0, k),
         NEW pkt \in Packet, NEW marked, marked = TRUE \/ marked = FALSE,
         Ignored(r, s) \/ Received(r, s, pkt, marked)
  PROVE  EchoOK(p, s, m)
<1> SUFFICES ASSUME NEW v \in VPs
             PROVE  p.vp_map[v].recv_ece_cnt + Total(Carried(m, v)) + Waiting(s.ca_map[v])
                      <= s.ca_map[v].recv_ecn_cnt
  BY DEF EchoOK
<1>1. p.vp_map[v].recv_ece_cnt + Total(Carried(n, v)) + Waiting(r.ca_map[v])
        <= r.ca_map[v].recv_ecn_cnt
  BY DEF EchoOK
<1>2. /\ p.vp_map[v].recv_ece_cnt \in Nat /\ r.ca_map[v].recv_ecn_cnt \in Nat
      /\ Waiting(r.ca_map[v]) \in {0, 1} /\ Total(Carried(n, v)) \in Int
  BY EchoTypes
<1>3. Total(Carried(m, v)) = Total(Carried(n, v))
  BY CarriedSame
<1>4. \/ SameCounts(r.ca_map[v], s.ca_map[v])
      \/ Counted(r.ca_map[v], s.ca_map[v], marked)
  <2>1. CASE Ignored(r, s)
    BY <2>1 DEF Ignored
  <2>2. CASE Received(r, s, pkt, marked)
    BY <2>2 DEF Received
  <2> QED
    BY <2>1, <2>2
<1>5. CASE SameCounts(r.ca_map[v], s.ca_map[v])
  <2>1. /\ s.ca_map[v].recv_ecn_cnt = r.ca_map[v].recv_ecn_cnt
        /\ Waiting(s.ca_map[v]) = Waiting(r.ca_map[v])
    BY <1>5 DEF SameCounts, Waiting
  <2> QED
    BY <1>1, <1>2, <1>3, <2>1
<1>6. CASE Counted(r.ca_map[v], s.ca_map[v], marked)
  <2>1. /\ s.ca_map[v].recv_ecn_cnt = r.ca_map[v].recv_ecn_cnt + (IF marked THEN 1 ELSE 0)
        /\ Waiting(s.ca_map[v]) = IF marked THEN 1 ELSE 0
    BY <1>6 DEF Counted, Waiting
  <2> QED
    BY <1>1, <1>2, <1>3, <2>1
<1> QED
  BY <1>4, <1>5, <1>6

Echoes == \A h \in Hosts : EchoOK(proc[h], proc[Peer(h)], net[Peer(h)])

LEMMA EchoesInit == Init => Echoes
<1> SUFFICES ASSUME Init, NEW h \in Hosts PROVE EchoOK(proc[h], proc[Peer(h)], net[Peer(h)])
  BY DEF Echoes
<1>1. Peer(h) \in Hosts
  BY PeerFacts
<1>2. PICK p : p = NewProcessor(0)
  OBVIOUS
<1>3. \A u \in VPs : /\ p.vp_map[u].recv_ece_cnt = 0
                     /\ p.ca_map[u].recv_ecn = FALSE /\ p.ca_map[u].recv_ecn_cnt = 0
  <2>1. 0 \in Nat
    OBVIOUS
  <2> QED
    BY <1>2, <2>1, NewFacts
<1>4. PICK n : n = net[Peer(h)]
  OBVIOUS
<1>5. proc[h] = p /\ proc[Peer(h)] = p /\ \A v \in VPs : n[v] = << >>
  BY <1>1, <1>2, <1>4 DEF Init
<1>6. ASSUME NEW v \in VPs PROVE Total(Carried(n, v)) = 0
  <2>1. Places(<< >>, Echo(v)) = {}
    BY DEF Places
  <2>2. Hits(<< >>, Echo(v)) = 0
    BY <2>1, FS_EmptySet DEF Hits
  <2>3. PICK c : c = Carried(n, v)
    OBVIOUS
  <2>4. \A u \in VPs : c[u] = 0
    BY <1>5, <2>2, <2>3 DEF Carried
  <2> QED
    BY <2>3, <2>4, TotalZero
<1>7. \A v \in VPs : Waiting(p.ca_map[v]) = 0
  BY <1>3 DEF Waiting
<1>8. EchoOK(p, p, n)
  BY <1>3, <1>6, <1>7 DEF EchoOK
<1> QED
  BY <1>4, <1>5, <1>8

LEMMA EchoesNext == NetOK /\ Echoes /\ [Next]_vars => Echoes'
<1> SUFFICES ASSUME NetOK, Echoes, [Next]_vars PROVE Echoes'
  OBVIOUS
<1>1. ASSUME NEW h \in Hosts, NEW k, SendEffect(h, k) PROVE Echoes'
  <2> DEFINE y == Peer(h)
  <2>1. PICK q, m : q = proc'[h] /\ m = net'[h]
    OBVIOUS
  <2>2. y \in Hosts /\ y # h /\ Peer(y) = h /\ \A g \in Hosts : g = h \/ g = y
    BY PeerFacts
  <2>3. proc'[y] = proc[y] /\ net'[y] = net[y]
    BY <1>1, <2>2 DEF SendEffect
  <2>4. /\ EchoOK(proc[h], proc[y], net[y]) /\ EchoOK(proc[y], proc[h], net[h])
        /\ OnPaths(net[h]) /\ OnPaths(net[y])
    BY <2>2, PathsOf DEF Echoes
  <2> HIDE DEF y
  <2>5. /\ IsProc(proc[h]) /\ IsProc(q) /\ IsProc(proc[y]) /\ k \in Packet
        /\ Sent(proc[h], q, k) /\ Put(net[h], m, k.vp_id, k)
    BY <1>1, <2>1, <2>2 DEF NetOK, SendEffect
  <2>6. EchoOK(proc[y], q, m)
    BY <2>4, <2>5, EchoSend
  <2>7. EchoOK(q, proc[y], net[y])
    <3>1. \A v \in VPs : q.vp_map[v].recv_ece_cnt = proc[h].vp_map[v].recv_ece_cnt
      BY <2>5 DEF Sent
    <3>2. \A v \in VPs : SameCounts(proc[y].ca_map[v], proc[y].ca_map[v])
      BY DEF SameCounts
    <3>3. \A v \in VPs : Total(Carried(net[y], v)) \in Int
      BY <2>4, <2>5, EchoTypes
    <3>4. \A v \in VPs : Total(Carried(net[y], v)) <= Total(Carried(net[y], v))
      BY <3>3
    <3> QED
      BY <2>4, <2>5, <3>1, <3>2, <3>4, EchoKept
  <2> QED
    BY <2>1, <2>2, <2>3, <2>6, <2>7 DEF Echoes, y
<1>2. ASSUME NEW h \in Hosts, NEW v \in VPs, NEW marked \in BOOLEAN, NEW pkt,
             RecvEffect(h, v, marked, pkt)
      PROVE  Echoes'
  <2> DEFINE y == Peer(h)
  <2>1. PICK q, m, o : q = proc'[h] /\ m = net'[h] /\ o = net'[y]
    OBVIOUS
  <2>2. y \in Hosts /\ y # h /\ Peer(y) = h /\ \A g \in Hosts : g = h \/ g = y
    BY PeerFacts
  <2>3. /\ proc'[y] = proc[y] /\ Taken(net[y], o, v) /\ IsProc(q)
        /\ pkt = Head(net[y][v]) /\ pkt \in Packet
        /\ Same(net[h], m) \/ \E k \in Packet : ProbeReply(k) /\ Put(net[h], m, 0, k)
        /\ Ignored(proc[h], q) \/ Received(proc[h], q, pkt, marked)
    BY <1>2, <2>1 DEF RecvEffect, Good
  <2>4. /\ EchoOK(proc[h], proc[y], net[y]) /\ EchoOK(proc[y], proc[h], net[h])
        /\ OnPaths(net[h]) /\ OnPaths(net[y])
    BY <2>2, PathsOf DEF Echoes
  <2>5. IsProc(proc[h]) /\ IsProc(proc[y])
    BY <2>2 DEF NetOK
  <2> HIDE DEF y
  <2>6. EchoOK(q, proc[y], o)
    BY <2>3, <2>4, <2>5, EchoHeard
  <2>7. EchoOK(proc[y], q, m)
    <3>1. marked = TRUE \/ marked = FALSE
      OBVIOUS
    <3> QED
      BY <2>3, <2>4, <2>5, <3>1, EchoCounted
  <2> QED
    BY <2>1, <2>2, <2>3, <2>6, <2>7 DEF Echoes, y
<1>3. ASSUME NEW h \in Hosts, NEW v \in VPs, LoseEffect(h, v) PROVE Echoes'
  <2> DEFINE y == Peer(h)
  <2>1. PICK m : m = net'[h]
    OBVIOUS
  <2>2. y \in Hosts /\ y # h /\ Peer(y) = h /\ \A g \in Hosts : g = h \/ g = y
    BY PeerFacts
  <2>3. Taken(net[h], m, v) /\ EchoOK(proc[y], proc[h], net[h]) /\ OnPaths(net[h])
    BY <1>3, <2>1, <2>2, PathsOf DEF LoseEffect, Echoes
  <2>4. IsProc(proc[h]) /\ IsProc(proc[y])
    BY <2>2 DEF NetOK
  <2>5. proc' = proc /\ net'[y] = net[y]
    BY <1>3, <2>2 DEF LoseEffect
  <2> HIDE DEF y
  <2>6. OnPaths(m)
    BY <2>3, TakenOnPaths
  <2>7. ASSUME NEW u \in VPs PROVE Total(Carried(m, u)) <= Total(Carried(net[h], u))
    <3>1. /\ Total(Carried(net[h], u)) \in Int
          /\ Total(Carried(m, u))
               = Total(Carried(net[h], u)) - (IF Head(net[h][v]) \in Echo(u) THEN 1 ELSE 0)
      BY <2>3, CarriedTaken, ZenonT(40)
    <3> QED
      BY <3>1
  <2>8. EchoOK(proc[y], proc[h], m)
    <3>1. \A u \in VPs : SameCounts(proc[h].ca_map[u], proc[h].ca_map[u])
      BY DEF SameCounts
    <3> QED
      BY <2>3, <2>4, <2>6, <2>7, <3>1, EchoKept
  <2> QED
    BY <2>1, <2>2, <2>5, <2>8 DEF Echoes, y
<1>4. ASSUME NEW h \in Hosts, ExpireEffect(h) PROVE Echoes'
  <2> DEFINE y == Peer(h)
  <2>1. PICK q : q = proc'[h]
    OBVIOUS
  <2>2. y \in Hosts /\ y # h /\ Peer(y) = h /\ \A g \in Hosts : g = h \/ g = y
    BY PeerFacts
  <2>3. /\ proc'[y] = proc[y] /\ net' = net /\ IsProc(q) /\ Refreshed(proc[h], q)
        /\ IsProc(proc[h]) /\ IsProc(proc[y])
    BY <1>4, <2>1, <2>2 DEF ExpireEffect, NetOK
  <2>4. /\ EchoOK(proc[h], proc[y], net[y]) /\ EchoOK(proc[y], proc[h], net[h])
        /\ OnPaths(net[h]) /\ OnPaths(net[y])
    BY <2>2, PathsOf DEF Echoes
  <2> HIDE DEF y
  <2>5. /\ \A v \in VPs : q.vp_map[v].recv_ece_cnt = proc[h].vp_map[v].recv_ece_cnt
        /\ \A v \in VPs : SameCounts(proc[h].ca_map[v], q.ca_map[v])
        /\ \A v \in VPs : SameCounts(proc[y].ca_map[v], proc[y].ca_map[v])
    BY <2>3 DEF Refreshed, SameCounts
  <2>6. EchoOK(q, proc[y], net[y])
    <3>1. \A v \in VPs : Total(Carried(net[y], v)) \in Int
      BY <2>3, <2>4, EchoTypes
    <3>2. \A v \in VPs : Total(Carried(net[y], v)) <= Total(Carried(net[y], v))
      BY <3>1
    <3> QED
      BY <2>3, <2>4, <2>5, <3>2, EchoKept
  <2>7. EchoOK(proc[y], q, net[h])
    <3>1. \A v \in VPs : Total(Carried(net[h], v)) \in Int
      BY <2>3, <2>4, EchoTypes
    <3>2. \A v \in VPs : Total(Carried(net[h], v)) <= Total(Carried(net[h], v))
      BY <3>1
    <3> QED
      BY <2>3, <2>4, <2>5, <3>2, EchoKept
  <2> QED
    BY <2>1, <2>2, <2>3, <2>6, <2>7 DEF Echoes, y
<1>5. CASE proc' = proc /\ net' = net
  BY <1>5 DEF Echoes
<1> QED
  BY <1>1, <1>2, <1>3, <1>4, <1>5, Effects

(* No mark is echoed twice, in every run.                                  *)
THEOREM EchoesAlways == Spec => []Echoes
  BY EchoesInit, EchoesNext, NetAlways, PTL DEF Spec

(* EchoOnce: the marks acted on, under way and waiting are never more than *)
(* the marks the receiver saw on the path, whatever is lost or overtaken.  *)
THEOREM EchoOnceTheorem == Spec => []EchoOnce
<1>1. NetOK /\ Echoes => EchoOnce
  <2> SUFFICES ASSUME NetOK, Echoes, NEW h \in Hosts, NEW v \in VPs
               PROVE  proc[h].vp_map[v].recv_ece_cnt
                        + Total([u \in VPs |->
                                  Count(Peer(h), u, LAMBDA k : k.vp_recn /\ k.vp_rid = v)])
                        + (IF proc[Peer(h)].ca_map[v].recv_ecn THEN 1 ELSE 0)
                        <= proc[Peer(h)].ca_map[v].recv_ecn_cnt
    BY DEF EchoOnce
  <2>1. Peer(h) \in Hosts /\ EchoOK(proc[h], proc[Peer(h)], net[Peer(h)])
    BY PeerFacts DEF Echoes
  <2>2. ASSUME NEW u \in VPs
        PROVE  Count(Peer(h), u, LAMBDA k : k.vp_recn /\ k.vp_rid = v)
                 = Hits(net[Peer(h)][u], Echo(v))
    <3>1. PICK s : s = net[Peer(h)][u]
      OBVIOUS
    <3>2. s \in Seq(Packet)
      BY <2>1, <3>1, PathSeq
    <3>3. \A i \in DOMAIN s : s[i] \in Packet
      BY <3>2
    <3>4. \A k \in Packet : k.vp_recn = TRUE \/ k.vp_recn = FALSE
      BY DEF Packet
    <3>5. \A i \in DOMAIN s : (s[i].vp_recn /\ s[i].vp_rid = v) <=> s[i] \in Echo(v)
      BY <3>3, <3>4, Zenon DEF Echo
    <3>6. {i \in DOMAIN s : s[i].vp_recn /\ s[i].vp_rid = v} = Places(s, Echo(v))
      BY <3>5, Zenon DEF Places
    <3>7. {i \in DOMAIN net[Peer(h)][u] : net[Peer(h)][u][i].vp_recn /\ net[Peer(h)][u][i].vp_rid = v}
            = Places(net[Peer(h)][u], Echo(v))
      BY <3>1, <3>6, Zenon
    <3> QED
      BY <3>7, Zenon DEF Count, Hits
  <2>3. [u \in VPs |-> Count(Peer(h), u, LAMBDA k : k.vp_recn /\ k.vp_rid = v)]
          = Carried(net[Peer(h)], v)
    BY <2>2 DEF Carried
  <2>4. (IF proc[Peer(h)].ca_map[v].recv_ecn THEN 1 ELSE 0) = Waiting(proc[Peer(h)].ca_map[v])
    <3>1. PICK b : b = proc[Peer(h)].ca_map[v].recv_ecn
      OBVIOUS
    <3>2. b = TRUE \/ b = FALSE
      BY <2>1, <3>1, RowCounts DEF NetOK
    <3> QED
      BY <3>1, <3>2 DEF Waiting
  <2>5. proc[h].vp_map[v].recv_ece_cnt + Total(Carried(net[Peer(h)], v))
          + Waiting(proc[Peer(h)].ca_map[v]) <= proc[Peer(h)].ca_map[v].recv_ecn_cnt
    BY <2>1 DEF EchoOK
  <2> QED
    BY <2>3, <2>4, <2>5
<1> QED
  BY <1>1, NetAlways, EchoesAlways, PTL

-----------------------------------------------------------------------------
(***************************************************************************)
(* Delivery in order.  The reorder buffer of h is fed by the packets that  *)
(* Peer(h) has under way.  As long as the peer is less than QUEUE_SIZE     *)
(* packets ahead of reorder_value (WithinWindow), nothing but losses keeps *)
(* the buffer from passing the packets on in the order of their numbers,   *)
(* because no packet under way has a number that was passed on, that is in *)
(* the buffer or that another packet under way has.                        *)
(***************************************************************************)

(* The member functions other than reorder() leave the buffer alone.       *)
LEMMA NewBuffer ==
  ASSUME NEW t
  PROVE  NewProcessor(t).buf = Init_PacketQueue /\ NewProcessor(t).sequence = 0
  BY DEF NewProcessor

LEMMA GetBuffer ==
  ASSUME NetOK, NEW h \in Hosts
  PROVE  /\ get_node_processor(h).buf = proc[h].buf
         /\ get_node_processor(h).sequence = proc[h].sequence
<1>1. CASE h \in node_table
  BY <1>1 DEF get_node_processor
<1>2. CASE h \notin node_table
  <2>1. get_node_processor(h) = NewProcessor(now) /\ proc[h] = NewProcessor(0)
    BY <1>2 DEF get_node_processor, NetOK
  <2> QED
    BY <2>1, NewBuffer
<1> QED
  BY <1>1, <1>2

LEMMA SendBuffer ==
  ASSUME NEW p, DOMAIN p = ProcFields, NEW t
  PROVE  send(p, t).p.buf = p.buf
<1>1. vp_next(p).p.buf = p.buf /\ DOMAIN vp_next(p).p = ProcFields
  BY DEF vp_next, ProcFields
<1>2. PICK n : n = vp_next(p)
  OBVIOUS
<1>3. ca_next(n.p).buf = p.buf /\ DOMAIN ca_next(n.p) = ProcFields
  BY <1>1, <1>2 DEF ca_next, ProcFields
<1>4. PICK x : x = ca_next(n.p)
  OBVIOUS
<1> QED
  BY <1>2, <1>3, <1>4 DEF send, ProcFields

LEMMA ExpireBuffer ==
  ASSUME NEW p, DOMAIN p = ProcFields, NEW t
  PROVE  expire(p, t).buf = p.buf
  BY DEF expire, ProcFields

LEMMA RecvReplyBuffer ==
  ASSUME NEW p, DOMAIN p = ProcFields, NEW pkt, IsReply(pkt), NEW t, NEW marked
  PROVE  recv(p, pkt, marked, t).p.buf = p.buf /\ recv(p, pkt, marked, t).out = << >>
  BY DEF recv, TakeReply, ProcFields

LEMMA RecvDataBuffer ==
  ASSUME NEW p, IsProc(p), NEW pkt \in Packet, ~ IsReply(pkt), NEW t \in Nat, NEW marked
  PROVE  /\ recv(p, pkt, marked, t).p.buf = reorder(p.buf, pkt.SN_HSN).buf
         /\ recv(p, pkt, marked, t).out = reorder(p.buf, pkt.SN_HSN).out
<1> DEFINE v == pkt.vp_id
           a == TakeResponse(p, pkt, t)
           c == ca_alloc(a, v, t)
           b == update_ca_burst(c.ca_map[v], v, pkt.burst_id, t)
           w == update_ca_response(b.row, marked)
           o == reorder(c.buf, pkt.SN_HSN)
           q == [c EXCEPT !.ca_map[v] = w, !.buf = o.buf]
           r == recv(p, pkt, marked, t)
<1>1. r = [p |-> q, reply |-> b.reply, out |-> o.out]
  BY DEF recv
<1>2. v \in VPs
  BY DEF Packet
<1>3. SenderSide(p) /\ ReceiverSide(p)
  BY Sides
<1>4. SenderSide(a) /\ \A f \in ProcFields \ Reporting : a[f] = p[f]
  BY <1>3, ResponseFacts
<1> HIDE DEF a, v
<1>5. ReceiverSide(a) /\ a.buf = p.buf
  <2>1. /\ a.ca_keys = p.ca_keys /\ a.ca_map = p.ca_map /\ a.ca_queue = p.ca_queue
        /\ a.buf = p.buf
    BY <1>4 DEF ProcFields, Reporting
  <2>2. DOMAIN a = ProcFields
    BY <1>4 DEF SenderSide
  <2> QED
    BY <1>3, <2>1, <2>2 DEF ReceiverSide
<1>6. ReceiverSide(c) /\ \A f \in ProcFields \ Receiving : c[f] = a[f]
  BY <1>2, <1>5, AllocFacts
<1> HIDE DEF c
<1>7. c.buf = p.buf /\ DOMAIN c = ProcFields
  BY <1>5, <1>6 DEF ProcFields, Receiving, ReceiverSide
<1> HIDE DEF b, w, r
<1>8. q.buf = o.buf
  BY <1>7 DEF ProcFields
<1> HIDE DEF q
<1>9. r.p.buf = o.buf /\ r.out = o.out
  BY <1>1, <1>8
<1> QED
  BY <1>7, <1>9 DEF r

-----------------------------------------------------------------------------
(* What the actions do to the buffers and to the packets delivered.        *)

Kept == delivered' = delivered /\ \A g \in Hosts : proc'[g].buf = proc[g].buf

LEMMA SendKeeps ==
  ASSUME NetOK, NEW h \in Hosts, Send(h)
  PROVE  Kept /\ proc[h].sequence < MaxSend[h]
<1> DEFINE p == get_node_processor(h)
           q == send(p, now).p
<1>1. /\ DOMAIN proc = Hosts /\ proc' = [proc EXCEPT ![h] = q]
      /\ delivered' = delivered /\ p.sequence < MaxSend[h]
  BY DEF NetOK, Send
<1>2. p.buf = proc[h].buf /\ p.sequence = proc[h].sequence
  BY GetBuffer
<1>3. DOMAIN p = ProcFields
  BY GetFacts DEF IsProc
<1> HIDE DEF p
<1>4. q.buf = p.buf
  BY <1>3, SendBuffer
<1> HIDE DEF q
<1> QED
  BY <1>1, <1>2, <1>4 DEF Kept

LEMMA ExpireKeeps ==
  ASSUME NetOK, NEW h \in Hosts, Expire(h)
  PROVE  Kept
<1>1. /\ DOMAIN proc = Hosts /\ proc' = [proc EXCEPT ![h] = expire(proc[h], now)]
      /\ delivered' = delivered /\ DOMAIN proc[h] = ProcFields
  BY DEF NetOK, Expire, IsProc
<1>2. expire(proc[h], now).buf = proc[h].buf
  BY <1>1, ExpireBuffer
<1> QED
  BY <1>1, <1>2 DEF Kept

(* Packet pkt, which reaches h, is a reply or goes through reorder().      *)
HandsOver(h, pkt) ==
  LET r == reorder(proc[h].buf, pkt.SN_HSN)
  IN  /\ \A g \in Hosts : g # h => delivered'[g] = delivered[g]
      /\ DOMAIN delivered' = Hosts
      /\ \/ IsReply(pkt) /\ proc'[h].buf = proc[h].buf /\ delivered'[h] = delivered[h] \o << >>
         \/ /\ ~ IsReply(pkt)
            /\ proc'[h].buf = r.buf /\ delivered'[h] = delivered[h] \o r.out

LEMMA RecvHandsOver ==
  ASSUME NetOK, DOMAIN delivered = Hosts, NEW h \in Hosts, NEW v \in VPs, NEW marked,
         Recv(h, v, marked), NEW pkt \in Packet, pkt = Head(net[Peer(h)][v])
  PROVE  HandsOver(h, pkt)
<1> DEFINE p == get_node_processor(h)
           r == recv(p, pkt, marked, now)
<1>1. now \in Nat /\ DOMAIN proc = Hosts
  BY DEF NetOK
<1>2. /\ proc' = [proc EXCEPT ![h] = r.p]
      /\ delivered' = [delivered EXCEPT ![h] = @ \o r.out]
  BY DEF Recv
<1>3. p.buf = proc[h].buf
  BY GetBuffer
<1>4. IsProc(p)
  BY GetFacts
<1> HIDE DEF p
<1>5. IsReply(pkt) => r.p.buf = p.buf /\ r.out = << >>
  BY <1>4, RecvReplyBuffer DEF IsProc
<1>6. ~ IsReply(pkt) => /\ r.p.buf = reorder(p.buf, pkt.SN_HSN).buf
                        /\ r.out = reorder(p.buf, pkt.SN_HSN).out
  BY <1>1, <1>4, RecvDataBuffer
<1> HIDE DEF r
<1>7. /\ proc'[h] = r.p /\ delivered'[h] = delivered[h] \o r.out
      /\ DOMAIN delivered' = Hosts
      /\ \A g \in Hosts : g # h => delivered'[g] = delivered[g]
  BY <1>1, <1>2
<1> QED
  BY <1>3, <1>5, <1>6, <1>7 DEF HandsOver

-----------------------------------------------------------------------------
(* The packets under way, and the buffer they are for.                     *)

(* No sequence number is under way twice.  (Probe replies have none.)      *)
Unique(n) ==
  \A v, w \in VPs : \A i \in DOMAIN n[v], j \in DOMAIN n[w] :
    n[v][i].SN_HSN > 0 /\ n[v][i].SN_HSN = n[w][j].SN_HSN => v = w /\ i = j

LEMMA UniquePut ==
  ASSUME NEW n, NEW m, NEW u \in VPs, NEW k \in Packet, Put(n, m, u, k),
         \A v \in VPs : n[v] \in Seq(Packet), Unique(n),
         k.SN_HSN > 0 => \A x \in Flying(n) : x.SN_HSN # k.SN_HSN
  PROVE  Unique(m)
<1> DEFINE end == Len(n[u]) + 1
<1>1. /\ Len(n[u]) \in Nat /\ DOMAIN n[u] = 1 .. Len(n[u])
      /\ m[u] = Append(n[u], k) /\ n[u] \in Seq(Packet)
  BY DEF Put
<1>2. /\ DOMAIN m[u] = DOMAIN n[u] \cup {end} /\ m[u][end] = k /\ end \notin DOMAIN n[u]
      /\ \A i \in DOMAIN n[u] : m[u][i] = n[u][i]
  BY <1>1
<1>3. \A v \in VPs : v # u => m[v] = n[v]
  BY DEF Put
<1> HIDE DEF end
<1>4. ASSUME NEW v \in VPs, NEW i \in DOMAIN m[v]
      PROVE  \/ v = u /\ i = end /\ m[v][i] = k
             \/ i \in DOMAIN n[v] /\ m[v][i] = n[v][i] /\ n[v][i] \in Flying(n)
  <2>1. CASE v # u
    BY <1>3, <1>4, <2>1 DEF Flying
  <2>2. CASE v = u
    BY <1>2, <1>4, <2>2 DEF Flying
  <2> QED
    BY <2>1, <2>2
<1> SUFFICES ASSUME NEW v \in VPs, NEW w \in VPs,
                    NEW i \in DOMAIN m[v], NEW j \in DOMAIN m[w],
                    m[v][i].SN_HSN > 0, m[v][i].SN_HSN = m[w][j].SN_HSN
             PROVE  v = w /\ i = j
  BY DEF Unique
<1>5. CASE v = u /\ i = end /\ m[v][i] = k
  BY <1>4, <1>5
<1>6. CASE w = u /\ j = end /\ m[w][j] = k
  BY <1>4, <1>6
<1>7. CASE /\ i \in DOMAIN n[v] /\ m[v][i] = n[v][i]
           /\ j \in DOMAIN n[w] /\ m[w][j] = n[w][j]
  BY <1>7 DEF Unique
<1> QED
  BY <1>4, <1>5, <1>6, <1>7

LEMMA UniqueTaken ==
  ASSUME NEW n, NEW m, NEW u \in VPs, Taken(n, m, u), n[u] \in Seq(Packet), Unique(n)
  PROVE  /\ Unique(m)
         /\ Head(n[u]).SN_HSN > 0 =>
              \A x \in Flying(m) : x.SN_HSN # Head(n[u]).SN_HSN
<1>1. /\ Len(n[u]) \in Nat \ {0} /\ DOMAIN n[u] = 1 .. Len(n[u]) /\ m[u] = Tail(n[u])
      /\ Head(n[u]) = n[u][1] /\ 1 \in DOMAIN n[u]
  BY DEF Taken
<1>2. \A i \in DOMAIN m[u] : /\ i + 1 \in DOMAIN n[u] /\ m[u][i] = n[u][i + 1]
                             /\ i \in Nat \ {0}
  BY <1>1
<1>3. \A v \in VPs : v # u => m[v] = n[v]
  BY DEF Taken
<1>4. ASSUME NEW v \in VPs, NEW i \in DOMAIN m[v]
      PROVE  \/ v = u /\ i \in Nat \ {0} /\ i + 1 \in DOMAIN n[v] /\ m[v][i] = n[v][i + 1]
             \/ v # u /\ i \in DOMAIN n[v] /\ m[v][i] = n[v][i]
  BY <1>2, <1>3, <1>4
<1>5. Unique(m)
  <2> SUFFICES ASSUME NEW v \in VPs, NEW w \in VPs,
                      NEW i \in DOMAIN m[v], NEW j \in DOMAIN m[w],
                      m[v][i].SN_HSN > 0, m[v][i].SN_HSN = m[w][j].SN_HSN
               PROVE  v = w /\ i = j
    BY DEF Unique
  <2>1. CASE v = u /\ w = u
    <3>1. /\ i + 1 \in DOMAIN n[v] /\ m[v][i] = n[v][i + 1] /\ i \in Nat
          /\ j + 1 \in DOMAIN n[w] /\ m[w][j] = n[w][j + 1] /\ j \in Nat
      BY <1>2, <2>1
    <3>2. i + 1 = j + 1
      BY <3>1 DEF Unique
    <3> QED
      BY <2>1, <3>1, <3>2
  <2>2. CASE v # u /\ w # u
    BY <1>4, <2>2 DEF Unique
  <2>3. CASE v = u /\ w # u
    BY <1>4, <2>3 DEF Unique
  <2>4. CASE v # u /\ w = u
    BY <1>4, <2>4 DEF Unique
  <2> QED
    BY <2>1, <2>2, <2>3, <2>4
<1>6. ASSUME Head(n[u]).SN_HSN > 0, NEW x \in Flying(m), x.SN_HSN = Head(n[u]).SN_HSN
      PROVE  FALSE
  <2>1. PICK v \in VPs : \E i \in DOMAIN m[v] : x = m[v][i]
    BY <1>6 DEF Flying
  <2>2. PICK i \in DOMAIN m[v] : x = m[v][i]
    BY <2>1
  <2>3. CASE v = u
    <3>1. i + 1 \in DOMAIN n[u] /\ x = n[u][i + 1] /\ i \in Nat \ {0}
      BY <1>2, <2>2, <2>3
    <3>2. 1 = i + 1
      BY <1>1, <1>6, <3>1 DEF Unique
    <3> QED
      BY <3>1, <3>2
  <2>4. CASE v # u
    BY <1>1, <1>4, <1>6, <2>2, <2>4 DEF Unique
  <2> QED
    BY <2>3, <2>4
<1> QED
  BY <1>5, <1>6

LEMMA FlyingPackets ==
  ASSUME NEW n, \A v \in VPs : n[v] \in Seq(Packet)
  PROVE  \A x \in Flying(n) : x \in Packet /\ x.SN_HSN \in Nat
<1> TAKE x \in Flying(n)
<1>1. PICK v \in VPs : \E i \in DOMAIN n[v] : x = n[v][i]
  BY DEF Flying
<1>2. x \in Packet
  BY <1>1
<1> QED
  BY <1>2 DEF Packet

(* The receiver's buffer b and history d, when the sender has numbered its *)
(* packets up to N and has the paths n.                                    *)
Delivery(N, b, n, d) ==
  /\ BufType(b, N) /\ Settled(b)
  /\ d = [i \in 1 .. b.value - 1 |-> i]
  /\ Unique(n)
  /\ \A x \in Flying(n) : x.SN_HSN > 0 =>
       x.SN_HSN >= b.value /\ x.SN_HSN <= N /\ x.SN_HSN \notin Buffered(b.slot)

LEMMA DeliveryStart ==
  ASSUME NEW n, \A v \in VPs : n[v] = << >>
  PROVE  Delivery(0, Init_PacketQueue, n, << >>)
<1> DEFINE b == Init_PacketQueue
<1>1. b = [value |-> 1, slot |-> [k \in Slots |-> NoPkt]]
  BY DEF Init_PacketQueue
<1>2. BufType(b, 0) /\ Settled(b)
  BY <1>1 DEF BufType, Settled, IsPkt
<1>3. b.value - 1 = 0 /\ << >> = [i \in 1 .. 0 |-> i]
  BY <1>1
<1>4. Flying(n) = {}
  BY DEF Flying
<1>5. Unique(n)
  BY DEF Unique
<1> HIDE DEF b
<1> QED
  BY <1>2, <1>3, <1>4, <1>5 DEF Delivery, b

(* The sender numbers another packet.                                      *)
LEMMA DeliverySend ==
  ASSUME NEW N \in Nat, NEW b, NEW n, NEW m, NEW d, NEW u \in VPs, NEW k \in Packet,
         Delivery(N, b, n, d), k.SN_HSN = N + 1, Put(n, m, u, k),
         \A v \in VPs : n[v] \in Seq(Packet)
  PROVE  Delivery(N + 1, b, m, d)
<1>1. /\ BufType(b, N) /\ Settled(b) /\ Unique(n)
      /\ d = [i \in 1 .. b.value - 1 |-> i]
      /\ \A x \in Flying(n) : x.SN_HSN > 0 =>
           x.SN_HSN >= b.value /\ x.SN_HSN <= N /\ x.SN_HSN \notin Buffered(b.slot)
  BY DEF Delivery
<1>2. /\ b.value \in 1 .. N + 1
      /\ \A j \in Slots : b.slot[j] \in {NoPkt} \cup 1 .. N
      /\ b \in [value : 1 .. N + 1, slot : [Slots -> {NoPkt} \cup 1 .. N]]
  BY <1>1 DEF BufType
<1>3. BufType(b, N + 1)
  <2>1. 1 .. N + 1 \subseteq 1 .. N + 1 + 1 /\ {NoPkt} \cup 1 .. N \subseteq {NoPkt} \cup 1 .. N + 1
    OBVIOUS
  <2> QED
    BY <1>2, <2>1 DEF BufType
<1>4. N + 1 \notin Buffered(b.slot)
  BY <1>2 DEF Buffered
<1>5. \A x \in Flying(m) : x \in Flying(n) \/ x = k
  BY FlyingPut
<1>6. \A x \in Flying(n) : x.SN_HSN # k.SN_HSN
  BY <1>1
<1>7. Unique(m)
  BY <1>1, <1>6, UniquePut
<1>8. ASSUME NEW x \in Flying(m), x.SN_HSN > 0
      PROVE  x.SN_HSN >= b.value /\ x.SN_HSN <= N + 1 /\ x.SN_HSN \notin Buffered(b.slot)
  <2>1. CASE x \in Flying(n)
    <3>1. x.SN_HSN >= b.value /\ x.SN_HSN <= N /\ x.SN_HSN \notin Buffered(b.slot)
      BY <1>1, <1>8, <2>1
    <3>2. x.SN_HSN \in Nat
      BY <2>1, FlyingPackets
    <3> QED
      BY <3>1, <3>2
  <2>2. CASE x = k
    BY <1>2, <1>4, <2>2
  <2> QED
    BY <1>5, <1>8, <2>1, <2>2
<1> QED
  BY <1>1, <1>3, <1>7, <1>8 DEF Delivery

(* A probe reply is sent; a packet is lost, or a reply arrives.            *)
LEMMA DeliveryKept ==
  ASSUME NEW N, NEW b, NEW n, NEW m, NEW d, Delivery(N, b, n, d), Unique(m),
         \A x \in Flying(m) : x \in Flying(n) \/ x.SN_HSN = 0
  PROVE  Delivery(N, b, m, d)
<1>1. ~ (0 > 0)
  OBVIOUS
<1> QED
  BY <1>1 DEF Delivery

(* What reorder(b, s) returns, when s fits into the buffer.                *)
Arriving(N, b, s) ==
  /\ N \in Nat /\ N < WORD - QUEUE_SIZE /\ N - b.value < QUEUE_SIZE
  /\ BufType(b, N) /\ Settled(b)
  /\ s \in 1 .. N /\ s >= b.value /\ s \notin Buffered(b.slot)

Accepted(N, b, s, r) ==
  /\ BufType(r.buf, N) /\ Settled(r.buf)
  /\ Buffered(r.buf.slot) \subseteq Buffered(b.slot) \cup {s}
  /\ \E c \in Nat : /\ r.buf.value = b.value + c
                    /\ r.out = [i \in 1 .. c |-> b.value + i - 1]
                    /\ \A i \in 0 .. c - 1 : b.value + i \in Buffered(b.slot) \cup {s}

LEMMA ArriveAccepted ==
  ASSUME NEW N, NEW b, NEW s, Arriving(N, b, s)
  PROVE  Accepted(N, b, s, reorder(b, s))
<1> DEFINE r == reorder(b, s)
<1>1. /\ N \in Nat /\ N < WORD - QUEUE_SIZE /\ N - b.value < QUEUE_SIZE
      /\ BufType(b, N) /\ Settled(b)
      /\ s \in 1 .. N /\ s >= b.value /\ s \notin Buffered(b.slot)
  BY DEF Arriving
<1>2. b.value \in 1 .. N + 1 /\ QUEUE_SIZE \in Nat \ {0}
  BY <1>1, QueueSizeAssumption DEF BufType
<1>3. s - b.value \in Slots
  BY <1>1, <1>2 DEF Slots
<1>4. /\ r.leak = {} /\ BufType(r.buf, N) /\ Settled(r.buf)
      /\ Buffered(r.buf.slot) \subseteq Buffered(b.slot) \cup {s}
  BY <1>1, ReorderSettles
<1>5. \E c \in Nat :
        /\ r.buf.value = b.value + c
        /\ r.out = [i \in 1 .. c |-> b.value + i - 1]
        /\ \A i \in 0 .. c - 1 : b.value + i \in Buffered(b.slot) \cup {s}
  BY <1>1, <1>3, ReorderInWindow
<1> HIDE DEF r
<1>6. Accepted(N, b, s, r)
  BY <1>4, <1>5 DEF Accepted
<1> QED
  BY <1>6 DEF r

(* A data packet of number s arrives, the first on path u of n, and the    *)
(* next packets are passed on.                                             *)
Arrives(N, b, n, m, u, s, d) ==
  /\ N \in Nat /\ N < WORD - QUEUE_SIZE /\ N - b.value < QUEUE_SIZE
  /\ Delivery(N, b, n, d) /\ u \in VPs /\ Taken(n, m, u)
  /\ \A v \in VPs : n[v] \in Seq(Packet)
  /\ s \in Nat \ {0} /\ Head(n[u]).SN_HSN = s

PassesOn(N, b, m, d, r) ==
  /\ Delivery(N, r.buf, m, d \o r.out)
  /\ \E c \in Nat : /\ r.out = [i \in 1 .. c |-> b.value + i - 1]
                    /\ r.buf.value = b.value + c

LEMMA ArrivalPassesOn ==
  ASSUME NEW N, NEW b, NEW n, NEW m, NEW d, NEW u, NEW s, Arrives(N, b, n, m, u, s, d),
         NEW r, r = reorder(b, s)
  PROVE  PassesOn(N, b, m, d, r)
<1>0. /\ N \in Nat /\ N < WORD - QUEUE_SIZE /\ N - b.value < QUEUE_SIZE
      /\ Delivery(N, b, n, d) /\ u \in VPs /\ Taken(n, m, u)
      /\ \A v \in VPs : n[v] \in Seq(Packet)
      /\ s \in Nat \ {0} /\ Head(n[u]).SN_HSN = s
  BY DEF Arrives
<1>1. /\ BufType(b, N) /\ Settled(b) /\ Unique(n)
      /\ d = [i \in 1 .. b.value - 1 |-> i]
      /\ \A x \in Flying(n) : x.SN_HSN > 0 =>
           x.SN_HSN >= b.value /\ x.SN_HSN <= N /\ x.SN_HSN \notin Buffered(b.slot)
  BY <1>0 DEF Delivery
<1>2. Head(n[u]) \in Flying(n)
  <2>1. 1 \in DOMAIN n[u] /\ Head(n[u]) = n[u][1]
    BY <1>0 DEF Taken
  <2> QED
    BY <1>0, <2>1 DEF Flying
<1>3. s >= b.value /\ s <= N /\ s \notin Buffered(b.slot)
  BY <1>0, <1>1, <1>2
<1>4. b.value \in 1 .. N + 1
  BY <1>0, <1>1 DEF BufType
<1>5. Arriving(N, b, s)
  BY <1>0, <1>1, <1>3 DEF Arriving
<1>6. Accepted(N, b, s, r)
  BY <1>5, ArriveAccepted
<1>7. PICK c \in Nat :
        /\ r.buf.value = b.value + c
        /\ r.out = [i \in 1 .. c |-> b.value + i - 1]
        /\ \A i \in 0 .. c - 1 : b.value + i \in Buffered(b.slot) \cup {s}
  BY <1>6 DEF Accepted
<1>8. d \o r.out = [i \in 1 .. r.buf.value - 1 |-> i]
  <2>1. PICK a \in Nat : b.value = a + 1
    <3>1. b.value - 1 \in Nat /\ b.value = b.value - 1 + 1
      BY <1>4
    <3> QED
      BY <3>1
  <2>2. b.value - 1 = a
    BY <2>1
  <2>3. r.buf.value - 1 = a + c
    <3>1. r.buf.value = a + 1 + c
      BY <1>7, <2>1
    <3> QED
      BY <3>1
  <2>4. d = [i \in 1 .. a |-> i] /\ r.out = [i \in 1 .. c |-> a + 1 + i - 1]
    BY <1>1, <1>7, <2>1, <2>2
  <2>5. [i \in 1 .. a |-> i] \o [i \in 1 .. c |-> a + 1 + i - 1] = [i \in 1 .. a + c |-> i]
    BY CountOn
  <2> QED
    BY <2>3, <2>4, <2>5
<1>9. Unique(m) /\ \A x \in Flying(m) : x.SN_HSN # s
  BY <1>0, <1>1, UniqueTaken
<1>10. ASSUME NEW x \in Flying(m), x.SN_HSN > 0
       PROVE  x.SN_HSN >= r.buf.value /\ x.SN_HSN <= N /\ x.SN_HSN \notin Buffered(r.buf.slot)
  <2>1. x \in Flying(n)
    BY <1>0, <1>10, FlyingTaken
  <2>2. PICK y : y = x.SN_HSN
    OBVIOUS
  <2>3. y >= b.value /\ y <= N /\ y \notin Buffered(b.slot) /\ y # s
    BY <1>1, <1>9, <1>10, <2>1, <2>2
  <2>4. y \in Nat
    BY <1>0, <2>1, <2>2, FlyingPackets
  <2>5. ~ (y < b.value + c)
    <3> SUFFICES ASSUME y < b.value + c PROVE FALSE
      OBVIOUS
    <3>1. PICK z \in Nat : z = b.value
      BY <1>4
    <3>2. y - z \in 0 .. c - 1 /\ z + (y - z) = y
      BY <2>3, <2>4, <3>1
    <3>3. z + (y - z) \in Buffered(b.slot) \cup {s}
      BY <1>7, <3>1, <3>2
    <3> QED
      BY <2>3, <3>2, <3>3
  <2> QED
    BY <1>0, <1>4, <1>6, <1>7, <2>2, <2>3, <2>4, <2>5 DEF Accepted
<1>11. Delivery(N, r.buf, m, d \o r.out)
  BY <1>6, <1>8, <1>9, <1>10 DEF Delivery, Accepted
<1> QED
  BY <1>7, <1>11 DEF PassesOn

-----------------------------------------------------------------------------
(* The invariant: what every host has received, and what is under way.     *)

(* The peer is less than QUEUE_SIZE packets ahead of what h passed on.     *)
WithinWindow == \A h \in Hosts : proc[Peer(h)].sequence - proc[h].buf.value < QUEUE_SIZE

Incoming(h) == Delivery(proc[Peer(h)].sequence, proc[h].buf, net[Peer(h)], delivered[h])

Deliveries ==
  /\ DOMAIN delivered = Hosts
  /\ \A h \in Hosts : proc[h].sequence <= MaxSend[h]
  /\ \A h \in Hosts : Incoming(h)

(* What a step does to the traffic towards h: nothing that can be seen,    *)
(* another packet of the peer, or the next c packets for the node.         *)
Progress(h) ==
  LET y == Peer(h) IN
  \/ proc'[y].sequence = proc[y].sequence /\ delivered'[h] = delivered[h]
  \/ /\ proc'[y].sequence = proc[y].sequence + 1 /\ proc[y].sequence < MaxSend[y]
     /\ delivered'[h] = delivered[h]
  \/ /\ proc'[y].sequence = proc[y].sequence
     /\ \E c \in Nat :
          /\ delivered'[h] = delivered[h] \o [i \in 1 .. c |-> proc[h].buf.value + i - 1]
          /\ proc'[h].buf.value = proc[h].buf.value + c

(* Every step keeps the invariant and is one of those.                     *)
Proceeds == Deliveries' /\ \A h \in Hosts : Progress(h)

LEMMA Proceeding ==
  ASSUME DOMAIN delivered' = Hosts, NEW h \in Hosts, NEW y \in Hosts, Peer(h) = y,
         proc'[h].sequence <= MaxSend[h], proc'[y].sequence <= MaxSend[y],
         Incoming(h)', Incoming(y)', Progress(h), Progress(y)
  PROVE  Proceeds
<1>1. \A g \in Hosts : g = h \/ g = y
  BY PeerFacts
<1> QED
  BY <1>1 DEF Proceeds, Deliveries

LEMMA DeliveriesInit == Init => Deliveries
<1> SUFFICES ASSUME Init PROVE Deliveries
  OBVIOUS
<1>1. DOMAIN delivered = Hosts
  BY DEF Init
<1>2. ASSUME NEW h \in Hosts PROVE proc[h].sequence = 0 /\ proc[h].buf = Init_PacketQueue
  BY <1>2, NewBuffer DEF Init
<1>3. ASSUME NEW h \in Hosts PROVE proc[h].sequence <= MaxSend[h]
  BY <1>2, BoundsAssumption
<1>4. ASSUME NEW h \in Hosts PROVE Incoming(h)
  <2>1. Peer(h) \in Hosts
    BY PeerFacts
  <2>2. PICK n : n = net[Peer(h)]
    OBVIOUS
  <2>3. delivered[h] = << >> /\ \A v \in VPs : n[v] = << >>
    BY <2>1, <2>2 DEF Init
  <2>4. Delivery(0, Init_PacketQueue, n, << >>)
    BY <2>3, DeliveryStart
  <2> QED
    BY <1>2, <2>1, <2>2, <2>3, <2>4 DEF Incoming
<1> QED
  BY <1>1, <1>3, <1>4 DEF Deliveries

LEMMA SendDelivers ==
  ASSUME NetOK, Deliveries, NEW h \in Hosts, Send(h)
  PROVE  Proceeds
<1>1. PICK y \in Hosts : Peer(h) = y /\ y # h /\ Peer(y) = h
  BY PeerFacts
<1>2. PICK k : SendEffect(h, k)
  BY SendStep
<1>3. PICK q, m : q = proc'[h] /\ m = net'[h]
  OBVIOUS
<1>4. /\ k \in Packet /\ k.vp_id \in VPs /\ k.SN_HSN = proc[h].sequence + 1
      /\ q.sequence = proc[h].sequence + 1
      /\ Put(net[h], m, k.vp_id, k)
      /\ proc'[y] = proc[y] /\ net'[y] = net[y]
  BY <1>1, <1>2, <1>3 DEF SendEffect, Sent, Packet
<1>5. /\ delivered' = delivered /\ proc'[h].buf = proc[h].buf /\ proc'[y].buf = proc[y].buf
      /\ proc[h].sequence < MaxSend[h]
  BY SendKeeps DEF Kept
<1>6. /\ Delivery(proc[y].sequence, proc[h].buf, net[y], delivered[h])
      /\ Delivery(proc[h].sequence, proc[y].buf, net[h], delivered[y])
      /\ DOMAIN delivered = Hosts
      /\ proc[h].sequence <= MaxSend[h] /\ proc[y].sequence <= MaxSend[y]
  BY <1>1 DEF Deliveries, Incoming
<1>7. proc[h].sequence \in Nat /\ MaxSend[h] \in Nat
  BY BoundsAssumption DEF NetOK, IsProc
<1>8. Incoming(h)'
  BY <1>1, <1>4, <1>5, <1>6 DEF Incoming
<1>9. Incoming(y)'
  <2>1. \A v \in VPs : net[h][v] \in Seq(Packet)
    BY PathSeq
  <2>2. Delivery(proc[h].sequence + 1, proc[y].buf, m, delivered[y])
    BY <1>4, <1>6, <1>7, <2>1, DeliverySend
  <2> QED
    BY <1>1, <1>3, <1>4, <1>5, <2>2 DEF Incoming
<1>10. Progress(h) /\ Progress(y)
  BY <1>1, <1>3, <1>4, <1>5 DEF Progress
<1>11. proc'[h].sequence <= MaxSend[h] /\ proc'[y].sequence <= MaxSend[y]
  BY <1>3, <1>4, <1>5, <1>6, <1>7
<1> QED
  BY <1>1, <1>5, <1>6, <1>8, <1>9, <1>10, <1>11, Proceeding

LEMMA LoseDelivers ==
  ASSUME NetOK, Deliveries, NEW h \in Hosts, NEW v \in VPs, Lose(h, v)
  PROVE  Proceeds
<1>1. PICK y \in Hosts : Peer(h) = y /\ y # h /\ Peer(y) = h
  BY PeerFacts
<1>2. PICK m : m = net'[h]
  OBVIOUS
<1>3. Taken(net[h], m, v) /\ proc' = proc /\ net'[y] = net[y]
  BY <1>1, <1>2, LoseStep DEF LoseEffect
<1>4. delivered' = delivered
  BY DEF Lose
<1>5. /\ Delivery(proc[y].sequence, proc[h].buf, net[y], delivered[h])
      /\ Delivery(proc[h].sequence, proc[y].buf, net[h], delivered[y])
      /\ DOMAIN delivered = Hosts
      /\ proc[h].sequence <= MaxSend[h] /\ proc[y].sequence <= MaxSend[y]
  BY <1>1 DEF Deliveries, Incoming
<1>6. Incoming(h)'
  BY <1>1, <1>3, <1>4, <1>5 DEF Incoming
<1>7. Incoming(y)'
  <2>1. net[h][v] \in Seq(Packet)
    BY PathSeq
  <2>2. Unique(net[h])
    BY <1>5 DEF Delivery
  <2>3. Unique(m)
    BY <1>3, <2>1, <2>2, UniqueTaken
  <2>4. \A x \in Flying(m) : x \in Flying(net[h])
    BY <1>3, <2>1, FlyingTaken
  <2>5. Delivery(proc[h].sequence, proc[y].buf, m, delivered[y])
    BY <1>5, <2>3, <2>4, DeliveryKept
  <2> QED
    BY <1>1, <1>2, <1>3, <1>4, <2>5 DEF Incoming
<1>8. Progress(h) /\ Progress(y)
  BY <1>1, <1>3, <1>4 DEF Progress
<1> QED
  BY <1>1, <1>3, <1>4, <1>5, <1>6, <1>7, <1>8, Proceeding

LEMMA ExpireDelivers ==
  ASSUME NetOK, Deliveries, NEW h \in Hosts, Expire(h)
  PROVE  Proceeds
<1>1. PICK y \in Hosts : Peer(h) = y /\ y # h /\ Peer(y) = h
  BY PeerFacts
<1>2. /\ net' = net /\ proc'[h].sequence = proc[h].sequence /\ proc'[y] = proc[y]
  BY <1>1, ExpireStep DEF ExpireEffect, Refreshed
<1>3. delivered' = delivered /\ proc'[h].buf = proc[h].buf
  BY ExpireKeeps DEF Kept
<1>4. /\ Incoming(h) /\ Incoming(y) /\ DOMAIN delivered = Hosts
      /\ proc[h].sequence <= MaxSend[h] /\ proc[y].sequence <= MaxSend[y]
  BY <1>1 DEF Deliveries
<1>5. Incoming(h)' /\ Incoming(y)'
  BY <1>1, <1>2, <1>3, <1>4 DEF Incoming
<1>6. Progress(h) /\ Progress(y)
  BY <1>1, <1>2, <1>3 DEF Progress
<1> QED
  BY <1>1, <1>2, <1>3, <1>4, <1>5, <1>6, Proceeding

(* The other direction: at most a probe reply, which has no number.        *)
LEMMA DeliveryReply ==
  ASSUME NEW N, NEW b, NEW n, NEW m, NEW d, Delivery(N, b, n, d),
         \A v \in VPs : n[v] \in Seq(Packet),
         Same(n, m) \/ \E k \in Packet : ProbeReply(k) /\ Put(n, m, 0, k)
  PROVE  Delivery(N, b, m, d)
<1>1. Unique(n)
  BY DEF Delivery
<1>2. CASE Same(n, m)
  <2>1. Unique(m)
    BY <1>1, <1>2 DEF Unique, Same
  <2>2. \A x \in Flying(m) : x \in Flying(n)
    BY <1>2, FlyingSame
  <2> QED
    BY <2>1, <2>2, DeliveryKept
<1>3. CASE \E k \in Packet : ProbeReply(k) /\ Put(n, m, 0, k)
  <2>1. PICK k \in Packet : ProbeReply(k) /\ Put(n, m, 0, k)
    BY <1>3
  <2>2. k.SN_HSN = 0 /\ 0 \in VPs /\ ~ (0 > 0)
    BY <2>1, PathFacts DEF ProbeReply
  <2>3. Unique(m)
    BY <1>1, <2>1, <2>2, UniquePut
  <2>4. \A x \in Flying(m) : x \in Flying(n) \/ x = k
    BY <2>1, <2>2, FlyingPut
  <2> QED
    BY <2>2, <2>3, <2>4, DeliveryKept
<1> QED
  BY <1>2, <1>3

LEMMA RecvDelivers ==
  ASSUME \A g \in Hosts : MaxSend[g] < WORD - QUEUE_SIZE,
         NetOK, WithinWindow, Deliveries, NEW h \in Hosts, NEW v \in VPs,
         NEW marked, marked = TRUE \/ marked = FALSE, Recv(h, v, marked)
  PROVE  Proceeds
<1>1. PICK y \in Hosts : Peer(h) = y /\ y # h /\ Peer(y) = h
  BY PeerFacts
<1>2. PICK pkt : RecvEffect(h, v, marked, pkt)
  BY RecvStep
<1>3. PICK q, m, o : q = proc'[h] /\ m = net'[h] /\ o = net'[y]
  OBVIOUS
<1>4. /\ Head(net[y][v]) = pkt /\ pkt \in Good(proc[y], v) /\ Taken(net[y], o, v)
      /\ Same(net[h], m) \/ \E k \in Packet : ProbeReply(k) /\ Put(net[h], m, 0, k)
      /\ proc'[y] = proc[y] /\ q.sequence = proc[h].sequence
  BY <1>1, <1>2, <1>3 DEF RecvEffect, Ignored, Received
<1>5. pkt \in Packet /\ (ProbeReply(pkt) \/ (pkt.SN_HSN >= 1 /\ pkt.burst_rate = 0))
  BY <1>4 DEF Good, Fits
<1>6. /\ Delivery(proc[y].sequence, proc[h].buf, net[y], delivered[h])
      /\ Delivery(proc[h].sequence, proc[y].buf, net[h], delivered[y])
      /\ DOMAIN delivered = Hosts
      /\ proc[h].sequence <= MaxSend[h] /\ proc[y].sequence <= MaxSend[y]
  BY <1>1 DEF Deliveries, Incoming
<1>7. HandsOver(h, pkt)
  BY <1>1, <1>4, <1>5, <1>6, RecvHandsOver
<1>8. PICK N \in Nat : proc[y].sequence = N
  BY DEF NetOK, IsProc
<1>9. PICK b, n, d, c : /\ proc[h].buf = b /\ net[y] = n /\ delivered[h] = d
                        /\ proc'[h].buf = c
  OBVIOUS
<1>10. /\ Delivery(N, b, n, d) /\ Taken(n, o, v) /\ Head(n[v]) = pkt
       /\ \A u \in VPs : n[u] \in Seq(Packet)
       /\ N - b.value < QUEUE_SIZE /\ N < WORD - QUEUE_SIZE
  <2>1. N - b.value < QUEUE_SIZE
    BY <1>1, <1>8, <1>9 DEF WithinWindow
  <2>2. N < WORD - QUEUE_SIZE
    BY <1>6, <1>8, QueueSizeAssumption, BoundsAssumption, WordAssumption
  <2> QED
    BY <1>4, <1>6, <1>8, <1>9, <2>1, <2>2, PathSeq
<1>11. /\ Delivery(N, c, o, delivered'[h])
       /\ \/ delivered'[h] = d
          \/ \E j \in Nat : /\ delivered'[h] = d \o [i \in 1 .. j |-> b.value + i - 1]
                            /\ c.value = b.value + j
  <2>1. CASE IsReply(pkt)
    <3>1. delivered'[h] = d \o << >> /\ c = b
      BY <1>7, <1>9, <2>1 DEF HandsOver
    <3>2. delivered'[h] = d
      <4>1. PICK a \in Int : a = b.value - 1
        BY <1>10 DEF Delivery, BufType
      <4>2. d = [i \in 1 .. a |-> i]
        BY <1>10, <4>1 DEF Delivery
      <4>3. d \in Seq(Int)
        BY <4>1, <4>2
      <4> QED
        BY <3>1, <4>3
    <3>3. Unique(n) /\ n[v] \in Seq(Packet)
      BY <1>10 DEF Delivery
    <3>4. Unique(o)
      BY <1>10, <3>3, UniqueTaken
    <3>5. \A x \in Flying(o) : x \in Flying(n)
      BY <1>10, <3>3, FlyingTaken
    <3>6. Delivery(N, b, o, d)
      BY <1>10, <3>4, <3>5, DeliveryKept
    <3> QED
      BY <3>1, <3>2, <3>6
  <2>2. CASE ~ IsReply(pkt)
    <3>1. PICK s \in Nat \ {0} : pkt.SN_HSN = s
      <4>1. ~ ProbeReply(pkt)
        BY <2>2 DEF ProbeReply, IsReply
      <4> QED
        BY <1>5, <4>1 DEF Packet
    <3>2. PICK r : r = reorder(b, s)
      OBVIOUS
    <3>3. c = r.buf /\ delivered'[h] = d \o r.out
      BY <1>7, <1>9, <2>2, <3>1, <3>2 DEF HandsOver
    <3>4. Head(n[v]).SN_HSN = s
      BY <1>10, <3>1
    <3>5. Arrives(N, b, n, o, v, s, d)
      BY <1>10, <3>4 DEF Arrives
    <3>6. PassesOn(N, b, o, d, r)
      BY <3>2, <3>5, ArrivalPassesOn
    <3> QED
      BY <3>3, <3>6 DEF PassesOn
  <2> QED
    BY <2>1, <2>2
<1>12. Incoming(h)'
  BY <1>1, <1>3, <1>4, <1>8, <1>9, <1>11 DEF Incoming
<1>13. delivered'[y] = delivered[y] /\ proc'[y].buf = proc[y].buf /\ DOMAIN delivered' = Hosts
  BY <1>1, <1>4, <1>7 DEF HandsOver
<1>14. Incoming(y)'
  <2>1. \A u \in VPs : net[h][u] \in Seq(Packet)
    BY PathSeq
  <2>2. Delivery(proc[h].sequence, proc[y].buf, m, delivered[y])
    BY <1>4, <1>6, <2>1, DeliveryReply
  <2> QED
    BY <1>1, <1>3, <1>4, <1>13, <2>2 DEF Incoming
<1>15. Progress(h)
  BY <1>1, <1>4, <1>9, <1>11 DEF Progress
<1>16. Progress(y)
  BY <1>1, <1>3, <1>4, <1>13 DEF Progress
<1>17. proc'[h].sequence <= MaxSend[h] /\ proc'[y].sequence <= MaxSend[y]
  BY <1>3, <1>4, <1>6
<1> QED
  BY <1>1, <1>12, <1>13, <1>14, <1>15, <1>16, <1>17, Proceeding

LEMMA DeliveriesNext ==
  ASSUME \A g \in Hosts : MaxSend[g] < WORD - QUEUE_SIZE
  PROVE  NetOK /\ WithinWindow /\ Deliveries /\ [Next]_vars => Proceeds
<1> SUFFICES ASSUME NetOK, WithinWindow, Deliveries, [Next]_vars PROVE Proceeds
  OBVIOUS
<1>1. ASSUME NEW h \in Hosts, Send(h) PROVE Proceeds
  BY <1>1, SendDelivers
<1>2. ASSUME NEW h \in Hosts, NEW v \in VPs, NEW marked \in BOOLEAN, Recv(h, v, marked)
      PROVE  Proceeds
  <2>1. marked = TRUE \/ marked = FALSE
    OBVIOUS
  <2> QED
    BY <1>2, <2>1, RecvDelivers
<1>3. ASSUME NEW h \in Hosts, NEW v \in VPs, Lose(h, v) PROVE Proceeds
  BY <1>3, LoseDelivers
<1>4. ASSUME NEW h \in Hosts, Expire(h) PROVE Proceeds
  BY <1>4, ExpireDelivers
<1>5. CASE Tick \/ UNCHANGED vars
  <2>1. proc' = proc /\ net' = net /\ delivered' = delivered
    BY <1>5 DEF Tick, vars
  <2> QED
    BY <2>1 DEF Proceeds, Deliveries, Incoming, Progress
<1> QED
  BY <1>1, <1>2, <1>3, <1>4, <1>5 DEF Next

(* Passing on the next c packets is the channel's Deliver.                 *)
Advances(b, c, d, e) ==
  \E k \in Nat : /\ e = d \o [i \in 1 .. k |-> b.value + i - 1]
                /\ c.value = b.value + k

Extends(N, d, e) ==
  \/ e = d
  \/ \E j \in 1 .. N - Len(d) : e = d \o [i \in 1 .. j |-> Len(d) + i]

LEMMA NextPackets ==
  ASSUME NEW N \in Nat, NEW b, NEW c, NEW d, NEW e, NEW n, NEW m,
         Delivery(N, b, n, d), Delivery(N, c, m, e), Advances(b, c, d, e)
  PROVE  Extends(N, d, e)
<1>0. PICK k \in Nat : /\ e = d \o [i \in 1 .. k |-> b.value + i - 1]
                       /\ c.value = b.value + k
  BY DEF Advances
<1>1. /\ b.value \in 1 .. N + 1 /\ c.value \in 1 .. N + 1
      /\ d = [i \in 1 .. b.value - 1 |-> i]
  BY DEF Delivery, BufType
<1>2. PICK a \in Nat : b.value = a + 1
  <2>1. b.value - 1 \in Nat /\ b.value = b.value - 1 + 1
    BY <1>1
  <2> QED
    BY <2>1
<1>3. b.value - 1 = a /\ a + k <= N
  BY <1>0, <1>1, <1>2
<1>4. d = [i \in 1 .. a |-> i]
  BY <1>1, <1>3
<1>5. d \in Seq(Int) /\ Len(d) = a
  BY <1>4
<1>6. e = d \o [i \in 1 .. k |-> a + i]
  <2>1. \A i \in 1 .. k : b.value + i - 1 = a + i
    BY <1>2
  <2>2. [i \in 1 .. k |-> b.value + i - 1] = [i \in 1 .. k |-> a + i]
    BY <2>1
  <2> QED
    BY <1>0, <2>2
<1>7. CASE k = 0
  <2>1. [i \in 1 .. 0 |-> a + i] = << >>
    OBVIOUS
  <2>2. e = d \o << >>
    BY <1>6, <1>7, <2>1
  <2> QED
    BY <1>5, <2>2 DEF Extends
<1>8. CASE k # 0
  <2>1. k \in 1 .. N - a
    BY <1>3, <1>8
  <2>2. e = d \o [i \in 1 .. k |-> Len(d) + i]
    BY <1>5, <1>6
  <2> QED
    BY <1>5, <2>1, <2>2 DEF Extends
<1> QED
  BY <1>7, <1>8

LEMMA ChannelsStep ==
  ASSUME NetOK, Deliveries, Proceeds, NEW h \in Hosts
  PROVE  [Channel(h)!Next]_(Channel(h)!vars)
<1>1. PICK y \in Hosts : Peer(h) = y
  BY PeerFacts
<1>2. PICK N \in Nat : proc[y].sequence = N
  BY DEF NetOK, IsProc
<1>3. /\ Delivery(N, proc[h].buf, net[y], delivered[h])
      /\ Delivery(proc'[y].sequence, proc'[h].buf, net'[y], delivered'[h])
  BY <1>1, <1>2 DEF Proceeds, Deliveries, Incoming
<1>4. PICK b, c, d, e, n, m : /\ b = proc[h].buf /\ c = proc'[h].buf
                              /\ d = delivered[h] /\ e = delivered'[h]
                              /\ n = net[y] /\ m = net'[y]
  OBVIOUS
<1>5. CASE proc'[y].sequence = N /\ e = d
  BY <1>1, <1>2, <1>4, <1>5 DEF Channel!vars
<1>6. CASE proc'[y].sequence = N + 1 /\ N < MaxSend[y] /\ e = d
  BY <1>1, <1>2, <1>4, <1>6 DEF Channel!Next, Channel!Send
<1>7. CASE proc'[y].sequence = N /\ Advances(b, c, d, e)
  <2>1. Delivery(N, b, n, d) /\ Delivery(N, c, m, e)
    BY <1>3, <1>4, <1>7
  <2>2. Extends(N, d, e)
    BY <1>7, <2>1, NextPackets
  <2>3. CASE \E j \in 1 .. N - Len(d) : e = d \o [i \in 1 .. j |-> Len(d) + i]
    BY <1>1, <1>2, <1>4, <1>7, <2>3 DEF Channel!Next, Channel!Deliver
  <2> QED
    BY <1>5, <1>7, <2>2, <2>3 DEF Extends
<1>8. Progress(h)
  BY DEF Proceeds
<1> QED
  BY <1>1, <1>2, <1>4, <1>5, <1>6, <1>7, <1>8 DEF Progress, Advances

(* Within the window, no sequence number is under way twice, none that is  *)
(* under way was passed on or is in the buffer, and the packets passed on  *)
(* are those below reorder_value, in order.                                *)
THEOREM DeliveriesAlways ==
  ASSUME \A h \in Hosts : MaxSend[h] < WORD - QUEUE_SIZE
  PROVE  Spec /\ []WithinWindow => []Deliveries
<1>1. NetOK /\ WithinWindow /\ Deliveries /\ [Next]_vars => Deliveries'
  BY DeliveriesNext DEF Proceeds
<1> QED
  BY <1>1, DeliveriesInit, NetAlways, PTL DEF Spec

LEMMA InOrder == Deliveries => DeliveredInOrder
<1> SUFFICES ASSUME Deliveries, NEW h \in Hosts, NEW i \in DOMAIN delivered[h]
             PROVE  delivered[h][i] = i
  BY DEF DeliveredInOrder
<1>1. delivered[h] = [j \in 1 .. proc[h].buf.value - 1 |-> j]
  BY DEF Deliveries, Incoming, Delivery
<1> QED
  BY <1>1

(* DeliveredInOrder: either node gets the peer's packets in order and each *)
(* once, over any number of paths, whatever is lost, delayed, overtaken or *)
(* probed and in both directions at once, as long as the peer is less than *)
(* QUEUE_SIZE packets ahead (PacketQueue::put's window).                   *)
THEOREM ProcessorDelivers ==
  ASSUME \A h \in Hosts : MaxSend[h] < WORD - QUEUE_SIZE
  PROVE  Spec /\ []WithinWindow => []DeliveredInOrder
  BY DeliveriesAlways, InOrder, PTL

(* Channels: under the same hypotheses, every step of the two processors   *)
(* is for either node a step of the FIFO channel.                          *)
THEOREM ProcessorChannels ==
  ASSUME \A h \in Hosts : MaxSend[h] < WORD - QUEUE_SIZE
  PROVE  Spec /\ []WithinWindow => Channels
<1>1. NetOK /\ WithinWindow /\ Deliveries /\ [Next]_vars
        => [\A h \in Hosts : [Channel(h)!Next]_(Channel(h)!vars)]_vars
  BY DeliveriesNext, ChannelsStep
<1> QED
  BY <1>1, DeliveriesAlways, NetAlways, PTL DEF Spec, Channels

(* A host that sends no more packets than the buffer has slots cannot be   *)
(* further ahead.                                                          *)
LEMMA FewInWindow ==
  ASSUME \A h \in Hosts : MaxSend[h] <= QUEUE_SIZE
  PROVE  /\ \A h \in Hosts : MaxSend[h] < WORD - QUEUE_SIZE
         /\ NetOK /\ Deliveries => WithinWindow
<1>1. QUEUE_SIZE \in Nat /\ WORD \in Nat /\ WORD > 2 * QUEUE_SIZE
  BY QueueSizeAssumption, WordAssumption
<1>2. ASSUME NEW h \in Hosts PROVE MaxSend[h] < WORD - QUEUE_SIZE
  BY <1>1, BoundsAssumption
<1>3. ASSUME NetOK, Deliveries, NEW h \in Hosts
      PROVE  proc[Peer(h)].sequence - proc[h].buf.value < QUEUE_SIZE
  <2>1. PICK y \in Hosts : Peer(h) = y
    BY PeerFacts
  <2>2. PICK N \in Nat : proc[y].sequence = N
    BY <1>3 DEF NetOK, IsProc
  <2>3. PICK a \in 1 .. N + 1 : proc[h].buf.value = a
    BY <1>3, <2>1, <2>2 DEF Deliveries, Incoming, Delivery, BufType
  <2>4. N <= QUEUE_SIZE
    <3>1. N <= MaxSend[y] /\ MaxSend[y] \in Nat
      BY <1>3, <2>2, BoundsAssumption DEF Deliveries
    <3> QED
      BY <1>1, <3>1
  <2> QED
    BY <1>1, <2>1, <2>2, <2>3, <2>4
<1> QED
  BY <1>2, <1>3 DEF WithinWindow

LEMMA FewInOrder ==
  ASSUME \A h \in Hosts : MaxSend[h] <= QUEUE_SIZE
  PROVE  Spec => [](NetOK /\ WithinWindow /\ Deliveries)
<1>1. Init => Deliveries
  BY DeliveriesInit
<1>2. NetOK /\ Deliveries => WithinWindow
  BY FewInWindow
<1>3. NetOK /\ WithinWindow /\ Deliveries /\ [Next]_vars => Deliveries'
  BY FewInWindow, DeliveriesNext DEF Proceeds
<1> QED
  BY <1>1, <1>2, <1>3, NetAlways, PTL DEF Spec

(* DeliveredInOrder without a hypothesis on the run: no host sends more    *)
(* packets than the peer's buffer has slots.                               *)
THEOREM ShortRunDelivers ==
  ASSUME \A h \in Hosts : MaxSend[h] <= QUEUE_SIZE
  PROVE  Spec => []DeliveredInOrder
  BY FewInOrder, InOrder, PTL

LEMMA ChannelOf ==
  ASSUME \A g \in Hosts : MaxSend[g] <= QUEUE_SIZE, NEW h \in Hosts
  PROVE  Spec => Channel(h)!Spec
<1>1. Init => Channel(h)!Init
  <2> SUFFICES ASSUME Init PROVE Channel(h)!Init
    OBVIOUS
  <2>1. proc[Peer(h)] = NewProcessor(0) /\ delivered[h] = << >>
    BY PeerFacts DEF Init
  <2> QED
    BY <2>1, NewBuffer DEF Channel!Init
<1>2. NetOK /\ WithinWindow /\ Deliveries /\ [Next]_vars
        => [Channel(h)!Next]_(Channel(h)!vars)
  BY FewInWindow, DeliveriesNext, ChannelsStep
<1>3. Spec => [](NetOK /\ WithinWindow /\ Deliveries)
  BY FewInOrder
<1> QED
  BY <1>1, <1>2, <1>3, PTL DEF Spec, Channel!Spec

(* The two processors and the paths between them implement two FIFO        *)
(* channels, one in either direction, when no host sends more packets than *)
(* the buffer has slots.                                                   *)
THEOREM ProcessorImplementsChannels ==
  ASSUME \A g \in Hosts : MaxSend[g] <= QUEUE_SIZE
  PROVE  Spec => \A h \in Hosts : Channel(h)!Spec
  BY ChannelOf

-----------------------------------------------------------------------------
(***************************************************************************)
(* The round robin.  Trunc(x) is the multiple of SCALE next to x, towards  *)
(* zero; what the proofs need of it is how it compares with multiples.     *)
(***************************************************************************)
Whole(m) == \E k \in Int : m = SCALE * k

LEMMA DivFacts ==
  ASSUME NEW x \in Nat
  PROVE  /\ x \div SCALE \in Nat /\ SCALE * (x \div SCALE) <= x
         /\ x < SCALE * (x \div SCALE) + SCALE
  BY ScaleAssumption

(* The greatest multiple below x is not below another one.                 *)
LEMMA DivGreatest ==
  ASSUME NEW x \in Nat, NEW k \in Int, SCALE * k <= x
  PROVE  SCALE * k <= SCALE * (x \div SCALE)
<1>1. PICK d \in Nat : d = x \div SCALE /\ SCALE * d <= x /\ x < SCALE * d + SCALE
  BY DivFacts
<1>2. SCALE \in Nat \ {0}
  BY ScaleAssumption
<1>3. k <= d
  <2> SUFFICES ASSUME k >= d + 1 PROVE FALSE
    BY <1>1
  <2>1. SCALE * k >= SCALE * (d + 1)
    BY <1>1, <1>2
  <2>2. SCALE * (d + 1) = SCALE * d + SCALE
    BY <1>1, <1>2
  <2> QED
    BY <1>1, <1>2, <2>1, <2>2
<1>4. SCALE * k <= SCALE * d
  BY <1>1, <1>2, <1>3
<1> QED
  BY <1>1, <1>4

LEMMA TruncFacts ==
  ASSUME NEW x \in Int
  PROVE  /\ Trunc(x) \in Int /\ Whole(Trunc(x))
         /\ Trunc(x) - x < SCALE /\ x - Trunc(x) < SCALE
         /\ \A m \in Int : Whole(m) /\ m <= x => m <= Trunc(x)
         /\ \A m \in Int : Whole(m) /\ x <= m => Trunc(x) <= m
<1>1. SCALE \in Nat \ {0}
  BY ScaleAssumption
<1>2. CASE x >= 0
  <2>1. PICK d \in Nat : d = x \div SCALE /\ SCALE * d <= x /\ x < SCALE * d + SCALE
    BY <1>2, DivFacts
  <2>2. Trunc(x) = SCALE * d /\ SCALE * d \in Int
    BY <1>1, <1>2, <2>1 DEF Trunc
  <2>3. Whole(Trunc(x))
    BY <2>1, <2>2 DEF Whole
  <2>4. ASSUME NEW m \in Int, Whole(m), m <= x PROVE m <= Trunc(x)
    <3>1. PICK k \in Int : m = SCALE * k
      BY <2>4 DEF Whole
    <3>2. SCALE * k <= SCALE * (x \div SCALE)
      BY <1>2, <2>4, <3>1, DivGreatest
    <3> QED
      BY <2>1, <2>2, <3>1, <3>2
  <2> QED
    BY <1>1, <1>2, <2>1, <2>2, <2>3, <2>4
<1>3. CASE x < 0
  <2> DEFINE y == -x
  <2>1. y \in Nat
    BY <1>3
  <2>2. PICK d \in Nat : d = y \div SCALE /\ SCALE * d <= y /\ y < SCALE * d + SCALE
    BY <2>1, DivFacts
  <2>3. Trunc(x) = SCALE * (-d) /\ SCALE * (-d) \in Int /\ SCALE * (-d) = -(SCALE * d)
        /\ SCALE * d \in Int
    BY <1>1, <1>3, <2>2 DEF Trunc
  <2>4. Whole(Trunc(x))
    BY <2>2, <2>3 DEF Whole
  <2>5. ASSUME NEW m \in Int, Whole(m), x <= m PROVE Trunc(x) <= m
    <3>1. PICK k \in Int : m = SCALE * k
      BY <2>5 DEF Whole
    <3>2. SCALE * (-k) = -m
      BY <1>1, <3>1
    <3>3. SCALE * (-k) <= SCALE * (y \div SCALE)
      <4>1. -k \in Int /\ SCALE * (-k) <= y
        BY <2>5, <3>1, <3>2
      <4> QED
        BY <2>1, <4>1, DivGreatest
    <3> QED
      BY <2>2, <2>3, <2>5, <3>2, <3>3
  <2> QED
    BY <1>1, <1>3, <2>2, <2>3, <2>4, <2>5
<1> QED
  BY <1>2, <1>3

-----------------------------------------------------------------------------
(* The closed form: no path is a whole packet/s ahead of the chosen one.   *)

(* The path that leads and is followed by no leader is the chosen one.     *)
LEMMA LastLeader ==
  ASSUME NEW c, NEW r, NEW v \in VPs, Leads(v, c, r),
         \A u \in v + 1 .. VP_SIZE - 1 : ~ Leads(u, c, r)
  PROVE  Chosen(c, r) = v
<1>1. PICK x : x = Chosen(c, r)
  OBVIOUS
<1>2. /\ x \in VPs /\ Leads(x, c, r)
      /\ \A u \in x + 1 .. VP_SIZE - 1 : ~ Leads(u, c, r)
  BY <1>1, ChosenLeads
<1>3. x \in Nat /\ v \in Nat /\ x <= VP_SIZE - 1 /\ v <= VP_SIZE - 1 /\ VP_SIZE \in Nat
  BY <1>2, PathFacts, VpSizeAssumption DEF VPs
<1>4. ~ (x \in v + 1 .. VP_SIZE - 1) /\ ~ (v \in x + 1 .. VP_SIZE - 1)
  BY <1>2
<1>5. x = v
  BY <1>3, <1>4
<1> QED
  BY <1>1, <1>5

(* NearlyGreatest for every value of the weights and values.               *)
LEMMA ChosenNearlyGreatest ==
  ASSUME NEW c, NEW r, \A v \in VPs : c[v] \in Int /\ r[v] \in Nat, NEW v \in VPs
  PROVE  (c[v] + r[v]) - (c[Chosen(c, r)] + r[Chosen(c, r)]) < SCALE
<1> DEFINE w == [u \in VPs |-> c[u] + r[u]]
<1>1. \A u \in VPs : w[u] = c[u] + r[u] /\ w[u] \in Int
  OBVIOUS
<1> HIDE DEF w
<1>2. VP_SIZE \in Nat /\ VPs = 0 .. VP_SIZE - 1 /\ 0 \in VPs /\ SCALE \in Nat \ {0}
  BY VpSizeAssumption, ScaleAssumption, PathFacts DEF VPs
<1>3. \A u \in VPs : \A t \in 0 .. u - 1 : t \in VPs
  BY <1>2
<1>4. \A u \in VPs : Leads(u, c, r) <=> w[u] > Trunc(c[0]) /\ \A t \in 0 .. u - 1 : w[u] > Trunc(w[t])
  BY <1>1, <1>3 DEF Leads
<1>5. /\ c[0] \in Int /\ Trunc(c[0]) \in Int /\ Whole(Trunc(c[0]))
      /\ \A u \in VPs : Trunc(w[u]) \in Int /\ Whole(Trunc(w[u]))
  BY <1>1, <1>2, TruncFacts
<1>6. CASE \E u \in VPs : Leads(u, c, r)
  <2>1. PICK x : x = Chosen(c, r)
    OBVIOUS
  <2>2. /\ x \in VPs /\ Leads(x, c, r)
        /\ \A u \in x + 1 .. VP_SIZE - 1 : ~ Leads(u, c, r)
    BY <1>6, <2>1, ChosenLeads
  <2>3. /\ Trunc(c[0]) <= Trunc(w[x])
        /\ \A t \in 0 .. x : Trunc(w[t]) <= Trunc(w[x])
    <3>1. /\ Trunc(c[0]) \in Int /\ Whole(Trunc(c[0])) /\ Trunc(c[0]) <= w[x]
          /\ w[x] \in Int /\ Trunc(w[x]) \in Int
      BY <1>1, <1>2, <1>4, <1>5, <2>2
    <3>2. ASSUME NEW t \in 0 .. x, t # x PROVE Trunc(w[t]) <= Trunc(w[x])
      <4>1. t \in 0 .. x - 1 /\ t \in VPs
        BY <1>2, <2>2, <3>2
      <4>2. Trunc(w[t]) \in Int /\ Whole(Trunc(w[t])) /\ Trunc(w[t]) <= w[x]
        BY <1>1, <1>4, <1>5, <2>2, <4>1
      <4> QED
        BY <3>1, <4>2, TruncFacts
    <3> QED
      BY <3>1, <3>2, TruncFacts
  <2> DEFINE D == {u \in x + 1 .. VP_SIZE - 1 : ~ (w[u] <= Trunc(w[x]))}
  <2>4. D = {}
    <3> SUFFICES ASSUME D # {} PROVE FALSE
      OBVIOUS
    <3>1. D \in SUBSET Nat
      BY <1>2, <2>2
    <3>2. \A u : u \in D <=> u \in x + 1 .. VP_SIZE - 1 /\ ~ (w[u] <= Trunc(w[x]))
      OBVIOUS
    <3> HIDE DEF D
    <3>3. PICK u \in D : \A t \in D : u <= t
      BY <3>1, LeastNatural
    <3>4. u \in x + 1 .. VP_SIZE - 1 /\ ~ (w[u] <= Trunc(w[x])) /\ u \in VPs /\ w[u] \in Int
      BY <1>1, <1>2, <2>2, <3>2, <3>3
    <3>5. ~ Leads(u, c, r)
      BY <2>2, <3>4
    <3>6. w[u] <= Trunc(c[0]) \/ \E t \in 0 .. u - 1 : w[u] <= Trunc(w[t])
      BY <1>3, <1>4, <1>5, <3>4, <3>5
    <3>7. Trunc(w[x]) \in Int /\ Whole(Trunc(w[x])) /\ x \in Nat
      BY <1>2, <1>5, <2>2
    <3>8. ~ (w[u] <= Trunc(c[0]))
      BY <1>5, <2>3, <3>4, <3>7
    <3>9. PICK t \in 0 .. u - 1 : w[u] <= Trunc(w[t])
      BY <3>6, <3>8
    <3>10. t \in VPs /\ Trunc(w[t]) \in Int /\ w[t] \in Int /\ t \in Nat /\ u \in Nat
      BY <1>1, <1>2, <1>5, <3>4, <3>9
    <3>11. ~ (t <= x)
      <4> SUFFICES ASSUME t <= x PROVE FALSE
        OBVIOUS
      <4>1. Trunc(w[t]) <= Trunc(w[x])
        BY <2>3, <3>7, <3>10
      <4> QED
        BY <3>4, <3>7, <3>9, <3>10, <4>1
    <3>12. t \in x + 1 .. VP_SIZE - 1 /\ t \notin D
      BY <1>2, <3>1, <3>3, <3>4, <3>7, <3>10, <3>11
    <3>13. w[t] <= Trunc(w[x])
      BY <3>2, <3>12
    <3>14. Trunc(w[t]) <= Trunc(w[x])
      BY <3>7, <3>10, <3>13, TruncFacts
    <3> QED
      BY <3>4, <3>7, <3>9, <3>10, <3>14
  <2>5. w[v] - w[x] < SCALE
    <3>1. /\ w[v] \in Int /\ w[x] \in Int /\ Trunc(w[x]) \in Int /\ Trunc(w[v]) \in Int
          /\ Trunc(w[x]) - w[x] < SCALE /\ w[v] - Trunc(w[v]) < SCALE
      BY <1>1, <2>2, TruncFacts
    <3>2. CASE v > x
      <4>1. v \in x + 1 .. VP_SIZE - 1
        BY <1>2, <2>2, <3>2
      <4>2. w[v] <= Trunc(w[x])
        BY <2>4, <4>1
      <4> QED
        BY <1>2, <3>1, <4>2
    <3>3. CASE v = x
      BY <1>2, <3>1, <3>3
    <3>4. CASE v < x
      <4>1. v \in 0 .. x - 1
        BY <1>2, <2>2, <3>4
      <4>2. w[x] > Trunc(w[v])
        BY <1>4, <2>2, <4>1
      <4> QED
        BY <1>2, <3>1, <4>2
    <3> QED
      BY <1>2, <2>2, <3>2, <3>3, <3>4
  <2> QED
    BY <1>1, <2>1, <2>2, <2>5
<1>7. CASE ~ \E u \in VPs : Leads(u, c, r)
  <2>1. Chosen(c, r) = 0
    BY <1>7 DEF Chosen
  <2> DEFINE D == {u \in VPs : ~ (w[u] <= Trunc(c[0]))}
  <2>2. D = {}
    <3> SUFFICES ASSUME D # {} PROVE FALSE
      OBVIOUS
    <3>1. D \in SUBSET Nat
      BY <1>2
    <3>2. \A u : u \in D <=> u \in VPs /\ ~ (w[u] <= Trunc(c[0]))
      OBVIOUS
    <3> HIDE DEF D
    <3>3. PICK u \in D : \A t \in D : u <= t
      BY <3>1, LeastNatural
    <3>4. u \in VPs /\ ~ (w[u] <= Trunc(c[0])) /\ w[u] \in Int /\ ~ Leads(u, c, r)
      BY <1>1, <1>7, <3>2, <3>3
    <3>5. PICK t \in 0 .. u - 1 : w[u] <= Trunc(w[t])
      BY <1>3, <1>4, <1>5, <3>4
    <3>6. t \in VPs /\ t \notin D /\ w[t] \in Int /\ Trunc(w[t]) \in Int
      BY <1>1, <1>2, <1>5, <3>3, <3>4, <3>5
    <3>7. w[t] <= Trunc(c[0])
      BY <3>2, <3>6
    <3>8. Trunc(w[t]) <= Trunc(c[0])
      BY <1>2, <3>6, <3>7, TruncFacts
    <3> QED
      BY <1>5, <3>4, <3>5, <3>6, <3>8
  <2>3. w[v] <= Trunc(c[0])
    BY <2>2
  <2>4. Trunc(c[0]) - c[0] < SCALE /\ c[0] \in Int /\ r[0] \in Nat /\ w[0] = c[0] + r[0]
    BY <1>1, <1>2, TruncFacts
  <2>5. w[v] - w[0] < SCALE
    BY <1>1, <1>2, <1>5, <2>3, <2>4
  <2> QED
    BY <1>1, <1>2, <2>1, <2>5
<1> QED
  BY <1>6, <1>7
-----------------------------------------------------------------------------
(* The loop of the code chooses the same path as the closed form.          *)

(* One round of the loop, for path i - 1.                                  *)
Round(b, i, w) ==
  IF w[i - 1] > b.max THEN [vp |-> i - 1, max |-> Trunc(w[i - 1])] ELSE b

(* f is the course of the loop over n paths that begins with b.            *)
Course(f, n, b, w) ==
  /\ f = [i \in 0 .. n |-> f[i]]
  /\ f[0] = b
  /\ \A i \in 1 .. n : f[i] = Round(f[i - 1], i, w)

LEMMA CourseExists ==
  ASSUME NEW b, NEW w
  PROVE  \E f : Course(f, VP_SIZE, b, w)
<1> DEFINE S == {n \in 0 .. VP_SIZE : ~ \E f : Course(f, n, b, w)}
<1>1. VP_SIZE \in Nat /\ VP_SIZE \in 0 .. VP_SIZE
  BY VpSizeAssumption
<1>2. S = {}
  <2> SUFFICES ASSUME S # {} PROVE FALSE
    OBVIOUS
  <2>a. S \in SUBSET Nat
    BY <1>1
  <2>b. \A n : n \in S <=> n \in 0 .. VP_SIZE /\ ~ \E f : Course(f, n, b, w)
    OBVIOUS
  <2> HIDE DEF S
  <2>1. PICK n \in S : \A m \in S : n <= m
    BY <2>a, LeastNatural
  <2>2. n \in 0 .. VP_SIZE /\ n \in Nat /\ ~ \E f : Course(f, n, b, w)
    BY <1>1, <2>b, <2>1
  <2>3. CASE n = 0
    <3>1. Course([i \in 0 .. 0 |-> b], 0, b, w)
      BY DEF Course
    <3> QED
      BY <2>2, <2>3, <3>1
  <2>4. CASE n # 0
    <3>1. n - 1 \in 0 .. VP_SIZE /\ n - 1 < n /\ n - 1 \in Nat
      BY <1>1, <2>2, <2>4
    <3>2. n - 1 \notin S
      BY <2>1, <2>2, <3>1
    <3>3. PICK f : Course(f, n - 1, b, w)
      BY <2>b, <3>1, <3>2
    <3> DEFINE g == [i \in 0 .. n |-> IF i = n THEN Round(f[n - 1], n, w) ELSE f[i]]
    <3>4. g = [i \in 0 .. n |-> g[i]] /\ g[n] = Round(f[n - 1], n, w)
      BY <2>2
    <3>5. \A i \in 0 .. n - 1 : g[i] = f[i]
      BY <2>2
    <3> HIDE DEF g
    <3>6. g[0] = b
      BY <2>2, <2>4, <3>3, <3>5 DEF Course
    <3>7. \A i \in 1 .. n : g[i] = Round(g[i - 1], i, w)
      <4> TAKE i \in 1 .. n
      <4>1. CASE i = n
        BY <2>2, <3>1, <3>4, <3>5, <4>1
      <4>2. CASE i # n
        <5>1. i \in 1 .. n - 1 /\ i \in 0 .. n - 1 /\ i - 1 \in 0 .. n - 1
          BY <2>2, <4>2
        <5>2. f[i] = Round(f[i - 1], i, w)
          BY <3>3, <5>1 DEF Course
        <5> QED
          BY <3>5, <5>1, <5>2
      <4> QED
        BY <4>1, <4>2
    <3>8. Course(g, n, b, w)
      BY <3>4, <3>6, <3>7 DEF Course
    <3> QED
      BY <2>2, <3>8
  <2> QED
    BY <2>3, <2>4
<1> QED
  BY <1>1, <1>2, Zenon

LEMMA LoopFollows ==
  ASSUME NEW c, NEW r
  PROVE  \E f : /\ Course(f, VP_SIZE, [vp |-> 0, max |-> Trunc(c[0])], Raised(c, r))
                /\ Loop(c, r) = f[VP_SIZE]
<1>1. PICK w : w = Raised(c, r)
  OBVIOUS
<1>2. PICK b : b = [vp |-> 0, max |-> Trunc(c[0])]
  OBVIOUS
<1>3. PICK f : Course(f, VP_SIZE, b, w)
  BY CourseExists
<1>4. VP_SIZE \in Nat
  BY VpSizeAssumption
<1>5. f = [i \in 0 .. VP_SIZE |-> IF i = 0 THEN b ELSE Round(f[i - 1], i, w)]
  <2>1. \A i \in 0 .. VP_SIZE : i # 0 => i \in 1 .. VP_SIZE
    BY <1>4
  <2>2. \A i \in 0 .. VP_SIZE : f[i] = IF i = 0 THEN b ELSE Round(f[i - 1], i, w)
    BY <1>3, <2>1 DEF Course
  <2>3. f = [i \in 0 .. VP_SIZE |-> f[i]]
    BY <1>3 DEF Course
  <2> QED
    BY <2>2, <2>3
<1> DEFINE best == CHOOSE g : g = [i \in 0 .. VP_SIZE |-> IF i = 0 THEN b ELSE Round(g[i - 1], i, w)]
<1>6. best = [i \in 0 .. VP_SIZE |-> IF i = 0 THEN b ELSE Round(best[i - 1], i, w)]
  BY <1>5
<1>7. Loop(c, r) = best[VP_SIZE]
  BY <1>1, <1>2 DEF Loop, Round
<1> HIDE DEF best
<1>8. Course(best, VP_SIZE, b, w)
  <2>1. 0 \in 0 .. VP_SIZE /\ \A i \in 1 .. VP_SIZE : i \in 0 .. VP_SIZE /\ i # 0
    BY <1>4
  <2>2. best[0] = b
    BY <1>6, <2>1
  <2>3. \A i \in 1 .. VP_SIZE : best[i] = Round(best[i - 1], i, w)
    BY <1>6, <2>1
  <2>4. best = [i \in 0 .. VP_SIZE |-> best[i]]
    BY <1>6
  <2> QED
    BY <2>2, <2>3, <2>4 DEF Course
<1> QED
  BY <1>1, <1>2, <1>7, <1>8

(* After i rounds the loop holds the last leader among the first i paths,  *)
(* and the greatest truncated value that it has met.                       *)
LastOf(x, i, c, r) ==
  \/ /\ x \in VPs /\ x < i /\ Leads(x, c, r)
     /\ \A u \in x + 1 .. i - 1 : ~ Leads(u, c, r)
  \/ /\ x = 0
     /\ \A u \in 0 .. i - 1 : ~ Leads(u, c, r)

GreatestMet(m, i, c, r) ==
  /\ m \in Int /\ Whole(m) /\ m >= Trunc(c[0])
  /\ \A u \in 0 .. i - 1 : m >= Trunc(c[u] + r[u])
  /\ \/ m = Trunc(c[0])
     \/ \E u \in 0 .. i - 1 : m = Trunc(c[u] + r[u])

(* A path beats the greatest value met exactly when it leads.              *)
LEMMA BeatsIsLeads ==
  ASSUME NEW c, NEW r, \A v \in VPs : c[v] \in Int /\ r[v] \in Nat,
         NEW i \in VPs, NEW m, GreatestMet(m, i, c, r)
  PROVE  c[i] + r[i] > m <=> Leads(i, c, r)
<1>1. VP_SIZE \in Nat /\ VPs = 0 .. VP_SIZE - 1 /\ 0 \in VPs /\ i \in Nat
  BY PathFacts, VpSizeAssumption DEF VPs
<1>2. \A u \in 0 .. i - 1 : u \in VPs /\ c[u] + r[u] \in Int
  BY <1>1
<1>3. \A u \in 0 .. i - 1 : Trunc(c[u] + r[u]) \in Int
  BY <1>2, TruncFacts
<1>4. c[0] \in Int /\ Trunc(c[0]) \in Int
  BY <1>1, TruncFacts
<1>5. c[i] + r[i] \in Int
  OBVIOUS
<1>6. ASSUME c[i] + r[i] > m PROVE Leads(i, c, r)
  BY <1>3, <1>4, <1>5, <1>6 DEF Leads, GreatestMet
<1>7. ASSUME Leads(i, c, r) PROVE c[i] + r[i] > m
  BY <1>7 DEF Leads, GreatestMet
<1> QED
  BY <1>6, <1>7

LEMMA RoundKeeps ==
  ASSUME NEW c, NEW r, \A v \in VPs : c[v] \in Int /\ r[v] \in Nat,
         NEW i \in VPs, NEW b, DOMAIN b = {"vp", "max"},
         LastOf(b.vp, i, c, r), GreatestMet(b.max, i, c, r),
         NEW d, d = Round(b, i + 1, Raised(c, r))
  PROVE  /\ DOMAIN d = {"vp", "max"}
         /\ LastOf(d.vp, i + 1, c, r) /\ GreatestMet(d.max, i + 1, c, r)
<1>1. VP_SIZE \in Nat /\ VPs = 0 .. VP_SIZE - 1 /\ 0 \in VPs /\ i \in Nat /\ (i + 1) - 1 = i
  BY PathFacts, VpSizeAssumption DEF VPs
<1>2. PICK x : x = c[i] + r[i]
  OBVIOUS
<1>3. x \in Int /\ Raised(c, r)[i] = x
  BY <1>2 DEF Raised
<1>4. PICK t : t = Trunc(x)
  OBVIOUS
<1>5. /\ t \in Int /\ Whole(t)
      /\ \A m \in Int : Whole(m) /\ m <= x => m <= t
      /\ \A m \in Int : Whole(m) /\ x <= m => t <= m
  BY <1>3, <1>4, TruncFacts
<1>6. d = IF x > b.max THEN [vp |-> i, max |-> t] ELSE b
  BY <1>1, <1>3, <1>4 DEF Round
<1>7. x > b.max <=> Leads(i, c, r)
  BY <1>2, BeatsIsLeads
<1>8. b.max \in Int /\ Whole(b.max)
  BY DEF GreatestMet
<1>9. \A u \in 0 .. (i + 1) - 1 : u = i \/ u \in 0 .. i - 1
  BY <1>1
<1>10. \A u \in 0 .. i - 1 : u \in 0 .. (i + 1) - 1
  BY <1>1
<1>11. i \in 0 .. (i + 1) - 1
  BY <1>1
<1>12. CASE x > b.max
  <2>1. d.vp = i /\ d.max = t /\ DOMAIN d = {"vp", "max"}
    BY <1>6, <1>12
  <2>2. b.max <= t
    BY <1>3, <1>5, <1>8, <1>12
  <2>3. LastOf(i, i + 1, c, r)
    BY <1>1, <1>7, <1>12 DEF LastOf
  <2>4. /\ Trunc(c[0]) \in Int
        /\ \A u \in 0 .. i - 1 : Trunc(c[u] + r[u]) \in Int
    <3>1. c[0] \in Int /\ \A u \in 0 .. i - 1 : c[u] + r[u] \in Int
      BY <1>1
    <3> QED
      BY <3>1, TruncFacts
  <2>5. t >= Trunc(c[0]) /\ \A u \in 0 .. i - 1 : t >= Trunc(c[u] + r[u])
    BY <1>5, <1>8, <2>2, <2>4 DEF GreatestMet
  <2>6. t = Trunc(c[i] + r[i]) /\ t >= t
    BY <1>2, <1>4, <1>5
  <2>7. GreatestMet(t, i + 1, c, r)
    BY <1>5, <1>9, <1>11, <2>5, <2>6 DEF GreatestMet
  <2> QED
    BY <2>1, <2>3, <2>7
<1>13. CASE ~ (x > b.max)
  <2>1. d = b
    BY <1>6, <1>13
  <2>2. ~ Leads(i, c, r)
    BY <1>7, <1>13
  <2>3. LastOf(b.vp, i + 1, c, r)
    <3>1. CASE /\ b.vp \in VPs /\ b.vp < i /\ Leads(b.vp, c, r)
               /\ \A u \in b.vp + 1 .. i - 1 : ~ Leads(u, c, r)
      <4>1. b.vp \in Nat /\ \A u \in b.vp + 1 .. (i + 1) - 1 : u = i \/ u \in b.vp + 1 .. i - 1
        BY <1>1, <3>1
      <4> QED
        BY <1>1, <2>2, <3>1, <4>1 DEF LastOf
    <3>2. CASE b.vp = 0 /\ \A u \in 0 .. i - 1 : ~ Leads(u, c, r)
      BY <1>9, <2>2, <3>2 DEF LastOf
    <3> QED
      BY <3>1, <3>2 DEF LastOf
  <2>4. b.max >= t
    BY <1>3, <1>5, <1>8, <1>13
  <2>5. t = Trunc(c[i] + r[i])
    BY <1>2, <1>4
  <2>6. GreatestMet(b.max, i + 1, c, r)
    BY <1>9, <1>10, <2>4, <2>5 DEF GreatestMet
  <2> QED
    BY <2>1, <2>3, <2>6
<1> QED
  BY <1>12, <1>13

(* For all weights and values, the loop of vp_next_at_ratio_SWRR chooses   *)
(* the last path that takes the lead.                                      *)
LEMMA LoopAgrees ==
  ASSUME NEW c, NEW r, \A v \in VPs : c[v] \in Int /\ r[v] \in Nat
  PROVE  Loop(c, r).vp = Chosen(c, r)
<1>1. VP_SIZE \in Nat /\ VPs = 0 .. VP_SIZE - 1 /\ 0 \in VPs
  BY PathFacts, VpSizeAssumption DEF VPs
<1>2. PICK b : b = [vp |-> 0, max |-> Trunc(c[0])]
  OBVIOUS
<1>3. PICK f : Course(f, VP_SIZE, b, Raised(c, r)) /\ Loop(c, r) = f[VP_SIZE]
  BY <1>2, LoopFollows
<1> DEFINE RoundOK(n) == /\ DOMAIN f[n] = {"vp", "max"}
                         /\ LastOf(f[n].vp, n, c, r) /\ GreatestMet(f[n].max, n, c, r)
           D == {n \in 0 .. VP_SIZE : ~ RoundOK(n)}
<1>4. D = {}
  <2> SUFFICES ASSUME D # {} PROVE FALSE
    OBVIOUS
  <2>1. D \in SUBSET Nat
    BY <1>1
  <2>2. \A n : n \in D <=> n \in 0 .. VP_SIZE /\ ~ RoundOK(n)
    OBVIOUS
  <2> HIDE DEF D
  <2>3. PICK n \in D : \A m \in D : n <= m
    BY <2>1, LeastNatural
  <2>4. n \in 0 .. VP_SIZE /\ n \in Nat /\ ~ RoundOK(n)
    BY <1>1, <2>2, <2>3
  <2>5. n # 0
    <3> SUFFICES ASSUME n = 0 PROVE FALSE
      OBVIOUS
    <3>0. f[0] = b
      BY <1>3 DEF Course
    <3>1. f[0] = b /\ b.vp = 0 /\ b.max = Trunc(c[0]) /\ DOMAIN b = {"vp", "max"}
      BY <1>2, <3>0
    <3>2. Trunc(c[0]) \in Int /\ Whole(Trunc(c[0]))
      BY <1>1, TruncFacts
    <3>3. LastOf(0, 0, c, r)
      BY DEF LastOf
    <3>4. GreatestMet(Trunc(c[0]), 0, c, r)
      BY <3>2 DEF GreatestMet
    <3> QED
      BY <2>4, <3>1, <3>3, <3>4
  <2>6. PICK i : i = n - 1
    OBVIOUS
  <2>7. /\ i \in VPs /\ i \in 0 .. VP_SIZE /\ i + 1 = n /\ i + 1 \in 1 .. VP_SIZE
        /\ i \in Nat /\ i < n /\ (i + 1) - 1 = i
    BY <1>1, <2>4, <2>5, <2>6
  <2>8. i \notin D
    BY <2>3, <2>4, <2>7
  <2>9. RoundOK(i)
    BY <2>2, <2>7, <2>8
  <2>10. f[n] = Round(f[i], i + 1, Raised(c, r))
    BY <1>3, <2>7 DEF Course
  <2>11. RoundOK(n)
    BY <2>7, <2>9, <2>10, RoundKeeps
  <2> QED
    BY <2>4, <2>11
<1>5. LastOf(f[VP_SIZE].vp, VP_SIZE, c, r)
  <2>1. VP_SIZE \in 0 .. VP_SIZE
    BY <1>1
  <2> QED
    BY <1>4, <2>1
<1>6. PICK x : x = f[VP_SIZE].vp
  OBVIOUS
<1>7. CASE /\ x \in VPs /\ Leads(x, c, r)
           /\ \A u \in x + 1 .. VP_SIZE - 1 : ~ Leads(u, c, r)
  <2>1. Chosen(c, r) = x
    BY <1>7, LastLeader
  <2> QED
    BY <1>3, <1>6, <2>1
<1>8. CASE x = 0 /\ \A u \in 0 .. VP_SIZE - 1 : ~ Leads(u, c, r)
  <2>1. Chosen(c, r) = 0
    BY <1>1, <1>8 DEF Chosen
  <2> QED
    BY <1>3, <1>6, <1>8, <2>1
<1> QED
  BY <1>5, <1>6, <1>7, <1>8 DEF LastOf
-----------------------------------------------------------------------------
LEMMA TotalRaised ==
  ASSUME NEW c, NEW r, \A v \in VPs : c[v] \in Int /\ r[v] \in Int
  PROVE  /\ Total(c) \in Int /\ Total(r) \in Int
         /\ Total(Raised(c, r)) = Total(c) + Total(r)
<1>1. VP_SIZE \in Nat /\ VPs = 0 .. VP_SIZE - 1
  BY VpSizeAssumption DEF VPs
<1>2. PICK w : w = Raised(c, r)
  OBVIOUS
<1>3. \A v \in VPs : w[v] = c[v] + r[v] /\ w[v] \in Int
  BY <1>2 DEF Raised
<1>4. PICK f : Sums(f, c) /\ Total(c) = f[VP_SIZE]
  BY TotalFacts
<1>5. PICK g : Sums(g, r) /\ Total(r) = g[VP_SIZE]
  BY TotalFacts
<1>6. PICK h : Sums(h, w) /\ Total(w) = h[VP_SIZE]
  BY <1>3, TotalFacts
<1>7. /\ f \in [0 .. VP_SIZE -> Int] /\ f[0] = 0
      /\ \A i \in 1 .. VP_SIZE : f[i] = f[i - 1] + c[i - 1]
      /\ g \in [0 .. VP_SIZE -> Int] /\ g[0] = 0
      /\ \A i \in 1 .. VP_SIZE : g[i] = g[i - 1] + r[i - 1]
      /\ h \in [0 .. VP_SIZE -> Int] /\ h[0] = 0
      /\ \A i \in 1 .. VP_SIZE : h[i] = h[i - 1] + w[i - 1]
  BY <1>4, <1>5, <1>6 DEF Sums
<1> DEFINE D == {n \in 0 .. VP_SIZE : h[n] # f[n] + g[n]}
<1>8. D = {}
  <2> SUFFICES ASSUME D # {} PROVE FALSE
    OBVIOUS
  <2>1. D \in SUBSET Nat
    BY <1>1
  <2>2. \A n : n \in D <=> n \in 0 .. VP_SIZE /\ h[n] # f[n] + g[n]
    OBVIOUS
  <2> HIDE DEF D
  <2>3. PICK n \in D : \A m \in D : n <= m
    BY <2>1, LeastNatural
  <2>4. n # 0
    BY <1>7, <2>2, <2>3
  <2>5. PICK i : i = n - 1
    OBVIOUS
  <2>6. n \in 1 .. VP_SIZE /\ i \in 0 .. VP_SIZE /\ i \notin D /\ i \in VPs
    BY <1>1, <2>2, <2>3, <2>4, <2>5
  <2>7. h[i] = f[i] + g[i]
    BY <2>2, <2>6
  <2>8. /\ h[n] = h[i] + w[i] /\ f[n] = f[i] + c[i] /\ g[n] = g[i] + r[i]
        /\ h[i] \in Int /\ f[i] \in Int /\ g[i] \in Int /\ c[i] \in Int /\ r[i] \in Int
        /\ w[i] = c[i] + r[i]
    BY <1>3, <1>7, <2>5, <2>6
  <2> QED
    BY <2>2, <2>3, <2>7, <2>8
<1>9. VP_SIZE \in 0 .. VP_SIZE
  BY <1>1
<1>10. h[VP_SIZE] = f[VP_SIZE] + g[VP_SIZE] /\ f[VP_SIZE] \in Int /\ g[VP_SIZE] \in Int
  BY <1>7, <1>8, <1>9
<1> QED
  BY <1>2, <1>4, <1>5, <1>6, <1>10

(* A total is not negative when no value is, and when it is not negative   *)
(* then some value is not.                                                 *)
LEMMA TotalNatural ==
  ASSUME NEW r, \A v \in VPs : r[v] \in Nat
  PROVE  Total(r) \in Nat
<1>1. VP_SIZE \in Nat /\ VPs = 0 .. VP_SIZE - 1
  BY VpSizeAssumption DEF VPs
<1>2. PICK f : Sums(f, r) /\ Total(r) = f[VP_SIZE]
  BY TotalFacts
<1>3. /\ f \in [0 .. VP_SIZE -> Int] /\ f[0] = 0
      /\ \A i \in 1 .. VP_SIZE : f[i] = f[i - 1] + r[i - 1]
  BY <1>2 DEF Sums
<1> DEFINE D == {n \in 0 .. VP_SIZE : ~ (f[n] \in Nat)}
<1>4. D = {}
  <2> SUFFICES ASSUME D # {} PROVE FALSE
    OBVIOUS
  <2>1. D \in SUBSET Nat
    BY <1>1
  <2>2. \A n : n \in D <=> n \in 0 .. VP_SIZE /\ ~ (f[n] \in Nat)
    OBVIOUS
  <2> HIDE DEF D
  <2>3. PICK n \in D : \A m \in D : n <= m
    BY <2>1, LeastNatural
  <2>4. n # 0
    BY <1>3, <2>2, <2>3
  <2>5. n \in 1 .. VP_SIZE /\ n - 1 \in 0 .. VP_SIZE /\ n - 1 \notin D /\ n - 1 \in VPs
    BY <1>1, <2>2, <2>3, <2>4
  <2>6. f[n - 1] \in Nat /\ r[n - 1] \in Nat /\ f[n] = f[n - 1] + r[n - 1]
    BY <1>3, <2>2, <2>5
  <2> QED
    BY <2>2, <2>3, <2>6
<1> QED
  BY <1>1, <1>2, <1>4

LEMMA SomeNatural ==
  ASSUME NEW w, \A v \in VPs : w[v] \in Int, Total(w) >= 0
  PROVE  \E v \in VPs : w[v] >= 0
<1> SUFFICES ASSUME ~ \E v \in VPs : w[v] >= 0
             PROVE  FALSE
  OBVIOUS
<1>1. VP_SIZE \in Nat \ {0} /\ VPs = 0 .. VP_SIZE - 1
  BY VpSizeAssumption DEF VPs
<1>2. PICK f : Sums(f, w) /\ Total(w) = f[VP_SIZE]
  BY TotalFacts
<1>3. /\ f \in [0 .. VP_SIZE -> Int] /\ f[0] = 0
      /\ \A i \in 1 .. VP_SIZE : f[i] = f[i - 1] + w[i - 1]
  BY <1>2 DEF Sums
<1> DEFINE D == {n \in 1 .. VP_SIZE : ~ (f[n] < 0)}
<1>4. D = {}
  <2> SUFFICES ASSUME D # {} PROVE FALSE
    OBVIOUS
  <2>1. D \in SUBSET Nat
    BY <1>1
  <2>2. \A n : n \in D <=> n \in 1 .. VP_SIZE /\ ~ (f[n] < 0)
    OBVIOUS
  <2> HIDE DEF D
  <2>3. PICK n \in D : \A m \in D : n <= m
    BY <2>1, LeastNatural
  <2>4. /\ n \in 1 .. VP_SIZE /\ n - 1 \in 0 .. VP_SIZE /\ n - 1 \notin D /\ n - 1 \in VPs
        /\ f[n - 1] \in Int /\ w[n - 1] \in Int /\ f[n] = f[n - 1] + w[n - 1] /\ ~ (f[n] < 0)
    <3>1. n \in 1 .. VP_SIZE /\ n \in Nat /\ ~ (f[n] < 0)
      BY <1>1, <2>2, <2>3
    <3>2. n - 1 \in 0 .. VP_SIZE /\ n - 1 \in VPs /\ n - 1 < n
      BY <1>1, <3>1
    <3>3. n - 1 \notin D
      BY <2>3, <3>1, <3>2
    <3> QED
      BY <1>3, <3>1, <3>2, <3>3
  <2>5. w[n - 1] < 0
    BY <2>4
  <2>6. f[n - 1] <= 0
    <3>1. CASE n = 1
      BY <1>3, <3>1
    <3>2. CASE n # 1
      <4>1. n - 1 \in 1 .. VP_SIZE
        BY <1>1, <2>4, <3>2
      <4> QED
        BY <2>2, <2>4, <4>1
    <3> QED
      BY <3>1, <3>2
  <2> QED
    BY <2>4, <2>5, <2>6
<1>5. VP_SIZE \in 1 .. VP_SIZE /\ VP_SIZE \in 0 .. VP_SIZE
  BY <1>1
<1>6. f[VP_SIZE] < 0 /\ f[VP_SIZE] \in Int
  BY <1>3, <1>4, <1>5
<1> QED
  BY <1>2, <1>6

(* One call: the values still add up to 0, and only the path charged can   *)
(* fall, not below what the total weight of the call explains.             *)
LEMMA ChargedFacts ==
  ASSUME NEW c, NEW r, \A v \in VPs : c[v] \in Int /\ r[v] \in Nat, Total(c) = 0,
         NEW d, d = Charged(c, r)
  PROVE  /\ d \in [VPs -> Int] /\ Total(d) = 0
         /\ \A v \in VPs : d[v] >= c[v] \/ d[v] >= -Total(r) - SCALE
<1>1. PICK x : x = Chosen(c, r)
  OBVIOUS
<1>2. x \in VPs
  BY <1>1, ChosenIsPath
<1>3. PICK w : w = Raised(c, r)
  OBVIOUS
<1>4. w \in [VPs -> Int] /\ \A v \in VPs : w[v] = c[v] + r[v] /\ w[v] \in Int
  BY <1>3 DEF Raised
<1>5. Total(r) \in Nat
  BY TotalNatural
<1>6. PICK t : t = Total(r)
  OBVIOUS
<1>7. t \in Nat
  BY <1>5, <1>6
<1>8. d = [w EXCEPT ![x] = w[x] - t]
  BY <1>1, <1>2, <1>3, <1>4, <1>6 DEF Charged
<1>9. /\ d \in [VPs -> Int] /\ d[x] = w[x] - t
      /\ \A v \in VPs : d[v] \in Int /\ (v # x => d[v] = w[v])
  BY <1>2, <1>4, <1>7, <1>8
<1>10. Total(w) = t
  <2>1. \A v \in VPs : c[v] \in Int /\ r[v] \in Int
    OBVIOUS
  <2>2. Total(w) = Total(c) + Total(r)
    BY <1>3, <2>1, TotalRaised
  <2> QED
    BY <1>6, <1>7, <2>2
<1>11. Total(d) = 0
  <2>1. Total(d) = Total(w) + (d[x] - w[x])
    BY <1>2, <1>4, <1>9, TotalUpdate
  <2> QED
    BY <1>2, <1>4, <1>7, <1>9, <1>10, <2>1
<1>12. PICK u \in VPs : w[u] >= 0
  <2>1. Total(w) >= 0
    BY <1>7, <1>10
  <2> QED
    BY <1>4, <2>1, SomeNatural
<1>13. w[u] - w[x] < SCALE
  BY <1>1, <1>2, <1>4, ChosenNearlyGreatest
<1>14. d[x] >= -t - SCALE
  BY <1>2, <1>4, <1>7, <1>9, <1>12, <1>13, ScaleAssumption
<1>15. \A v \in VPs : v # x => d[v] >= c[v]
  BY <1>4, <1>9
<1> QED
  BY <1>6, <1>9, <1>11, <1>14, <1>15

-----------------------------------------------------------------------------
(* The round robin by itself: CLBSwrr, whose weights change at any time.   *)

(* The inductive invariant: the types, and what DebtBounded says.          *)
RrInv ==
  /\ r_rate \in [VPs -> Nat] /\ c_rate \in [VPs -> Int] /\ peak \in Nat
  /\ Total(c_rate) = 0
  /\ \A v \in VPs : c_rate[v] >= -peak - SCALE

LEMMA RrInvInit ==
  ASSUME RrInit PROVE RrInv
<1>1. /\ r_rate = [v \in VPs |-> INIT_RRATE] /\ c_rate = [v \in VPs |-> 0] /\ peak = 0
  BY DEF RrInit
<1>2. Total(c_rate) = 0
  BY <1>1, TotalZero
<1> QED
  BY <1>1, <1>2, WeightAssumption, ScaleAssumption DEF RrInv

LEMMA RrInvNext ==
  ASSUME RrInv, [RrNext]_rrVars PROVE RrInv'
<1>1. CASE Pick
  <2>1. PICK d : d = Charged(c_rate, r_rate)
    OBVIOUS
  <2>2. PICK t : t = Total(r_rate)
    OBVIOUS
  <2>3. /\ c_rate' = d /\ peak' = (IF t > peak THEN t ELSE peak) /\ r_rate' = r_rate
    BY <1>1, <2>1, <2>2 DEF Pick
  <2>4. t \in Nat
    BY <2>2, TotalNatural DEF RrInv
  <2>5. /\ d \in [VPs -> Int] /\ Total(d) = 0
        /\ \A v \in VPs : d[v] >= c_rate[v] \/ d[v] >= -t - SCALE
    BY <2>1, <2>2, ChargedFacts DEF RrInv
  <2>6. peak' \in Nat /\ peak' >= peak /\ peak' >= t
    BY <2>3, <2>4 DEF RrInv
  <2>7. \A v \in VPs : d[v] >= -peak' - SCALE
    BY <2>4, <2>5, <2>6, ScaleAssumption DEF RrInv
  <2> QED
    BY <2>3, <2>5, <2>6, <2>7 DEF RrInv
<1>2. ASSUME NEW v \in VPs, NEW w \in Rates, SetRate(v, w) PROVE RrInv'
  <2>1. r_rate' \in [VPs -> Nat] /\ c_rate' = c_rate /\ peak' = peak
    BY <1>2, RatesAssumption DEF SetRate, RrInv
  <2> QED
    BY <2>1 DEF RrInv
<1>3. CASE UNCHANGED rrVars
  BY <1>3 DEF rrVars, RrInv
<1> QED
  BY <1>1, <1>2, <1>3 DEF RrNext

(* The values of the round robin always add up to 0 and no path's value    *)
(* falls below what the greatest total weight so far explains, however     *)
(* often the weights change between two calls of vp_next_at_ratio_SWRR.    *)
THEOREM RoundRobinAlways == RrSpec => []RrInv
<1>1. RrInit => RrInv
  BY RrInvInit
<1>2. RrInv /\ [RrNext]_rrVars => RrInv'
  BY RrInvNext
<1> QED
  BY <1>1, <1>2, PTL DEF RrSpec

(* The loop of vp_next_at_ratio_SWRR, which keeps the greatest value so    *)
(* far in an int, always chooses the last path that takes the lead.        *)
THEOREM LoopIsChosenTheorem == RrSpec => []LoopIsChosen
<1>1. RrInv => LoopIsChosen
  BY LoopAgrees DEF RrInv, LoopIsChosen
<1> QED
  BY <1>1, RoundRobinAlways, PTL

(* The path that vp_next_at_ratio_SWRR chooses is never a whole packet/s   *)
(* behind another one: the int max_weight costs less than one unit.        *)
THEOREM NearlyGreatestTheorem == RrSpec => []NearlyGreatest
<1>1. RrInv => NearlyGreatest
  <2> SUFFICES ASSUME RrInv, NEW v \in VPs
               PROVE  Raised(c_rate, r_rate)[v] - Raised(c_rate, r_rate)[Chosen(c_rate, r_rate)] < SCALE
    BY DEF NearlyGreatest
  <2>1. Chosen(c_rate, r_rate) \in VPs
    BY ChosenIsPath
  <2> QED
    BY <2>1, ChosenNearlyGreatest DEF RrInv, Raised
<1> QED
  BY <1>1, RoundRobinAlways, PTL

(* c_rate stays between bounds that the greatest total weight sets: the    *)
(* truncation in vp_next_at_ratio_SWRR does not let debts pile up, also    *)
(* when a weight collapses while its path's value is high.                 *)
THEOREM DebtBoundedTheorem == RrSpec => []DebtBounded
<1>1. RrInv => DebtBounded
  BY DEF RrInv, DebtBounded
<1> QED
  BY <1>1, RoundRobinAlways, PTL
=============================================================================
