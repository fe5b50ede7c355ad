-------------------------------- MODULE Hermes --------------------------------
(***************************************************************************)
(* One HermesProcessor (clb/hermes-processor.cc): what a host running      *)
(* Hermes keeps for one peer.  As a sender it ranks its virtual paths by   *)
(* the delay and the share of marked packets that the peer reports, starts *)
(* a flow on the least used path of the best rank, and moves a flow off a  *)
(* congested path only if the other path is better by a margin.  As a      *)
(* receiver it measures the peer's paths and reports one path per packet,  *)
(* in turn; a measurement that is not renewed fades.                       *)
(*                                                                         *)
(* The peer and the network are the inputs of Recv.  The state keeps ages  *)
(* in place of times, cut off one above the greatest value they are        *)
(* compared with.  A ratio is a pair of counters and compared by cross     *)
(* multiplication.                                                         *)
(*                                                                         *)
(* Left out, because nothing but debug output reads them: global_ca,       *)
(* global_response, ece_cnt and the unused fields of ca_record and         *)
(* ca_response, recv_ecn and with it vp_recn among them.                   *)
(***************************************************************************)
EXTENDS CaRows, FiniteSets

CONSTANTS
  VP_SIZE,        \* number of virtual paths
  Flows,          \* flow ids
  RecvPaths,      \* the peer's virtual paths
  Rtts,           \* delays that may be reported
  Ratios,         \* ratios that may be reported, <<marked, all>>
  TH_RTT_LOW, TH_RTT_HIGH, DELTA_RTT,
  TH_ECN, DELTA_ECN,   \* ratios
  ECN_PCNT,       \* packets that a ratio is computed of
  T_RTT_EXPIRE, T_ECN_EXPIRE,
  Arrivals,       \* bound: path, mark and delay of the peer's packets
  RATE_R,         \* _R_ * T_REFRESH: packets per period of a busy path
  MaxUndefined    \* bound: packets sent on a path between two refreshes

ASSUME SizeAssumption == VP_SIZE \in Nat \ {0} /\ ECN_PCNT \in Nat \ {0}
ASSUME RttAssumption ==
  /\ Rtts \subseteq Nat /\ TH_RTT_LOW \in Nat /\ TH_RTT_HIGH \in Nat /\ DELTA_RTT \in Nat
ASSUME RatioAssumption ==
  Ratios \cup {TH_ECN, DELTA_ECN} \subseteq {r \in Nat \X Nat : r[2] > 0}
ASSUME TimesAssumption == T_RTT_EXPIRE \in Nat /\ T_ECN_EXPIRE \in Nat
ASSUME BoundsAssumption ==
  RATE_R \in Nat /\ MaxUndefined \in Nat /\ Arrivals \subseteq RecvPaths \X BOOLEAN \X Nat

VPs == 0 .. VP_SIZE - 1

VARIABLES
  c_rtt,            \* delay last reported for the path
  vp_ecn_ratio,     \* ratio last reported for the path
  rank,             \* "GOOD", "GREY" or "CONGESTED"
  send_undefined,   \* packets sent on the path since the last refresh
  busy,             \* rate of the path reached _R_ at the last refresh
  flow_table,       \* flow id -> path
  ca_map,           \* rows of the peer's paths
  ca_queue,         \* keys of the rows, in the order they are reported
  report,           \* the report in the packet just sent, if any
  left,             \* history: paths that a flow left since the last report
  quiet,            \* history: per path of the peer, time since its last
                    \* packet, and reports sent after T_ECN_EXPIRE of it
  measured          \* history: delay of its last packet

sender == <<c_rtt, vp_ecn_ratio, rank, send_undefined, busy, flow_table, left>>
receiver == <<ca_map, ca_queue, quiet, measured>>
vars == <<sender, receiver, report>>

Limit == IF T_RTT_EXPIRE > T_ECN_EXPIRE THEN T_RTT_EXPIRE ELSE T_ECN_EXPIRE

Older(age, limit) == IF age > limit THEN age ELSE age + 1

Init ==
  /\ c_rtt = [v \in VPs |-> 0]
  /\ vp_ecn_ratio = [v \in VPs |-> <<0, 1>>]
  /\ rank = [v \in VPs |-> "GOOD"]
  /\ send_undefined = [v \in VPs |-> 0]
  /\ busy = [v \in VPs |-> FALSE]
  /\ flow_table = << >>
  /\ ca_map = << >>
  /\ ca_queue = << >>
  /\ report = {}
  /\ left = [f \in Flows |-> {}]
  /\ quiet = [k \in RecvPaths |-> [age |-> Limit + 1, reports |-> 0]]
  /\ measured = [k \in RecvPaths |-> 0]

-----------------------------------------------------------------------------
(* Choosing a path.                                                        *)

Below(r, s) == r[1] * s[2] < s[1] * r[2]

(* r - s > d.                                                              *)
Exceeds(r, s, d) == (r[1] * s[2] - s[1] * r[2]) * d[2] > d[1] * r[2] * s[2]

Ranked(x) == {v \in VPs : rank[v] = x}

BestRank ==
  IF Ranked("GOOD") # {} THEN Ranked("GOOD")
  ELSE IF Ranked("GREY") # {} THEN Ranked("GREY")
  ELSE Ranked("CONGESTED")

(* Of the paths of the best rank the first with the fewest packets.  (No   *)
(* path ever gets the rank FAILED.)                                        *)
vp_next ==
  CHOOSE v \in BestRank : \A u \in BestRank :
    \/ send_undefined[v] < send_undefined[u]
    \/ send_undefined[v] = send_undefined[u] /\ v <= u

(* Mutant: the margins are left out.                                       *)
Better_Any(u, v) == TRUE

(* Path u is better than v by both margins.                                *)
Better(u, v) ==
  /\ c_rtt[v] - c_rtt[u] > DELTA_RTT
  /\ Exceeds(vp_ecn_ratio[v], vp_ecn_ratio[u], DELTA_ECN)

(* The path that a packet of flow f takes.                                 *)
PathOf(f) ==
  IF f \notin DOMAIN flow_table THEN vp_next
  ELSE LET v == flow_table[f]
       IN  IF rank[v] = "CONGESTED" /\ ~ busy[v] /\ Better(vp_next, v)
           THEN vp_next ELSE v

-----------------------------------------------------------------------------
(* The report.                                                             *)

(* The bitmap with one more bit: the last ECN_PCNT are kept.               *)
Pushed(bitmap, b) ==
  LET s == Append(bitmap, b)
  IN  IF Len(s) > ECN_PCNT THEN Tail(s) ELSE s

(* Mutant: a delay does not expire.                                        *)
Faded_Rtt(row) ==
  [row EXCEPT !.ecn_bitmap = IF row.ecn_age > T_ECN_EXPIRE THEN Pushed(@, FALSE) ELSE @]

(* Mutant: pushing a 0 renews ecn_time, as it renews rtt_time.             *)
Faded_Renew(row) ==
  [row EXCEPT !.recv_rtt = IF row.rtt_age > T_RTT_EXPIRE THEN 0 ELSE @,
              !.rtt_age = IF @ > T_RTT_EXPIRE THEN 0 ELSE @,
              !.ecn_age = IF @ > T_ECN_EXPIRE THEN 0 ELSE @,
              !.ecn_bitmap = IF row.ecn_age > T_ECN_EXPIRE THEN Pushed(@, FALSE) ELSE @]

(* Before it is reported, a row without recent packets fades: the delay    *)
(* becomes 0, and a 0 is pushed for every report.                          *)
Faded(row) ==
  [row EXCEPT !.recv_rtt = IF row.rtt_age > T_RTT_EXPIRE THEN 0 ELSE @,
              !.rtt_age = IF @ > T_RTT_EXPIRE THEN 0 ELSE @,
              !.ecn_bitmap = IF row.ecn_age > T_ECN_EXPIRE THEN Pushed(@, FALSE) ELSE @]

Ones(bitmap) == Cardinality({i \in DOMAIN bitmap : bitmap[i]})

(* send() of a packet of flow f.                                           *)
Send(f) ==
  LET v == PathOf(f)
      keys == Reported(ca_map, ca_queue)
  IN  /\ send_undefined[v] < MaxUndefined
      /\ flow_table' = [g \in DOMAIN flow_table \cup {f} |->
                          IF g = f THEN v ELSE flow_table[g]]
      /\ left' = IF f \in DOMAIN flow_table /\ v # flow_table[f]
                 THEN [left EXCEPT ![f] = @ \cup {flow_table[f]}] ELSE left
      /\ send_undefined' = [send_undefined EXCEPT ![v] = @ + 1]
      /\ ca_queue' = Rotated(ca_map, ca_queue)
      /\ ca_map' = [k \in DOMAIN ca_map \ Freed(ca_map, ca_queue) |->
                      IF k \in keys THEN Faded(ca_map[k]) ELSE ca_map[k]]
      /\ report' = {[vp_rid |-> k, vp_rtt |-> ca_map'[k].recv_rtt,
                     ecn_ratio |-> <<Ones(ca_map'[k].ecn_bitmap),
                                     Len(ca_map'[k].ecn_bitmap)>>] : k \in keys}
      /\ quiet' = [k \in RecvPaths |->
                     IF k \in keys /\ quiet[k].age > T_ECN_EXPIRE
                     THEN [quiet[k] EXCEPT !.reports = IF @ < ECN_PCNT THEN @ + 1 ELSE @]
                     ELSE quiet[k]]
      /\ UNCHANGED <<c_rtt, vp_ecn_ratio, rank, busy, measured>>

-----------------------------------------------------------------------------
(* Receiving.                                                              *)

Rank(rtt, ratio) ==
  IF Below(ratio, TH_ECN) /\ rtt < TH_RTT_LOW THEN "GOOD"
  ELSE IF Below(TH_ECN, ratio) /\ rtt > TH_RTT_HIGH THEN "CONGESTED"
  ELSE "GREY"

(* The peer's report on my path v.                                         *)
Learn(v, rtt, ratio) ==
  /\ c_rtt' = [c_rtt EXCEPT ![v] = rtt]
  /\ vp_ecn_ratio' = [vp_ecn_ratio EXCEPT ![v] = ratio]
  /\ rank' = [rank EXCEPT ![v] = Rank(rtt, ratio)]
  /\ left' = [f \in Flows |-> {}]

NewRow == [ecn_bitmap |-> << >>, recv_rtt |-> 0, rtt_age |-> 0, ecn_age |-> 0, age |-> 0]

(* The row after a packet.                                                 *)
Noted(row, ce, rtt) ==
  [row EXCEPT !.recv_rtt = rtt, !.rtt_age = 0, !.ecn_age = 0,
              !.ecn_bitmap = Pushed(@, ce)]

(* recv() of a packet that took the time rtt on the peer's path k, was     *)
(* marked (ce) or not, and carries the reports in reps, at most one.       *)
Recv(k, ce, rtt, reps) ==
  /\ IF reps = {} THEN UNCHANGED <<c_rtt, vp_ecn_ratio, rank, left>>
     ELSE \E r \in reps : Learn(r[1], r[2], r[3])
  /\ ca_queue' = Queued(ca_map, ca_queue, k)
  /\ ca_map' = [j \in DOMAIN ca_map \cup {k} |->
                  IF j # k THEN ca_map[j]
                  ELSE Noted(IF k \in DOMAIN ca_map THEN ca_map[k] ELSE NewRow, ce, rtt)]
  /\ quiet' = [quiet EXCEPT ![k] = [age |-> 0, reports |-> 0]]
  /\ measured' = [measured EXCEPT ![k] = rtt]
  /\ report' = {}
  /\ UNCHANGED <<send_undefined, busy, flow_table>>

-----------------------------------------------------------------------------

(* HermesProcessorTimer::expire, every T_REFRESH.                          *)
Expire ==
  /\ busy' = [v \in VPs |-> send_undefined[v] >= RATE_R]
  /\ send_undefined' = [v \in VPs |-> 0]
  /\ report' = {}
  /\ UNCHANGED <<c_rtt, vp_ecn_ratio, rank, flow_table, left, receiver>>

(* Time passes.                                                            *)
Tick ==
  /\ ca_map' = [k \in DOMAIN ca_map |->
                  [ca_map[k] EXCEPT !.age = Older(@, T_VP_EXPIRE),
                                    !.rtt_age = Older(@, T_RTT_EXPIRE),
                                    !.ecn_age = Older(@, T_ECN_EXPIRE)]]
  /\ quiet' = [k \in RecvPaths |-> [quiet[k] EXCEPT !.age = Older(@, Limit)]]
  /\ report' = {}
  /\ UNCHANGED <<sender, ca_queue, measured>>

(* The reports a packet may carry.                                         *)
Reports == {{}} \cup {{<<v, rtt, ratio>>} : v \in VPs, rtt \in Rtts, ratio \in Ratios}

Next ==
  \/ \E f \in Flows : Send(f)
  \/ \E x \in Arrivals, reps \in Reports : Recv(x[1], x[2], x[3], reps)
  \/ Expire
  \/ Tick

Spec == Init /\ [][Next]_vars

-----------------------------------------------------------------------------
(* Properties.                                                             *)

(* Flows do not oscillate: without a new report a flow never returns to a  *)
(* path it left, although the paths' load, which vp_next compares, changes *)
(* with every packet (send, vp_next).                                      *)
NoReturn ==
  \A f \in DOMAIN flow_table : flow_table[f] \notin left[f]

(* A delay that is reported is that of the last packet on the path, which  *)
(* came at most T_RTT_EXPIRE ago; afterwards 0 is reported.                *)
RttFresh ==
  \A r \in report :
    r.vp_rtt # 0 => /\ r.vp_rtt = measured[r.vp_rid]
                    /\ quiet[r.vp_rid].age <= T_RTT_EXPIRE

(* The marks of a path that has fallen silent are forgotten: each report   *)
(* after T_ECN_EXPIRE leaves room for one mark less, and after ECN_PCNT    *)
(* reports the ratio is 0.                                                 *)
MarksFade ==
  \A r \in report : r.ecn_ratio[1] + quiet[r.vp_rid].reports <= ECN_PCNT
=============================================================================
