-------------------------------- MODULE Clove --------------------------------
(***************************************************************************)
(* One CLOVEProcessor (clb/clove-processor.cc): what a host running CLOVE  *)
(* keeps for one peer.  As a sender it spreads its packets over VP_SIZE    *)
(* virtual paths by smooth weighted round robin; a path whose packets the  *)
(* peer saw marked loses a third of its weight, at most once per HOLD_OFF, *)
(* and gets its full weight back T_WEIGHT_EXPIRE after the last reduction. *)
(* As a receiver it reports marks, one path per packet in turn.  It hides  *)
(* TCP's congestion echo from the host while some path has its full        *)
(* weight.                                                                 *)
(*                                                                         *)
(* The peer and the network are the inputs of Recv: any report, any mark.  *)
(* Only differences to the clock matter, so the state keeps ages, cut off  *)
(* one above the greatest value they are compared with.  Weights are in    *)
(* units of 1/SCALE, as in Swrr.                                           *)
(*                                                                         *)
(* Left out, because nothing but debug output reads them: global_ca,       *)
(* global_response, flow_table, and all fields of ca_record and            *)
(* ca_response but weight, current_weight, r_time, recv_ecn and time.      *)
(***************************************************************************)
EXTENDS Swrr, CaRows, FiniteSets

CONSTANTS
  RecvPaths,        \* the peer's virtual paths
  CLOVE_WI,         \* full weight, in units of 1/SCALE
  HOLD_OFF,         \* 5 * PRE_RTT
  T_WEIGHT_EXPIRE

ASSUME RecvPathsAssumption == IsFiniteSet(RecvPaths)
ASSUME WeightAssumption == CLOVE_WI \in Nat /\ CLOVE_WI > SCALE
ASSUME TimesAssumption ==
  /\ HOLD_OFF \in Nat /\ T_WEIGHT_EXPIRE \in Nat
  /\ HOLD_OFF < T_WEIGHT_EXPIRE

VARIABLES
  weight,           \* weight of each path
  current_weight,   \* its value in the round robin
  r_age,            \* time since r_time of the path
  ca_map,           \* rows of the peer's paths: a function on those present
  ca_queue,         \* keys of the rows, in the order they are reported
  ece,              \* TCP's echo was passed on to the host just now
  evidence,         \* history: time since a mark was last reported for the
                    \* path, as the last send or a later recv saw it
  wait,             \* history: packets sent since the row's mark came in
  loss_age          \* history: time since ca_next freed a row with a mark

sender == <<weight, current_weight, r_age>>
receiver == <<ca_map, ca_queue>>
history == <<evidence, wait, loss_age>>
vars == <<sender, receiver, ece, history>>

Older(age, limit) == IF age > limit THEN age ELSE age + 1

Init ==
  /\ weight = [v \in VPs |-> CLOVE_WI]
  /\ current_weight = [v \in VPs |-> 0]
  /\ r_age = [v \in VPs |-> 0]
  /\ ca_map = << >>
  /\ ca_queue = << >>
  /\ ece = FALSE
  /\ evidence = [v \in VPs |-> [age |-> T_WEIGHT_EXPIRE + 1, seen |-> FALSE]]
  /\ wait = [k \in RecvPaths |-> 0]
  /\ loss_age = [k \in RecvPaths |-> T_VP_EXPIRE + 1]

-----------------------------------------------------------------------------
(* Sending.                                                                *)

(* Mutant: a reduced weight never comes back.                              *)
Aged_Never == weight

(* vp_next checks every path's age before it uses the weight.              *)
Aged == [v \in VPs |-> IF r_age[v] > T_WEIGHT_EXPIRE THEN CLOVE_WI ELSE weight[v]]

(* The values after vp_next; the packet takes the path that is charged.    *)
vp_next == Charged(current_weight, Aged)

(* A row that is freed before its mark was reported.                       *)
Lost(k) ==
  k \in Freed(ca_map, ca_queue) /\ k \in DOMAIN ca_map /\ ca_map[k].recv_ecn

Unmarked(k) == [ca_map[k] EXCEPT !.recv_ecn = FALSE]

(* send().                                                                 *)
Send ==
  /\ weight' = Aged
  /\ current_weight' = vp_next
  /\ ca_queue' = Rotated(ca_map, ca_queue)
  /\ ca_map' = [k \in DOMAIN ca_map \ Freed(ca_map, ca_queue) |->
                  IF k \in Reported(ca_map, ca_queue) THEN Unmarked(k) ELSE ca_map[k]]
  /\ evidence' = [v \in VPs |->
                    [evidence[v] EXCEPT !.seen = evidence[v].age <= T_WEIGHT_EXPIRE]]
  /\ wait' = [k \in RecvPaths |->
                IF k \in DOMAIN ca_map' /\ ca_map'[k].recv_ecn THEN wait[k] + 1 ELSE 0]
  /\ loss_age' = [k \in RecvPaths |->
                    IF Lost(k) THEN 0 ELSE loss_age[k]]
  /\ ece' = FALSE
  /\ UNCHANGED r_age

-----------------------------------------------------------------------------
(* Receiving.                                                              *)

Reducible(v) == weight[v] > SCALE /\ r_age[v] > HOLD_OFF

(* weight -= weight / 3.                                                   *)
Less(w) == w - (w \div 3)

(* Mutant: every mark restarts r_time, also if it cuts nothing.            *)
Marked_Restart(v) ==
  /\ weight' = IF Reducible(v) THEN [weight EXCEPT ![v] = Less(@)] ELSE weight
  /\ r_age' = [r_age EXCEPT ![v] = 0]
  /\ evidence' = [evidence EXCEPT ![v] = [age |-> 0, seen |-> TRUE]]

(* The peer reports that a packet on path v was marked.                    *)
Marked(v) ==
  /\ IF Reducible(v)
     THEN weight' = [weight EXCEPT ![v] = Less(@)] /\ r_age' = [r_age EXCEPT ![v] = 0]
     ELSE UNCHANGED <<weight, r_age>>
  /\ evidence' = [evidence EXCEPT ![v] = [age |-> 0, seen |-> TRUE]]

(* ecn_truncate: some path has its full weight.                            *)
Truncates(w) == \E v \in VPs : CLOVE_WI - w[v] < SCALE

(* Mutant: the row remembers the latest packet only.                       *)
Noted_Latest(k, ce) ==
  IF k \in DOMAIN ca_map THEN [ca_map[k] EXCEPT !.recv_ecn = ce]
  ELSE [recv_ecn |-> ce, age |-> 0]

(* Mutant: a row is as old as its predecessor, and so freed right away.    *)
Noted_Stale(k, ce) ==
  IF k \in DOMAIN ca_map THEN [ca_map[k] EXCEPT !.recv_ecn = @ \/ ce]
  ELSE [recv_ecn |-> ce, age |-> T_VP_EXPIRE + 1]

(* The row of k after a packet.  Its time is that of its creation.         *)
Noted(k, ce) ==
  IF k \in DOMAIN ca_map THEN [ca_map[k] EXCEPT !.recv_ecn = @ \/ ce]
  ELSE [recv_ecn |-> ce, age |-> 0]

(* recv() of a packet that travelled on the peer's path k and was marked   *)
(* on the way (ce) or not, that carries a report of a mark on my path v    *)
(* (v \in marks), and TCP's echo or not.  A report without a mark changes  *)
(* nothing.                                                                *)
Recv(k, ce, marks, echo) ==
  /\ IF marks = {} THEN UNCHANGED <<weight, r_age, evidence>>
     ELSE \E v \in marks : Marked(v)
  /\ ece' = (echo /\ ~ Truncates(weight'))
  /\ ca_queue' = Queued(ca_map, ca_queue, k)
  /\ ca_map' = [j \in DOMAIN ca_map \cup {k} |->
                  IF j = k THEN Noted(k, ce) ELSE ca_map[j]]
  /\ UNCHANGED <<current_weight, wait, loss_age>>

-----------------------------------------------------------------------------

(* Time passes.                                                            *)
Tick ==
  /\ r_age' = [v \in VPs |-> Older(r_age[v], T_WEIGHT_EXPIRE)]
  /\ ca_map' = [k \in DOMAIN ca_map |-> [ca_map[k] EXCEPT !.age = Older(@, T_VP_EXPIRE)]]
  /\ evidence' = [v \in VPs |-> [evidence[v] EXCEPT !.age = Older(@, T_WEIGHT_EXPIRE)]]
  /\ loss_age' = [k \in RecvPaths |-> Older(loss_age[k], T_VP_EXPIRE)]
  /\ ece' = FALSE
  /\ UNCHANGED <<weight, current_weight, ca_queue, wait>>

(* At most one report per packet.                                          *)
Reports == {{}} \cup {{v} : v \in VPs}

Next ==
  \/ Send
  \/ \E k \in RecvPaths, ce, echo \in BOOLEAN, marks \in Reports :
       Recv(k, ce, marks, echo)
  \/ Tick

Spec == Init /\ [][Next]_vars

(* Time goes on and the host keeps sending; nothing is assumed of the      *)
(* packets it receives.                                                    *)
FairSpec == Spec /\ WF_vars(Tick) /\ WF_vars(Send)

-----------------------------------------------------------------------------
(* Properties.                                                             *)

(* The queue holds exactly the rows, each once, although rows are created, *)
(* freed by ca_next and created again (ca_alloc, ca_free, ca_next), and a  *)
(* mark waits for its report at most until every other row had its turn:   *)
(* the k-th row of the queue has waited for the rows behind it only.       *)
ReportedInTurn ==
  /\ {ca_queue[i] : i \in DOMAIN ca_queue} = DOMAIN ca_map
  /\ Len(ca_queue) = Cardinality(DOMAIN ca_map)
  /\ \A i \in DOMAIN ca_queue :
       LET k == ca_queue[i]
       IN  ca_map[k].recv_ecn => wait[k] + i <= Cardinality(RecvPaths)

(* recv and the passing of time never take a mark from a row, and send     *)
(* takes away at most the one it reports and those of rows past their time *)
(* (ca_next).                                                              *)
MarksKept ==
  [][\A k \in DOMAIN ca_map :
       ca_map[k].recv_ecn =>
         \/ k \in DOMAIN ca_map' /\ ca_map'[k].recv_ecn
         \/ Send /\ (k \in Reported(ca_map, ca_queue) \/ ca_map[k].age > T_VP_EXPIRE)]_vars

(* A row is freed T_VP_EXPIRE after its creation even if its path is busy, *)
(* and takes an unreported mark with it; but this happens at most once in  *)
(* T_VP_EXPIRE per path.                                                   *)
LossesSpaced ==
  [][\A k \in RecvPaths :
       Send /\ Lost(k) => loss_age[k] > T_VP_EXPIRE]_vars

(* The host sees TCP's echo only when every path is known to be congested: *)
(* each had a mark reported at most T_WEIGHT_EXPIRE before the last packet *)
(* was sent, or after it.                                                  *)
EchoJustified == ece => \A v \in VPs : evidence[v].seen

(* A path gets its full weight back again and again, even if every packet  *)
(* on it is marked: at the least weight a mark no longer restarts r_time.  *)
Recovers == \A v \in VPs : []<>(weight[v] = CLOVE_WI)
=============================================================================
