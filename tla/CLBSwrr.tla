------------------------------- MODULE CLBSwrr -------------------------------
(***************************************************************************)
(* One CLBProcessor choosing virtual paths with vp_next_at_ratio_SWRR      *)
(* while the paths' weights change under it: an echoed congestion mark     *)
(* sets r_rate to the measured rate, which may be 0, and the reply to a    *)
(* probe raises it (vp_update_rrate and recv in clb/clb-processor.cc).     *)
(* The names Rr... let CLBProcessorProofs extend this module too.          *)
(***************************************************************************)
EXTENDS ClbWeights

CONSTANTS
  Rates,        \* weights that marks and probes may set
  MaxChanges    \* bound: how often a weight is changed

ASSUME RatesAssumption == Rates \subseteq Nat
ASSUME MaxChangesAssumption == MaxChanges \in Nat

VARIABLES
  r_rate,       \* weight of each path
  c_rate,       \* current value of each path
  changes,      \* number of weight changes so far
  peak          \* history: the greatest total weight used so far

rrVars == <<r_rate, c_rate, changes, peak>>

RrInit ==
  /\ r_rate = [v \in VPs |-> INIT_RRATE]
  /\ c_rate = [v \in VPs |-> 0]
  /\ changes = 0
  /\ peak = 0

(* vp_next() with burst_pending == false.                                  *)
Pick ==
  /\ c_rate' = Charged(c_rate, r_rate)
  /\ peak' = IF Total(r_rate) > peak THEN Total(r_rate) ELSE peak
  /\ UNCHANGED <<r_rate, changes>>

(* r_rate = rate on an echoed mark, r_rate = burst_rate on a probe reply.  *)
SetRate(v, w) ==
  /\ changes < MaxChanges
  /\ w # r_rate[v]
  /\ r_rate' = [r_rate EXCEPT ![v] = w]
  /\ changes' = changes + 1
  /\ UNCHANGED <<c_rate, peak>>

RrNext ==
  \/ Pick
  \/ \E v \in VPs, w \in Rates : SetRate(v, w)

RrSpec == RrInit /\ [][RrNext]_rrVars

(* The node keeps sending.                                                 *)
RrFairSpec == RrSpec /\ WF_rrVars(Pick)

-----------------------------------------------------------------------------
(* The loop and the closed form choose the same path.                      *)
LoopIsChosen == Loop(c_rate, r_rate).vp = Chosen(c_rate, r_rate)

(* The path chosen has the greatest raised value, up to the fraction of a  *)
(* packet/s that the int max_weight of the code cuts off.                  *)
NearlyGreatest ==
  LET w == Raised(c_rate, r_rate)
  IN  \A v \in VPs : w[v] - w[Chosen(c_rate, r_rate)] < SCALE

(* The values always add up to 0, however the weights change between the   *)
(* calls, and no path runs up a debt beyond what the greatest total so far *)
(* explains, also when its weight collapses while its value is high: this  *)
(* bounds the values on both sides and keeps max_weight inside an int.     *)
DebtBounded ==
  /\ Total(c_rate) = 0
  /\ \A v \in VPs : c_rate[v] >= -peak - SCALE

(* Path v is picked by the next call.                                      *)
PickedNext(v) == Chosen(c_rate, r_rate) = v

(* Once the weights stay put, every path with a weight is picked again and *)
(* again: neither the int max_weight nor left-over values starve it.       *)
NoStarvation ==
  \A v \in VPs : (r_rate[v] > 0) ~> (PickedNext(v) \/ r_rate[v] = 0)
=============================================================================
