-------------------------------- MODULE Swrr --------------------------------
(***************************************************************************)
(* The smooth weighted round robin of CLBProcessor::vp_next_at_ratio_SWRR  *)
(* (clb/clb-processor.cc), as operators on the virtual paths' r_rate       *)
(* (weight) and c_rate (current value).                                    *)
(*                                                                         *)
(* The code computes in double and keeps the greatest value seen so far in *)
(* an int.  Rates are fixed-point numbers here: the integer x stands for   *)
(* x / SCALE packets per second, and Trunc is the conversion to int.       *)
(***************************************************************************)
EXTENDS Integers

CONSTANTS
  VP_SIZE,      \* number of virtual paths
  SCALE         \* fixed-point units per packet/s

ASSUME VpSizeAssumption == VP_SIZE \in Nat \ {0}
ASSUME ScaleAssumption == SCALE \in Nat \ {0}

(* vp_alloc numbers the paths with hashkey_counter; std::map iterates over *)
(* them in this order.                                                     *)
VPs == 0 .. VP_SIZE - 1

Trunc(x) == SCALE * (IF x >= 0 THEN x \div SCALE ELSE -((-x) \div SCALE))

(* car->c_rate += weight, for every path.                                  *)
Raised(c, r) == [v \in VPs |-> c[v] + r[v]]

(***************************************************************************)
(* The loop, one round per path: Loop(c, r)[i] is (max_vp, max_weight)     *)
(* after i rounds.                                                         *)
(***************************************************************************)
Loop(c, r) ==
  LET w == Raised(c, r)
      best[i \in 0 .. VP_SIZE] ==
        IF i = 0 THEN [vp |-> 0, max |-> Trunc(c[0])]
        ELSE IF w[i - 1] > best[i - 1].max
             THEN [vp |-> i - 1, max |-> Trunc(w[i - 1])]
             ELSE best[i - 1]
  IN  best[VP_SIZE]

(***************************************************************************)
(* The same choice without the loop: path v takes the lead when its raised *)
(* value exceeds the truncated values of begin() and of all paths before   *)
(* it; the last path to take the lead is chosen, begin() if none does.     *)
(***************************************************************************)
Leads(v, c, r) ==
  /\ c[v] + r[v] > Trunc(c[0])
  /\ \A u \in 0 .. v - 1 : c[v] + r[v] > Trunc(c[u] + r[u])

(* Mutant: >= in place of > lets an equal later path overtake.             *)
LastNotBelow(c, r) ==
  CHOOSE v \in VPs : /\ \A u \in VPs : c[v] + r[v] >= c[u] + r[u]
                     /\ \A u \in v + 1 .. VP_SIZE - 1 :
                          c[u] + r[u] < c[v] + r[v]

(* Mutant: the path with the greatest weight, not the greatest value.      *)
GreatestWeight(c, r) ==
  CHOOSE v \in VPs : \A u \in VPs : r[v] >= r[u]

Chosen(c, r) ==
  IF \E v \in VPs : Leads(v, c, r)
  THEN CHOOSE v \in VPs : /\ Leads(v, c, r)
                          /\ \A u \in v + 1 .. VP_SIZE - 1 : ~ Leads(u, c, r)
  ELSE 0

(* max_vp->c_rate -= total.                                                *)
Total(r) ==
  LET sum[i \in 0 .. VP_SIZE] == IF i = 0 THEN 0 ELSE sum[i - 1] + r[i - 1]
  IN  sum[VP_SIZE]

(* Mutant: the loop works on copies of the records and writes none back.   *)
ChargedCopies(c, r) == c

Charged(c, r) == [Raised(c, r) EXCEPT ![Chosen(c, r)] = @ - Total(r)]
=============================================================================
