----------------------------- MODULE ClbWeights -----------------------------
(***************************************************************************)
(* The round robin with the weights of CLB: every path starts with the     *)
(* same r_rate (init_ca_record in clb/clb-processor.h).                    *)
(***************************************************************************)
EXTENDS Swrr

CONSTANT INIT_RRATE     \* initial weight of a path, in units of 1/SCALE packet/s

ASSUME WeightAssumption == INIT_RRATE \in Nat
=============================================================================
