--------------------------- MODULE MCFluxnodeCache ---------------------------
(* Small instances of FluxnodeCache for TLC. *)
EXTENDS FluxnodeCache

\* All collaterals are of one tier.
OneTier == [o \in Outpoints |-> 1]
=============================================================================
