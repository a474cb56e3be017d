---------------------------- MODULE MCFluxnodeStore ----------------------------
EXTENDS FluxnodeStore

OneTier == [o \in Outpoints |-> CHOOSE t \in Tiers : TRUE]

\* A damaged node is followed no further than its second block.
DamageBound == Undamaged \/ connects < 2
=============================================================================
