---------------------------- MODULE MCDataCache ----------------------------
(* Instances of DataCache for TLC.                                         *)
EXTENDS DataCache, TLC

CONSTANTS b1, b2, b3, set1

OneSet == {set1}
InOneSet == [b \in Blocks |-> set1]

\* Configurations of configs/GTX480: L1 data, L2 and the constant cache; and a
\* write-through cache, which the configuration string allows.
L1D   == [write |-> "LOCAL_WB_GLOBAL_WT", alloc |-> "ON_MISS", miss |-> "NO_WRITE_ALLOCATE"]
L2    == [write |-> "WRITE_BACK", alloc |-> "ON_MISS", miss |-> "WRITE_ALLOCATE"]
Const == [write |-> "READ_ONLY", alloc |-> "ON_FILL", miss |-> "NO_WRITE_ALLOCATE"]
Through == [write |-> "WRITE_THROUGH", alloc |-> "ON_MISS", miss |-> "NO_WRITE_ALLOCATE"]

AllPolicies == {L1D, L2, Const, Through}
OnlyL1D == {L1D}
=============================================================================
