---------------------------- MODULE MCCacpCache ----------------------------
(* Instances of CacpCache for TLC.                                         *)
EXTENDS CacpCache, TLC

CONSTANTS b1, b2, b3, set1

OneSet == {set1}
InOneSet == [b \in Blocks |-> set1]

L1D == [write |-> "LOCAL_WB_GLOBAL_WT", alloc |-> "ON_MISS", miss |-> "NO_WRITE_ALLOCATE"]
OnlyL1D == {L1D}

CacpSymmetry == Permutations(Mfs) \cup Permutations(Signatures)
=============================================================================
