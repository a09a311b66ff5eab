--------------------------- MODULE MCWarpBarriers ---------------------------
(* Instances of WarpBarriers for TLC.                                      *)
EXTENDS WarpBarriers

Sync(b, n)   == [id |-> b, waits |-> TRUE, count |-> n]
Arrive(b, n) == [id |-> b, waits |-> FALSE, count |-> n]

\* Warps 1 to 3, in CTAs of two or three warps, leave the same sequence of
\* __syncthreads() after any number of them.  Warps 4 and 5 use counted barriers:
\* both wait at one, then one waits at the other and the second only arrives.
SyncWarps == {1, 2, 3}
PairWarps == {4, 5}
MixedSets == {SyncWarps, {1, 2}, PairWarps}
MixedOps  == {Sync(0, EveryWarp), Sync(1, EveryWarp), Sync(0, 2), Sync(1, 2), Arrive(1, 2)}
Mixed(w)  ==
  IF w \in SyncWarps
  THEN {SubSeq(<<Sync(0, EveryWarp), Sync(1, EveryWarp)>>, 1, n) : n \in 0..2}
  ELSE IF w = 4 THEN {<<Sync(0, 2), Sync(1, 2)>>} ELSE {<<Sync(0, 2), Arrive(1, 2)>>}

\* A producer says with bar.arrive that its data is there and goes on to wait
\* at another barrier; the consumer waits for the data first.
PairOnly     == {PairWarps}
HandoverOps  == {Sync(1, 2), Arrive(1, 2), Sync(0, 2)}
Handover(w)  ==
  IF w = 4 THEN {<<Sync(1, 2), Sync(0, 2)>>} ELSE {<<Arrive(1, 2), Sync(0, 2)>>}
=============================================================================
