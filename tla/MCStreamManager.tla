-------------------------- MODULE MCStreamManager --------------------------
(* Instances of StreamManager for TLC.                                     *)
EXTENDS StreamManager, TLC

CONSTANTS h1, h2, s1, s2

OneHost  == {h1}
TwoHosts == {h1, h2}
TwoStreams == {s1, s2}

StreamSymmetry == Permutations(Hosts) \cup Permutations(StreamIds)
=============================================================================
