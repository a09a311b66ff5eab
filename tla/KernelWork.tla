----------------------------- MODULE KernelWork -----------------------------
(* What the CTA dispatcher promises about a grid, cores and slots left     *)
(* out: each CTA is handed out once, and the kernel is over at the moment  *)
(* the last of all its CTAs completes.                                     *)
EXTENDS Integers

CONSTANTS Kernels, Grid

VARIABLES left,    \* CTAs not handed out yet
          live,    \* CTAs running
          running, \* kernels launched and not over
          over     \* kernels whose end has been reported

vars == <<left, live, running, over>>

Init ==
  /\ left = Grid /\ live = [k \in Kernels |-> 0]
  /\ running = {} /\ over = {}

Launch(k) ==
  /\ k \notin running \cup over
  /\ running' = running \cup {k}
  /\ UNCHANGED <<left, live, over>>

HandOut(k) ==
  /\ k \in running /\ left[k] > 0
  /\ left' = [left EXCEPT ![k] = @ - 1]
  /\ live' = [live EXCEPT ![k] = @ + 1]
  /\ UNCHANGED <<running, over>>

CompleteOne(k) ==
  /\ live[k] > 0 /\ left[k] + live[k] > 1
  /\ live' = [live EXCEPT ![k] = @ - 1]
  /\ UNCHANGED <<left, running, over>>

CompleteLast(k) ==
  /\ left[k] = 0 /\ live[k] = 1
  /\ live' = [live EXCEPT ![k] = 0]
  /\ running' = running \ {k} /\ over' = over \cup {k}
  /\ UNCHANGED left

Next == \E k \in Kernels : Launch(k) \/ HandOut(k) \/ CompleteOne(k) \/ CompleteLast(k)

Spec == Init /\ [][Next]_vars
=============================================================================
