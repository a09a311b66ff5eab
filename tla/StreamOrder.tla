----------------------------- MODULE StreamOrder -----------------------------
(* What the stream manager promises: each stream is a FIFO whose head, and  *)
(* only whose head, is in progress; stream zero runs alone.                 *)
EXTENDS Sequences

CONSTANTS StreamIds, Zero, Operations

VARIABLES q,    \* operations submitted and not completed, per stream
          exec  \* streams whose head is in progress

vars == <<q, exec>>
Queues == StreamIds \cup {Zero}

Init == q = [s \in Queues |-> <<>>] /\ exec = {}

Submit(s, op) == q' = [q EXCEPT ![s] = Append(@, op)] /\ UNCHANGED exec

Begin(s) ==
  /\ s \notin exec /\ q[s] # <<>>
  /\ IF s = Zero THEN exec = {} ELSE Zero \notin exec
  /\ exec' = exec \cup {s}
  /\ UNCHANGED q

Complete(s) ==
  /\ s \in exec
  /\ exec' = exec \ {s}
  /\ q' = [q EXCEPT ![s] = Tail(@)]

Next == \E s \in Queues :
          Begin(s) \/ Complete(s) \/ \E op \in Operations : Submit(s, op)

Spec == Init /\ [][Next]_vars
=============================================================================
