---------------------------- MODULE WarpBarriers ----------------------------
(* barrier_set_t: the named barriers of the CTAs on one core (shader.cc).  *)
(*                                                                         *)
(* A warp runs its program: a sequence of bar instructions, then exit.     *)
(* The scheduler issues for any warp that is not waiting; the CTA gives    *)
(* its barriers back when the last of its warps has been reclaimed.        *)
EXTENDS Integers, FiniteSetsExt, Sequences

CONSTANTS Warps,        \* of the core
          Ctas,         \* hardware CTA slots
          BarIds,       \* 0..max_barriers_per_cta-1
          CtaSets,      \* the sets of warps a CTA may be given
          Ops,          \* the bar instructions of the kernels
          Programs(_)   \* the sequences of them a warp may run

EveryWarp == 0  \* bar_count of an instruction without one; else counted in warps

\* waits: bar.sync and bar.red; not bar.arrive, which always has a count.
ASSUME BarrierConstants ==
  /\ BarIds \subseteq Nat
  /\ Ops \subseteq [id : BarIds, waits : BOOLEAN, count : Nat]
  /\ CtaSets \subseteq SUBSET Warps /\ {} \notin CtaSets
  /\ \A op \in Ops : ~op.waits => op.count # EveryWarp
  /\ \A w \in Warps : Programs(w) \subseteq Seq(Ops)

NoOp == [id |-> -1, waits |-> FALSE, count |-> 0]

VARIABLES
  ctaWarps,  \* m_cta_to_warps; no entry is {}
  active,    \* m_warp_active
  waiting,   \* m_warp_at_barrier
  arrived,   \* m_bar_id_to_warps
  last,      \* m_inst_at_barrier of each warp
  todo       \* the bar instructions each warp has still to issue

vars == <<ctaWarps, active, waiting, arrived, last, todo>>

Present(c) == ctaWarps[c] # {}
Live(c) == ctaWarps[c] \cap active

Init ==
  /\ ctaWarps = [c \in Ctas |-> {}]
  /\ active = {} /\ waiting = {}
  /\ arrived = [b \in BarIds |-> {}]
  /\ last = [w \in Warps |-> NoOp]
  /\ todo = [w \in Warps |-> <<>>]

\* issue_block2core() and allocate_barrier(): a CTA on warps no CTA holds.
Allocate(c, ws) ==
  /\ ~Present(c)
  /\ \A d \in Ctas : ws \cap ctaWarps[d] = {}
  /\ ctaWarps' = [ctaWarps EXCEPT ![c] = ws]
  /\ active' = active \cup ws
  /\ waiting' = waiting \ ws
  /\ arrived' = [b \in BarIds |-> arrived[b] \ ws]
  /\ \E program \in [ws -> UNION {Programs(w) : w \in ws}] :
       /\ \A w \in ws : program[w] \in Programs(w)
       /\ todo' = [w \in Warps |-> IF w \in ws THEN program[w] ELSE todo[w]]
  /\ UNCHANGED last

\* warp_reaches_barrier(): the barrier is complete when every running warp of
\* the CTA is at it, or as many warps as the instruction says.
CompleteM(c, op, at) == IF op.count = EveryWarp  \* mutant: exited warps are waited for
                        THEN at = ctaWarps[c] ELSE Cardinality(at) = op.count
CompleteM2(c, op, at) == IF op.count = EveryWarp  \* mutant: the first arrival releases
                         THEN at = Live(c) ELSE at # {}
Complete(c, op, at) == IF op.count = EveryWarp
                       THEN at = Live(c) ELSE Cardinality(at) = op.count

ClearedM(b, at) == arrived[b] \cup at  \* mutant: the bits are not reset
Cleared(b, at) == arrived[b] \ at

Reach(c, w) ==
  LET op == Head(todo[w])
      at == (arrived[op.id] \cup {w}) \cap ctaWarps[c]
      stopped == IF op.waits THEN waiting \cup {w} ELSE waiting
  IN
  /\ w \in ctaWarps[c] /\ w \notin waiting
  /\ todo[w] # <<>>
  /\ todo' = [todo EXCEPT ![w] = Tail(@)]
  /\ last' = [last EXCEPT ![w] = op]
  /\ IF Complete(c, op, at)
     THEN /\ arrived' = [arrived EXCEPT ![op.id] = Cleared(op.id, at)]
          /\ waiting' = stopped \ at
     ELSE /\ arrived' = [arrived EXCEPT ![op.id] = @ \cup {w}]
          /\ waiting' = stopped
  /\ UNCHANGED <<ctaWarps, active>>

\* shader_core_ctx::warp_exit() waits for the last thread of the warp.
ThreadsDone(w) == todo[w] = <<>>

\* warp_exit(): the barriers where all the remaining warps are get released.
FreedByExitM(c, w) == {}  \* mutant: the test for barrier release is left out
FreedByExit(c, w) == {b \in BarIds : arrived[b] \cap ctaWarps[c] = Live(c) \ {w}}
Exit(c, w) ==
  LET freed == FreedByExit(c, w) IN
  /\ w \in Live(c) /\ w \notin waiting
  /\ ThreadsDone(w)
  /\ active' = active \ {w}
  /\ arrived' = [b \in BarIds |-> IF b \in freed THEN Cleared(b, ctaWarps[c]) ELSE arrived[b]]
  /\ waiting' = waiting \ UNION {arrived[b] \cap ctaWarps[c] : b \in freed}
  /\ UNCHANGED <<ctaWarps, last, todo>>

\* deallocate_barrier(), from register_cta_thread_exit() for the last thread.
Deallocate(c) ==
  /\ Present(c) /\ Live(c) = {}
  /\ ctaWarps' = [ctaWarps EXCEPT ![c] = {}]
  /\ active' = active \ ctaWarps[c]
  /\ waiting' = waiting \ ctaWarps[c]
  /\ arrived' = [b \in BarIds |-> arrived[b] \ ctaWarps[c]]
  /\ UNCHANGED <<last, todo>>

Next ==
  \E c \in Ctas :
    \/ \E ws \in CtaSets : Allocate(c, ws)
    \/ \E w \in Warps : Reach(c, w) \/ Exit(c, w)
    \/ Deallocate(c)

\* Every warp that can issue does in the end; fetch() reclaims exited warps.
Fairness ==
  \A c \in Ctas :
    /\ \A w \in Warps : WF_vars(Reach(c, w)) /\ WF_vars(Exit(c, w))
    /\ WF_vars(Deallocate(c))

Spec == Init /\ [][Next]_vars
LiveSpec == Spec /\ Fairness
-----------------------------------------------------------------------------
(* Properties.                                                             *)

\* The bit sets keep to the core's warps, and only running warps issue.
TypeOK ==
  /\ ctaWarps \in [Ctas -> SUBSET Warps]
  /\ active \in SUBSET Warps /\ waiting \in SUBSET Warps
  /\ arrived \in [BarIds -> SUBSET Warps]
  /\ last \in [Warps -> Ops \cup {NoOp}]
  /\ todo \in [Warps -> Seq(Ops)]
  /\ \A w \in Warps : todo[w] # <<>> => w \in active

WaitsAt(w, b) == w \in waiting /\ last[w].id = b

Issues(w, op) == todo[w] # <<>> /\ op = Head(todo[w]) /\ todo'[w] = Tail(todo[w])

\* The warps of c at barrier b: they wait there, said with bar.arrive that they
\* had been, or come in this step.
AtBarrier(c, b) ==
  {w \in ctaWarps[c] :
     \/ WaitsAt(w, b)
     \/ w \in arrived[b] /\ ~(last[w].waits /\ last[w].id = b)
     \/ \E op \in Ops : Issues(w, op) /\ op.id = b}

\* "all warps have reached barrier, so release waiting warps", "required number
\* of warps have reached barrier" (shader.cc:2732, 2742): a warp goes on from a
\* barrier, at once or after waiting, only when the running warps of its CTA or
\* the number of warps its instruction names are at that barrier.
Passes(w, op) == /\ op.waits /\ w \notin waiting'
                 /\ (w \in waiting /\ op = last[w]) \/ Issues(w, op)
ReleaseJustified ==
  [][\A c \in Ctas, op \in Ops : \A w \in ctaWarps[c] : Passes(w, op) =>
       \/ AtBarrier(c, op.id) = ctaWarps[c] \cap active'
       \/ op.count # EveryWarp /\ Cardinality(AtBarrier(c, op.id)) = op.count]_vars

\* No barrier every running warp waits at is left closed, whichever of the last
\* arrival and the last exit came first.
NobodyStuck ==
  \A c \in Ctas, op \in Ops :
    op.count = EveryWarp /\ Live(c) # {} =>
      \E w \in Live(c) : ~WaitsAt(w, op.id)

\* "no warps stuck at barrier", the assertions of deallocate_barrier(): a CTA
\* whose warps have all exited leaves no trace in the barriers.
LeavesClean ==
  \A c \in Ctas : Live(c) = {} =>
    /\ ctaWarps[c] \cap waiting = {}
    /\ \A b \in BarIds : ctaWarps[c] \cap arrived[b] = {}

\* The bit sets keep to the warps of their CTAs and no barrier stays closed.
BarriersSound == TypeOK /\ NobodyStuck

\* Warps that agree on their barriers all get through them and exit.
CtasFinish == \A c \in Ctas : Present(c) ~> ~Present(c)
=============================================================================
