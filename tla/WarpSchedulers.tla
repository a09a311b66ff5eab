--------------------------- MODULE WarpSchedulers ---------------------------
(* The orders in which the schedulers of a core try their warps            *)
(* (shader.cc, CAWS.cc) and the instruction count of the criticality       *)
(* prediction logic they read (CPL.cc).  Pure operators: the schedulers'   *)
(* state is in CorePipeline.  Supervised warps are listed as the code      *)
(* keeps them, in the order of their numbers.                              *)
EXTENDS Integers, Sequences, FiniteSets, SequencesExt

\* order_lrr(): n elements of s after position last; position 0 stands for end().
order_lrr(s, last, n) == [i \in 1..n |-> s[((last + i - 1) % Len(s)) + 1]]

\* std::sort: the elements of S in a sequence in which none comes after one that it
\* is Before; the order of those no comparison tells apart is any.
Sorted(S, Before(_, _)) ==
  {q \in SetToSeqs(S) : \A i, j \in DOMAIN q : Before(q[i], q[j]) => i < j}

\* Idle is done_exit() || waiting(): idle warps go last; among the others the smaller
\* key goes first.
sort_warps(s, idle, Before(_, _)) ==
  Sorted(ToSet(s), LAMBDA v, w : ~idle[v] /\ (idle[w] \/ Before(v, w)))

sort_warps_by_oldest_dynamic_idM(s, idle, dyn) ==  \* mutant: waiting() not tested
  Sorted(ToSet(s), LAMBDA v, w : dyn[v] < dyn[w])
sort_warps_by_oldest_dynamic_id(s, idle, dyn) ==
  sort_warps(s, idle, LAMBDA v, w : dyn[v] < dyn[w])

sort_warps_by_criticality(s, idle, dyn, cpl) ==
  sort_warps(s, idle, LAMBDA v, w : cpl[v] > cpl[w] \/ (cpl[v] = cpl[w] /\ dyn[v] < dyn[w]))

\* order_by_priority() with ORDERING_GREEDY_THEN_PRIORITY_FUNC, and that of gCAWS:
\* the warp that issued last, then those of the first n that are others.
GreedyThen(sorted, greedy, n) ==
  {<<greedy>> \o RemoveFirst(SubSeq(q, 1, n), greedy) : q \in sorted}

\* order_warps() of the schedulers that build their list anew in each cycle: the lists
\* it may build.  last is a position of s, 0 when nothing has issued.
Order(policy, s, last, limit, idle, dyn, cpl) ==
  CASE policy = "lrr"   -> {order_lrr(s, last, Len(s))}
    [] policy = "gto"   -> GreedyThen(sort_warps_by_oldest_dynamic_id(s, idle, dyn), s[last], Len(s))
    [] policy = "swl"   -> GreedyThen(sort_warps_by_oldest_dynamic_id(s, idle, dyn), s[last], limit)
    [] policy = "caws"  -> sort_warps_by_criticality(s, idle, dyn, cpl)
    [] policy = "gcaws" -> LET sorted == sort_warps_by_criticality(s, idle, dyn, cpl)
                           IN  IF last = 0 THEN sorted ELSE GreedyThen(sorted, s[last], Len(s))

\* done_adding_supervised_warps(): begin() or end().
FirstIssued(policy) == IF policy \in {"gto", "swl"} THEN 1 ELSE 0

\* two_level_active_scheduler::order_warps(): warps that wait leave the active
\* list, and as many of those pending longest take their places.
Demote(active, pending, wait, max) ==
  LET Listed(S) == Sorted(S, LAMBDA v, w : \E i, j \in DOMAIN active :
                                             i < j /\ active[i] = v /\ active[j] = w)
      queue(gone) == pending \o gone
      n(kept)     == max - Len(kept)
      lists(kept, gone) == [active  |-> kept \o SubSeq(queue(gone), 1, n(kept)),
                            pending |-> SubSeq(queue(gone), n(kept) + 1, Len(queue(gone)))]
  IN  UNION {{lists(kept, gone) : gone \in Listed({w \in ToSet(active) : wait[w]})} :
               kept \in Listed({w \in ToSet(active) : ~wait[w]})}

-----------------------------------------------------------------------------
(* CPL: tw_nInst estimates the instructions a warp has ahead of it.        *)

\* tw_find_next_pc(): the smallest of the threads' pcs, or the smallest ahead of
\* the warp when some are behind it and some ahead.
tw_find_next_pc(cur, pcs) ==
  LET ahead == {p \in pcs : p > cur}
      least == CHOOSE x \in pcs : \A y \in pcs : x <= y
  IN  IF least < cur /\ ahead # {} THEN CHOOSE x \in ahead : \A y \in ahead : x <= y ELSE least

\* tw_warp_issue(): a back edge to npc adds the distance plus one, a skip to npc
\* takes the distance less one away: the same formula.
tw_warp_issueM(nInst, cur, npc) == nInst + (cur - npc) + (IF npc > cur THEN 1 ELSE 0)  \* mutant: a back edge is one short
tw_warp_issue(nInst, cur, npc) == nInst + (cur - npc) + 1
=============================================================================
