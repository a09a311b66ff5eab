----------------------------- MODULE DramChannel -----------------------------
(* dram_t of one memory channel: the queue of requests from the memory     *)
(* partition, the scheduler (dram_sched.cc or FIFO), the banks with their  *)
(* timing counters, and the pipeline in which data travel to or from the   *)
(* banks.  The state of a channel is a record and dram_t::cycle() an       *)
(* operator on it, the composition of its four parts.                      *)
EXTENDS Integers, Sequences, FiniteSets, SequencesExt

CONSTANTS NumBanks,    \* nbk
          NumGroups,   \* nbkgrp
          T,           \* timing: CCD, CCDL, RRD, RCD, RCDWR, RAS, RP, RC, WTR, RTW, WTP, RTP, RTPL
          CL, WL,      \* latency of reads and of writes
          SchedSize,   \* gpgpu_frfcfs_dram_sched_queue_size, 0 for no limit
          ReturnSize,  \* gpgpu_dram_return_queue_size
          NoReq, NoRow

Banks  == 0..(NumBanks - 1)
Groups == 0..(NumGroups - 1)

ASSUME DramConstants ==
  /\ NumGroups \in Nat \ {0} /\ NumBanks \in Nat \ {0} /\ NumBanks % NumGroups = 0
  /\ WL \in 1..CL /\ CL \in Nat
  /\ SchedSize \in Nat /\ ReturnSize \in Nat \ {0}
  /\ T \in [{"CCD", "CCDL", "RRD", "RCD", "RCDWR", "RAS", "RP", "RC",
             "WTR", "RTW", "WTP", "RTP", "RTPL"} -> Nat]

MrqqSize == 2
Full(queue, size) == Len(queue) >= size

-----------------------------------------------------------------------------
(* fifo_pipeline with a minimal length: padded with empty slots, of which  *)
(* the last is used by the next push.                                      *)

PipePush(p, x) ==
  IF p.slots # <<>> /\ Last(p.slots) = NoReq /\ Len(p.slots) >= p.min
  THEN [p EXCEPT !.slots[Len(p.slots)] = x]
  ELSE [p EXCEPT !.slots = Append(@, x)]

Padded(queue, n) == queue \o [i \in 1..Max({0, n - Len(queue)}) |-> NoReq]
PipePop(p) == [p EXCEPT !.slots = IF @ = <<>> THEN @ ELSE Padded(Tail(@), p.min)]

SetMinLength(p, n) ==
  LET used == {i \in DOMAIN p.slots : p.slots[i] # NoReq}
  IN IF n >= p.min THEN [min |-> n, slots |-> Padded(p.slots, n)]
     ELSE [min |-> n, slots |-> SubSeq(p.slots, 1, Max(used \cup {n}))]

-----------------------------------------------------------------------------
Timers == {"RCD", "RCDWR", "RAS", "RC", "RP", "WTP", "RTP"}

EmptyChannel ==
  [mrqq    |-> <<>>,
   queue   |-> [b \in Banks |-> <<>>],      \* m_queue, oldest first; a bin of m_bins is
                                            \* the subsequence of one row
   lastrow |-> [b \in Banks |-> NoRow],     \* m_last_row
   bank    |-> [b \in Banks |-> [mrq |-> NoReq, tx |-> 0, open |-> FALSE, row |-> 0,
                                 c |-> [t \in Timers |-> 0]]],
   group   |-> [g \in Groups |-> [CCDL |-> 0, RTPL |-> 0]],
   c       |-> [t \in {"RRD", "CCD", "RTW", "WTR"} |-> 0],
   prio    |-> 0,
   rw      |-> "read",
   rwq     |-> [min |-> CL, slots |-> Padded(<<>>, CL)],
   returnq |-> <<>>]

\* num_pending()
Pending(d) == LET n[b \in 0..NumBanks] == IF b = 0 THEN 0 ELSE n[b - 1] + Len(d.queue[b - 1])
              IN n[NumBanks]

\* dram_t::full
DramFull(d, policy) == IF policy = "frfcfs" THEN SchedSize # 0 /\ Pending(d) >= SchedSize
                       ELSE Full(d.mrqq, MrqqSize)

\* A request takes one transfer (one dram_atom) for each of its r.n atoms.
DramPush(d, r) == [d EXCEPT !.mrqq = Append(@, r)]

-----------------------------------------------------------------------------
(* dram_t::cycle, first part: the transfer at the end of rwq; with its     *)
(* last one a read goes to returnq, and a write that is acknowledged too.  *)

Arriving(d) == IF Full(d.returnq, ReturnSize) \/ d.rwq.slots = <<>> THEN NoReq
               ELSE Head(d.rwq.slots)
\* The slots with the last transfer of a request.
Complete(slots) == {i \in DOMAIN slots : slots[i] # NoReq /\ slots[i].atom >= slots[i].req.n}
\* The request that is complete with this cycle.
Completing(d) == IF Arriving(d) = NoReq THEN NoReq
                 ELSE IF Arriving(d).atom >= Arriving(d).req.n THEN Arriving(d).req ELSE NoReq

Transfer(d) ==
  IF Full(d.returnq, ReturnSize) THEN d
  ELSE [d EXCEPT !.rwq = PipePop(@),
                 !.returnq = IF Completing(d) # NoReq /\ ~Completing(d).writeback
                             THEN Append(@, Completing(d)) ELSE @]

-----------------------------------------------------------------------------
(* Second part: scheduler_fifo, or scheduler_frfcfs with                   *)
(* frfcfs_scheduler::add_req and schedule.                                 *)

ScheduleFifo(d) ==
  IF d.mrqq # <<>> /\ d.bank[Head(d.mrqq).bk].mrq = NoReq
  THEN [d EXCEPT !.bank[Head(d.mrqq).bk].mrq = Head(d.mrqq), !.mrqq = Tail(@)]
  ELSE d

AddReqM(d) ==  \* mutant: newest requests to the end of the list that is served first
  IF d.mrqq = <<>> \/ (SchedSize # 0 /\ Pending(d) >= SchedSize) THEN d
  ELSE [d EXCEPT !.queue[Head(d.mrqq).bk] = <<Head(d.mrqq)>> \o @, !.mrqq = Tail(@)]
AddReq(d) ==
  IF d.mrqq = <<>> \/ (SchedSize # 0 /\ Pending(d) >= SchedSize) THEN d
  ELSE [d EXCEPT !.queue[Head(d.mrqq).bk] = Append(@, Head(d.mrqq)), !.mrqq = Tail(@)]
\* The loop, of two rounds since mrqq holds no more (MrqqSize).
Drain(d) == AddReq(AddReq(d))

HasRow(queue, row) == \E i \in DOMAIN queue : queue[i].row = row

\* The row served next in a bank: the one being served, or else the open one, or
\* else that of the oldest request.
RowOf(d, b) == IF d.lastrow[b] # NoRow THEN d.lastrow[b]
               ELSE IF HasRow(d.queue[b], d.bank[b].row) THEN d.bank[b].row
               ELSE Head(d.queue[b]).row

\* schedule(b, curr_row) for the first idle bank, from prio on, that has requests.
FirstFrom(d, Allowed(_)) ==
  LET ok == {i \in Banks : Allowed((i + d.prio) % NumBanks)}
  IN IF ok = {} THEN NoReq ELSE (Min(ok) + d.prio) % NumBanks

ServeBankM(d, b) ==  \* mutant: m_last_row kept when its bin is empty
  LET row  == RowOf(d, b)
      i    == SelectInSeq(d.queue[b], LAMBDA r : r.row = row)
  IN [d EXCEPT !.bank[b].mrq = d.queue[b][i],
               !.queue[b] = RemoveAt(@, i),
               !.lastrow[b] = row,
               !.prio = (@ + 1) % NumBanks]
ServeBank(d, b) ==
  LET row  == RowOf(d, b)
      i    == SelectInSeq(d.queue[b], LAMBDA r : r.row = row)
      rest == RemoveAt(d.queue[b], i)
  IN [d EXCEPT !.bank[b].mrq = d.queue[b][i],
               !.queue[b] = rest,
               !.lastrow[b] = IF HasRow(rest, row) THEN row ELSE NoRow,
               !.prio = (@ + 1) % NumBanks]

ScheduleFrFcfs(d0) ==
  LET d == Drain(d0)
      b == FirstFrom(d, LAMBDA j : d.bank[j].mrq = NoReq /\ d.queue[j] # <<>>)
  IN IF b = NoReq THEN d ELSE ServeBank(d, b)

Schedule(d, policy) == IF policy = "frfcfs" THEN ScheduleFrFcfs(d) ELSE ScheduleFifo(d)

-----------------------------------------------------------------------------
(* Third part: one command to one bank.                                    *)

\* bk_tag_length is the number of binary digits of the size of a group, one more
\* than the number of a bank in its group has: commands are told apart by twice
\* the group, at least.
TagSpan == LET n == NumBanks \div NumGroups IN Min({2^i : i \in {j \in 0..n : 2^j > n}})
Group(b) == b \div TagSpan

BankGroup(b) == b \div (NumBanks \div NumGroups)  \* bkgrpindex

\* The tags keep the banks of a group together: so it is when the size of a group
\* is a power of two, as in all the configurations shipped.
ASSUME TagsTellGroups ==
  \A b, c \in Banks : Group(b) \in Groups /\ (BankGroup(b) = BankGroup(c) => Group(b) = Group(c))

\* What the bank could be told now.
Column(d, b, rw, rcd, turn) ==
  /\ d.c.CCD = 0 /\ d.bank[b].c[rcd] = 0 /\ d.group[Group(b)].CCDL = 0 /\ d.c[turn] = 0
  /\ d.bank[b].open /\ d.bank[b].row = d.bank[b].mrq.row /\ d.bank[b].mrq.rw = rw
  /\ ~Full(d.rwq.slots, CL + 1)
MayActivateM(d, b) ==  \* mutant: RCc not tested
  /\ ~d.bank[b].open /\ d.c.RRD = 0 /\ d.bank[b].c.RP = 0
MayActivate(d, b) ==
  /\ ~d.bank[b].open /\ d.c.RRD = 0 /\ d.bank[b].c.RP = 0 /\ d.bank[b].c.RC = 0
MayPrecharge(d, b) ==
  /\ d.bank[b].open /\ d.bank[b].row # d.bank[b].mrq.row
  /\ d.bank[b].c.RAS = 0 /\ d.bank[b].c.WTP = 0 /\ d.bank[b].c.RTP = 0
  /\ d.group[Group(b)].RTPL = 0

CommandTo(d, b) ==
  IF d.bank[b].mrq = NoReq THEN "nop"
  ELSE IF Column(d, b, "read", "RCD", "WTR") THEN "read"
  ELSE IF Column(d, b, "write", "RCDWR", "RTW") THEN "write"
  ELSE IF MayActivate(d, b) THEN "activate"
  ELSE IF MayPrecharge(d, b) THEN "precharge"
  ELSE "nop"

\* The command of this cycle: to the first bank from prio on.
Command(d) ==
  LET b == FirstFrom(d, LAMBDA j : CommandTo(d, j) # "nop")
  IN IF b = NoReq THEN [kind |-> "nop", bank |-> 0] ELSE [kind |-> CommandTo(d, b), bank |-> b]

\* A read or write of one atom; the last one frees the bank.
ColumnIssued(d, b, rw) ==
  LET pipe == IF d.rw = rw THEN d.rwq ELSE SetMinLength(d.rwq, IF rw = "read" THEN CL ELSE WL)
      atom == d.bank[b].tx + 1
      done == atom >= d.bank[b].mrq.n
  IN [d EXCEPT !.rw = rw,
               !.rwq = PipePush(pipe, [req |-> d.bank[b].mrq, atom |-> atom]),
               !.bank[b].tx = IF done THEN 0 ELSE atom,
               !.bank[b].mrq = IF done THEN NoReq ELSE @,
               !.c.CCD = T.CCD,
               !.group[Group(b)].CCDL = T.CCDL]

Issue(d, c) ==
  CASE c.kind = "read" ->
         [ColumnIssued(d, c.bank, "read") EXCEPT !.c.RTW = T.RTW, !.bank[c.bank].c.RTP = T.RTP,
                                                 !.group[Group(c.bank)].RTPL = T.RTPL]
    [] c.kind = "write" ->
         [ColumnIssued(d, c.bank, "write") EXCEPT !.c.WTR = T.WTR, !.bank[c.bank].c.WTP = T.WTP]
    [] c.kind = "activate" ->
         [d EXCEPT !.bank[c.bank].open = TRUE,
                   !.bank[c.bank].row = d.bank[c.bank].mrq.row,
                   !.bank[c.bank].c = [t \in Timers |-> IF t \in {"RCD", "RCDWR", "RAS", "RC"}
                                                        THEN T[t] ELSE @[t]],
                   !.c.RRD = T.RRD,
                   !.prio = (c.bank + 1) % NumBanks]
    [] c.kind = "precharge" ->
         [d EXCEPT !.bank[c.bank].open = FALSE,
                   !.bank[c.bank].c.RP = T.RP,
                   !.prio = (c.bank + 1) % NumBanks]
    [] OTHER -> d

-----------------------------------------------------------------------------
(* Fourth part: every counter is decremented.                              *)

Less(f) == [t \in DOMAIN f |-> IF f[t] > 0 THEN f[t] - 1 ELSE 0]
Tick(d) == [d EXCEPT !.c = Less(@),
                     !.bank = [b \in Banks |-> [d.bank[b] EXCEPT !.c = Less(@)]],
                     !.group = [g \in Groups |-> Less(d.group[g])]]

\* The command of a cycle, and the cycle.
CommandOf(d, policy) == Command(Schedule(Transfer(d), policy))
DramCycled(d, policy) == LET e == Schedule(Transfer(d), policy) IN Tick(Issue(e, Command(e)))

-----------------------------------------------------------------------------
(* What has to lie between two commands, in cycles.                        *)

MinGap(x, y) ==
  LET same  == x.bank = y.bank
      group == BankGroup(x.bank) = BankGroup(y.bank)
      If(p, n) == IF p THEN n ELSE 0
  IN CASE x.kind = "activate" /\ y.kind = "activate"  -> IF same THEN T.RC ELSE T.RRD
       [] x.kind = "activate" /\ y.kind = "read"      -> If(same, T.RCD)
       [] x.kind = "activate" /\ y.kind = "write"     -> If(same, T.RCDWR)
       [] x.kind = "activate" /\ y.kind = "precharge" -> If(same, T.RAS)
       [] x.kind = "precharge" /\ y.kind = "activate" -> If(same, T.RP)
       [] x.kind = "read" /\ y.kind = "precharge"     -> IF same THEN T.RTP ELSE If(group, T.RTPL)
       [] x.kind = "write" /\ y.kind = "precharge"    -> If(same, T.WTP)
       [] x.kind = "write" /\ y.kind = "read"         -> IF T.WTR > T.CCD THEN T.WTR ELSE T.CCD
       [] x.kind = "read" /\ y.kind = "write"         -> IF T.RTW > T.CCD THEN T.RTW ELSE T.CCD
       [] x.kind = y.kind /\ x.kind \in {"read", "write"} -> IF group THEN T.CCDL ELSE T.CCD
       [] OTHER -> 0
=============================================================================
