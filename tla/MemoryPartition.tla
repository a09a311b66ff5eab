--------------------------- MODULE MemoryPartition ---------------------------
(* memory_partition_unit: the L2 slices (memory_sub_partition) of one      *)
(* memory channel, the arbitration between them by credits, and the DRAM   *)
(* channel.  Requests come from the interconnect and are answered to it;   *)
(* a slice adds the reads of write-allocation and the write-backs of its   *)
(* L2.  The domains of L2, DRAM and interconnect are clocked in any ratio. *)
(*                                                                         *)
(* A slice is a record, and each part of cache_cycle() an operator on it.  *)
(* Abstracted: the choice of the L2's victim (any line that may be         *)
(* evicted, LRU being in DataCache), and the fixed delays of the ROP and   *)
(* DRAM latency queues (any delay).                                        *)
EXTENDS DramChannel

CONSTANTS NumSubs,               \* m_n_sub_partition_per_memory_channel
          Blocks, RowOfBlock,    \* addresses, and their decoding (addrdec.cc)
          BankOfBlock,
          InSize, TodramSize, FromdramSize, OutSize,  \* gpgpu_L2_queue_config
          Ways, MshrEntries, MaxMerge, MissQueueSize, \* the L2, one set of Ways lines
          LineAtoms, LineCycles, \* a line, in DRAM transfers and in cycles of a port
          Setups,                \* workload and configuration
          Window                 \* commands remembered

Subs == 0..(NumSubs - 1)
SubOf(b) == BankOfBlock[b] % NumSubs

ASSUME PartitionConstants ==
  /\ NumSubs \in Nat \ {0}
  /\ RowOfBlock \in [Blocks -> Nat] /\ BankOfBlock \in [Blocks -> Banks]
  /\ \A n \in {InSize, TodramSize, FromdramSize, OutSize, Ways, MshrEntries, MaxMerge,
               MissQueueSize, LineAtoms, LineCycles} : n \in Nat \ {0}
  /\ SchedSize + ReturnSize - (NumSubs - 1) >= 0
  /\ Window \in Nat
  /\ \A c \in Setups :
       /\ c.l2 \in {"off", "all", "texture"} /\ c.sched \in {"frfcfs", "fifo"} /\ c.flush \in BOOLEAN
       /\ c.reqs \in Seq([kind : {"read", "write", "l1wb", "atomic", "texture"}, block : Blocks])

\* No pointer to a request is NULL.
AnyMf       == ({"req", "alloc"} \X Nat) \cup ({"wb"} \X Blocks)
AnyReq      == [mf : AnyMf, bk : Banks, row : Nat, rw : {"read", "write"}, writeback : BOOLEAN, n : Nat]
AnyTransfer == [req : AnyReq, atom : Nat]
ASSUME NullIsNoRequest == NoReq \notin AnyReq /\ NoReq \notin AnyTransfer

VARIABLES
  setup,    \* requests, use of the L2 and scheduler: never changes
  arrived,  \* requests that have arrived
  sub,      \* the slices
  latency,  \* m_dram_latency_queue
  credit,   \* m_arbitration_metadata
  dram,     \* the channel
  answered, \* requests answered, or completed if they need no answer
  bus,      \* the last Window commands to the banks
  clock     \* the domain that had a cycle in which its delays could end

vars == <<setup, arrived, sub, latency, credit, dram, answered, bus, clock>>

\* The mem_fetch objects: those of the setup, the reads of write-allocation, and
\* the write-backs of the L2.
Reqs == DOMAIN setup.reqs
Used == {setup.reqs[r].block : r \in Reqs}
Mfs  == ({"req", "alloc"} \X Reqs) \cup ({"wb"} \X Used)
Kind(mf)  == IF mf[1] = "req" THEN setup.reqs[mf[2]].kind ELSE mf[1]
Block(mf) == IF mf[1] = "wb" THEN mf[2] ELSE setup.reqs[mf[2]].block
IsWrite(mf)     == Kind(mf) \in {"write", "l1wb", "wb"}
IsWriteback(mf) == Kind(mf) \in {"l1wb", "wb"}

EmptySlice ==
  [rop |-> <<>>, in |-> <<>>, todram |-> <<>>, fromdram |-> <<>>, out |-> <<>>,
   line |-> [b \in Blocks |-> "none"],                       \* the L2: its lines,
   mshr |-> [b \in Blocks |-> <<>>], ready |-> <<>>,         \* MSHRs and responses,
   extra |-> {}, missq |-> <<>>,                             \* m_extra_mf_fields, miss queue
   fill |-> 0, data |-> 0,                                   \* and occupied ports
   tracker |-> {}]                                           \* m_request_tracker

Init ==
  /\ setup \in Setups
  /\ arrived = {} /\ answered = {} /\ latency = <<>>
  /\ sub = [s \in Subs |-> EmptySlice]
  /\ credit = [private |-> [s \in Subs |-> 0], shared |-> 0, last |-> NumSubs - 1]
  /\ dram = EmptyChannel
  /\ bus = <<>>
  /\ clock = "dram"

-----------------------------------------------------------------------------
(* memory_sub_partition::cache_cycle, part by part                         *)

L2On == setup.l2 # "off"
ForL2(mf) == setup.l2 = "all" \/ (setup.l2 = "texture" /\ Kind(mf) = "texture")

\* An access the L2 has filled is answered; one made for a write-allocation ends.
Reply(u) ==
  IF ~L2On \/ u.ready = <<>> \/ Full(u.out, OutSize) THEN u
  ELSE LET b  == Head(u.ready)
           mf == Head(u.mshr[b])
       IN [u EXCEPT !.mshr[b] = Tail(@),
                    !.ready = IF Len(u.mshr[b]) = 1 THEN Tail(@) ELSE @,
                    !.out = IF Kind(mf) = "alloc" THEN @ ELSE Append(@, mf)]

\* A response of DRAM fills the L2, or goes to the interconnect.
HasAtomic(u, b) == \E i \in DOMAIN u.mshr[b] : Kind(u.mshr[b][i]) = "atomic"
ForwardM(u) ==  \* mutant: popped although the fill port is busy
  IF u.fromdram # <<>> /\ L2On /\ u.fill > 0 THEN [u EXCEPT !.fromdram = Tail(@)]
  ELSE IF u.fromdram = <<>> THEN u
  ELSE LET mf == Head(u.fromdram)
       IN IF L2On /\ mf \in u.extra
          THEN [u EXCEPT !.fromdram = Tail(@), !.extra = @ \ {mf}, !.fill = LineCycles,
                         !.line[Block(mf)] = "valid", !.ready = Append(@, Block(mf))]
          ELSE IF Full(u.out, OutSize) THEN u
          ELSE [u EXCEPT !.fromdram = Tail(@), !.out = Append(@, mf)]
Forward(u) ==
  IF u.fromdram = <<>> THEN u
  ELSE LET mf == Head(u.fromdram)
       IN IF L2On /\ mf \in u.extra
          THEN IF u.fill > 0 THEN u
               ELSE [u EXCEPT !.fromdram = Tail(@), !.extra = @ \ {mf}, !.fill = LineCycles,
                              !.line[Block(mf)] = IF HasAtomic(u, Block(mf)) THEN "modified"
                                                  ELSE "valid",
                              !.ready = Append(@, Block(mf))]
          ELSE IF Full(u.out, OutSize) THEN u
          ELSE [u EXCEPT !.fromdram = Tail(@), !.out = Append(@, mf)]

\* baseline_cache::cycle: a miss to DRAM, and the ports.
SendMiss(u) ==
  LET sent == L2On /\ u.missq # <<>> /\ ~Full(u.todram, TodramSize)
  IN [u EXCEPT !.missq = IF sent THEN Tail(@) ELSE @,
               !.todram = IF sent THEN Append(@, Head(u.missq)) ELSE @,
               !.fill = IF @ > 0 THEN @ - 1 ELSE @,
               !.data = IF @ > 0 THEN @ - 1 ELSE @]

\* An access that hits is answered at once; an L1 write-back needs no answer.
HitM(u, mf) ==  \* mutant: the L1 write-back stays in the tracker
  [u EXCEPT !.in = Tail(@),
            !.line[Block(mf)] = IF IsWrite(mf) \/ Kind(mf) = "atomic" THEN "modified" ELSE @,
            !.data = @ + 1,
            !.out = IF Kind(mf) = "l1wb" THEN @ ELSE Append(@, mf)]
Hit(u, mf) ==
  [u EXCEPT !.in = Tail(@),
            !.line[Block(mf)] = IF IsWrite(mf) \/ Kind(mf) = "atomic" THEN "modified" ELSE @,
            !.data = @ + 1,
            !.out = IF Kind(mf) = "l1wb" THEN @ ELSE Append(@, mf),
            !.tracker = IF Kind(mf) = "l1wb" THEN @ \ {mf[2]} ELSE @]

\* The lines a miss may take: its own, an unused one (NoReq), or that of a block
\* to be evicted.
Victims(u, b) ==
  IF u.line[b] = "reserved" THEN {b}
  ELSE IF Cardinality({c \in Blocks : u.line[c] # "none"}) < Ways THEN {NoReq}
  ELSE {c \in Blocks : u.line[c] \in {"valid", "modified"}}

\* miss_queue_full, and the tests of wr_miss_wa and send_read_request.
Accepts(u, mf) ==
  /\ Len(u.missq) + (IF IsWrite(mf) THEN 2 ELSE 1) < MissQueueSize
  /\ IF u.mshr[Block(mf)] # <<>> THEN Len(u.mshr[Block(mf)]) < MaxMerge
     ELSE Cardinality({b \in Blocks : u.mshr[b] # <<>>}) < MshrEntries

\* rd_miss_base, or wr_miss_wa: the write, the read of its block, and the
\* write-back of the victim.
Miss(u, mf, victim) ==
  LET b      == Block(mf)
      reader == IF IsWrite(mf) THEN <<"alloc", mf[2]>> ELSE mf
      dirty  == victim # NoReq /\ victim # b /\ u.line[victim] = "modified"
      merged == u.mshr[b] # <<>>
  IN [u EXCEPT !.in = Tail(@),
               !.line = [c \in Blocks |-> IF c = b THEN "reserved"
                                          ELSE IF c = victim THEN "none" ELSE @[c]],
               !.mshr[b] = Append(@, reader),
               !.extra = IF merged THEN @ ELSE @ \cup {reader},
               !.missq = @ \o (IF IsWrite(mf) THEN <<mf>> ELSE <<>>)
                           \o (IF merged THEN <<>> ELSE <<reader>>)
                           \o (IF dirty THEN << <<"wb", victim>> >> ELSE <<>>),
               !.data = IF dirty /\ ~IsWrite(mf) THEN LineCycles ELSE @]

\* A new access.  One the L2 cannot accept is tried again.
Accessed(u) ==
  IF Full(u.todram, TodramSize) \/ u.in = <<>> THEN {u}
  ELSE LET mf == Head(u.in)
       IN IF ~ForL2(mf) THEN {[u EXCEPT !.in = Tail(@), !.todram = Append(@, mf)]}
          ELSE IF Full(u.out, OutSize) \/ u.data > 0 THEN {u}
          ELSE IF u.line[Block(mf)] \in {"valid", "modified"} THEN {Hit(u, mf)}
          ELSE IF Victims(u, Block(mf)) = {} \/ ~Accepts(u, mf) THEN {u}
          ELSE {Miss(u, mf, v) : v \in Victims(u, Block(mf))}

\* The ROP delay queue.
LeaveRop(u, ripe) ==
  IF ripe /\ u.rop # <<>> /\ ~Full(u.in, InSize)
  THEN [u EXCEPT !.rop = Tail(@), !.in = Append(@, Head(u.rop))] ELSE u

-----------------------------------------------------------------------------
(* The L2 domain: memory_sub_partition::push, and cache_cycle              *)

\* Requests of a slice arrive in their order.
Arrivals(s) == {r \in Reqs \ arrived : /\ SubOf(setup.reqs[r].block) = s
                                       /\ \A q \in Reqs \ arrived :
                                            SubOf(setup.reqs[q].block) = s => r <= q}

Pushed(u, r) ==
  LET v == [u EXCEPT !.tracker = @ \cup {r}]
  IN IF setup.reqs[r].kind = "texture" THEN [v EXCEPT !.in = Append(@, <<"req", r>>)]
     ELSE [v EXCEPT !.rop = Append(@, <<"req", r>>)]

\* What a cycle can make of a slice, which takes request r or none.
Cycled(s, ripe) ==
  UNION {{[slice |-> LeaveRop(v, ripe), r |-> {}] : v \in Accessed(SendMiss(Forward(Reply(sub[s]))))},
         UNION {{[slice |-> LeaveRop(v, ripe), r |-> {r}] :
                  v \in Accessed(SendMiss(Forward(Reply(Pushed(sub[s], r)))))} :
                r \in {q \in Arrivals(s) : ~Full(sub[s].in, InSize)}}}

L2Cycle(ripe) ==
  /\ \E c \in [Subs -> UNION {Cycled(s, s \in ripe) : s \in Subs}] :
       /\ \A s \in Subs : c[s] \in Cycled(s, s \in ripe)
       /\ sub' = [s \in Subs |-> c[s].slice]
       /\ arrived' = arrived \cup UNION {c[s].r : s \in Subs}
       /\ answered' = arrived' \ UNION {c[s].slice.tracker : s \in Subs}
  /\ clock' = IF ripe = Subs THEN "L2" ELSE clock
  /\ UNCHANGED <<setup, latency, credit, dram, bus>>

\* The interconnect domain: top and pop of the slices for which it has a buffer.
Respond(ready) ==
  LET takes == {s \in ready : sub[s].out # <<>>}
      done  == {Head(sub[s].out)[2] : s \in takes}
  IN /\ sub' = [s \in Subs |-> IF s \in takes THEN [sub[s] EXCEPT !.out = Tail(@), !.tracker = @ \ done]
                               ELSE sub[s]]
     /\ answered' = answered \cup done
     /\ clock' = IF ready = Subs THEN "icnt" ELSE clock
     /\ UNCHANGED <<setup, arrived, latency, credit, dram, bus>>

-----------------------------------------------------------------------------
(* The DRAM domain: memory_partition_unit::dram_cycle, part by part, on    *)
(* the record of what it changes.                                          *)

SharedLimit == IF SchedSize = 0 THEN 0 ELSE SchedSize + ReturnSize - (NumSubs - 1)
HasCredits(c, s) == c.private[s] < 1 \/ SharedLimit = 0 \/ c.shared < SharedLimit
Borrow(c, s) == IF c.private[s] < 1 THEN [c EXCEPT !.private[s] = @ + 1, !.last = s]
                ELSE [c EXCEPT !.shared = @ + 1, !.last = s]
ReturnCreditM(c, s) == [c EXCEPT !.shared = @ - 1]  \* mutant: always a shared one
ReturnCredit(c, s) == IF c.private[s] > 0 THEN [c EXCEPT !.private[s] = @ - 1]
                      ELSE [c EXCEPT !.shared = @ - 1]

\* A read or acknowledged write comes back to its slice.
Return(p) ==
  IF p.dram.returnq = <<>> THEN p
  ELSE LET mf == Head(p.dram.returnq).mf
           s  == SubOf(Block(mf))
       IN IF Full(p.sub[s].fromdram, FromdramSize) THEN p
          ELSE [p EXCEPT !.sub[s].fromdram = Append(@, mf),
                         !.credit = ReturnCredit(@, s),
                         !.dram.returnq = Tail(@)]

\* dram_t::cycle; a write-back that is complete is set_done.
Dram(p) ==
  LET done == Completing(p.dram)
      q    == [p EXCEPT !.dram = DramCycled(@, setup.sched)]
  IN IF done = NoReq THEN q
     ELSE IF ~done.writeback THEN q
     ELSE LET s == SubOf(Block(done.mf))
          IN [q EXCEPT !.credit = ReturnCredit(@, s),
                       !.sub[s].tracker = IF Kind(done.mf) = "l1wb" THEN @ \ {done.mf[2]} ELSE @]

\* One slice, round robin, sends a request to DRAM.
Arbitrate(p) ==
  LET May(i) == LET s == (p.credit.last + i) % NumSubs
                IN /\ p.sub[s].todram # <<>>
                   /\ HasCredits(p.credit, s) /\ ~Full(p.sub[s].fromdram, FromdramSize)
      ok == {i \in 1..NumSubs : May(i)}
      s  == (p.credit.last + Min(ok)) % NumSubs
  IN IF DramFull(p.dram, setup.sched) \/ ok = {} THEN p
     ELSE [p EXCEPT !.sub[s].todram = Tail(@),
                    !.latency = Append(@, Head(p.sub[s].todram)),
                    !.credit = Borrow(@, s)]

\* dram_req_t
DramReq(mf) ==
  LET b == Block(mf)
  IN [mf |-> mf, bk |-> BankOfBlock[b], row |-> RowOfBlock[b],
      rw |-> IF IsWrite(mf) THEN "write" ELSE "read",
      writeback |-> IsWriteback(mf),
      n |-> IF mf \in sub[SubOf(b)].extra \/ Kind(mf) = "wb" THEN LineAtoms ELSE 1]

LeaveLatency(p, ripe) ==
  IF ripe /\ p.latency # <<>> /\ ~DramFull(p.dram, setup.sched)
  THEN [p EXCEPT !.latency = Tail(@), !.dram = DramPush(@, DramReq(Head(p.latency)))]
  ELSE p

Recent(q) == SubSeq(q, IF Len(q) > Window THEN Len(q) - Window + 1 ELSE 1, Len(q))

DramCycle(ripe) ==
  LET p == [sub |-> sub, latency |-> latency, credit |-> credit, dram |-> dram]
      r == Return(p)
      q == LeaveLatency(Arbitrate(Dram(r)), ripe)
  IN /\ sub' = q.sub /\ latency' = q.latency /\ credit' = q.credit /\ dram' = q.dram
     /\ answered' = answered \cup UNION {sub[s].tracker \ q.sub[s].tracker : s \in Subs}
     /\ bus' = Recent(Append(bus, CommandOf(r.dram, setup.sched)))
     /\ clock' = IF ripe THEN "dram" ELSE clock
     /\ UNCHANGED <<setup, arrived>>

\* gpgpu_flush_l2_cache, in a cycle of the cores with no thread left: each of them
\* has its answers, but nothing waits for the write-backs of an L1.  The loop over
\* the slices ends at the number of channels: the first slice of the only channel.
Flush ==
  /\ setup.flush
  /\ \A r \in arrived : setup.reqs[r].kind # "l1wb" => r \in answered
  /\ sub' = [sub EXCEPT ![0].line = EmptySlice.line]
  /\ UNCHANGED <<setup, arrived, latency, credit, dram, answered, bus, clock>>

Next ==
  \/ Flush
  \/ \E late \in SUBSET {s \in Subs : sub[s].rop # <<>>} : L2Cycle(Subs \ late)
  \/ \E full \in SUBSET {s \in Subs : sub[s].out # <<>>} : Respond(Subs \ full)
  \/ \E ripe \in {TRUE, \A s \in Subs : latency \o sub[s].todram = <<>>} : DramCycle(ripe)

Spec == Init /\ [][Next]_vars

\* Every domain is clocked for ever, delays end, and the interconnect takes answers.
Fairness == \A c \in {"L2", "icnt", "dram"} : []<>(clock = c)
LiveSpec == Spec /\ Fairness

-----------------------------------------------------------------------------
(* Properties                                                              *)

SeqSet(q) == {q[i] : i \in DOMAIN q}

\* Types, and the capacity every fifo_pipeline asserts when it is pushed
\* (delayqueue.h:72).
TypeOK ==
  /\ arrived \subseteq Reqs /\ answered \subseteq arrived
  /\ \A s \in Subs :
       /\ Len(sub[s].in) <= InSize /\ Len(sub[s].out) <= OutSize
       /\ Len(sub[s].todram) <= TodramSize /\ Len(sub[s].fromdram) <= FromdramSize
       /\ Len(sub[s].missq) <= MissQueueSize
       /\ sub[s].line \in [Blocks -> {"none", "reserved", "valid", "modified"}]
       /\ SeqSet(sub[s].missq) \cup sub[s].extra \subseteq Mfs
  /\ SeqSet(latency) \subseteq Mfs
  /\ Len(dram.mrqq) <= MrqqSize /\ Len(dram.returnq) <= ReturnSize
  /\ Len(dram.rwq.slots) \in dram.rwq.min..(CL + 1)

\* Where the requests of the channel are, the next to leave first.
MfsOf(q) == [i \in DOMAIN q |-> q[i].mf]
Data == [i \in Complete(dram.rwq.slots) |-> dram.rwq.slots[i].req.mf]
Served(b) == IF dram.bank[b].mrq = NoReq THEN <<>> ELSE <<dram.bank[b].mrq.mf>>
InChannel == SeqSet(latency) \cup SeqSet(MfsOf(dram.mrqq)) \cup SeqSet(MfsOf(dram.returnq))
             \cup {dram.rwq.slots[i].req.mf : i \in Complete(dram.rwq.slots)}
             \cup UNION {SeqSet(Served(b)) \cup SeqSet(MfsOf(dram.queue[b])) : b \in Banks}

\* Credits borrowed are the requests between arbitration and their return or
\* set_done, whatever mix of reads, writes and write-backs: none leaks, which in
\* the end would block a slice, and none is returned twice (the asserts of
\* l2cache.cc:125 and :138).
CreditsExact ==
  /\ credit.shared + Cardinality({s \in Subs : credit.private[s] = 1}) = Cardinality(InChannel)
  /\ credit.shared >= 0 /\ (SharedLimit # 0 => credit.shared <= SharedLimit)
  /\ \A s \in Subs : credit.private[s] \in 0..1

\* No fifo_pipeline above its length, no credit lost.
ResourcesExact == TypeOK /\ CreditsExact

\* However requests miss, merge, are refused and forwarded, each is in exactly one
\* place, or in an MSHR entry that a fetch is under way for or has answered; and the
\* tracker, by which busy() keeps the simulation going, holds those of the cores.
Queues == {"rop", "in", "missq", "todram", "fromdram", "out"}
Places(mf) ==
  LET s == SubOf(Block(mf))
  IN (UNION {{<<q, i>> : i \in {j \in DOMAIN sub[s][q] : sub[s][q][j] = mf}} : q \in Queues})
     \cup (IF mf \in InChannel THEN {<<"channel", 0>>} ELSE {})
Waits(mf) ==
  LET u == sub[SubOf(Block(mf))]
  IN {i \in DOMAIN u.mshr[Block(mf)] : u.mshr[Block(mf)][i] = mf}
TrackerExact ==
  /\ \A mf \in Mfs :
       LET at    == Places(mf)
           waits == Waits(mf)
       IN /\ Cardinality(at) <= 1 /\ Cardinality(waits) <= 1
          /\ waits # {} => (at # {} <=> mf \in sub[SubOf(Block(mf))].extra)
  /\ \A r \in Reqs :
       LET mf == <<"req", r>>
       IN r \in sub[SubOf(Block(mf))].tracker
            <=> r \in arrived \ answered /\ (Places(mf) # {} \/ Waits(mf) # {})
  /\ \A r \in arrived \ answered : r \in sub[SubOf(setup.reqs[r].block)].tracker

\* The row a bank is on its way to serve has a request: schedule() takes the last of
\* a bin it keeps a pointer to, without looking (dram_sched.cc:97).
ServedRowHasRequests ==
  \A b \in Banks : dram.lastrow[b] # NoRow => HasRow(dram.queue[b], dram.lastrow[b])

\* The queues from a slice to the end of a transfer, the next to leave first; the requests
\* of block b in them; and the pairs of them of which one is in front of the other.
Line(b) == <<Data, Served(BankOfBlock[b]), MfsOf(dram.queue[BankOfBlock[b]]), MfsOf(dram.mrqq),
             latency, sub[SubOf(b)].todram>>
InLine(b) == {mf \in UNION {SeqSet(Line(b)[k]) : k \in 1..6} : Block(mf) = b}
InFront(b) ==
  LET line  == Line(b)
      spots == UNION {{<<k, i>> : i \in {j \in DOMAIN line[k] : Block(line[k][j]) = b}} : k \in 1..6}
      pairs == {e \in spots \X spots : \/ e[1][1] < e[2][1]
                                       \/ e[1][1] = e[2][1] /\ e[1][2] < e[2][2]}
  IN {<<line[e[1][1]][e[1][2]], line[e[2][1]][e[2][2]]>> : e \in pairs}

\* First-ready scheduling, refused arbitration and the change between the latencies
\* of reads and of writes reorder requests, but never two of one block: who is in front
\* stays there until it leaves, and nobody gets in front of who was there.  So a read
\* behind a write finds what was written.
InOrder ==
  [][\A b \in Used : /\ \A e \in InFront(b) \ InFront(b)' : e[1] \notin InLine(b)'
                     /\ \A e \in InFront(b)' \ InFront(b) : e[2] \notin InLine(b)]_vars

\* The commands the banks get keep the distances of the timing options, over any
\* number of banks, turns of the data bus and closed rows.
TimingRespected ==
  \A i, j \in DOMAIN bus : i < j => j - i >= MinGap(bus[i], bus[j])

\* Every request is answered or written, with its fetches and write-backs: neither a
\* full queue, a busy port, a missing credit nor an open row blocks the partition.
Quiet == /\ InChannel = {}
         /\ \A s \in Subs : \A q \in Queues : sub[s][q] = <<>>
         /\ \A s \in Subs : sub[s].tracker = {} /\ sub[s].extra = {}
Drains == <>[]Quiet

\* assert(m_status == RESERVED) of cache_block_t::fill (gpu-cache.h:88): a response of DRAM finds the
\* line its request reserved.
FillsReserved ==
  \A s \in Subs : \A mf \in sub[s].extra : sub[s].line[Block(mf)] = "reserved"
=============================================================================
