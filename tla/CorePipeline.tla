---------------------------- MODULE CorePipeline ----------------------------
(* One shader core, cycle by cycle (shader_core_ctx::cycle(), shader.cc):  *)
(* writeback, execute (SP, SFU, load/store unit with the operand collector *)
(* stepped inside it), issue, decode, fetch.  Each stage is an action;     *)
(* phase says whose turn it is.  Memory answers between two cycles, in any *)
(* order.  Threads of a warp run together (divergence is in SimtStack) and *)
(* all warps are one CTA whose only barrier is bar.sync.                   *)
EXTENDS WarpSchedulers

CONSTANTS NumWarps,   \* max_warps_per_shader
          Setups,     \* scheduler, schedulers per core, dynamic ids and kernel to run with
          MaxActive,  \* m_max_active_warps of two_level_active
          Limit,      \* m_num_warps_to_limit of swl
          MaxTrips,   \* bound: taken branches of a warp
          NumBanks,   \* gpgpu_num_reg_banks
          Depth,      \* max_sp_latency, max_sfu_latency
          Responses   \* ldst_unit_response_queue_size

Warps == 0..(NumWarps - 1)
Kinds == {"sp", "sfu", "mem"}
KindAt == <<"sp", "sfu", "mem">>  \* the order of the collector units and of m_fu
Alu   == {"sp", "sfu"}
Banks == 0..(NumBanks - 1)

Policies == {"lrr", "gto", "two_level", "swl", "caws", "gcaws"}
Ops      == {"alu", "sfu", "load", "store", "bar", "membar", "bra", "exit"}
Spaces   == {"none", "shared", "global", "local"}
KindOf(op) == CASE op \in {"load", "store", "membar"} -> "mem" [] op = "sfu" -> "sfu" [] OTHER -> "sp"

\* A kernel is a sequence of instructions: op, the registers it writes and reads,
\* latency and initiation interval, the memory space, the accesses it makes and a
\* branch's target.  An instruction enters a pipeline at a stage it has.
ASSUME CoreConstants ==
  /\ {NumWarps, MaxActive, Limit, NumBanks, Responses} \subseteq Nat \ {0}
  /\ Limit <= NumWarps                     \* asserted by swl_scheduler
  /\ MaxTrips \in Nat
  /\ Depth \in [Alu -> Nat \ {0}]
  /\ \A c \in Setups :
       /\ c.policy \in Policies
       /\ c.scheds \in 1..NumWarps /\ NumWarps % c.scheds = 0
       /\ c.policy = "two_level" => MaxActive <= NumWarps \div c.scheds  \* order_warps() takes the front of an empty deque otherwise
       /\ c.dyn \in [Warps -> Nat]
       /\ c.kernel \in Seq([op : Ops, out : Seq(Nat), src : Seq(Nat), lat : Nat, ii : Nat,
                            space : Spaces, n : Nat, target : Nat])
       /\ \A i \in DOMAIN c.kernel :
            LET x == c.kernel[i]
            IN  /\ x.ii \in 1..x.lat
                /\ KindOf(x.op) \in Alu => x.lat - x.ii < Depth[KindOf(x.op)]
                /\ x.op = "load" => x.out # <<>>
                /\ x.op \in {"store", "membar"} => x.out = <<>>
                /\ x.op = "membar" => x.n = 0
                /\ x.op = "bra" => x.target \in DOMAIN c.kernel
       /\ c.kernel # <<>> /\ c.kernel[Len(c.kernel)].op = "exit"

VARIABLES
  phase, turn, \* the stage that runs next; the scheduler that issues next
  setup,     \* the setup that runs
  next_pc, top, \* per warp: m_next_pc; the pc on top of its SIMT stack
  trips,     \* per warp: branches taken to another than the next instruction
  ibuf, nxt, \* per warp: m_ibuffer (pc or 0 in each slot), m_next
  inPipe, stores, membar, done, exited, nInst, \* m_inst_in_pipeline, m_stores_outstanding, ...
  atBar,     \* m_warp_at_barrier
  fbuf, lastFetch, imiss, \* m_inst_fetch_buffer, m_last_warp_fetched, m_imiss_pending
  iline, iwait, \* the kernel's line in the L1I, the warps that miss it in MSHR order
  list, pending, last, \* per scheduler: m_next_cycle_prioritized_warps, m_pending_warps, m_last_supervised_issued
  reserved, longop, \* scoreboard: reg_table, longopregs
  idoc, ocex, \* pipeline registers ID_OC_*, OC_EX_*
  cu, missing, queue, written, pri, \* collector units, m_not_ready, the arbiter
  unit, bus, exwb, \* SP and SFU, m_result_bus, EX_WB
  disp, left, shpipe, nextWb, nextGlobal, arb, \* load/store unit
  pw,        \* m_pending_writes
  l1ready, respq, \* L1D accesses ready, m_response_fifo
  loads, acks \* external: accesses and stores that memory has not answered

warpVars  == <<next_pc, top, trips, ibuf, nxt, membar, done, nInst, atBar>>
fetchVars == <<fbuf, lastFetch, imiss, iline, iwait, exited>>
schedVars == <<list, pending, last>>
regVars   == <<reserved, longop>>
ocVars    == <<ocex, cu, missing, queue, pri>>
aluVars   == <<unit, bus, exwb>>
lsuVars   == <<disp, left, pw>>
wbVars    == <<shpipe, nextWb, nextGlobal, arb, l1ready, respq>>
memVars   == <<loads, acks>>
vars == <<phase, turn, setup, warpVars, fetchVars, schedVars, regVars, idoc, ocVars, written, aluVars,
          lsuVars, wbVars, memVars, inPipe, stores>>

policy    == setup.policy
dyn       == setup.dyn
NumScheds == setup.scheds
Scheds    == 0..(NumScheds - 1)
Program   == setup.kernel
Regs      == UNION {Range(Program[i].out) \cup Range(Program[i].src) : i \in DOMAIN Program}

None == [w |-> -1, pc |-> 0]
Inst == {None} \cup [w : Warps, pc : DOMAIN Program]
P(x) == Program[x.pc]

Supervised(i) == [k \in 1..(NumWarps \div NumScheds) |-> i + (k - 1) * NumScheds]
Bank(w, r) == (r + w) % NumBanks
PendingWrites(w) == reserved[w] # {}
Functional(w) == done[w]
HardwareDone(w) == done[w] /\ stores[w] = 0 /\ inPipe[w] = 0
Membar(w) == membar[w] /\ PendingWrites(w)
Waiting(w) == done[w] \/ w \in atBar \/ Membar(w)

Init ==
  /\ phase = "writeback" /\ turn = 0
  /\ setup \in Setups
  /\ next_pc = [w \in Warps |-> 1] /\ top = [w \in Warps |-> 1] /\ trips = [w \in Warps |-> 0]
  /\ ibuf = [w \in Warps |-> <<0, 0>>] /\ nxt = [w \in Warps |-> 1]
  /\ inPipe = [w \in Warps |-> 0] /\ stores = [w \in Warps |-> 0] /\ nInst = [w \in Warps |-> 0]
  /\ membar = [w \in Warps |-> FALSE] /\ done = [w \in Warps |-> FALSE]
  /\ exited = [w \in Warps |-> FALSE] /\ imiss = [w \in Warps |-> FALSE]
  /\ atBar = {} /\ fbuf = None /\ lastFetch = 0 /\ iline = "cold" /\ iwait = <<>>
  /\ list = [i \in Scheds |-> IF policy = "two_level" THEN SubSeq(Supervised(i), 1, MaxActive) ELSE <<>>]
  /\ pending = [i \in Scheds |-> IF policy = "two_level"
                                 THEN SubSeq(Supervised(i), MaxActive + 1, Len(Supervised(i))) ELSE <<>>]
  /\ last = [i \in Scheds |-> FirstIssued(policy)]
  /\ reserved = [w \in Warps |-> {}] /\ longop = [w \in Warps |-> {}]
  /\ idoc = [k \in Kinds |-> None] /\ ocex = [k \in Kinds |-> None]
  /\ cu = [k \in Kinds |-> None] /\ missing = [k \in Kinds |-> {}]
  /\ queue = [b \in Banks |-> <<>>] /\ written = {} /\ pri = 0
  /\ unit = [k \in Alu |-> [disp |-> None, delay |-> 0, occupied |-> {},
                            stage |-> [s \in 0..(Depth[k] - 1) |-> None]]]
  /\ bus = {} /\ exwb = <<>>
  /\ disp = None /\ left = 0 /\ shpipe = [s \in 0..2 |-> None]
  /\ nextWb = None /\ nextGlobal = None /\ arb = 0 /\ l1ready = <<>> /\ respq = <<>>
  /\ pw = [w \in Warps |-> [r \in Regs |-> 0]]
  /\ loads = {} /\ acks = [w \in Warps |-> 0]

-----------------------------------------------------------------------------
(* Operand collector (opndcoll_rfu_t).                                     *)

\* writeback(): the banks of the written registers, up to one that is taken.
Writeback(x, busy) ==
  LET out   == P(x).out
      b(i)  == Bank(x.w, out[i])
      ok    == {i \in DOMAIN out : \A j \in 1..i : b(j) \notin busy /\ \A k \in 1..(j - 1) : b(k) # b(j)}
  IN  [ok |-> ok = DOMAIN out, banks |-> busy \cup {b(i) : i \in ok}]

\* arbiter_t::allocate_reads(), a wavefront allocator: each bank asks for the
\* collector of its oldest read; a collector takes the bank met first along the
\* diagonals that start at pri; written banks are left out.
Square == IF NumBanks > 3 THEN NumBanks ELSE 3
RequestsM(k) == {b \in Banks \ written : queue[b] # <<>>}  \* mutant: whoever reads
Requests(k) == {b \in Banks \ written : queue[b] # <<>> /\ queue[b][1].cu = k}
Diagonal(k, b) == ((CHOOSE i \in 1..3 : KindAt[i] = k) - 1 - b - pri) % Square
Granted(k) == {b \in Requests(k) : \A c \in Requests(k) : Diagonal(k, b) <= Diagonal(k, c)}

\* add_read_requests(): the operands of x in bank b, in their order.
ReadsIn(x, b) ==
  LET ops == {i \in DOMAIN P(x).src : Bank(x.w, P(x).src[i]) = b}
  IN  CHOOSE s \in [1..Cardinality(ops) -> ops] :
        Range(s) = ops /\ \A i, j \in DOMAIN s : i < j => s[i] < s[j]

\* step(): dispatch_ready_cu(), allocate_reads(), allocate_cu() of each port,
\* process_banks().  A unit that has just dispatched is free again.
CollectorStep ==
  LET goes(k)  == cu[k] # None /\ missing[k] = {} /\ ocex[k] = None
      takes(k) == idoc[k] # None /\ (cu[k] = None \/ goes(k))
      reads    == UNION {Granted(k) : k \in Kinds}
      new(k, b) == IF ~takes(k) THEN <<>>
                   ELSE [n \in DOMAIN ReadsIn(idoc[k], b) |-> [cu |-> k, op |-> ReadsIn(idoc[k], b)[n]]]
  IN  /\ phase = "collect" /\ phase' = "response"
      /\ ocex' = [k \in Kinds |-> IF goes(k) THEN cu[k] ELSE ocex[k]]
      /\ cu' = [k \in Kinds |-> IF takes(k) THEN idoc[k] ELSE IF goes(k) THEN None ELSE cu[k]]
      /\ idoc' = [k \in Kinds |-> IF takes(k) THEN None ELSE idoc[k]]
      /\ missing' = [k \in Kinds |-> IF takes(k) THEN DOMAIN P(idoc[k]).src
                                     ELSE missing[k] \ {queue[b][1].op : b \in Granted(k)}]
      /\ queue' = [b \in Banks |-> (IF b \in reads THEN Tail(queue[b]) ELSE queue[b])
                                   \o new("sp", b) \o new("sfu", b) \o new("mem", b)]
      /\ pri' = (pri + 1) % Square
      /\ written' = {}
      /\ UNCHANGED <<turn, setup, warpVars, fetchVars, schedVars, regVars, aluVars, lsuVars, wbVars,
                     memVars, inPipe, stores>>

-----------------------------------------------------------------------------
(* Writeback and the SP and SFU pipelines.                                 *)

\* shader_core_ctx::writeback(): the operand collector's refusal is ignored.
ShaderWriteback ==
  /\ phase = "writeback" /\ phase' = "sp"
  /\ IF exwb = <<>> THEN UNCHANGED <<exwb, written, regVars, inPipe, nInst>>
     ELSE LET x == exwb[1] IN
          /\ exwb' = Tail(exwb)
          /\ written' = Writeback(x, written).banks
          /\ reserved' = [reserved EXCEPT ![x.w] = @ \ Range(P(x).out)]
          /\ longop' = [longop EXCEPT ![x.w] = @ \ Range(P(x).out)]
          /\ inPipe' = [inPipe EXCEPT ![x.w] = @ - 1]
          /\ nInst' = [nInst EXCEPT ![x.w] = @ - 1]  \* tw_warp_complete()
  /\ UNCHANGED <<turn, setup, next_pc, top, trips, ibuf, nxt, membar, done, atBar, fetchVars, schedVars,
                 idoc, ocVars, unit, bus, lsuVars, wbVars, memVars, stores>>

\* pipelined_simd_unit::cycle(): stages move down by one; the dispatch register
\* enters at latency - initiation_interval once its dispatch delay is over.
UnitCycle(u, depth) ==
  LET enters == u.disp # None /\ u.delay <= 1
      moved  == [s \in 0..(depth - 1) |-> IF s < depth - 1 THEN u.stage[s + 1] ELSE None]
  IN  [disp |-> IF enters THEN None ELSE u.disp,
       delay |-> IF u.delay > 0 THEN u.delay - 1 ELSE 0,
       occupied |-> {o - 1 : o \in u.occupied \ {0}},
       stage |-> IF enters THEN [moved EXCEPT ![P(u.disp).lat - P(u.disp).ii] = u.disp] ELSE moved]

\* execute() for SP and then SFU: the unit's cycle, then the issue from OC_EX if
\* the unit and the result bus are free when the instruction will finish.
CanIssueM(u, x, b) ==  \* mutant: the result bus is not tested
  x # None /\ u.disp = None /\ P(x).lat \notin u.occupied
CanIssue(u, x, b) ==
  x # None /\ u.disp = None /\ P(x).lat \notin u.occupied /\ P(x).lat \notin b
ExecuteAlu(k) ==
  LET u == UnitCycle(unit[k], Depth[k])
      b == IF k = "sp" THEN {l - 1 : l \in bus \ {0}} ELSE bus
      x == ocex[k]
  IN  /\ phase = k /\ phase' = IF k = "sp" THEN "sfu" ELSE "lsu"
      /\ exwb' = IF unit[k].stage[0] = None THEN exwb ELSE Append(exwb, unit[k].stage[0])
      /\ IF CanIssue(u, x, b)
         THEN /\ unit' = [unit EXCEPT ![k] = [u EXCEPT !.disp = x, !.delay = P(x).ii,
                                                       !.occupied = @ \cup {P(x).lat}]]
              /\ bus' = b \cup {P(x).lat}
              /\ ocex' = [ocex EXCEPT ![k] = None]
         ELSE unit' = [unit EXCEPT ![k] = u] /\ bus' = b /\ UNCHANGED ocex
      /\ UNCHANGED <<turn, setup, warpVars, fetchVars, schedVars, regVars, idoc, cu, missing, queue, pri,
                     written, lsuVars, wbVars, memVars, inPipe, stores>>

-----------------------------------------------------------------------------
(* Load/store unit (ldst_unit).                                            *)

IsLoad(x) == P(x).op = "load"
Shared(x) == P(x).space = "shared"

\* The five clients of the writeback port; texture and constant caches are idle.
Ready(c) == CASE c = 0 -> shpipe[0] # None
              [] c = 3 -> nextGlobal # None
              [] c = 4 -> l1ready # <<>>
              [] OTHER -> FALSE
WbClients == {c \in 0..4 : Ready(c)}
NextClient == CHOOSE c \in WbClients : \A d \in WbClients : (c - arb) % 5 <= (d - arb) % 5

\* One access of x is written back; the registers whose last it was are released.
Less(x, pwx) == [r \in Regs |-> pwx[r] - (IF r \in Range(P(x).out) THEN 1 ELSE 0)]
Freed(x, pwx) == {r \in Range(P(x).out) : Shared(x) \/ Less(x, pwx)[r] = 0}

\* writeback(): the registers of m_next_wb, if the operand collector takes them
\* all; releaseRegister() leaves longopregs as it is.  Then the next client.
LsuWriteback ==
  LET x     == nextWb
      wb    == Writeback(x, written)
      goes  == x # None /\ wb.ok
      free  == x = None \/ goes
  IN  /\ phase = "lsu" /\ phase' = "collect"
      /\ written' = IF x = None THEN written ELSE wb.banks
      /\ pw' = IF goes /\ ~Shared(x) THEN [pw EXCEPT ![x.w] = Less(x, @)] ELSE pw
      /\ reserved' = IF goes THEN [reserved EXCEPT ![x.w] = @ \ Freed(x, pw[x.w])] ELSE reserved
      /\ IF free /\ WbClients # {}
         THEN LET c == NextClient IN
              /\ arb' = (c + 1) % 5
              /\ nextWb' = CASE c = 0 -> shpipe[0]
                             [] c = 3 -> nextGlobal
                             [] c = 4 -> l1ready[1]
              /\ shpipe' = IF c = 0 THEN [shpipe EXCEPT ![0] = None] ELSE shpipe
              /\ inPipe' = IF c = 0 THEN [inPipe EXCEPT ![shpipe[0].w] = @ - 1] ELSE inPipe
              /\ nextGlobal' = IF c = 3 THEN None ELSE nextGlobal
              /\ l1ready' = IF c = 4 THEN Tail(l1ready) ELSE l1ready
         ELSE /\ nextWb' = IF free THEN None ELSE x
              /\ UNCHANGED <<arb, shpipe, inPipe, nextGlobal, l1ready>>
      /\ UNCHANGED <<turn, setup, warpVars, fetchVars, schedVars, longop, idoc, ocVars, aluVars, disp, left,
                     respq, memVars, stores>>

\* cycle(): the shared memory pipeline moves, then the oldest response is
\* taken: a store's acknowledgement, a bypassed load or a fill of the L1D.
LsuResponse ==
  LET down == IF shpipe[0] = None /\ shpipe[1] # None
              THEN [shpipe EXCEPT ![0] = shpipe[1], ![1] = None] ELSE shpipe
      x    == respq[1]
      inst == [w |-> x.w, pc |-> x.pc]
  IN  /\ phase = "response" /\ phase' = "dispatch"
      /\ shpipe' = IF down[1] = None /\ down[2] # None
                   THEN [down EXCEPT ![1] = down[2], ![2] = None] ELSE down
      /\ IF respq = <<>> THEN UNCHANGED <<respq, stores, nextGlobal, l1ready>>
         ELSE IF P(x).op = "store"
         THEN respq' = Tail(respq) /\ stores' = [stores EXCEPT ![x.w] = @ - 1]
              /\ UNCHANGED <<nextGlobal, l1ready>>
         ELSE IF P(x).space = "global"
         THEN /\ IF nextGlobal = None THEN respq' = Tail(respq) /\ nextGlobal' = inst
                 ELSE UNCHANGED <<respq, nextGlobal>>
              /\ UNCHANGED <<stores, l1ready>>
         ELSE respq' = Tail(respq) /\ l1ready' = Append(l1ready, inst) /\ UNCHANGED <<stores, nextGlobal>>
      /\ UNCHANGED <<turn, setup, warpVars, fetchVars, schedVars, regVars, idoc, ocVars, written, aluVars,
                     lsuVars, nextWb, arb, memVars, inPipe>>

\* The dispatch register is done with its instruction: a shared load enters its
\* pipeline if the last stage is free; a load nobody waits for completes here.
Leave(pwx) ==
  LET x == disp
      over == IsLoad(x) /\ ~Shared(x) /\ \A r \in Range(P(x).out) : pwx[r] = 0
  IN  IF IsLoad(x) /\ Shared(x)
      THEN /\ IF shpipe[2] = None THEN shpipe' = [shpipe EXCEPT ![2] = x] /\ disp' = None
              ELSE UNCHANGED <<shpipe, disp>>
           /\ UNCHANGED <<inPipe, regVars>>
      ELSE /\ disp' = None
           /\ inPipe' = [inPipe EXCEPT ![x.w] = @ - 1]
           /\ reserved' = IF over THEN [reserved EXCEPT ![x.w] = @ \ Range(P(x).out)] ELSE reserved
           /\ longop' = IF over THEN [longop EXCEPT ![x.w] = @ \ Range(P(x).out)] ELSE longop
           /\ UNCHANGED shpipe
Stay == UNCHANGED <<disp, inPipe, regVars, shpipe>>

\* shared_cycle(): a conflict-free access takes one cycle of dispatch delay.
SharedCycle ==
  /\ left' = IF left > 0 THEN left - 1 ELSE 0
  /\ IF left' = 0 THEN Leave(pw[disp.w]) ELSE Stay
  /\ UNCHANGED <<pw, loads, acks, stores>>

\* memory_cycle(): the next access hits in the L1D, goes to memory, or stalls
\* on a full interconnect or L1D.  Global accesses bypass the L1D.
MemoryCycle ==
  LET x == disp
  IN  \E outcome \in {"hit", "sent", "stall"} :
        /\ outcome = "hit" => P(x).space = "local"
        /\ outcome = "stall" => loads # {} \/ \E w \in Warps : acks[w] > 0  \* full of what is unanswered
        /\ left' = IF outcome = "stall" THEN left ELSE left - 1
        /\ pw' = IF outcome = "hit" /\ IsLoad(x) THEN [pw EXCEPT ![x.w] = Less(x, @)] ELSE pw
        /\ loads' = IF outcome = "sent" /\ IsLoad(x) THEN loads \cup {[w |-> x.w, pc |-> x.pc, k |-> left]}
                    ELSE loads
        /\ IF outcome = "sent" /\ ~IsLoad(x)
           THEN acks' = [acks EXCEPT ![x.w] = @ + 1] /\ stores' = [stores EXCEPT ![x.w] = @ + 1]
           ELSE UNCHANGED <<acks, stores>>
        /\ IF left' = 0 THEN Leave(pw'[x.w]) ELSE Stay

\* Nothing to send: an empty register, a memory barrier, a load of no thread.
LsuDispatch ==
  /\ phase = "dispatch" /\ phase' = "oc_ex"
  /\ IF disp # None /\ Shared(disp) THEN SharedCycle
     ELSE IF disp # None /\ left > 0 THEN MemoryCycle
     ELSE /\ UNCHANGED <<left, pw, loads, acks, stores>>
          /\ IF disp = None THEN Stay ELSE Leave(pw[disp.w])
  /\ UNCHANGED <<turn, setup, warpVars, fetchVars, schedVars, idoc, ocVars, written, aluVars,
                 nextWb, nextGlobal, arb, l1ready, respq>>

\* issue(): the accesses of a load are counted for each register it writes.
CountedM(x, pwx) == [r \in Regs |-> pwx[r] + (IF r \in Range(P(x).out) THEN 1 ELSE 0)]  \* mutant: the load counts once
Counted(x, pwx) == [r \in Regs |-> pwx[r] + (IF r \in Range(P(x).out) THEN P(x).n ELSE 0)]
LsuIssue ==
  LET x == ocex["mem"] IN
  /\ phase = "oc_ex" /\ phase' = "issue"
  /\ IF x = None \/ disp # None THEN UNCHANGED <<ocex, disp, left, pw>>
     ELSE /\ disp' = x /\ ocex' = [ocex EXCEPT !["mem"] = None]
          /\ left' = IF Shared(x) THEN P(x).ii ELSE P(x).n
          /\ pw' = IF IsLoad(x) /\ ~Shared(x)
                   THEN [pw EXCEPT ![x.w] = Counted(x, @)] ELSE pw
  /\ UNCHANGED <<turn, setup, warpVars, fetchVars, schedVars, regVars, idoc, cu, missing, queue, pri,
                 written, aluVars, wbVars, memVars, inPipe, stores>>

-----------------------------------------------------------------------------
(* Issue: scheduler_unit::cycle(), issue_warp().                           *)

Buffered(w) == {s \in {1, 2} : ibuf[w][s] # 0}
Head1(w)    == ibuf[w][nxt[w]]  \* ibuffer_next_inst()
Collision(w, i) == reserved[w] \cap (Range(Program[i].out) \cup Range(Program[i].src)) # {}

Tried(w)  == ~exited[w] /\ ~Waiting(w) /\ Head1(w) # 0
Hazard(w) == Tried(w) /\ Head1(w) # top[w]
Issues(w) == /\ Tried(w) /\ Head1(w) = top[w]
             /\ ~Collision(w, top[w])
             /\ idoc[KindOf(Program[top[w]].op)] = None

\* two_level_active: a warp also waits if its next instruction reads a longop register.
LongOp(w) == Head1(w) # 0 /\ Range(Program[Head1(w)].src) \cap longop[w] # {}
OrderWarps(i) ==
  IF policy = "two_level"
  THEN Demote(list[i], pending[i], [w \in Warps |-> Waiting(w) \/ LongOp(w)], MaxActive)
  ELSE {[active |-> L, pending |-> pending[i]] :
          L \in Order(policy, Supervised(i), last[i], IF Limit < Len(Supervised(i)) THEN Limit ELSE Len(Supervised(i)),
                      [w \in Warps |-> exited[w] \/ Waiting(w)], dyn, nInst)}

\* Only two_level_active keeps its list; its do_on_warp_issued() rotates it past the warp.
Kept(old, new) == IF policy = "two_level" THEN new ELSE old

\* warp_reaches_barrier(), warp_exit(): the last one releases the others.
Released(waiting, active) == IF waiting = active THEN {} ELSE waiting

\* Instructions that v loses unissued when w issues op: those flushed for a control
\* hazard, and what checkExecutionStatus() flushes behind an exit.
DroppedM(v, w, op, flushed) ==  \* mutant: the exit itself is counted
  IF v \in flushed \/ (v = w /\ op = "exit") THEN Cardinality(Buffered(v)) ELSE 0
Dropped(v, w, op, flushed) ==
  IF v \in flushed THEN Cardinality(Buffered(v))
  ELSE IF v = w /\ op = "exit" THEN Cardinality(Buffered(v)) - 1 ELSE 0

\* issue_warp() of warp w's instruction at cur; npc is the threads' next pc.
IssueWarp(w, npc, flushed) ==
  LET cur  == top[w]
      i    == Program[cur]
      live == {v \in Warps : ~done[v]}
      exit == i.op = "exit"
  IN  /\ idoc' = [idoc EXCEPT ![KindOf(i.op)] = [w |-> w, pc |-> cur]]
      /\ next_pc' = [v \in Warps |-> IF v \in flushed THEN top[v] ELSE IF v = w THEN cur + 1 ELSE next_pc[v]]
      /\ top' = [top EXCEPT ![w] = npc]
      /\ trips' = IF npc = cur + 1 THEN trips ELSE [trips EXCEPT ![w] = @ + 1]
      /\ ibuf' = [v \in Warps |-> IF v \in flushed \/ (v = w /\ exit) THEN <<0, 0>>
                                  ELSE IF v = w THEN [ibuf[v] EXCEPT ![nxt[v]] = 0] ELSE ibuf[v]]
      /\ inPipe' = [v \in Warps |-> inPipe[v] - Dropped(v, w, i.op, flushed)]
      /\ nxt' = [nxt EXCEPT ![w] = 3 - @]
      /\ done' = [done EXCEPT ![w] = exit]
      /\ nInst' = IF exit THEN nInst
                  ELSE [nInst EXCEPT ![w] = tw_warp_issue(@, next_pc[w], tw_find_next_pc(next_pc[w], {npc}))]
      /\ atBar' = CASE i.op = "bar" -> Released(atBar \cup {w}, live)
                    [] exit         -> Released(atBar, live \ {w})
                    [] OTHER        -> atBar
      /\ membar' = [v \in Warps |-> IF v = w /\ i.op = "membar" THEN TRUE ELSE Membar(v)]
      /\ reserved' = [reserved EXCEPT ![w] = @ \cup Range(i.out)]
      /\ longop' = IF i.op = "load" /\ i.space # "shared" THEN [longop EXCEPT ![w] = @ \cup Range(i.out)]
                   ELSE longop

\* A scheduler tries its warps in order until one issues; those whose buffer is
\* not what the SIMT stack asks for are flushed on the way.  waiting() clears
\* the membar of every warp whose writes are over.
Flushed(L, n) == {L[k] : k \in {j \in 1..n : Hazard(L[j])}}

\* None of them issues.
NoIssue(L) ==
  LET all == Flushed(L, Len(L))
  IN  /\ \A k \in DOMAIN L : ~Issues(L[k])
      /\ next_pc' = [w \in Warps |-> IF w \in all THEN top[w] ELSE next_pc[w]]
      /\ ibuf' = [w \in Warps |-> IF w \in all THEN <<0, 0>> ELSE ibuf[w]]
      /\ inPipe' = [w \in Warps |-> IF w \in all THEN inPipe[w] - Cardinality(Buffered(w)) ELSE inPipe[w]]
      /\ membar' = [w \in Warps |-> Membar(w)]
      /\ list' = [list EXCEPT ![turn] = Kept(@, L)]
      /\ UNCHANGED <<last, idoc, top, trips, nxt, done, nInst, atBar, regVars>>

\* The k-th is the first that does.
IssueFrom(L, k) ==
  LET w   == L[k]
      ins == Program[top[w]]
  IN  /\ Issues(w) /\ \A j \in 1..(k - 1) : ~Issues(L[j])
      /\ \E npc \in {top[w] + 1} \cup (IF ins.op = "bra" /\ trips[w] < MaxTrips THEN {ins.target} ELSE {}) :
           IssueWarp(w, npc, Flushed(L, k))
      /\ \E p \in DOMAIN Supervised(turn) : Supervised(turn)[p] = w /\ last' = [last EXCEPT ![turn] = p]
      /\ list' = [list EXCEPT ![turn] = Kept(@, order_lrr(L, k, Len(L)))]

Schedule ==
  /\ phase = "issue"
  /\ IF turn = NumScheds - 1 THEN turn' = 0 /\ phase' = "decode" ELSE turn' = turn + 1 /\ UNCHANGED phase
  /\ \E o \in OrderWarps(turn) :
       /\ NoIssue(o.active) \/ \E k \in DOMAIN o.active : IssueFrom(o.active, k)
       /\ pending' = [pending EXCEPT ![turn] = o.pending]
  /\ UNCHANGED <<setup, fetchVars, ocVars, written, aluVars, lsuVars, wbVars, memVars, stores>>

-----------------------------------------------------------------------------
(* Decode and fetch.                                                       *)

\* decode(): the fetched instruction and the one after it.
Decode ==
  LET w == fbuf.w
      two == fbuf.pc < Len(Program)
  IN  /\ phase = "decode" /\ phase' = "fetch"
      /\ fbuf' = None
      /\ IF fbuf = None THEN UNCHANGED <<ibuf, nxt, inPipe>>
         ELSE /\ ibuf' = [ibuf EXCEPT ![w] = <<fbuf.pc, IF two THEN fbuf.pc + 1 ELSE 0>>]
              /\ nxt' = [nxt EXCEPT ![w] = 1]
              /\ inPipe' = [inPipe EXCEPT ![w] = @ + (IF two THEN 2 ELSE 1)]
      /\ UNCHANGED <<turn, setup, next_pc, top, trips, membar, done, nInst, atBar, lastFetch, imiss, iline,
                     iwait, exited, schedVars, regVars, idoc, ocVars, written, aluVars, lsuVars, wbVars,
                     memVars, stores>>

\* fetch(): the warps after the one fetched last, up to the first that wants
\* instructions; those met on the way that are finished are reclaimed.
Wants(w) == ~done[w] /\ ~imiss[w] /\ Buffered(w) = {}
ReclaimableM(w) == done[w] /\ inPipe[w] = 0 /\ ~PendingWrites(w) /\ ~exited[w]  \* mutant: stores not awaited
Reclaimable(w) == HardwareDone(w) /\ ~PendingWrites(w) /\ ~exited[w]
Fetch ==
  LET at(i) == (lastFetch + i) % NumWarps
      wanting == {i \in 1..NumWarps : Wants(at(i))}
      first == IF wanting = {} THEN NumWarps ELSE CHOOSE i \in wanting : \A j \in wanting : i <= j
      w == at(first)
      answered == iline = "valid" /\ iwait # <<>>  \* L1I access_ready(), next_access()
      awake == [imiss EXCEPT ![iwait[1]] = FALSE]
  IN  /\ phase = "fetch" /\ phase' = "writeback"
      /\ exited' = [v \in Warps |-> exited[v] \/ (Reclaimable(v) /\ \E i \in 1..first : at(i) = v)]
      /\ IF wanting = {} \/ iline = "valid"
         THEN /\ IF wanting = {} THEN UNCHANGED <<fbuf, lastFetch>>
                 ELSE fbuf' = [w |-> w, pc |-> next_pc[w]] /\ lastFetch' = w
              /\ imiss' = IF answered THEN awake ELSE imiss
              /\ iwait' = IF answered THEN Tail(iwait) ELSE iwait
              /\ UNCHANGED iline
         ELSE /\ lastFetch' = w
              /\ \/ imiss' = [imiss EXCEPT ![w] = TRUE] /\ iwait' = Append(iwait, w) /\ iline' = "pending"
                 \/ iline = "pending" /\ UNCHANGED <<imiss, iwait, iline>>  \* reservation failure
              /\ UNCHANGED fbuf
      /\ UNCHANGED <<turn, setup, warpVars, schedVars, regVars, idoc, ocVars, written, aluVars, lsuVars,
                     wbVars, memVars, inPipe, stores>>

-----------------------------------------------------------------------------
(* External: the memory system, in any order.                              *)

AStore == CHOOSE i \in DOMAIN Program : Program[i].op = "store"
Arrives(x) ==
  /\ phase = "writeback" /\ Len(respq) < Responses
  /\ respq' = Append(respq, x)
  /\ UNCHANGED <<phase, turn, setup, warpVars, fetchVars, schedVars, regVars, idoc, ocVars, written, aluVars,
                 lsuVars, shpipe, nextWb, nextGlobal, arb, l1ready, inPipe, stores>>
AnswerLoad(x) == x \in loads /\ Arrives(x) /\ loads' = loads \ {x} /\ UNCHANGED acks
AnswerStore(w) ==
  /\ acks[w] > 0 /\ Arrives([w |-> w, pc |-> AStore, k |-> 0])
  /\ acks' = [acks EXCEPT ![w] = @ - 1] /\ UNCHANGED loads
AnswerFetch ==
  /\ phase = "writeback" /\ iline = "pending" /\ iline' = "valid"
  /\ UNCHANGED <<phase, turn, setup, warpVars, fbuf, lastFetch, imiss, iwait, exited, schedVars, regVars,
                 idoc, ocVars, written, aluVars, lsuVars, wbVars, memVars, inPipe, stores>>

Cycle == \/ ShaderWriteback \/ ExecuteAlu("sp") \/ ExecuteAlu("sfu") \/ LsuWriteback \/ CollectorStep
         \/ LsuResponse \/ LsuDispatch \/ LsuIssue \/ Schedule \/ Decode \/ Fetch
Memory == \/ \E x \in loads : AnswerLoad(x)
          \/ \E w \in Warps : AnswerStore(w)
          \/ AnswerFetch
Next == Cycle \/ Memory

\* The clock never stops (a stage always follows: this is WF_vars(Cycle)), and memory
\* answers what it is asked, sooner or later.
Spec == Init /\ [][Next]_vars /\ []<><<TRUE>>_<<phase, turn>> /\ SF_<<respq, iline>>(Memory)

-----------------------------------------------------------------------------
(* Properties.                                                             *)

\* The places of the pipeline that hold an issued instruction, each with its content.
Places == {<<p, k>> : p \in {"id_oc", "cu", "oc_ex"}, k \in Kinds}
          \cup {<<"dispatch", k>> : k \in Kinds}
          \cup (UNION {{<<k, s>> : s \in 0..(Depth[k] - 1)} : k \in Alu}) \cup {<<"shared", s>> : s \in 0..2}
          \cup {<<"ex_wb", i>> : i \in DOMAIN exwb}
Content(p) == CASE p[1] = "id_oc" -> idoc[p[2]]
                [] p[1] = "cu"    -> cu[p[2]]
                [] p[1] = "oc_ex" -> ocex[p[2]]
                [] p[1] = "dispatch" -> IF p[2] = "mem" THEN disp ELSE unit[p[2]].disp
                [] p[1] \in Alu   -> unit[p[1]].stage[p[2]]
                [] p[1] = "shared" -> shpipe[p[2]]
                [] p[1] = "ex_wb" -> exwb[p[2]]
InFlight(w) == {p \in Places : Content(p).w = w}

\* Accesses of w's loads at pcs that have left the load/store unit and not been written back.
At(x, w, pcs)   == IF x.w = w /\ x.pc \in pcs THEN 1 ELSE 0
From(s, w, pcs) == Cardinality({i \in DOMAIN s : s[i].w = w /\ s[i].pc \in pcs})
Outstanding(w, pcs) == Cardinality({a \in loads : a.w = w /\ a.pc \in pcs})
                       + From(respq, w, pcs) + From(l1ready, w, pcs)
                       + At(nextGlobal, w, pcs) + At(nextWb, w, pcs)
Loads == {i \in DOMAIN Program : Program[i].op = "load" /\ Program[i].space # "shared"}
Into(r) == {i \in Loads : r \in Range(Program[i].out)}

TypeOK ==
  /\ phase \in {"writeback", "sp", "sfu", "lsu", "collect", "response", "dispatch", "oc_ex", "issue", "decode", "fetch"}
  /\ turn \in Scheds /\ (turn > 0 => phase = "issue")
  /\ \A w \in Warps : /\ next_pc[w] \in 1..(Len(Program) + 1) /\ top[w] \in 1..(Len(Program) + 1)
                      /\ trips[w] \in 0..MaxTrips /\ nxt[w] \in {1, 2}
                      /\ \A s \in {1, 2} : ibuf[w][s] \in {0} \cup DOMAIN Program
                      /\ {inPipe[w], stores[w], acks[w]} \subseteq Nat
                      /\ \A r \in Regs : pw[w][r] \in Nat
                      /\ reserved[w] \subseteq Regs /\ longop[w] \subseteq Regs
  /\ \A p \in Places : Content(p) \in Inst
  /\ {fbuf, nextWb, nextGlobal} \subseteq Inst
  /\ written \subseteq Banks /\ pri \in 0..(Square - 1) /\ arb \in 0..4
  /\ Len(respq) <= Responses

\* m_inst_in_pipeline counts the warp's instructions between decode and the end of
\* the pipeline: those in its buffer and those issued.  Loads leave the count at
\* different stages (shared ones at writeback, the others with their dispatch),
\* exits and control hazards take buffered ones back; the counter drifts if any of
\* these is missed, and the warp is reclaimed too early or never.
InPipeExact == \A w \in Warps : inPipe[w] = Cardinality(Buffered(w)) + Cardinality(InFlight(w))

\* The scoreboard reserves exactly the registers still to be written: those of
\* instructions in the pipeline, those m_pending_writes counts, and those of a
\* shared load in m_next_wb.  One too few is a read of an old value; one too many
\* stops the warp for ever.
ReservedExact ==
  \A w \in Warps :
    reserved[w] = (UNION {Range(P(Content(p)).out) : p \in InFlight(w)})
                  \cup {r \in Regs : pw[w][r] > 0}
                  \cup (IF nextWb.w = w /\ Shared(nextWb) THEN Range(P(nextWb).out) ELSE {})

\* m_pending_writes counts, for each register, the accesses of the load that writes it
\* that have not been sent and those sent and not written back: hits in the L1D,
\* answers in any order and the three ways a load completes keep it exact.
PendingExact ==
  \A w \in Warps : \A r \in Regs :
    pw[w][r] = At(disp, w, Into(r)) * left + Outstanding(w, Into(r))

\* A warp is reclaimed when nothing of it is left in the core or in memory: no
\* instruction, no load that will come back to a register, no store to acknowledge.
ReclaimClean ==
  \A w \in Warps : exited[w] =>
    /\ done[w] /\ InFlight(w) = {} /\ reserved[w] = {} /\ w \notin atBar
    /\ Outstanding(w, Loads) = 0
    /\ stores[w] = 0 /\ acks[w] = 0

\* "No free registers found" never: the result bus lets at most one instruction
\* reach EX_WB in a cycle, whatever the latencies and initiation intervals of SP
\* and SFU, and no instruction overwrites another on its way.
OnePerCycle == Len(exwb) <= 1

\* A collector unit waits for exactly the operands it has in the bank queues, each
\* once and in the bank of its register: none is read twice or for the instruction
\* before, none is lost when a bank is taken by a write.
OperandsQueued ==
  /\ \A b \in Banks : /\ IsInjective(queue[b])
                      /\ \A q \in Range(queue[b]) :
                           LET x == cu[q.cu]
                           IN x # None /\ q.op \in DOMAIN P(x).src /\ Bank(x.w, P(x).src[q.op]) = b
  /\ \A k \in Kinds :
       missing[k] = {q.op : q \in UNION {{e \in Range(queue[b]) : e.cu = k} : b \in Banks}}

\* CPL's count for a warp is its distance from the start plus its instructions in
\* the arithmetic pipelines, and one more for every memory instruction it has
\* issued, since tw_warp_complete() is never told of those: nothing else moves it.
Arithmetic(w) == Cardinality({p \in InFlight(w) : KindOf(P(Content(p)).op) # "mem"})
CriticalityExact ==
  [][\A w \in Warps :
       nInst'[w] + top'[w] - Arithmetic(w)' =
         nInst[w] + top[w] - Arithmetic(w) + (IF idoc'["mem"].w = w /\ idoc["mem"] = None THEN 1 ELSE 0)]_vars

\* two_level_active keeps each supervised warp in one of its two lists, and as many
\* active as it may: a warp in neither would never run again.
EveryWarpListed ==
  policy = "two_level" => \A i \in Scheds :
    /\ Len(list[i]) = MaxActive
    /\ Range(list[i] \o pending[i]) = Range(Supervised(i))
    /\ Len(list[i]) + Len(pending[i]) = Len(Supervised(i))

\* Types; every instruction of a warp is counted, and every warp is in one list of
\* its scheduler.
PipelineSound == TypeOK /\ InPipeExact /\ EveryWarpListed

\* Scoreboard and pending writes agree with the instructions under way.
RegistersExact == ReservedExact /\ PendingExact

\* Under every scheduler all warps finish and are reclaimed: no order starves a
\* warp that others wait for at a barrier, no port or queue blocks for good.
AllExit == <>[](\A w \in Warps : exited[w])
=============================================================================
