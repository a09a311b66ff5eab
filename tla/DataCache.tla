----------------------------- MODULE DataCache -----------------------------
(* A read_only_cache or data_cache of gpu-cache.h: tag array, MSHR table,  *)
(* miss queue and the responses of the level below, in one cache whose     *)
(* policy is chosen by its configuration string (L1D, L2, constant and     *)
(* instruction caches).                                                    *)
(*                                                                         *)
(* An access that returns RESERVATION_FAIL changes nothing and is tried    *)
(* again by its caller: it is a step that is not taken.  Ports and time    *)
(* stamps are abstracted: the order of m_last_access_time is the relation  *)
(* lru, and an INVALID line forgets its tag, which probe() never uses.     *)
EXTENDS Integers, FiniteSets, Sequences

CONSTANTS Blocks,        \* block addresses
          LocalBlocks,   \* those in local memory
          Sets, SetOf,   \* m_config.set_index
          Ways,          \* m_assoc
          Mfs,           \* mem_fetch objects that exist at a time (bound)
          NoMf, NoBlock, NoLine,
          MshrEntries,   \* m_num_entries
          MaxMerge,      \* m_max_merged
          MissQueueSize, \* m_miss_queue_size
          Policies       \* configurations: write, alloc and miss policy

ASSUME CacheConstants ==
  /\ LocalBlocks \subseteq Blocks /\ SetOf \in [Blocks -> Sets]
  /\ Ways \in Nat \ {0}
  /\ MshrEntries \in Nat \ {0} /\ MaxMerge \in Nat \ {0} /\ MissQueueSize \in Nat \ {0}
  /\ NoMf \notin Mfs /\ NoBlock \notin Blocks /\ NoLine \notin Sets \X (1..Ways)
  /\ IsFiniteSet(Blocks)
  /\ Policies \subseteq
       [write : {"READ_ONLY", "WRITE_BACK", "WRITE_THROUGH", "WRITE_EVICT",
                 "LOCAL_WB_GLOBAL_WT"},
        alloc : {"ON_MISS", "ON_FILL"},
        miss  : {"WRITE_ALLOCATE", "NO_WRITE_ALLOCATE"}]
  /\ \A p \in Policies : p.alloc = "ON_FILL" => p.write = "READ_ONLY"

Lines == Sets \X (1..Ways)
EmptyLine == [status |-> "INVALID", block |-> NoBlock]

VARIABLES
  policy,    \* m_config: never changes
  lines,     \* m_lines of the tag array: status and block
  lru,       \* pairs <<l, m>>: l was last used before m
  mshr,      \* m_data of mshr_table: the list of each block, <<>> if no entry
  atomics,   \* blocks whose entry has m_has_atomic
  ready,     \* m_current_response
  extra,     \* m_extra_mf_fields: who waits for which fill of which line
  missQueue, \* m_miss_queue
  below,     \* read requests the level below has and will answer
  inside     \* accesses accepted and not given back or passed on

tagVars  == <<lines, lru>>
mshrVars == <<mshr, atomics, ready>>
vars == <<policy, tagVars, mshrVars, extra, missQueue, below, inside>>

Fields  == [mf : Mfs, block : Blocks, line : Lines \cup {NoLine}]
Request == [kind : {"read", "write", "writeback"}, mf : Mfs \cup {NoMf}, block : Blocks]

Init ==
  /\ policy \in Policies
  /\ lines = [l \in Lines |-> EmptyLine] /\ lru = {}
  /\ mshr = [b \in Blocks |-> <<>>] /\ atomics = {} /\ ready = <<>>
  /\ extra = {} /\ missQueue = <<>> /\ below = {} /\ inside = {}

-----------------------------------------------------------------------------
(* tag_array                                                               *)

LinesOf(b) == {SetOf[b]} \X (1..Ways)
\* Lines probe() matches.
CopiesM(b) == {l \in LinesOf(b) : lines[l].block = b /\ lines[l].status # "MODIFIED"}  \* mutant
Copies(b) == {l \in LinesOf(b) : lines[l].block = b}
HitM(b) == \E l \in Copies(b) : lines[l].status = "VALID"  \* mutant: not MODIFIED
Hit(b) == \E l \in Copies(b) : lines[l].status \in {"VALID", "MODIFIED"}

Unused(b)    == {l \in LinesOf(b) : lines[l].status = "INVALID"}
EvictableM(b) == {l \in LinesOf(b) : lines[l].status # "INVALID"}  \* mutant: RESERVED too
Evictable(b) == {l \in LinesOf(b) : lines[l].status \in {"VALID", "MODIFIED"}}

\* The victim of probe(): the last INVALID way, or else the oldest line.
Victim(b, l) ==
  \/ l \in Unused(b) /\ \A m \in Unused(b) : m[2] <= l[2]
  \/ Unused(b) = {} /\ l \in Evictable(b) /\ \A m \in Evictable(b) \ {l} : <<l, m>> \in lru

\* The line probe() answers with.  There is none when every line of the set is
\* RESERVED by another block: RESERVATION_FAIL.
Slot(b, l) ==
  \/ l \in Copies(b)
  \/ Copies(b) = {} /\ policy.alloc = "ON_MISS" /\ Victim(b, l)
  \/ Copies(b) = {} /\ policy.alloc = "ON_FILL" /\ l = NoLine

Without(l) == {p \in lru : l \notin {p[1], p[2]}}
Peers(l) == {m \in Lines : m[1] = l[1] /\ m # l /\ lines[m].status # "INVALID"}
Touched(l) == {p \in lru : p[1] # l} \cup (Peers(l) \X {l})

\* tag_array::access on the line it probes.
TagAccess(b, l) ==
  IF l = NoLine THEN UNCHANGED tagVars
  ELSE /\ lru' = Touched(l)
       /\ lines' = IF lines[l].block = b THEN lines
                   ELSE [lines EXCEPT ![l] = [status |-> "RESERVED", block |-> b]]

-----------------------------------------------------------------------------
(* Accesses.  miss_queue_full(n), and the tests of send_read_request.      *)

QueueFull(n) == Len(missQueue) + n >= MissQueueSize

Entries == {b \in Blocks : mshr[b] # <<>>}
Accepted(b, queue) ==
  IF b \in Entries THEN Len(mshr[b]) < MaxMerge
  ELSE Cardinality(Entries) < MshrEntries /\ Len(queue) < MissQueueSize

\* The write-back of a dirty victim.
WritebackOf(b, l) ==
  IF l # NoLine /\ lines[l].block # b /\ lines[l].status = "MODIFIED"
     /\ policy.write # "WRITE_THROUGH"
  THEN <<[kind |-> "writeback", mf |-> NoMf, block |-> lines[l].block]>>
  ELSE <<>>

\* send_read_request for mf, once accepted, and its caller's write-back.
SendRead(mf, b, atomic, queue, l) ==
  /\ TagAccess(b, l)
  /\ mshr' = [mshr EXCEPT ![b] = Append(@, mf)]
  /\ atomics' = IF atomic THEN atomics \cup {b} ELSE atomics
  /\ IF b \in Entries
     THEN /\ extra' = extra
          /\ missQueue' = queue \o WritebackOf(b, l)
     ELSE /\ extra' = extra \cup {[mf |-> mf, block |-> b, line |-> l]}
          /\ missQueue' = Append(queue, [kind |-> "read", mf |-> mf, block |-> b])
                            \o WritebackOf(b, l)
  /\ UNCHANGED ready

WriteRequest(mf, b) == [kind |-> "write", mf |-> mf, block |-> b]

\* Only L2 sees atomics, which bypass L1.
MayRead(atomic, b) == atomic => policy.write = "WRITE_BACK" /\ b \notin LocalBlocks

\* rd_hit_base, and a hit of read_only_cache.  The caller keeps the mem_fetch.
ReadHit(mf, b, atomic) ==
  /\ mf \notin inside /\ MayRead(atomic, b)
  /\ Hit(b)
  /\ \E l \in Copies(b) :
       /\ lru' = Touched(l)
       /\ lines' = IF atomic THEN [lines EXCEPT ![l].status = "MODIFIED"] ELSE lines
  /\ UNCHANGED <<policy, mshrVars, extra, missQueue, below, inside>>

\* rd_miss_base, and a miss of read_only_cache.
ReadMiss(mf, b, atomic) ==
  /\ mf \notin inside /\ MayRead(atomic, b)
  /\ ~Hit(b)
  /\ ~QueueFull(IF policy.write = "READ_ONLY" THEN 0 ELSE 1)
  /\ Accepted(b, missQueue)
  /\ \E l \in Lines \cup {NoLine} : Slot(b, l) /\ SendRead(mf, b, atomic, missQueue, l)
  /\ inside' = inside \cup {mf}
  /\ UNCHANGED <<policy, below>>

Writes(b, modes) ==
  /\ policy.write # "READ_ONLY"
  /\ (IF policy.write # "LOCAL_WB_GLOBAL_WT" THEN policy.write
      ELSE IF b \in LocalBlocks THEN "WRITE_BACK" ELSE "WRITE_EVICT") \in modes

\* wr_hit_wb
WriteBackHit(mf, b) ==
  /\ mf \notin inside /\ Writes(b, {"WRITE_BACK"}) /\ Hit(b)
  /\ \E l \in Copies(b) : /\ lru' = Touched(l)
                         /\ lines' = [lines EXCEPT ![l].status = "MODIFIED"]
  /\ UNCHANGED <<policy, mshrVars, extra, missQueue, below, inside>>

\* wr_hit_wt
WriteThroughHit(mf, b) ==
  /\ mf \notin inside /\ Writes(b, {"WRITE_THROUGH"}) /\ Hit(b)
  /\ ~QueueFull(0)
  /\ \E l \in Copies(b) : /\ lru' = Touched(l)
                         /\ lines' = [lines EXCEPT ![l].status = "MODIFIED"]
  /\ missQueue' = Append(missQueue, WriteRequest(mf, b))
  /\ inside' = inside \cup {mf}
  /\ UNCHANGED <<policy, mshrVars, extra, below>>

\* wr_hit_we
WriteEvictHit(mf, b) ==
  /\ mf \notin inside /\ Writes(b, {"WRITE_EVICT"}) /\ Hit(b)
  /\ ~QueueFull(0)
  /\ \E l \in Copies(b) : /\ lru' = Without(l)
                         /\ lines' = [lines EXCEPT ![l] = EmptyLine]
  /\ missQueue' = Append(missQueue, WriteRequest(mf, b))
  /\ inside' = inside \cup {mf}
  /\ UNCHANGED <<policy, mshrVars, extra, below>>

WriteMiss(mf, b, miss) ==
  /\ mf \notin inside /\ policy.write # "READ_ONLY" /\ policy.miss = miss
  /\ ~Hit(b) /\ \E l \in Lines \cup {NoLine} : Slot(b, l)

\* wr_miss_no_wa
WriteMissNoAlloc(mf, b) ==
  /\ WriteMiss(mf, b, "NO_WRITE_ALLOCATE")
  /\ ~QueueFull(0)
  /\ missQueue' = Append(missQueue, WriteRequest(mf, b))
  /\ inside' = inside \cup {mf}
  /\ UNCHANGED <<policy, tagVars, mshrVars, extra, below>>

\* wr_miss_wa: the write and a read of the same block by a new mem_fetch n.
\* Returning after the write is queued but before do_miss would leave the
\* caller with a request it sends again.
AdmitsM(b) == ~QueueFull(2)  \* mutant: MSHR not tested first
Admits(b) == ~QueueFull(2) /\ Accepted(b, missQueue)

WriteMissAlloc(mf, n, b) ==
  LET queue == Append(missQueue, WriteRequest(mf, b))
  IN /\ WriteMiss(mf, b, "WRITE_ALLOCATE")
     /\ Admits(b)
     /\ IF Accepted(b, queue)
        THEN /\ n \notin inside \cup {mf}
             /\ \E l \in Lines \cup {NoLine} : Slot(b, l) /\ SendRead(n, b, FALSE, queue, l)
             /\ inside' = inside \cup {mf, n}
        ELSE /\ missQueue' = queue
             /\ UNCHANGED <<tagVars, mshrVars, extra, inside>>
     /\ UNCHANGED <<policy, below>>

-----------------------------------------------------------------------------
(* The level below, and the answers.                                       *)

\* baseline_cache::cycle, when the memory port has room.
Cycle ==
  /\ missQueue # <<>>
  /\ missQueue' = Tail(missQueue)
  /\ below' = IF Head(missQueue).kind = "read" THEN below \cup {Head(missQueue).mf} ELSE below
  /\ inside' = IF Head(missQueue).kind = "write" THEN inside \ {Head(missQueue).mf} ELSE inside
  /\ UNCHANGED <<policy, tagVars, mshrVars, extra>>

\* What fill() leaves in a line.
Filled(b) == [status |-> IF b \in atomics THEN "MODIFIED" ELSE "VALID", block |-> b]

\* baseline_cache::fill for a response, which may come in any order.
Fill(mf) ==
  /\ mf \in below
  /\ \E e \in extra :
       /\ e.mf = mf
       /\ IF policy.alloc = "ON_MISS"
          THEN /\ lines' = [lines EXCEPT ![e.line] = Filled(e.block)]
               /\ lru' = lru
          ELSE \E l \in Lines : /\ Victim(e.block, l)
                                /\ lines' = [lines EXCEPT ![l] = Filled(e.block)]
                                /\ lru' = Touched(l)
       /\ ready' = Append(ready, e.block)
       /\ extra' = extra \ {e}
  /\ below' = below \ {mf}
  /\ UNCHANGED <<policy, mshr, atomics, missQueue, inside>>

NextAccessM ==  \* mutant: the response is popped with its first access
  /\ ready # <<>>
  /\ inside' = inside \ {Head(mshr[Head(ready)])}
  /\ mshr' = [mshr EXCEPT ![Head(ready)] = Tail(@)]
  /\ ready' = Tail(ready)
  /\ atomics' = atomics \ {Head(ready)}
  /\ UNCHANGED <<policy, tagVars, extra, missQueue, below>>

\* mshr_table::next_access: one merged access at a time; the entry is
\* released with the last one.
NextAccess ==
  /\ ready # <<>>
  /\ LET b == Head(ready)
         last == Len(mshr[b]) = 1
     IN /\ inside' = inside \ {Head(mshr[b])}
        /\ mshr' = [mshr EXCEPT ![b] = Tail(@)]
        /\ ready' = IF last THEN Tail(ready) ELSE ready
        /\ atomics' = IF last THEN atomics \ {b} ELSE atomics
  /\ UNCHANGED <<policy, tagVars, extra, missQueue, below>>

\* cache_flush of an L1 cache, once the threads of its core have completed:
\* every access they made has been answered or passed on.
Flush ==
  /\ policy.write = "LOCAL_WB_GLOBAL_WT" /\ inside = {}
  /\ lines' = [l \in Lines |-> EmptyLine] /\ lru' = {}
  /\ UNCHANGED <<policy, mshrVars, extra, missQueue, below, inside>>

Access(mf, b) ==
  \/ \E atomic \in BOOLEAN : ReadHit(mf, b, atomic) \/ ReadMiss(mf, b, atomic)
  \/ WriteBackHit(mf, b) \/ WriteThroughHit(mf, b) \/ WriteEvictHit(mf, b)
  \/ WriteMissNoAlloc(mf, b)
  \/ \E n \in Mfs : WriteMissAlloc(mf, n, b)

Next ==
  \/ \E mf \in Mfs, b \in Blocks : Access(mf, b)
  \/ Cycle \/ NextAccess \/ Flush
  \/ \E mf \in Mfs : Fill(mf)

Spec == Init /\ [][Next]_vars

\* The cache is cycled and its memory port accepts in the end; the level below
\* answers every read; the owner takes ready accesses.
Fairness == WF_vars(Cycle) /\ WF_vars(NextAccess) /\ \A mf \in Mfs : WF_vars(Fill(mf))
LiveSpec == Spec /\ Fairness

-----------------------------------------------------------------------------
(* Properties                                                              *)

\* Types, and the bounds that mshr_table::add asserts and the miss queue has.
TypeOK ==
  /\ policy \in Policies
  /\ lines \in [Lines -> [status : {"INVALID", "RESERVED", "VALID", "MODIFIED"},
                          block : Blocks \cup {NoBlock}]]
  /\ lru \subseteq Lines \X Lines
  /\ mshr \in [Blocks -> Seq(Mfs)] /\ atomics \subseteq Blocks /\ ready \in Seq(Blocks)
  /\ \A b \in Blocks : Len(mshr[b]) <= MaxMerge
  /\ Cardinality(Entries) <= MshrEntries
  /\ extra \subseteq Fields /\ below \subseteq Mfs /\ inside \subseteq Mfs
  /\ missQueue \in Seq(Request) /\ Len(missQueue) <= MissQueueSize

\* However misses, evictions, write-evicts, fills and flushes interleave, a
\* block is in at most one way: probe() stops at the first match.
OneCopy == \A b \in Blocks : \A l, m \in Copies(b) : l = m

\* Types, the limits of the MSHRs and of the miss queue, and one way per block.
LinesSound == TypeOK /\ OneCopy

\* Whatever happened to the set while a request was below, its fill finds what
\* fill(), cache_block_t::fill and mark_ready assert: the line reserved for the
\* block (or, allocating on fill, the block not cached), and an MSHR entry
\* headed by the requester that has not been answered before.
FillFinds ==
  \A e \in extra :
    /\ IF policy.alloc = "ON_MISS"
       THEN e.line \in Lines /\ lines[e.line] = [status |-> "RESERVED", block |-> e.block]
       ELSE Copies(e.block) = {}
    /\ mshr[e.block] # <<>> /\ Head(mshr[e.block]) = e.mf
    /\ \A i \in 1..Len(ready) : ready[i] # e.block
    /\ \A f \in extra : f.block = e.block => f = e

\* What an access returned agrees with where it is: an accepted access is in
\* exactly one MSHR list or is a queued write, and one that failed (and will
\* be sent again) is nowhere (the asserts on a locked-up L2, l2cache.cc:398).
Places(mf) ==
  {p \in Blocks \X (1..MaxMerge) : p[2] <= Len(mshr[p[1]]) /\ mshr[p[1]][p[2]] = mf}
  \cup {<<"queue", i>> : i \in {j \in 1..Len(missQueue) : /\ missQueue[j].kind = "write"
                                                         /\ missQueue[j].mf = mf}}
AcceptedOnce ==
  \A mf \in Mfs : /\ mf \in inside <=> Places(mf) # {}
                  /\ \A p, q \in Places(mf) : p = q

\* A block written back and fetched again: the miss queue never holds the
\* fetch in front of the write-back, so memory sees the dirty data first.
RefetchAfterWriteback ==
  \A i, j \in 1..Len(missQueue) :
    missQueue[i].kind = "writeback" /\ missQueue[j].kind = "read"
      /\ missQueue[i].block = missQueue[j].block => i < j

\* A program makes finitely many accesses; once they stop, every one accepted
\* has been answered or passed on, merged ones included.  (While they go on,
\* an entry being drained can be merged into for ever and starve the responses
\* behind it in m_current_response.)
AccessesEnd == <>[][\A mf \in Mfs, b \in Blocks : ~Access(mf, b)]_vars
Drains == AccessesEnd => <>[](inside = {})

\* "Checks if there is a pending request to the lower memory level already"
\* (gpu-cache.cc:356): an access merged into an MSHR entry, and the line it
\* reserves, wait for a request that is on its way.
ReservedPending ==
  \A l \in Lines : lines[l].status = "RESERVED" =>
    \E e \in extra : e.block = lines[l].block
=============================================================================
