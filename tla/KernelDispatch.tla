--------------------------- MODULE KernelDispatch ---------------------------
(* How gpgpu_sim hands the CTAs of running kernels to the cores and learns *)
(* that a kernel has finished (gpu-sim.cc, shader.cc, CPL.cc).             *)
(*                                                                         *)
(* One simulation thread runs everything.  In each core cycle the cores    *)
(* execute and reclaim warps; at its end issue_block2core() walks over the *)
(* clusters, and each may bind an idle core to a kernel and issue one CTA. *)
EXTENDS Integers, SequencesExt

CONSTANTS NumKernels, \* kernels the application launches
          Slots,      \* max_concurrent_kernel
          Clusters,   \* n_simt_clusters
          PerCluster, \* n_simt_cores_per_cluster
          WarpSize,
          Threads,    \* n_thread_per_shader
          Grid,       \* num_blocks() of each kernel
          Block,      \* threads_per_cta() of each kernel
          CtaLimit    \* max_cta_per_core and the shared memory and register limits

Kernels == 1..NumKernels  \* their uids
Cores == (0..Clusters-1) \X (0..PerCluster-1)
NumShader == Clusters * PerCluster
Warps == 0..Threads \div WarpSize - 1
Lanes == 0..WarpSize-1
NoKernel == 0

\* Warps a CTA takes: its threads padded to whole warps.
WarpsPerCta(k) == (Block[k] + WarpSize - 1) \div WarpSize

\* shader_core_config::max_cta()
ResourceLimit(k) ==
  LET byThreads == Threads \div (WarpsPerCta(k) * WarpSize)
  IN  IF byThreads < CtaLimit[k] THEN byThreads ELSE CtaLimit[k]
MaxCta(k) == IF Grid[k] < ResourceLimit(k) * NumShader
             THEN (Grid[k] + NumShader - 1) \div NumShader
             ELSE ResourceLimit(k)

ASSUME DispatchConstants ==
  /\ {NumKernels, Slots, Clusters, PerCluster, WarpSize, Threads} \subseteq Nat \ {0}
  /\ Grid \in [Kernels -> Nat \ {0}] /\ Block \in [Kernels -> Nat \ {0}]
  /\ CtaLimit \in [Kernels -> Nat \ {0}]
  /\ \A k \in Kernels : MaxCta(k) \in Nat \ {0}  \* max_cta() aborts otherwise

CtaIds == 0..Threads-1

VARIABLES
  slots,        \* m_running_kernels
  lastKernel,   \* m_last_issued_kernel
  nextCta,      \* m_next_cta of each kernel, counted in CTAs
  coresRunning, \* m_num_cores_running of each kernel
  finished,     \* m_finished_kernel
  launched,     \* kernels launch() was called with
  kernel,       \* m_kernel of each core
  active,       \* m_active_threads: threads that have not exited, as <<warp, lane>>
  status,       \* m_cta_status: how many of them each CTA slot has
  nActive,      \* m_n_active_cta
  notCompleted, \* m_not_completed
  warp,         \* "exited" (m_done_exit), "running" or "done" (hardware_done)
  counted,      \* warps whose tw_warp_cta_cycle_dist is not zero
  lastCluster,  \* m_last_cluster_issue
  nextCore,     \* m_cta_issue_next_core of each cluster
  pos,          \* issue_block2core(): clusters already visited
  base          \* issue_block2core(): last_issued

kernelVars == <<slots, lastKernel, nextCta, coresRunning, finished, launched>>
coreVars   == <<kernel, active, status, nActive, notCompleted, warp, counted>>
issueVars  == <<lastCluster, nextCore, pos, base>>
vars == <<kernelVars, coreVars, issueVars>>

\* kernel_info_t
NoMoreCtas(k) == nextCta[k] >= Grid[k]
Done(k) == NoMoreCtas(k) /\ coresRunning[k] = 0

FreeSlot(n) == slots[n] # NoKernel => Done(slots[n])
CanStartKernel == \E n \in 0..Slots-1 : FreeSlot(n)

HasCtas(n) == slots[n] # NoKernel /\ ~NoMoreCtas(slots[n])
GetMoreCtaLeft == \E n \in 0..Slots-1 : HasCtas(n)

\* select_kernel(): the first slot after the last issued one with CTAs left.
Turn(n, last, size) == (n - last - 1) % size
Selected(n) == /\ HasCtas(n)
               /\ \A m \in 0..Slots-1 :
                    HasCtas(m) => Turn(n, lastKernel, Slots) <= Turn(m, lastKernel, Slots)

ClusterNotCompleted(cl) == \E i \in 0..PerCluster-1 : notCompleted[<<cl, i>>] > 0

\* cycle() runs the cores of a cluster with work, or all while CTAs are left.
CoreCycles(c) == ClusterNotCompleted(c[1]) \/ GetMoreCtaLeft

\* The warps and threads of CTA slot i of a core running k.
CtaWarps(k, i) == i * WarpsPerCta(k) .. (i + 1) * WarpsPerCta(k) - 1
CtaThreads(k, i) ==
  {t \in CtaWarps(k, i) \X Lanes : (t[1] - i * WarpsPerCta(k)) * WarpSize + t[2] < Block[k]}
CtaOf(k, w) == CHOOSE i \in CtaIds : w \in CtaWarps(k, i)

Between == pos = Clusters   \* not inside issue_block2core()

Init ==
  /\ slots = [n \in 0..Slots-1 |-> NoKernel] /\ lastKernel = 0
  /\ nextCta = [k \in Kernels |-> 0] /\ coresRunning = [k \in Kernels |-> 0]
  /\ finished = <<>> /\ launched = {}
  /\ kernel = [c \in Cores |-> NoKernel]
  /\ active = [c \in Cores |-> {}]
  /\ status = [c \in Cores |-> [i \in CtaIds |-> 0]]
  /\ nActive = [c \in Cores |-> 0] /\ notCompleted = [c \in Cores |-> 0]
  /\ warp = [c \in Cores |-> [w \in Warps |-> "exited"]]
  /\ counted = [c \in Cores |-> {}]
  /\ lastCluster = 0 /\ nextCore = [cl \in 0..Clusters-1 |-> PerCluster - 1]
  /\ pos = Clusters /\ base = 0

-----------------------------------------------------------------------------
(* Kernels come and go.                                                    *)

\* launch(), called by stream_operation when can_start_kernel().
SlotForM(n) == slots[n] # NoKernel => NoMoreCtas(slots[n])  \* mutant: running() not tested
SlotFor(n) == FreeSlot(n)
Launch(k) ==
  /\ Between /\ CanStartKernel
  /\ k \notin launched
  /\ \E n \in 0..Slots-1 :
       /\ SlotFor(n) /\ \A m \in 0..n-1 : ~SlotFor(m)
       /\ slots' = [slots EXCEPT ![n] = k]
  /\ launched' = launched \cup {k}
  /\ UNCHANGED <<lastKernel, nextCta, coresRunning, finished, coreVars, issueVars>>

\* finished_kernel(), polled by stream_manager::operation().
FinishedKernel ==
  /\ Between /\ finished # <<>>
  /\ finished' = Tail(finished)
  /\ UNCHANGED <<slots, lastKernel, nextCta, coresRunning, launched,
                 coreVars, issueVars>>

-----------------------------------------------------------------------------
(* The cores execute.                                                      *)

\* A warp of the core issues its last instruction and drains: hardware_done()
\* and no pending writes.  issue_warp() counted its cycles.
WarpDone(c, w) ==
  /\ Between /\ CoreCycles(c)
  /\ warp[c][w] = "running"
  /\ warp' = [warp EXCEPT ![c][w] = "done"]
  /\ counted' = [counted EXCEPT ![c] = @ \cup {w}]
  /\ UNCHANGED <<kernelVars, kernel, active, status, nActive, notCompleted, issueVars>>

\* register_cta_thread_exit(): what the exit of a CTA's last thread changes.
SetDone(k) ==
  /\ finished' = Append(finished, k)
  /\ \E n \in 0..Slots-1 :
       /\ slots[n] = k /\ \A m \in 0..n-1 : slots[m] # k
       /\ slots' = [slots EXCEPT ![n] = NoKernel]

CoreEmpty(c) == nActive[c] = 1

KernelOverM1(k) == coresRunning[k] = 1  \* mutant: CTAs left are forgotten
KernelOverM2(k) == coresRunning[k] = 0 /\ NoMoreCtas(k)  \* mutant: before dec_running()
KernelOver(k) == coresRunning[k] = 1 /\ NoMoreCtas(k)

LastThreadExits(c) ==
  LET k == kernel[c] IN
  /\ nActive' = [nActive EXCEPT ![c] = @ - 1]
  /\ IF CoreEmpty(c)
     THEN /\ coresRunning' = [coresRunning EXCEPT ![k] = @ - 1]
          /\ kernel' = [kernel EXCEPT ![c] = NoKernel]
          /\ IF KernelOver(k) THEN SetDone(k) ELSE UNCHANGED <<finished, slots>>
     ELSE UNCHANGED <<coresRunning, kernel, finished, slots>>

\* fetch() reclaims a warp: register_cta_thread_exit() for each active thread.
ExitingM(c, w) == {t \in active[c] : t[1] = w /\ t[2] # 0}  \* mutant: lane 0 is missed
Exiting(c, w) == {t \in active[c] : t[1] = w}
Reclaim(c, w) ==
  LET i == CtaOf(kernel[c], w)
      n == Cardinality(Exiting(c, w))
  IN
  /\ Between /\ CoreCycles(c)
  /\ warp[c][w] = "done"
  /\ warp' = [warp EXCEPT ![c][w] = "exited"]
  /\ active' = [active EXCEPT ![c] = @ \ Exiting(c, w)]
  /\ notCompleted' = [notCompleted EXCEPT ![c] = @ - n]
  /\ status' = [status EXCEPT ![c][i] = @ - n]
  /\ IF status[c][i] = n
     THEN LastThreadExits(c)
     ELSE UNCHANGED <<nActive, coresRunning, kernel, finished, slots>>
  /\ UNCHANGED <<lastKernel, nextCta, launched, counted, issueVars>>

-----------------------------------------------------------------------------
(* issue_block2core().                                                     *)

StartIssue ==
  /\ Between
  /\ pos' = 0 /\ base' = lastCluster
  /\ UNCHANGED <<kernelVars, coreVars, lastCluster, nextCore>>

\* A core the cluster can issue a CTA to: its kernel has one and there is
\* room for it, or the core is idle and select_kernel() finds a kernel.
RoomM(c) == nActive[c] <= MaxCta(kernel[c])  \* mutant: off by one
Room(c) == nActive[c] < MaxCta(kernel[c])
Idle(c) == kernel[c] = NoKernel /\ notCompleted[c] = 0
CanIssue(c) == \/ kernel[c] # NoKernel /\ ~NoMoreCtas(kernel[c]) /\ Room(c)
               \/ Idle(c) /\ GetMoreCtaLeft
NextInTurn(cl, i) ==
  /\ CanIssue(<<cl, i>>)
  /\ \A j \in 0..PerCluster-1 : CanIssue(<<cl, j>>) =>
       Turn(i, nextCore[cl], PerCluster) <= Turn(j, nextCore[cl], PerCluster)

\* set_kernel()
Bind(c, k) == IF kernel[c] = NoKernel
              THEN coresRunning' = [coresRunning EXCEPT ![k] = @ + 1]
              ELSE UNCHANGED coresRunning

FreeCta(c, i) == status[c][i] = 0 /\ \A j \in 0..i-1 : status[c][j] # 0

\* shader_core_ctx::issue_block2core(): CTA slot i of core c gets a CTA of k.
\* reinit() clears only the warps the CTA fills.
Reset(k, i) == i * WarpsPerCta(k) .. i * WarpsPerCta(k) + Block[k] \div WarpSize - 1
IssueCta(c, k, i) ==
  /\ kernel' = [kernel EXCEPT ![c] = k]
  /\ nextCta' = [nextCta EXCEPT ![k] = @ + 1]
  /\ active' = [active EXCEPT ![c] = @ \cup CtaThreads(k, i)]
  /\ status' = [status EXCEPT ![c][i] = Cardinality(CtaThreads(k, i))]
  /\ nActive' = [nActive EXCEPT ![c] = @ + 1]
  /\ notCompleted' = [notCompleted EXCEPT ![c] = @ + Cardinality(CtaThreads(k, i))]
  /\ warp' = [warp EXCEPT ![c] =
                [w \in Warps |-> IF w \in CtaWarps(k, i) THEN "running" ELSE @[w]]]
  /\ counted' = [counted EXCEPT ![c] = @ \ Reset(k, i)]

IssueCluster ==
  LET cl == (pos + base + 1) % Clusters IN
  /\ ~Between
  /\ \E j \in 0..PerCluster-1 :
       /\ NextInTurn(cl, j)
       /\ \/ /\ kernel[<<cl, j>>] # NoKernel
             /\ \E i \in CtaIds : /\ FreeCta(<<cl, j>>, i)
                                  /\ IssueCta(<<cl, j>>, kernel[<<cl, j>>], i)
             /\ Bind(<<cl, j>>, kernel[<<cl, j>>])
             /\ UNCHANGED lastKernel
          \/ /\ kernel[<<cl, j>>] = NoKernel
             /\ \E n \in 0..Slots-1 :
                  /\ Selected(n)
                  /\ lastKernel' = n
                  /\ Bind(<<cl, j>>, slots[n])
                  /\ \E i \in CtaIds : /\ FreeCta(<<cl, j>>, i)
                                       /\ IssueCta(<<cl, j>>, slots[n], i)
       /\ nextCore' = [nextCore EXCEPT ![cl] = j]
  /\ lastCluster' = cl
  /\ pos' = pos + 1
  /\ UNCHANGED <<slots, finished, launched, base>>

SkipCluster ==
  LET cl == (pos + base + 1) % Clusters IN
  /\ ~Between
  /\ \A j \in 0..PerCluster-1 : ~CanIssue(<<cl, j>>)
  /\ pos' = pos + 1
  /\ UNCHANGED <<kernelVars, coreVars, lastCluster, nextCore, base>>

Next ==
  \/ \E k \in Kernels : Launch(k)
  \/ FinishedKernel
  \/ \E c \in Cores, w \in Warps : WarpDone(c, w) \/ Reclaim(c, w)
  \/ StartIssue \/ IssueCluster \/ SkipCluster

\* The simulation thread keeps cycling, warps run to their end, fetch() visits
\* every warp in turn; nothing makes the application launch a kernel.
Fairness ==
  /\ WF_vars(StartIssue) /\ WF_vars(IssueCluster) /\ WF_vars(SkipCluster)
  /\ SF_vars(\E c \in Cores, w \in Warps : WarpDone(c, w))
  /\ SF_vars(\E c \in Cores, w \in Warps : Reclaim(c, w))

Spec == Init /\ [][Next]_vars
LiveSpec == Spec /\ Fairness
-----------------------------------------------------------------------------
(* Properties.                                                             *)

InSlots(k) == \E n \in 0..Slots-1 : slots[n] = k
Bound(k) == {c \in Cores : kernel[c] = k}

\* The state keeps to its types: counters that are unsigned in the code never
\* go below zero (the assertions of dec_running() and of
\* register_cta_thread_exit()).
TypeOK ==
  /\ slots \in [0..Slots-1 -> Kernels \cup {NoKernel}] /\ lastKernel \in 0..Slots-1
  /\ nextCta \in [Kernels -> Nat] /\ coresRunning \in [Kernels -> Nat]
  /\ finished \in Seq(Kernels) /\ launched \in SUBSET Kernels
  /\ kernel \in [Cores -> Kernels \cup {NoKernel}]
  /\ active \in [Cores -> SUBSET (Warps \X Lanes)]
  /\ status \in [Cores -> [CtaIds -> Nat]]
  /\ nActive \in [Cores -> Nat] /\ notCompleted \in [Cores -> Nat]
  /\ warp \in [Cores -> [Warps -> {"exited", "running", "done"}]]
  /\ counted \in [Cores -> SUBSET Warps]
  /\ lastCluster \in 0..Clusters-1 /\ base \in 0..Clusters-1
  /\ nextCore \in [0..Clusters-1 -> 0..PerCluster-1]
  /\ pos \in 0..Clusters

\* m_num_cores_running of a kernel is the number of cores bound to it, however
\* inc_running() and dec_running() of different cores interleave.
RunningCount == \A k \in Kernels : coresRunning[k] = Cardinality(Bound(k))

\* A core's counts of what it runs agree with its threads: all of them, those
\* of each CTA slot, the slots in use, and the warps not yet reclaimed.
CtaActive(c, i) == {t \in active[c] : CtaOf(kernel[c], t[1]) = i}
UsedCtas(c) == {i \in CtaIds : status[c][i] # 0}
CoreAccounting ==
  \A c \in Cores :
    /\ notCompleted[c] = Cardinality(active[c])
    /\ nActive[c] = Cardinality(UsedCtas(c))
    /\ (kernel[c] = NoKernel) <=> (nActive[c] = 0)
    /\ \A i \in CtaIds : status[c][i] = Cardinality(CtaActive(c, i))
    /\ \A w \in Warps : (warp[c][w] = "exited") <=> (\A t \in active[c] : t[1] # w)

\* While max_cta() admits a CTA there is a free CTA slot below it, and no thread
\* of the CTA's warps is still active (the assertions of issue_block2core() and
\* init_warps()).
RoomIsReal ==
  \A c \in Cores, k \in Kernels :
    kernel[c] = k /\ Room(c) =>
      /\ \E i \in 0..MaxCta(k)-1 : status[c][i] = 0
      /\ \A i \in 0..MaxCta(k)-1 : status[c][i] = 0 =>
           /\ CtaWarps(k, i) \subseteq Warps
           /\ active[c] \cap CtaThreads(k, i) = {}

\* A kernel a core runs holds a slot (the assertion of set_kernel_done()), and
\* the kernel of a slot is never done(), so launch() never overwrites one whose
\* end nobody has been told of.
SlotsHeld ==
  /\ \A c \in Cores : kernel[c] # NoKernel => InSlots(kernel[c])
  /\ \A n \in 0..Slots-1 : slots[n] # NoKernel => ~Done(slots[n])

\* A kernel that has left its slot ran all its CTAs and no core runs it; its end
\* is reported once, and only then.
FinishedComplete ==
  /\ \A k \in launched : ~InSlots(k) => NoMoreCtas(k) /\ Bound(k) = {}
  /\ \A i, j \in DOMAIN finished : finished[i] = finished[j] => i = j
  /\ \A i \in DOMAIN finished : finished[i] \in launched /\ ~InSlots(finished[i])

\* The dispatcher implements KernelWork: a kernel is over exactly when the last
\* of all its CTAs completes.
Live(k) == {p \in Cores \X CtaIds : kernel[p[1]] = k /\ status[p[1]][p[2]] # 0}
Work == INSTANCE KernelWork
          WITH left    <- [k \in Kernels |-> Grid[k] - nextCta[k]],
               live    <- [k \in Kernels |-> Cardinality(Live(k))],
               running <- {k \in Kernels : InSlots(k)},
               over    <- {k \in launched : ~InSlots(k)}
ImplementsWork == Work!Spec

\* Every kernel that holds a slot finishes: select_kernel() and the walk over
\* clusters and cores leave no CTA behind.
KernelsFinish == \A k \in Kernels : InSlots(k) ~> k \in ToSet(finished)

\* Every count of kernels, cores, CTAs, warps and threads is in its range and
\* the number of what it counts.
CountsSound == TypeOK /\ CoreAccounting /\ RunningCount

\* The slots hold exactly the kernels that are not over: none a core still needs
\* is dropped, none that is over stays or is reported twice.
SlotsSound == SlotsHeld /\ FinishedComplete
=============================================================================
