--------------------------- MODULE StreamManager ---------------------------
(* Host threads, the stream manager and the simulation thread              *)
(* (stream_manager.cc, gpgpusim_entrypoint.cc), with the kernel slots of   *)
(* gpgpu_sim as the stream manager sees them (gpu-sim.cc).                 *)
(*                                                                         *)
(* Host threads push operations on streams; one simulation thread takes    *)
(* them off, starts them and learns of finished kernels.  The threads      *)
(* share the queues under stream_manager::m_lock, but stream_manager::     *)
(* empty() and CUstream_st::synchronize() read them without it.            *)
EXTENDS Integers, SequencesExt

CONSTANTS Hosts,          \* host threads calling the API
          StreamIds,      \* streams the application may create
          Zero,           \* m_stream_zero
          NoStream,       \* a NULL CUstream_st*
          None,           \* nobody (owner of a free mutex)
          Sim,            \* the simulation thread
          Slots,          \* max_concurrent_kernel
          LaunchBlocking, \* m_cuda_launch_blocking
          SimModes,       \* values of m_sim_mode: TRUE simulates only functionally
          Destroyable,    \* streams the application destroys
          ExitAllowed,    \* the application calls exit_simulation()
          MaxOps          \* bound: operations pushed in a behaviour

ASSUME StreamConstants ==
  /\ {Zero, NoStream} \cap StreamIds = {} /\ Zero # NoStream
  /\ {None, Sim} \cap Hosts = {} /\ None # Sim
  /\ Slots \in Nat \ {0} /\ MaxOps \in Nat
  /\ LaunchBlocking \in BOOLEAN /\ SimModes \subseteq BOOLEAN /\ ExitAllowed \in BOOLEAN
  /\ Destroyable \subseteq StreamIds

Queues == StreamIds \cup {Zero}
Uids   == 1..MaxOps

\* A stream_operation.  All memcpy kinds and events complete at once and are
\* told apart by nothing here: kind "copy".
Operations == [uid : Uids, kind : {"copy", "kernel"}, host : Hosts]
NoOp == [uid |-> 0, kind |-> "noop", host |-> None]

VARIABLES
  created,     \* streams ever created
  streams,     \* m_streams, in list order
  ops,         \* m_operations of every stream
  pending,     \* m_pending of every stream
  serviceZero, \* m_service_stream_zero
  gridStream,  \* m_grid_id_to_stream
  mLock,       \* owner of stream_manager::m_lock
  simLock,     \* owner of g_sim_lock
  running,     \* uids in gpgpu_sim::m_running_kernels
  finished,    \* gpgpu_sim::m_finished_kernel
  busy,        \* a memory partition or the interconnect holds traffic
  simActive,   \* g_sim_active
  simDone,     \* g_sim_done
  exitSem,     \* g_sim_signal_exit
  spc,         \* where the simulation thread is
  cur,         \* the operation front() returned, and its stream
  check,       \* what operation() will return
  hpc,         \* where each host thread is
  harg,        \* its arguments: the stream and the operation
  hidx,        \* streams an unlocked empty() has found empty so far
  nextUid      \* next operation's uid

queueVars == <<created, streams, ops, pending, serviceZero, gridStream>>
gpuVars   == <<running, finished, busy>>
simVars   == <<simActive, simDone, exitSem, spc, cur, check>>
hostVars  == <<hpc, harg, hidx, nextUid>>
vars == <<queueVars, mLock, simLock, gpuVars, simVars, hostVars>>

SimPcs  == {"spin", "activate", "finish", "front", "do", "after", "cycle",
            "loop", "stop", "exited"}
HostPcs == {"idle", "block", "enqueue", "drain", "streamsync", "destroy",
            "sync", "scan", "exitwait", "exited"}

NoArg == [stream |-> NoStream, op |-> NoOp]

\* gpgpu_sim::active(): threads not completed or CTAs left (both only while a
\* kernel holds a slot), or traffic in the memory system.
Active == running # {} \/ busy

CanStartKernel == Cardinality(running) < Slots

Listed == ToSet(streams)
ConcurrentStreamsEmpty == \A s \in Listed : ops[s] = <<>>
AllEmpty == ConcurrentStreamsEmpty /\ ops[Zero] = <<>>

-----------------------------------------------------------------------------
(* The state after gpgpu_ptx_sim_init_perf and start_sim_thread(1).        *)
Init ==
  /\ created = {} /\ streams = <<>>
  /\ ops = [q \in Queues |-> <<>>]
  /\ pending = [q \in Queues |-> FALSE]
  /\ serviceZero = FALSE
  /\ gridStream = [u \in Uids |-> NoStream]
  /\ mLock = None /\ simLock = None
  /\ running = {} /\ finished = <<>> /\ busy = FALSE
  /\ simActive = FALSE /\ simDone = FALSE /\ exitSem = 0
  /\ spc = "spin"
  /\ cur = [stream |-> NoStream, op |-> NoOp] /\ check = FALSE
  /\ hpc = [h \in Hosts |-> "idle"]
  /\ harg = [h \in Hosts |-> NoArg]
  /\ hidx = [h \in Hosts |-> 0]
  /\ nextUid = 1

HostGoto(h, pc) == hpc' = [hpc EXCEPT ![h] = pc]

-----------------------------------------------------------------------------
(* Host threads.                                                           *)

\* External: destroy_stream() erases from m_streams, which push(), empty() and
\* synchronize() of other threads walk without m_lock; that is undefined, so a
\* program destroys a stream while no other of its threads is in a call.
Destroying == \E g \in Hosts : hpc[g] = "destroy"
Calling(h) == hpc[h] \notin {"idle", "exitwait", "exited"}

AddStream(h, s) ==
  /\ hpc[h] = "idle" /\ mLock = None /\ s \notin created
  /\ created' = created \cup {s}
  /\ streams' = Append(streams, s)
  /\ ops' = [ops EXCEPT ![s] = <<>>]
  /\ pending' = [pending EXCEPT ![s] = FALSE]
  /\ UNCHANGED <<serviceZero, gridStream, mLock, simLock, gpuVars, simVars, hostVars>>

\* push(op): a NULL stream, or launch blocking, waits first.  The uid of an
\* operation stands for kernel_info_t's, taken when the kernel is created.
PushCall(h, s, kind) ==
  /\ hpc[h] = "idle" /\ nextUid <= MaxOps
  /\ s \in Listed \cup {NoStream} /\ ~Destroying
  /\ harg' = [harg EXCEPT ![h] =
                [stream |-> s, op |-> [uid |-> nextUid, kind |-> kind, host |-> h]]]
  /\ nextUid' = nextUid + 1
  /\ HostGoto(h, IF s = NoStream \/ LaunchBlocking THEN "block" ELSE "enqueue")
  /\ UNCHANGED <<queueVars, mLock, simLock, gpuVars, simVars, hidx>>

\* The spin loop of push(): its test runs under m_lock, which is released
\* again before the operation is enqueued.
PushBlockM(h) ==  \* mutant: the loop is not entered
  /\ hpc[h] = "block" /\ mLock = None
  /\ HostGoto(h, "enqueue")
  /\ UNCHANGED <<queueVars, mLock, simLock, gpuVars, simVars, harg, hidx, nextUid>>
PushBlock(h) ==
  /\ hpc[h] = "block" /\ mLock = None /\ ConcurrentStreamsEmpty
  /\ HostGoto(h, "enqueue")
  /\ UNCHANGED <<queueVars, mLock, simLock, gpuVars, simVars, harg, hidx, nextUid>>

PushEnqueue(h) ==
  LET blocking == harg[h].stream = NoStream \/ LaunchBlocking
      q == IF blocking THEN Zero ELSE harg[h].stream
  IN /\ hpc[h] = "enqueue" /\ mLock = None
     /\ ops' = [ops EXCEPT ![q] = Append(@, harg[h].op)]
     /\ HostGoto(h, IF blocking THEN "drain" ELSE "idle")
     /\ hidx' = [hidx EXCEPT ![h] = 0]
     /\ UNCHANGED <<created, streams, pending, serviceZero, gridStream, mLock,
                    simLock, gpuVars, simVars, harg, nextUid>>

\* One stream read by the unlocked empty(): the next listed one, or stream
\* zero after the last.  Finding one that is not empty makes the result false.
ScanNext(h) == IF hidx[h] < Len(streams) THEN streams[hidx[h] + 1] ELSE Zero
ScanFails(h) == ops[ScanNext(h)] # <<>>
ScanEndsM(h) == hidx[h] >= Len(streams)  \* mutant: stream zero not tested
ScanEnds(h)  == hidx[h] >= Len(streams) /\ ops[Zero] = <<>>
Scanned(h) == hidx' = [hidx EXCEPT ![h] = IF ScanFails(h) \/ ScanEnds(h)
                                          THEN 0 ELSE @ + 1]

\* push() on stream zero returns when empty() finds every stream empty.
PushDrain(h) ==
  /\ hpc[h] = "drain" /\ Scanned(h)
  /\ HostGoto(h, IF ScanEnds(h) THEN "idle" ELSE "drain")
  /\ UNCHANGED <<queueVars, mLock, simLock, gpuVars, simVars, harg, nextUid>>

StreamSyncCall(h, s) ==
  /\ hpc[h] = "idle" /\ s \in Listed /\ ~Destroying
  /\ harg' = [harg EXCEPT ![h] = [stream |-> s, op |-> NoOp]]
  /\ HostGoto(h, "streamsync")
  /\ UNCHANGED <<queueVars, mLock, simLock, gpuVars, simVars, hidx, nextUid>>

\* CUstream_st::synchronize() spins on the stream's own mutex.
StreamSyncReturn(h) ==
  /\ hpc[h] = "streamsync" /\ ops[harg[h].stream] = <<>>
  /\ HostGoto(h, "idle")
  /\ UNCHANGED <<queueVars, mLock, simLock, gpuVars, simVars, harg, hidx, nextUid>>

\* destroy_stream takes m_lock and keeps it while the stream drains.
DestroyCall(h, s) ==
  /\ hpc[h] = "idle" /\ mLock = None /\ s \in Listed \cap Destroyable 
  /\ \A g \in Hosts \ {h} : ~Calling(g)
  /\ mLock' = h
  /\ harg' = [harg EXCEPT ![h] = [stream |-> s, op |-> NoOp]]
  /\ HostGoto(h, "destroy")
  /\ UNCHANGED <<queueVars, simLock, gpuVars, simVars, hidx, nextUid>>

DestroyReturn(h) ==
  /\ hpc[h] = "destroy" /\ ops[harg[h].stream] = <<>>
  /\ \E i \in DOMAIN streams : /\ streams[i] = harg[h].stream
                              /\ streams' = RemoveAt(streams, i)
  /\ mLock' = None
  /\ HostGoto(h, "idle")
  /\ UNCHANGED <<created, ops, pending, serviceZero, gridStream, simLock,
                 gpuVars, simVars, harg, hidx, nextUid>>

\* synchronize(): each round of its loop holds g_sim_lock.
SyncRound(h) ==
  /\ hpc[h] \in {"idle", "sync"} /\ simLock = None /\ ~Destroying
  /\ simLock' = h
  /\ HostGoto(h, "scan")
  /\ hidx' = [hidx EXCEPT ![h] = 0]
  /\ UNCHANGED <<queueVars, mLock, gpuVars, simVars, harg, nextUid>>

SyncScan(h) ==
  /\ hpc[h] = "scan" /\ Scanned(h)
  /\ IF ScanFails(h) \/ ScanEnds(h)
     THEN /\ simLock' = None
          /\ HostGoto(h, IF ScanEnds(h) /\ ~simActive THEN "idle" ELSE "sync")
     ELSE UNCHANGED <<simLock, hpc>>
  /\ UNCHANGED <<queueVars, mLock, gpuVars, simVars, harg, nextUid>>

ExitCall(h) ==
  /\ ExitAllowed /\ hpc[h] = "idle"
  /\ simDone' = TRUE
  /\ HostGoto(h, "exitwait")
  /\ UNCHANGED <<queueVars, mLock, simLock, gpuVars, simActive, exitSem, spc,
                 cur, check, harg, hidx, nextUid>>

ExitReturn(h) ==
  /\ hpc[h] = "exitwait" /\ exitSem > 0
  /\ exitSem' = exitSem - 1
  /\ HostGoto(h, "exited")
  /\ UNCHANGED <<queueVars, mLock, simLock, gpuVars, simActive, simDone, spc,
                 cur, check, harg, hidx, nextUid>>

Host(h) ==
  \/ \E s \in StreamIds : AddStream(h, s) \/ StreamSyncCall(h, s) \/ DestroyCall(h, s)
  \/ \E s \in StreamIds \cup {NoStream}, k \in {"copy", "kernel"} : PushCall(h, s, k)
  \/ PushBlock(h) \/ PushEnqueue(h) \/ PushDrain(h)
  \/ StreamSyncReturn(h) \/ DestroyReturn(h)
  \/ SyncRound(h) \/ SyncScan(h) \/ ExitCall(h) \/ ExitReturn(h)

-----------------------------------------------------------------------------
(* The simulation thread, gpgpu_sim_thread_concurrent.                     *)

\* while( empty_protected() && !g_sim_done ) ;
SpinEnd ==
  /\ spc = "spin"
  /\ simDone \/ (mLock = None /\ ~AllEmpty)
  /\ spc' = "activate"
  /\ UNCHANGED <<queueVars, mLock, simLock, gpuVars, simActive, simDone,
                 exitSem, cur, check, hostVars>>

\* g_sim_active = true under g_sim_lock, then gpgpu_sim::init().
Activate ==
  /\ spc = "activate" /\ simLock = None
  /\ simActive' = TRUE
  /\ spc' = "finish"
  /\ UNCHANGED <<queueVars, mLock, simLock, gpuVars, simDone, exitSem, cur,
                 check, hostVars>>

\* CUstream_st::record_next_done
RecordNextDone(q) ==
  /\ ops' = [ops EXCEPT ![q] = Tail(@)]
  /\ pending' = [pending EXCEPT ![q] = FALSE]

\* operation(): lock, then check_finished_kernel() / register_finished_kernel.
FinishKernel ==
  /\ spc = "finish" /\ mLock = None
  /\ mLock' = Sim
  /\ spc' = "front"
  /\ IF finished = <<>>
     THEN /\ check' = FALSE
          /\ UNCHANGED <<ops, pending, gridStream, finished>>
     ELSE /\ check' = TRUE
          /\ finished' = Tail(finished)
          /\ RecordNextDone(gridStream[Head(finished)])
          /\ gridStream' = [gridStream EXCEPT ![Head(finished)] = NoStream]
  /\ UNCHANGED <<created, streams, serviceZero, simLock, running, busy,
                 simActive, simDone, exitSem, cur, hostVars>>

\* CUstream_st::next() on queue q, with the grid-to-stream entry of a kernel.
Begin(q) ==
  /\ pending' = [pending EXCEPT ![q] = TRUE]
  /\ cur' = [stream |-> q, op |-> Head(ops[q])]
  /\ gridStream' = IF Head(ops[q]).kind = "kernel"
                   THEN [gridStream EXCEPT ![Head(ops[q]).uid] = q]
                   ELSE gridStream

NoBegin ==
  /\ cur' = [stream |-> NoStream, op |-> NoOp]
  /\ UNCHANGED <<pending, gridStream>>

Ready(q) == ~pending[q] /\ ops[q] # <<>>

\* stream_manager::front()
ZeroTurnM == serviceZero \/ ConcurrentStreamsEmpty \/ Ready(Zero)  \* mutant
ZeroTurn == serviceZero \/ ConcurrentStreamsEmpty

KeepServingM == TRUE  \* mutant: m_service_stream_zero is never cleared
KeepServing == ops[Zero] # <<>>

FrontZero ==
  /\ spc = "front" /\ ZeroTurn
  /\ serviceZero' = KeepServing
  /\ IF Ready(Zero) THEN Begin(Zero) ELSE NoBegin
  /\ spc' = "do"
  /\ UNCHANGED <<created, streams, ops, mLock, simLock, gpuVars, simActive,
                 simDone, exitSem, check, hostVars>>

FirstReady(i) == Ready(streams[i]) /\ \A j \in 1..(i - 1) : ~Ready(streams[j])

FrontConcurrent ==
  /\ spc = "front" /\ ~ZeroTurn
  /\ IF \E i \in DOMAIN streams : Ready(streams[i])
     THEN \E i \in DOMAIN streams : FirstReady(i) /\ Begin(streams[i])
     ELSE NoBegin
  /\ spc' = "do"
  /\ UNCHANGED <<created, streams, ops, serviceZero, mLock, simLock, gpuVars,
                 simActive, simDone, exitSem, check, hostVars>>

\* do_operation, one action per kind, and the unlock that ends operation().
DoLeave == mLock' = None /\ spc' = "after"

DoNothing ==
  /\ spc = "do" /\ cur.op.kind = "noop"
  /\ DoLeave
  /\ UNCHANGED <<queueVars, simLock, gpuVars, simActive, simDone, exitSem, cur,
                 check, hostVars>>

DoCopyM ==  \* mutant: the operation is not retired
  /\ spc = "do" /\ cur.op.kind = "copy"
  /\ DoLeave
  /\ UNCHANGED <<queueVars, simLock, gpuVars, simActive, simDone, exitSem, cur,
                 check, hostVars>>
DoCopy ==
  /\ spc = "do" /\ cur.op.kind = "copy"
  /\ RecordNextDone(cur.stream)
  /\ DoLeave
  /\ UNCHANGED <<created, streams, serviceZero, gridStream, simLock, gpuVars,
                 simActive, simDone, exitSem, cur, check, hostVars>>

\* gpgpu_sim::launch
DoLaunch ==
  /\ spc = "do" /\ cur.op.kind = "kernel" /\ CanStartKernel
  /\ FALSE \in SimModes
  /\ running' = running \cup {cur.op.uid}
  /\ DoLeave
  /\ UNCHANGED <<queueVars, simLock, finished, busy, simActive, simDone,
                 exitSem, cur, check, hostVars>>

\* gpgpu_cuda_ptx_sim_main_func runs the kernel and registers its end itself.
DoFunctional ==
  /\ spc = "do" /\ cur.op.kind = "kernel" /\ CanStartKernel
  /\ TRUE \in SimModes
  /\ RecordNextDone(gridStream[cur.op.uid])
  /\ gridStream' = [gridStream EXCEPT ![cur.op.uid] = NoStream]
  /\ DoLeave
  /\ UNCHANGED <<created, streams, serviceZero, simLock, gpuVars, simActive,
                 simDone, exitSem, cur, check, hostVars>>

\* No slot: do_operation drops the kernel, and m_pending stays true.
DoNoSlot ==
  /\ spc = "do" /\ cur.op.kind = "kernel" /\ ~CanStartKernel
  /\ DoLeave
  /\ UNCHANGED <<queueVars, simLock, gpuVars, simActive, simDone, exitSem, cur,
                 check, hostVars>>

\* The break after operation(), and the test before cycle().
AfterGoesM == IF check THEN "stop" ELSE IF Active THEN "cycle" ELSE "loop"  \* mutant
AfterGoes == IF Active THEN "cycle" ELSE IF check THEN "stop" ELSE "loop"

After ==
  /\ spc = "after"
  /\ spc' = AfterGoes
  /\ UNCHANGED <<queueVars, mLock, simLock, gpuVars, simActive, simDone,
                 exitSem, cur, check, hostVars>>

\* Within gpgpu_sim::cycle() any running kernels may finish (set_kernel_done) ...
KernelFinish(u) ==
  /\ spc = "cycle" /\ u \in running
  /\ running' = running \ {u}
  /\ finished' = Append(finished, u)
  /\ UNCHANGED <<queueVars, mLock, simLock, busy, simVars, hostVars>>

\* ... and the memory system holds traffic or drains.
CycleEnd(traffic) ==
  /\ spc = "cycle"
  /\ busy' = traffic
  /\ spc' = "loop"
  /\ UNCHANGED <<queueVars, mLock, simLock, running, finished, simActive,
                 simDone, exitSem, cur, check, hostVars>>

\* active = active() || !empty_protected(); empty_protected() only runs, and
\* only waits for m_lock, when the GPU is not active.
MoreWork == Active \/ ~AllEmpty

LoopTest ==
  /\ spc = "loop" /\ (Active \/ mLock = None)
  /\ spc' = IF MoreWork THEN "finish" ELSE "stop"
  /\ UNCHANGED <<queueVars, mLock, simLock, gpuVars, simActive, simDone,
                 exitSem, cur, check, hostVars>>

\* g_sim_active = false, then back to spinning or sem_post(exit).
Deactivate ==
  /\ spc = "stop" /\ simLock = None
  /\ simActive' = FALSE
  /\ spc' = IF simDone THEN "exited" ELSE "spin"
  /\ exitSem' = IF simDone THEN exitSem + 1 ELSE exitSem
  /\ UNCHANGED <<queueVars, mLock, simLock, gpuVars, simDone, cur, check, hostVars>>

SimStep ==
  \/ SpinEnd \/ Activate \/ FinishKernel \/ FrontZero \/ FrontConcurrent
  \/ DoNothing \/ DoCopy \/ DoLaunch \/ DoFunctional \/ DoNoSlot
  \/ After \/ LoopTest \/ Deactivate
  \/ \E u \in running : KernelFinish(u)
  \/ \E traffic \in BOOLEAN : CycleEnd(traffic)

Next == SimStep \/ \E h \in Hosts : Host(h)

Spec == Init /\ [][Next]_vars

\* The simulation thread is scheduled, no thread is starved of a mutex, kernels
\* terminate and memory traffic drains; a host inside a call keeps running.
\* Nothing makes the application call.
HostInCall(h) == PushBlock(h) \/ PushEnqueue(h) \/ PushDrain(h)
                 \/ StreamSyncReturn(h) \/ DestroyReturn(h) \/ ExitReturn(h)
SyncAgain(h) == hpc[h] = "sync" /\ SyncRound(h)
Fairness ==
  /\ WF_vars(SimStep)
  /\ SF_vars(Activate) /\ SF_vars(Deactivate) /\ SF_vars(CycleEnd(FALSE))
  /\ \A u \in Uids : SF_vars(KernelFinish(u))
  /\ \A h \in Hosts : /\ WF_vars(HostInCall(h)) /\ WF_vars(SyncScan(h))
                      /\ SF_vars(SyncAgain(h))

FairSpec == Spec /\ Fairness

-----------------------------------------------------------------------------
\* The state is built from the types the code declares.
TypeOK ==
  /\ created \subseteq StreamIds /\ streams \in Seq(StreamIds)
  /\ ops \in [Queues -> Seq(Operations)]
  /\ pending \in [Queues -> BOOLEAN]
  /\ serviceZero \in BOOLEAN
  /\ gridStream \in [Uids -> Queues \cup {NoStream}]
  /\ mLock \in Hosts \cup {None, Sim} /\ simLock \in Hosts \cup {None}
  /\ running \subseteq Uids /\ finished \in Seq(Uids) /\ busy \in BOOLEAN
  /\ simActive \in BOOLEAN /\ simDone \in BOOLEAN /\ exitSem \in Nat
  /\ spc \in SimPcs /\ check \in BOOLEAN
  /\ cur \in [stream : Queues \cup {NoStream}, op : Operations \cup {NoOp}]
  /\ hpc \in [Hosts -> HostPcs]
  /\ harg \in [Hosts -> [stream : StreamIds \cup {NoStream},
                        op : Operations \cup {NoOp}]]
  /\ hidx \in [Hosts -> Nat]
  /\ nextUid \in 1..(MaxOps + 1)

\* Stream zero never has an operation in progress together with another
\* stream (the CUDA null-stream rule front() implements).
StreamZeroExclusive == pending[Zero] => \A s \in StreamIds : ~pending[s]

\* The kernel the GPU runs or has finished is the started head of the stream
\* it is mapped to: the assertion of register_finished_kernel, and the
\* assertion m_pending of record_next_done, cannot fail.
GridMapSound ==
  \A u \in running \cup ToSet(finished) :
    /\ gridStream[u] \in Queues
    /\ pending[gridStream[u]]
    /\ ops[gridStream[u]] # <<>>
    /\ Head(ops[gridStream[u]]).uid = u
    /\ Head(ops[gridStream[u]]).kind = "kernel"

\* gpgpu_sim::init(), which resets every core, never runs under a kernel or
\* under memory traffic, whichever way the inner loop was left.
InitQuiescent == [][Activate => running = {} /\ ~busy]_vars

\* synchronize() returns only with the GPU idle and every finished kernel
\* retired.
SyncQuiescent ==
  [][\A h \in Hosts : hpc[h] = "scan" /\ hpc'[h] = "idle" =>
       running = {} /\ finished = <<>> /\ ~busy]_vars

OwnDone(h) == \A q \in Queues : \A i \in DOMAIN ops[q] : ops[q][i].host # h

\* When synchronize() or a blocking push returns, nothing its thread pushed
\* is left, although empty() reads the queues one by one without m_lock.
CallsWaitForOwnWork ==
  [][\A h \in Hosts : hpc[h] \in {"scan", "drain"} /\ hpc'[h] = "idle"
                        => OwnDone(h)]_vars

\* "block if stream 0 (or concurrency disabled) and pending concurrent
\* operations exist" (stream_manager.cc:360): an operation reaches stream
\* zero only when all that its thread pushed on other streams is done.  What
\* other threads push after the test and before the queue is not excluded.
NullStreamSerial ==
  [][\A h \in Hosts : PushEnqueue(h) /\ Len(ops'[Zero]) > Len(ops[Zero])
       => \A s \in Listed : \A i \in DOMAIN ops[s] : ops[s][i].host # h]_vars

\* exit_simulation() returns only after the GPU has become idle.
ExitQuiescent ==
  [][\A h \in Hosts : ExitReturn(h) => running = {} /\ ~busy /\ ~simActive]_vars

Queued(u) == \E q \in Queues : \E i \in DOMAIN ops[q] : ops[q][i].uid = u

\* What a program may do to itself: destroy a stream with work, so that m_lock is
\* kept for ever, or end the simulation while it is in use.
Deadlocked == \E h \in Hosts : hpc[h] = "destroy" /\ ops[harg[h].stream] # <<>>
Abandoned == simDone \/ Deadlocked

\* Every operation pushed is eventually performed and retired, unless the
\* program abandons the simulation.
EveryOpCompletes == \A u \in Uids : Queued(u) ~> ~Queued(u) \/ Abandoned

\* Unless the program abandons the simulation, every call that waits for another
\* thread returns: a blocking push, synchronize() of a stream and of all, and
\* destroy_stream.  At whatever point of its loop the simulation thread is, one
\* call of exit_simulation() returns; the semaphore is posted for one only.
CallsReturn ==
  /\ \A h \in Hosts : Calling(h) ~> ~Calling(h) \/ Abandoned
  /\ (\E h \in Hosts : hpc[h] = "exitwait") ~>
       (\E h \in Hosts : hpc[h] = "exited") \/ Deadlocked

\* The stream rules, of which the locks and threads are an implementation.
Order == INSTANCE StreamOrder WITH
           q <- [s \in Queues |-> ops[s]],
           exec <- {s \in Queues : pending[s]}
ImplementsOrder == Order!Spec

\* Types; and the state the threads share is never one in which stream zero
\* runs beside another or a kernel is unknown to the stream it came from.
StreamsSound == TypeOK /\ StreamZeroExclusive /\ GridMapSound

\* init(), synchronize() and exit_simulation() each find the GPU idle, although
\* none of them takes a lock both sides use.
GpuQuiescent == InitQuiescent /\ SyncQuiescent /\ ExitQuiescent
=============================================================================
