------------------------ MODULE StreamManagerProofs ------------------------
(* Proofs about StreamManager, for every set of hosts and streams, every    *)
(* number of slots and every bound on the operations.                       *)
EXTENDS StreamManager, SequenceTheorems, TLAPS

-----------------------------------------------------------------------------
(* The inductive invariant.                                                 *)

\* A stream in progress has work and is listed, so front() sees it.
PendingListed ==
  /\ \A q \in Queues : pending[q] => ops[q] # <<>>
  /\ \A s \in StreamIds : pending[s] => s \in Listed
  /\ Listed \subseteq created

\* While stream zero is being served nothing else is in progress.
ZeroLatch ==
  /\ serviceZero => \A s \in StreamIds : ~pending[s]
  /\ pending[Zero] => serviceZero

\* The operation front() returned is still the started head of its stream,
\* and a kernel about to be launched is not on the GPU already.
CurrentIsHead ==
  spc = "do" /\ cur.op.kind # "noop" =>
    /\ cur.stream \in Queues
    /\ pending[cur.stream]
    /\ ops[cur.stream] # <<>>
    /\ Head(ops[cur.stream]) = cur.op
    /\ cur.op.kind = "kernel" =>
         /\ gridStream[cur.op.uid] = cur.stream
         /\ cur.op.uid \notin running
         /\ \A i \in 1..Len(finished) : finished[i] # cur.op.uid

\* A kernel finishes once.
FinishedOnce ==
  /\ \A i, j \in 1..Len(finished) : finished[i] = finished[j] => i = j
  /\ \A i \in 1..Len(finished) : finished[i] \notin running

\* A push in progress holds an operation, with a uid of its own.
Pushing(h) == hpc[h] \in {"block", "enqueue"}

UidsUnique ==
  /\ \A q, r \in Queues : \A i \in 1..Len(ops[q]), j \in 1..Len(ops[r]) :
       ops[q][i].uid = ops[r][j].uid => q = r /\ i = j
  /\ \A q \in Queues : \A i \in 1..Len(ops[q]) : ops[q][i].uid < nextUid
  /\ \A h \in Hosts : Pushing(h) =>
       /\ harg[h].op \in Operations
       /\ harg[h].op.uid < nextUid
       /\ \A q \in Queues : \A i \in 1..Len(ops[q]) : ops[q][i].uid # harg[h].op.uid
  /\ \A g, h \in Hosts : Pushing(g) /\ Pushing(h) /\ g # h =>
       harg[g].op.uid # harg[h].op.uid

\* GridMapSound, kernel by kernel.
OnItsStream(u) ==
  /\ gridStream[u] \in Queues
  /\ pending[gridStream[u]]
  /\ ops[gridStream[u]] # <<>>
  /\ Head(ops[gridStream[u]]).uid = u
  /\ Head(ops[gridStream[u]]).kind = "kernel"

GridMap ==
  /\ \A u \in running : OnItsStream(u)
  /\ \A i \in 1..Len(finished) : OnItsStream(finished[i])

IInv == TypeOK /\ PendingListed /\ ZeroLatch /\ CurrentIsHead /\ FinishedOnce
        /\ UidsUnique /\ GridMap
-----------------------------------------------------------------------------
(* Sequences.                                                               *)

\* Appending keeps the elements and adds one at the end; it keeps the head.
LEMMA AppendFacts ==
  ASSUME NEW S, NEW s \in Seq(S), NEW x \in S
  PROVE  /\ Append(s, x) \in Seq(S) /\ Append(s, x) # <<>>
         /\ Len(Append(s, x)) = Len(s) + 1
         /\ \A i \in 1..Len(s) : Append(s, x)[i] = s[i]
         /\ Append(s, x)[Len(s) + 1] = x
         /\ s # <<>> => Head(Append(s, x)) = Head(s)
  BY AppendProperties, HeadTailAppend

\* Tail drops the first element.
LEMMA TailFacts ==
  ASSUME NEW S, NEW s \in Seq(S), s # <<>>
  PROVE  /\ Tail(s) \in Seq(S) /\ Len(Tail(s)) = Len(s) - 1
         /\ \A i \in 1..Len(Tail(s)) : i + 1 \in 1..Len(s) /\ Tail(s)[i] = s[i + 1]
         /\ Head(s) = s[1] /\ Head(s) \in S /\ 1 \in 1..Len(s)
  BY HeadTailProperties

\* Erasing an entry of a list.
LEMMA RemoveAtFacts ==
  ASSUME NEW S, NEW s \in Seq(S), NEW i \in DOMAIN s
  PROVE  /\ RemoveAt(s, i) \in Seq(S)
         /\ ToSet(RemoveAt(s, i)) \subseteq ToSet(s)
         /\ \A x \in ToSet(s) : x # s[i] => x \in ToSet(RemoveAt(s, i))
  <1> DEFINE a == SubSeq(s, 1, i - 1)
             b == SubSeq(s, i + 1, Len(s))
  <1>1. /\ i \in 1..Len(s) /\ Len(s) \in Nat /\ DOMAIN s = 1..Len(s)
        /\ \A k \in 1..Len(s) : s[k] \in S
    OBVIOUS
  <1>2. /\ a \in Seq(S) /\ Len(a) = i - 1
        /\ \A k \in 1..(i - 1) : a[k] = s[k]
    BY <1>1, SubSeqProperties
  <1>3. /\ b \in Seq(S) /\ Len(b) = Len(s) - i
        /\ \A k \in 1..(Len(s) - i) : b[k] = s[k + i]
    BY <1>1, SubSeqProperties
  <1>6. RemoveAt(s, i) = a \o b
    BY DEF RemoveAt
  <1> HIDE DEF a, b
  <1>4. /\ a \o b \in Seq(S) /\ Len(a \o b) = Len(s) - 1
        /\ \A k \in 1..(Len(s) - 1) :
             (a \o b)[k] = IF k < i THEN s[k] ELSE s[k + 1]
    <2>1. /\ a \o b \in Seq(S) /\ Len(a \o b) = Len(a) + Len(b)
          /\ \A k \in 1..(Len(a) + Len(b)) :
               (a \o b)[k] = IF k <= Len(a) THEN a[k] ELSE b[k - Len(a)]
      BY <1>2, <1>3, ConcatProperties
    <2>2. Len(a) + Len(b) = Len(s) - 1
      BY <1>1, <1>2, <1>3
    <2>3. ASSUME NEW k \in 1..(Len(s) - 1)
          PROVE  (a \o b)[k] = IF k < i THEN s[k] ELSE s[k + 1]
      <3>1. CASE k < i
        <4>1. k \in 1..(i - 1) /\ k <= Len(a)
          BY <1>1, <1>2, <3>1
        <4> QED BY <2>1, <2>2, <1>2, <3>1, <4>1
      <3>2. CASE ~(k < i)
        <4>1. /\ k - Len(a) \in 1..(Len(s) - i) /\ ~(k <= Len(a))
              /\ (k - Len(a)) + i = k + 1
          BY <1>1, <1>2, <2>3, <3>2
        <4> QED BY <2>1, <2>2, <1>3, <3>2, <4>1
      <3> QED BY <3>1, <3>2
    <2> QED BY <2>1, <2>2, <2>3
  <1> DEFINE c == a \o b
  <1>5. /\ Len(c) = Len(s) - 1 /\ DOMAIN c = 1..(Len(s) - 1)
        /\ \A k \in 1..(Len(s) - 1) : c[k] = IF k < i THEN s[k] ELSE s[k + 1]
    <2>1. \A u \in Seq(S) : DOMAIN u = 1..Len(u)
      OBVIOUS
    <2> QED BY <1>4, <2>1
  <1> HIDE DEF c
  <1>7. ASSUME NEW k \in DOMAIN c
        PROVE  \E m \in DOMAIN s : c[k] = s[m]
    <2>1. /\ k \in Int /\ k \in DOMAIN s /\ k + 1 \in DOMAIN s
      BY <1>1, <1>5
    <2> QED BY <1>5, <2>1
  <1>8. ASSUME NEW k \in DOMAIN s, s[k] # s[i]
        PROVE  \E m \in DOMAIN c : s[k] = c[m]
    <2>1. CASE k < i
      <3>1. k \in DOMAIN c /\ c[k] = s[k]
        BY <1>1, <1>5, <2>1
      <3> QED BY <3>1
    <2>2. CASE k > i
      <3>1. k - 1 \in DOMAIN c /\ c[k - 1] = s[k]
        BY <1>1, <1>5, <2>2
      <3> QED BY <3>1
    <2> QED BY <1>1, <1>8, <2>1, <2>2
  <1>9. RemoveAt(s, i) = c /\ c \in Seq(S)
    BY <1>4, <1>6 DEF c
  <1> QED BY <1>7, <1>8, <1>9 DEF ToSet

-----------------------------------------------------------------------------
(* Types.                                                                   *)

\* The variables' groups, to be expanded together.
LEMMA TypeInit == Init => TypeOK
  <1> SUFFICES ASSUME Init PROVE TypeOK
    OBVIOUS
  <1>1. \A S : <<>> \in Seq(S)
    OBVIOUS
  <1>2. /\ ops \in [Queues -> Seq(Operations)] /\ streams \in Seq(StreamIds)
        /\ finished \in Seq(Uids)
    BY <1>1 DEF Init
  <1>3. nextUid \in 1..(MaxOps + 1)
    BY StreamConstants DEF Init
  <1> QED BY <1>2, <1>3 DEF Init, TypeOK, SimPcs, HostPcs, NoArg

\* Popping the started head of a queue keeps the queues well typed.
LEMMA PopType ==
  ASSUME TypeOK, NEW q \in Queues, ops[q] # <<>>, RecordNextDone(q)
  PROVE  ops' \in [Queues -> Seq(Operations)] /\ pending' \in [Queues -> BOOLEAN]
  <1>1. Tail(ops[q]) \in Seq(Operations)
    BY TailFacts DEF TypeOK
  <1> QED BY <1>1 DEF TypeOK, RecordNextDone

\* Taking the head of a queue as the current operation.
LEMMA BeginType ==
  ASSUME TypeOK, NEW q \in Queues, ops[q] # <<>>, Begin(q)
  PROVE  /\ pending' \in [Queues -> BOOLEAN]
         /\ gridStream' \in [Uids -> Queues \cup {NoStream}]
         /\ cur' \in [stream : Queues \cup {NoStream}, op : Operations \cup {NoOp}]
  <1>1. Head(ops[q]) \in Operations
    BY TailFacts DEF TypeOK
  <1>2. Head(ops[q]).uid \in Uids
    BY <1>1 DEF Operations
  <1> QED BY <1>1, <1>2 DEF TypeOK, Begin

LEMMA TypeStep ==
  ASSUME IInv, [Next]_vars
  PROVE  TypeOK'
  <1> USE DEF queueVars, gpuVars, simVars, hostVars
  <1>t. TypeOK
    BY DEF IInv
  <1>0. CASE UNCHANGED vars
    BY <1>t, <1>0 DEF TypeOK, vars
  <1>1. ASSUME NEW h \in Hosts, NEW s \in StreamIds,
               AddStream(h, s)
        PROVE  TypeOK'
    <2>1. streams' \in Seq(StreamIds)
      BY <1>t, <1>1, AppendFacts DEF TypeOK, AddStream
    <2>2. /\ ops' \in [Queues -> Seq(Operations)] /\ pending' \in [Queues -> BOOLEAN]
          /\ created' \subseteq StreamIds
      BY <1>t, <1>1 DEF TypeOK, AddStream, Queues
    <2> QED BY <1>t, <1>1, <2>1, <2>2 DEF TypeOK, AddStream
  <1>2. ASSUME NEW h \in Hosts, NEW s \in StreamIds,
               StreamSyncCall(h, s)
        PROVE  TypeOK'
    BY <1>t, <1>2 DEF TypeOK, StreamSyncCall, HostGoto, HostPcs
  <1>3. ASSUME NEW h \in Hosts, NEW s \in StreamIds,
               DestroyCall(h, s)
        PROVE  TypeOK'
    BY <1>t, <1>3 DEF TypeOK, DestroyCall, HostGoto, HostPcs
  <1>4. ASSUME NEW h \in Hosts, NEW s \in StreamIds \cup {NoStream}, NEW k \in {"copy", "kernel"},
               PushCall(h, s, k)
        PROVE  TypeOK'
    <2> DEFINE op == [uid |-> nextUid, kind |-> k, host |-> h]
    <2>1. nextUid \in Uids /\ nextUid + 1 \in 1..(MaxOps + 1)
      BY <1>t, <1>4, StreamConstants DEF TypeOK, PushCall, Uids
    <2>2. op \in Operations
      BY <2>1 DEF Operations
    <2> HIDE DEF op
    <2>4. harg' = [harg EXCEPT ![h] = [stream |-> s, op |-> op]]
      BY <1>4 DEF PushCall, op
    <2>5. harg' \in [Hosts -> [stream : StreamIds \cup {NoStream},
                             op : Operations \cup {NoOp}]]
      BY <1>t, <2>2, <2>4 DEF TypeOK
    <2>6. hpc' \in [Hosts -> HostPcs]
      BY <1>t, <1>4 DEF TypeOK, PushCall, HostGoto, HostPcs
    <2> QED BY <1>t, <1>4, <2>1, <2>5, <2>6 DEF TypeOK, PushCall
  <1>5. ASSUME NEW h \in Hosts,
               PushBlock(h)
        PROVE  TypeOK'
    BY <1>t, <1>5 DEF TypeOK, PushBlock, HostGoto, HostPcs
  <1>6. ASSUME NEW h \in Hosts,
               PushEnqueue(h)
        PROVE  TypeOK'
    <2> DEFINE q == IF harg[h].stream = NoStream \/ LaunchBlocking
                    THEN Zero ELSE harg[h].stream
    <2>1. harg[h].op \in Operations
      BY <1>6 DEF IInv, UidsUnique, Pushing, PushEnqueue
    <2>2. q \in Queues
      BY <1>t DEF TypeOK, Queues
    <2>3. ops' = [ops EXCEPT ![q] = Append(ops[q], harg[h].op)]
      BY <1>6 DEF PushEnqueue
    <2> HIDE DEF q
    <2>4. ops' \in [Queues -> Seq(Operations)]
      BY <1>t, <2>1, <2>2, <2>3, AppendFacts DEF TypeOK
    <2>5. hpc' \in [Hosts -> HostPcs] /\ hidx' \in [Hosts -> Nat]
      BY <1>t, <1>6 DEF TypeOK, PushEnqueue, HostGoto, HostPcs
    <2> QED BY <1>t, <1>6, <2>4, <2>5 DEF TypeOK, PushEnqueue
  <1>7. ASSUME NEW h \in Hosts,
               PushDrain(h)
        PROVE  TypeOK'
    <2>1. hpc' \in [Hosts -> HostPcs] /\ hidx' \in [Hosts -> Nat]
      BY <1>t, <1>7 DEF TypeOK, PushDrain, Scanned, HostGoto, HostPcs
    <2> QED BY <1>t, <1>7, <2>1 DEF TypeOK, PushDrain
  <1>8. ASSUME NEW h \in Hosts,
               StreamSyncReturn(h)
        PROVE  TypeOK'
    BY <1>t, <1>8 DEF TypeOK, StreamSyncReturn, HostGoto, HostPcs
  <1>9. ASSUME NEW h \in Hosts,
               DestroyReturn(h)
        PROVE  TypeOK'
    <2>1. streams' \in Seq(StreamIds)
      BY <1>t, <1>9, RemoveAtFacts DEF TypeOK, DestroyReturn
    <2> QED BY <1>t, <1>9, <2>1 DEF TypeOK, DestroyReturn, HostGoto, HostPcs
  <1>10. ASSUME NEW h \in Hosts,
               SyncRound(h)
        PROVE  TypeOK'
    BY <1>t, <1>10 DEF TypeOK, SyncRound, HostGoto, HostPcs
  <1>11. ASSUME NEW h \in Hosts,
               SyncScan(h)
        PROVE  TypeOK'
    <2>1. hidx' \in [Hosts -> Nat]
      BY <1>t, <1>11 DEF TypeOK, SyncScan, Scanned
    <2>2. hpc' \in [Hosts -> HostPcs] /\ simLock' \in Hosts \cup {None}
      <3>1. CASE ScanFails(h) \/ ScanEnds(h)
        BY <1>t, <1>11, <3>1 DEF TypeOK, SyncScan, HostGoto, HostPcs
      <3>2. CASE ~(ScanFails(h) \/ ScanEnds(h))
        BY <1>t, <1>11, <3>2 DEF TypeOK, SyncScan
      <3> QED BY <3>1, <3>2
    <2> QED BY <1>t, <1>11, <2>1, <2>2 DEF TypeOK, SyncScan
  <1>12. ASSUME NEW h \in Hosts,
               ExitCall(h)
        PROVE  TypeOK'
    BY <1>t, <1>12 DEF TypeOK, ExitCall, HostGoto, HostPcs
  <1>13. ASSUME NEW h \in Hosts,
               ExitReturn(h)
        PROVE  TypeOK'
    BY <1>t, <1>13 DEF TypeOK, ExitReturn, HostGoto, HostPcs
  <1>14. CASE SpinEnd
    BY <1>t, <1>14 DEF TypeOK, SpinEnd, SimPcs
  <1>15. CASE Activate
    BY <1>t, <1>15 DEF TypeOK, Activate, SimPcs
  <1>16. CASE FinishKernel
    <2>1. CASE finished = <<>>
      BY <1>t, <1>16, <2>1 DEF TypeOK, FinishKernel, SimPcs
    <2>2. CASE finished # <<>>
      <3> DEFINE u == Head(finished)
      <3>1. u \in Uids /\ Tail(finished) \in Seq(Uids) /\ u = finished[1]
            /\ 1 \in 1..Len(finished)
        BY <1>t, <2>2, TailFacts DEF TypeOK
      <3>2. gridStream[u] \in Queues /\ ops[gridStream[u]] # <<>>
        BY <3>1 DEF IInv, GridMap, OnItsStream
      <3>3. RecordNextDone(gridStream[u]) /\ finished' = Tail(finished)
            /\ gridStream' = [gridStream EXCEPT ![u] = NoStream]
        BY <1>16, <2>2 DEF FinishKernel
      <3>4. ops' \in [Queues -> Seq(Operations)] /\ pending' \in [Queues -> BOOLEAN]
        BY <1>t, <3>2, <3>3, PopType
      <3>5. gridStream' \in [Uids -> Queues \cup {NoStream}] /\ finished' \in Seq(Uids)
        BY <1>t, <3>1, <3>3 DEF TypeOK
      <3> QED BY <1>t, <1>16, <2>2, <3>4, <3>5 DEF TypeOK, FinishKernel, SimPcs
    <2> QED BY <2>1, <2>2
  <1>17. CASE FrontZero
    <2> DEFINE Typed == /\ pending' \in [Queues -> BOOLEAN]
                        /\ gridStream' \in [Uids -> Queues \cup {NoStream}]
                        /\ cur' \in [stream : Queues \cup {NoStream},
                                    op : Operations \cup {NoOp}]
    <2>1. ASSUME NoBegin PROVE Typed
      BY <1>t, <2>1 DEF TypeOK, NoBegin
    <2>2. ASSUME Ready(Zero), Begin(Zero) PROVE Typed
      BY <1>t, <2>2, BeginType DEF Ready, Queues
    <2>3. Typed
      BY <1>17, <2>1, <2>2 DEF FrontZero
    <2> QED BY <1>t, <1>17, <2>3 DEF TypeOK, FrontZero, KeepServing, SimPcs
  <1>18. CASE FrontConcurrent
    <2> DEFINE Typed == /\ pending' \in [Queues -> BOOLEAN]
                        /\ gridStream' \in [Uids -> Queues \cup {NoStream}]
                        /\ cur' \in [stream : Queues \cup {NoStream},
                                    op : Operations \cup {NoOp}]
    <2>1. ASSUME NoBegin PROVE Typed
      BY <1>t, <2>1 DEF TypeOK, NoBegin
    <2>2. ASSUME NEW i \in DOMAIN streams, FirstReady(i), Begin(streams[i]) PROVE Typed
      <3>1. streams[i] \in Queues
        BY <1>t DEF TypeOK, Queues
      <3> QED BY <1>t, <2>2, <3>1, BeginType DEF FirstReady, Ready
    <2>3. Typed
      BY <1>18, <2>1, <2>2 DEF FrontConcurrent
    <2> QED BY <1>t, <1>18, <2>3 DEF TypeOK, FrontConcurrent, SimPcs
  <1>19. CASE DoNothing
    BY <1>t, <1>19 DEF TypeOK, DoNothing, DoLeave, SimPcs
  <1>20. CASE DoCopy
    <2>1. cur.stream \in Queues /\ ops[cur.stream] # <<>>
      BY <1>20 DEF IInv, CurrentIsHead, DoCopy
    <2>2. ops' \in [Queues -> Seq(Operations)] /\ pending' \in [Queues -> BOOLEAN]
      BY <1>t, <1>20, <2>1, PopType DEF DoCopy
    <2> QED BY <1>t, <1>20, <2>2 DEF TypeOK, DoCopy, DoLeave, SimPcs
  <1>21. CASE DoLaunch
    <2>1. cur.op.uid \in Uids
      BY <1>t, <1>21 DEF TypeOK, DoLaunch, Operations, NoOp
    <2> QED BY <1>t, <1>21, <2>1 DEF TypeOK, DoLaunch, DoLeave, SimPcs
  <1>22. CASE DoFunctional
    <2>1. cur.op.uid \in Uids
      BY <1>t, <1>22 DEF TypeOK, DoFunctional, Operations, NoOp
    <2>2. gridStream[cur.op.uid] \in Queues /\ ops[gridStream[cur.op.uid]] # <<>>
      BY <1>22 DEF IInv, CurrentIsHead, DoFunctional
    <2>3. ops' \in [Queues -> Seq(Operations)] /\ pending' \in [Queues -> BOOLEAN]
      BY <1>t, <1>22, <2>2, PopType DEF DoFunctional
    <2>4. gridStream' \in [Uids -> Queues \cup {NoStream}]
      BY <1>t, <1>22, <2>1 DEF TypeOK, DoFunctional
    <2> QED BY <1>t, <1>22, <2>3, <2>4 DEF TypeOK, DoFunctional, DoLeave, SimPcs
  <1>23. CASE DoNoSlot
    BY <1>t, <1>23 DEF TypeOK, DoNoSlot, DoLeave, SimPcs
  <1>24. CASE After
    BY <1>t, <1>24 DEF TypeOK, After, AfterGoes, SimPcs
  <1>25. CASE LoopTest
    BY <1>t, <1>25 DEF TypeOK, LoopTest, SimPcs
  <1>26. CASE Deactivate
    <2>1. exitSem' \in Nat /\ spc' \in SimPcs
      BY <1>t, <1>26 DEF TypeOK, Deactivate, SimPcs
    <2> QED BY <1>t, <1>26, <2>1 DEF TypeOK, Deactivate
  <1>27. ASSUME NEW u \in running, KernelFinish(u)
        PROVE  TypeOK'
    BY <1>t, <1>27, AppendFacts DEF TypeOK, KernelFinish
  <1>28. ASSUME NEW traffic \in BOOLEAN, CycleEnd(traffic)
        PROVE  TypeOK'
    BY <1>t, <1>28 DEF TypeOK, CycleEnd, SimPcs
  <1> QED
    BY <1>0, <1>1, <1>2, <1>3, <1>4, <1>5, <1>6, <1>7, <1>8, <1>9, <1>10, <1>11, <1>12, <1>13, <1>14, <1>15, <1>16, <1>17, <1>18, <1>19, <1>20, <1>21, <1>22, <1>23, <1>24, <1>25, <1>26, <1>27, <1>28 DEF Next, Host, SimStep

-----------------------------------------------------------------------------
(* Most steps leave the queues and the kernels alone.                       *)

Quiet == /\ UNCHANGED <<queueVars, running, finished>>
         /\ spc' = "do" => spc = "do" /\ cur' = cur

LEMMA Effects ==
  ASSUME [Next]_vars
  PROVE  \/ Quiet
         \/ \E h \in Hosts : \/ \E s \in StreamIds : AddStream(h, s)
                           \/ PushEnqueue(h) \/ DestroyReturn(h)
         \/ FinishKernel \/ FrontZero \/ FrontConcurrent
         \/ DoCopy \/ DoLaunch \/ DoFunctional
         \/ \E u \in running : KernelFinish(u)
  <1> USE DEF queueVars, gpuVars, simVars, hostVars
  <1>1. UNCHANGED vars => Quiet
    BY DEF vars, Quiet
  <1>2. ASSUME NEW h \in Hosts, NEW s PROVE
          StreamSyncCall(h, s) \/ DestroyCall(h, s) => Quiet
    BY DEF StreamSyncCall, DestroyCall, Quiet
  <1>3. ASSUME NEW h \in Hosts, NEW s, NEW k PROVE PushCall(h, s, k) => Quiet
    BY DEF PushCall, Quiet
  <1>4. ASSUME NEW h \in Hosts,
               \/ PushBlock(h) \/ PushDrain(h) \/ StreamSyncReturn(h) \/ SyncRound(h)
               \/ SyncScan(h) \/ ExitCall(h) \/ ExitReturn(h)
        PROVE  Quiet
    BY <1>4 DEF PushBlock, PushDrain, StreamSyncReturn, SyncRound, SyncScan, ExitCall,
           ExitReturn, Quiet
  <1>5. SpinEnd \/ Activate \/ DoNothing \/ DoNoSlot \/ LoopTest \/ Deactivate => Quiet
    BY DEF SpinEnd, Activate, DoNothing, DoNoSlot, DoLeave, LoopTest, Deactivate, Quiet
  <1>6. After => Quiet
    BY DEF After, AfterGoes, Quiet
  <1>7. ASSUME NEW traffic \in BOOLEAN PROVE CycleEnd(traffic) => Quiet
    BY DEF CycleEnd, Quiet
  <1> DEFINE Step ==
         \/ \E h \in Hosts : \/ \E s \in StreamIds : AddStream(h, s)
                           \/ PushEnqueue(h) \/ DestroyReturn(h)
         \/ FinishKernel \/ FrontZero \/ FrontConcurrent
         \/ DoCopy \/ DoLaunch \/ DoFunctional
         \/ \E u \in running : KernelFinish(u)
  <1>8. ASSUME NEW h \in Hosts, Host(h) PROVE Quiet \/ Step
    <2>1. ASSUME NEW s \in StreamIds,
                 AddStream(h, s) \/ StreamSyncCall(h, s) \/ DestroyCall(h, s)
          PROVE  Quiet \/ Step
      BY <1>2, <2>1
    <2>2. ASSUME NEW s \in StreamIds \cup {NoStream}, NEW k \in {"copy", "kernel"},
                 PushCall(h, s, k)
          PROVE  Quiet
      BY <1>3, <2>2
    <2>3. CASE PushEnqueue(h) \/ DestroyReturn(h)
      BY <2>3
    <2> HIDE DEF Step
    <2> QED BY <1>4, <1>8, <2>1, <2>2, <2>3 DEF Host
  <1>9. ASSUME SimStep PROVE Quiet \/ Step
    BY <1>5, <1>6, <1>7, <1>9 DEF SimStep
  <1> HIDE DEF Step, Quiet
  <1>10. Quiet \/ Step
    BY <1>1, <1>8, <1>9 DEF Next
  <1> QED BY <1>10 DEF Step

-----------------------------------------------------------------------------
(* Streams in progress: listed, not empty, and zero alone.                  *)

\* The queue an operation is retired from is in progress.
LEMMA RetiredQueue ==
  ASSUME IInv
  PROVE  /\ finished # <<>> => /\ gridStream[Head(finished)] \in Queues
                              /\ OnItsStream(Head(finished))
                              /\ Head(finished) \in Uids
         /\ spc = "do" /\ cur.op.kind # "noop" => cur.stream \in Queues
         /\ spc = "do" /\ cur.op.kind = "kernel" => gridStream[cur.op.uid] = cur.stream
  <1>1. ASSUME finished # <<>> PROVE Head(finished) = finished[1] /\ 1 \in 1..Len(finished)
                                     /\ Head(finished) \in Uids
    BY <1>1, TailFacts DEF IInv, TypeOK
  <1> QED BY <1>1 DEF IInv, GridMap, OnItsStream, CurrentIsHead

LEMMA PendStep ==
  ASSUME IInv, [Next]_vars
  PROVE  PendingListed' /\ ZeroLatch'
  <1> USE DEF queueVars, gpuVars, simVars, hostVars
  <1>i. TypeOK /\ PendingListed /\ ZeroLatch
    BY DEF IInv
  <1>c. Zero \in Queues /\ StreamIds \subseteq Queues /\ Zero \notin StreamIds
    BY StreamConstants DEF Queues
  <1>1. CASE Quiet
    BY <1>i, <1>1 DEF Quiet, PendingListed, ZeroLatch, Listed
  <1>2. ASSUME NEW h \in Hosts, NEW s \in StreamIds, AddStream(h, s)
        PROVE  PendingListed' /\ ZeroLatch'
    <2>1. \A x \in StreamIds : x \in Listed' <=> x \in Listed \/ x = s
      <3>1. /\ Len(streams') = Len(streams) + 1 /\ streams'[Len(streams) + 1] = s
            /\ \A i \in 1..Len(streams) : streams'[i] = streams[i]
            /\ DOMAIN streams' = 1..(Len(streams) + 1)
            /\ DOMAIN streams = 1..Len(streams) /\ Len(streams) \in Nat
        <4>1. streams \in Seq(StreamIds) /\ streams' = Append(streams, s)
              /\ streams' \in Seq(StreamIds)
          BY <1>i, <1>2, AppendFacts DEF TypeOK, AddStream
        <4>2. \A u \in Seq(StreamIds) : DOMAIN u = 1..Len(u) /\ Len(u) \in Nat
          OBVIOUS
        <4> QED BY <4>1, <4>2, AppendFacts
      <3> QED BY <3>1 DEF Listed, ToSet
    <2>2. Listed' \subseteq StreamIds
      BY TypeStep DEF Listed, ToSet, TypeOK
    <2> QED BY <1>i, <1>c, <1>2, <2>1, <2>2
         DEF PendingListed, ZeroLatch, AddStream, TypeOK
  <1>3. ASSUME NEW h \in Hosts, PushEnqueue(h)
        PROVE  PendingListed' /\ ZeroLatch'
    <2>1. PICK q : ops' = [ops EXCEPT ![q] = Append(ops[q], harg[h].op)]
      BY <1>3 DEF PushEnqueue
    <2>2. harg[h].op \in Operations
      BY <1>3 DEF IInv, UidsUnique, Pushing, PushEnqueue
    <2>3. \A x \in Queues : ops[x] # <<>> => ops'[x] # <<>>
      <3>1. \A x \in Queues : Append(ops[x], harg[h].op) # <<>>
        <4>1. \A x \in Queues : ops[x] \in Seq(Operations)
          BY <1>i DEF TypeOK
        <4> QED BY <2>2, <4>1, AppendFacts
      <3> QED BY <1>i, <2>1, <3>1 DEF TypeOK
    <2> QED BY <1>i, <1>3, <2>3 DEF PendingListed, ZeroLatch, PushEnqueue, Listed
  <1>4. ASSUME NEW h \in Hosts, DestroyReturn(h)
        PROVE  PendingListed' /\ ZeroLatch'
    <2>1. PICK i \in DOMAIN streams : /\ streams[i] = harg[h].stream
                                     /\ streams' = RemoveAt(streams, i)
      BY <1>4 DEF DestroyReturn
    <2>2. /\ Listed' \subseteq Listed
          /\ \A x \in Listed : x # harg[h].stream => x \in Listed'
      BY <1>i, <2>1, RemoveAtFacts DEF Listed, TypeOK
    <2>3. ops[harg[h].stream] = <<>> /\ UNCHANGED <<ops, pending, serviceZero, created>>
      BY <1>4 DEF DestroyReturn
    <2> QED BY <1>i, <1>c, <2>2, <2>3 DEF PendingListed, ZeroLatch
  <1>r. ASSUME NEW q \in Queues, RecordNextDone(q), UNCHANGED <<created, streams, serviceZero>>
        PROVE  PendingListed' /\ ZeroLatch'
    BY <1>i, <1>c, <1>r DEF PendingListed, ZeroLatch, RecordNextDone, TypeOK, Listed
  <1>5. CASE FinishKernel
    BY <1>i, <1>5, <1>r, RetiredQueue
       DEF FinishKernel, PendingListed, ZeroLatch, Listed
  <1>6. CASE DoCopy
    BY <1>6, <1>r, RetiredQueue DEF DoCopy
  <1>7. CASE DoFunctional
    BY <1>7, <1>r, RetiredQueue DEF DoFunctional
  <1>8. CASE DoLaunch
    BY <1>i, <1>8 DEF DoLaunch, PendingListed, ZeroLatch, Listed
  <1>9. CASE FrontZero
    <2>1. \A s \in StreamIds : ~pending[s]
      BY <1>i, <1>c, <1>9
         DEF FrontZero, ZeroTurn, ConcurrentStreamsEmpty, PendingListed, ZeroLatch
    <2>2. ops[Zero] = <<>> => ~pending[Zero] /\ ~Ready(Zero)
      BY <1>i, <1>c DEF PendingListed, Ready
    <2>3. \/ Ready(Zero) /\ pending' = [pending EXCEPT ![Zero] = TRUE]
          \/ pending' = pending
      BY <1>9 DEF FrontZero, Begin, NoBegin
    <2> QED BY <1>i, <1>c, <1>9, <2>1, <2>2, <2>3
         DEF FrontZero, KeepServing, PendingListed, ZeroLatch, Listed, TypeOK, Ready
  <1>10. CASE FrontConcurrent
    <2>1. ~serviceZero /\ UNCHANGED <<created, streams, ops, serviceZero>>
      BY <1>10 DEF FrontConcurrent, ZeroTurn
    <2>2. \/ \E i \in DOMAIN streams : Ready(streams[i])
                               /\ pending' = [pending EXCEPT ![streams[i]] = TRUE]
          \/ pending' = pending
      BY <1>10 DEF FrontConcurrent, Begin, NoBegin, FirstReady
    <2>3. \A i \in DOMAIN streams : streams[i] \in Listed /\ streams[i] \in StreamIds
      BY <1>i DEF Listed, ToSet, TypeOK
    <2>4. \A q \in Queues : pending'[q] =>
             \/ pending[q]
             \/ ops[q] # <<>> /\ q \in Listed /\ q \in StreamIds
      <3>1. CASE pending' = pending
        BY <3>1
      <3>2. ASSUME NEW i \in DOMAIN streams, Ready(streams[i]),
                   pending' = [pending EXCEPT ![streams[i]] = TRUE], NEW q \in Queues, pending'[q]
            PROVE  pending[q] \/ (ops[q] # <<>> /\ q \in Listed /\ q \in StreamIds)
        <4>1. CASE q = streams[i]
          BY <2>3, <3>2, <4>1 DEF Ready
        <4>2. CASE q # streams[i]
          <5>1. pending \in [Queues -> BOOLEAN]
            BY <1>i DEF TypeOK
          <5>2. pending'[q] = pending[q]
            BY <3>2, <4>2, <5>1
          <5> QED BY <3>2, <5>2
        <4> QED BY <4>1, <4>2
      <3> QED BY <2>2, <3>1, <3>2
    <2>5. Listed' = Listed
      BY <2>1 DEF Listed
    <2>6. PendingListed'
      BY <1>i, <1>c, <2>1, <2>4, <2>5 DEF PendingListed
    <2>7. ~serviceZero' /\ ~pending'[Zero]
      BY <1>i, <1>c, <2>1, <2>4, <2>5 DEF PendingListed, ZeroLatch, Listed
    <2> QED BY <2>6, <2>7 DEF ZeroLatch
  <1>11. ASSUME NEW u \in running, KernelFinish(u)
        PROVE  PendingListed' /\ ZeroLatch'
    BY <1>i, <1>11 DEF KernelFinish, PendingListed, ZeroLatch, Listed
  <1> QED BY <1>1, <1>2, <1>3, <1>4, <1>5, <1>6, <1>7, <1>8, <1>9, <1>10, <1>11, Effects

-----------------------------------------------------------------------------
(* Kernels on the GPU and the streams they come from.                       *)

Kernels == CurrentIsHead /\ FinishedOnce /\ GridMap

\* Heads of different queues have different uids.
LEMMA HeadsDiffer ==
  ASSUME IInv, NEW q \in Queues, NEW r \in Queues, q # r,
         ops[q] # <<>>, ops[r] # <<>>
  PROVE  Head(ops[q]).uid # Head(ops[r]).uid
  <1>1. /\ Head(ops[q]) = ops[q][1] /\ 1 \in 1..Len(ops[q])
        /\ Head(ops[r]) = ops[r][1] /\ 1 \in 1..Len(ops[r])
    <2>1. ops[q] \in Seq(Operations) /\ ops[r] \in Seq(Operations)
      BY DEF IInv, TypeOK
    <2> QED BY <2>1, TailFacts
  <1> QED BY <1>1 DEF IInv, UidsUnique

\* Starting the head of an idle queue moves no kernel off its stream.
LEMMA BeginKeepsKernels ==
  ASSUME IInv, NEW q \in Queues, Ready(q), Begin(q), spc' = "do",
         UNCHANGED <<ops, running, finished>>
  PROVE  Kernels'
  <1> DEFINE u == Head(ops[q]).uid
  <1>1. Head(ops[q]) \in Operations /\ u \in Uids
    <2>1. ops[q] \in Seq(Operations) /\ ops[q] # <<>>
      BY DEF IInv, TypeOK, Ready
    <2>2. Head(ops[q]) \in Operations
      BY <2>1, TailFacts
    <2> QED BY <2>2 DEF Operations
  <1>2. ASSUME NEW v, OnItsStream(v), v \in Uids PROVE v # u /\ OnItsStream(v)'
    <2>1. gridStream[v] # q
      BY <1>2 DEF OnItsStream, Ready
    <2>2. v # u
      BY <1>2, <2>1, HeadsDiffer DEF OnItsStream, Ready
    <2>3. gridStream'[v] = gridStream[v]
      BY <1>1, <1>2, <2>2 DEF Begin, IInv, TypeOK
    <2>4. pending'[gridStream[v]] /\ ops' = ops
      BY <1>2 DEF Begin, IInv, TypeOK, OnItsStream
    <2> QED BY <1>2, <2>2, <2>3, <2>4 DEF OnItsStream
  <1>3. (\A v \in running : v \in Uids) /\ \A i \in 1..Len(finished) : finished[i] \in Uids
    BY DEF IInv, TypeOK
  <1>4. FinishedOnce' /\ GridMap'
    BY <1>2, <1>3 DEF IInv, FinishedOnce, GridMap
  <1>5. u \notin running /\ \A i \in 1..Len(finished) : finished[i] # u
    BY <1>2, <1>3 DEF IInv, GridMap
  <1>6. /\ cur'.stream = q /\ cur'.op = Head(ops[q]) /\ pending'[q] /\ ops'[q] # <<>>
        /\ cur'.op.kind = "kernel" => gridStream'[u] = q
    BY <1>1 DEF Begin, IInv, TypeOK, Ready
  <1>7. CurrentIsHead'
    BY <1>5, <1>6 DEF CurrentIsHead
  <1> QED BY <1>4, <1>7 DEF Kernels

\* Not starting anything moves no kernel either.
LEMMA NoBeginKeepsKernels ==
  ASSUME IInv, NoBegin, UNCHANGED <<ops, running, finished>>
  PROVE  Kernels'
  BY DEF IInv, NoBegin, NoOp, Kernels, CurrentIsHead, FinishedOnce, GridMap, OnItsStream

\* Retiring the head of queue q disturbs no kernel of another queue.
LEMMA RetireKeepsOthers ==
  ASSUME TypeOK, NEW q \in Queues, RecordNextDone(q), NEW v, OnItsStream(v),
         gridStream[v] # q, gridStream'[v] = gridStream[v]
  PROVE  OnItsStream(v)'
  BY DEF TypeOK, RecordNextDone, OnItsStream

LEMMA KernelStep ==
  ASSUME IInv, [Next]_vars
  PROVE  Kernels'
  <1> USE DEF queueVars, gpuVars, simVars, hostVars
  <1>i. TypeOK /\ PendingListed /\ CurrentIsHead /\ FinishedOnce /\ GridMap
    BY DEF IInv
  <1>f. /\ \A v \in running : v \in Uids /\ OnItsStream(v)
        /\ \A i \in 1..Len(finished) : finished[i] \in Uids /\ OnItsStream(finished[i])
    BY <1>i DEF TypeOK, GridMap
  <1>1. CASE Quiet
    BY <1>i, <1>1 DEF Quiet, Kernels, CurrentIsHead, FinishedOnce, GridMap, OnItsStream
  <1>2. ASSUME NEW h \in Hosts, NEW s \in StreamIds, AddStream(h, s)
        PROVE  Kernels'
    <2>1. ~pending[s] /\ s \in Queues
      BY <1>i, <1>2 DEF AddStream, PendingListed, Queues
    <2>2. \A q \in Queues : pending[q] => pending'[q] /\ ops'[q] = ops[q]
      BY <1>i, <1>2, <2>1 DEF AddStream, TypeOK
    <2>3. UNCHANGED <<running, finished, gridStream, spc, cur>>
      BY <1>2 DEF AddStream
    <2> QED BY <1>i, <2>2, <2>3
         DEF Kernels, CurrentIsHead, FinishedOnce, GridMap, OnItsStream
  <1>3. ASSUME NEW h \in Hosts, PushEnqueue(h)
        PROVE  Kernels'
    <2>1. PICK q : ops' = [ops EXCEPT ![q] = Append(ops[q], harg[h].op)]
      BY <1>3 DEF PushEnqueue
    <2>2. harg[h].op \in Operations
      BY <1>3 DEF IInv, UidsUnique, Pushing, PushEnqueue
    <2>3. \A x \in Queues : ops[x] # <<>> => ops'[x] # <<>> /\ Head(ops'[x]) = Head(ops[x])
      <3>1. \A x \in Queues : ops[x] \in Seq(Operations)
        BY <1>i DEF TypeOK
      <3>2. \A x \in Queues : /\ Append(ops[x], harg[h].op) # <<>>
                             /\ ops[x] # <<>> =>
                                  Head(Append(ops[x], harg[h].op)) = Head(ops[x])
        BY <2>2, <3>1, AppendFacts
      <3>3. \A x \in Queues : \/ ops'[x] = ops[x]
                             \/ ops'[x] = Append(ops[x], harg[h].op)
        BY <1>i, <2>1 DEF TypeOK
      <3> QED BY <3>2, <3>3
    <2>4. UNCHANGED <<pending, running, finished, gridStream, spc, cur>>
      BY <1>3 DEF PushEnqueue
    <2> QED BY <1>i, <2>3, <2>4
         DEF Kernels, CurrentIsHead, FinishedOnce, GridMap, OnItsStream
  <1>4. ASSUME NEW h \in Hosts, DestroyReturn(h)
        PROVE  Kernels'
    BY <1>i, <1>4
       DEF DestroyReturn, Kernels, CurrentIsHead, FinishedOnce, GridMap, OnItsStream
  <1>5. CASE FinishKernel
    <2>1. spc' = "front" /\ running' = running
      BY <1>5 DEF FinishKernel
    <2>2. CASE finished = <<>>
      BY <1>i, <1>5, <2>1, <2>2
         DEF FinishKernel, Kernels, CurrentIsHead, FinishedOnce, GridMap, OnItsStream
    <2>3. CASE finished # <<>>
      <3> DEFINE u == Head(finished)
                 q == gridStream[u]
      <3>1. /\ finished' = Tail(finished) /\ RecordNextDone(q)
            /\ gridStream' = [gridStream EXCEPT ![u] = NoStream]
        BY <1>5, <2>3 DEF FinishKernel
      <3>2. /\ u = finished[1] /\ 1 \in 1..Len(finished) /\ u \in Uids
            /\ Len(finished') = Len(finished) - 1 /\ Len(finished) \in Nat
            /\ \A i \in 1..Len(finished') : /\ i + 1 \in 1..Len(finished)
                                           /\ finished'[i] = finished[i + 1]
        <4>1. finished \in Seq(Uids)
          BY <1>i DEF TypeOK
        <4> QED BY <2>3, <3>1, <4>1, TailFacts
      <3>3. q \in Queues /\ OnItsStream(u)
        BY <2>3, RetiredQueue
      <3> HIDE DEF u, q
      <3>4. ASSUME NEW v \in Uids, v # u, OnItsStream(v) PROVE OnItsStream(v)'
        <4>1. gridStream[v] # q
          BY <3>3, <3>4 DEF OnItsStream, q
        <4>2. gridStream'[v] = gridStream[v]
          BY <1>i, <3>1, <3>4 DEF TypeOK
        <4> QED BY <1>i, <3>1, <3>3, <3>4, <4>1, <4>2, RetireKeepsOthers
      <3>5. \A i \in 1..Len(finished') : finished'[i] # u
        BY <1>i, <3>2 DEF FinishedOnce
      <3>6. u \notin running
        BY <1>i, <3>2 DEF FinishedOnce
      <3>7. GridMap'
        BY <1>f, <2>1, <3>2, <3>4, <3>5, <3>6 DEF GridMap
      <3>8. FinishedOnce'
        <4>1. ASSUME NEW i \in 1..Len(finished'), NEW j \in 1..Len(finished'), finished'[i] = finished'[j]
              PROVE  i = j
          <5>1. i + 1 = j + 1
            BY <1>i, <3>2, <4>1 DEF FinishedOnce
          <5> QED BY <5>1
        <4>2. \A i \in 1..Len(finished') : finished'[i] \notin running'
          BY <1>i, <2>1, <3>2 DEF FinishedOnce
        <4> QED BY <4>1, <4>2 DEF FinishedOnce
      <3> QED BY <2>1, <3>7, <3>8 DEF Kernels, CurrentIsHead
    <2> QED BY <2>2, <2>3
  <1>6. CASE DoCopy
    <2>1. /\ cur.stream \in Queues /\ Head(ops[cur.stream]).kind = "copy"
          /\ RecordNextDone(cur.stream) /\ spc' = "after"
          /\ UNCHANGED <<running, finished, gridStream>>
      BY <1>i, <1>6 DEF CurrentIsHead, DoCopy, DoLeave
    <2>2. ASSUME NEW v, OnItsStream(v) PROVE OnItsStream(v)'
      <3>1. gridStream[v] # cur.stream
        BY <2>1, <2>2 DEF OnItsStream
      <3> QED BY <1>i, <2>1, <2>2, <3>1, RetireKeepsOthers
    <2> QED BY <1>i, <2>1, <2>2 DEF Kernels, CurrentIsHead, FinishedOnce, GridMap
  <1>7. CASE DoFunctional
    <2> DEFINE u == cur.op.uid
    <2>1. /\ cur.stream \in Queues /\ Head(ops[cur.stream]).uid = u
          /\ gridStream[u] = cur.stream /\ u \notin running
          /\ \A i \in 1..Len(finished) : finished[i] # u
          /\ RecordNextDone(cur.stream) /\ spc' = "after"
          /\ gridStream' = [gridStream EXCEPT ![u] = NoStream]
          /\ UNCHANGED <<running, finished>>
      BY <1>i, <1>7 DEF CurrentIsHead, DoFunctional, DoLeave
    <2> HIDE DEF u
    <2>2. ASSUME NEW v \in Uids, v # u, OnItsStream(v) PROVE OnItsStream(v)'
      <3>1. gridStream[v] # cur.stream
        BY <2>1, <2>2 DEF OnItsStream
      <3>2. gridStream'[v] = gridStream[v]
        BY <1>i, <2>1, <2>2 DEF TypeOK
      <3> QED BY <1>i, <2>1, <2>2, <3>1, <3>2, RetireKeepsOthers
    <2>3. GridMap'
      BY <1>f, <2>1, <2>2 DEF GridMap
    <2> QED BY <1>i, <2>1, <2>3 DEF Kernels, CurrentIsHead, FinishedOnce
  <1>8. CASE DoLaunch
    <2>1. /\ spc' = "after" /\ running' = running \cup {cur.op.uid}
          /\ UNCHANGED <<ops, pending, gridStream, finished>>
      BY <1>8 DEF DoLaunch, DoLeave
    <2>2. OnItsStream(cur.op.uid) /\ \A i \in 1..Len(finished) : finished[i] # cur.op.uid
      BY <1>i, <1>8 DEF DoLaunch, CurrentIsHead, OnItsStream
    <2>3. \A v : OnItsStream(v) => OnItsStream(v)'
      BY <2>1 DEF OnItsStream
    <2>4. GridMap'
      BY <1>f, <2>1, <2>2, <2>3 DEF GridMap
    <2> QED BY <1>i, <2>1, <2>2, <2>4 DEF Kernels, CurrentIsHead, FinishedOnce
  <1>9. CASE FrontZero
    BY <1>9, BeginKeepsKernels, NoBeginKeepsKernels, StreamConstants DEF FrontZero, Queues
  <1>10. CASE FrontConcurrent
    <2>1. ASSUME NEW i \in DOMAIN streams, FirstReady(i), Begin(streams[i]) PROVE Kernels'
      <3>1. streams[i] \in Queues
        BY <1>i DEF TypeOK, Queues
      <3> QED BY <1>10, <2>1, <3>1, BeginKeepsKernels DEF FirstReady, FrontConcurrent
    <2> QED BY <1>10, <2>1, NoBeginKeepsKernels DEF FrontConcurrent
  <1>11. ASSUME NEW u \in running, KernelFinish(u)
        PROVE  Kernels'
    <2>1. /\ spc' = spc /\ spc = "cycle" /\ running' = running \ {u}
          /\ UNCHANGED <<ops, pending, gridStream>>
      BY <1>11 DEF KernelFinish
    <2>2. /\ Len(finished') = Len(finished) + 1 /\ Len(finished) \in Nat
          /\ finished'[Len(finished) + 1] = u
          /\ \A i \in 1..Len(finished) : finished'[i] = finished[i]
      <3>1. finished \in Seq(Uids) /\ u \in Uids /\ finished' = Append(finished, u)
        BY <1>i, <1>11 DEF TypeOK, KernelFinish
      <3>2. Len(finished) \in Nat
        BY <3>1
      <3> QED BY <3>1, <3>2, AppendFacts
    <2>3. \A v : OnItsStream(v) => OnItsStream(v)'
      BY <2>1 DEF OnItsStream
    <2>4. GridMap'
      BY <1>f, <2>1, <2>2, <2>3 DEF GridMap
    <2>5. FinishedOnce'
      BY <1>i, <2>1, <2>2 DEF FinishedOnce
    <2> QED BY <2>1, <2>4, <2>5 DEF Kernels, CurrentIsHead
  <1> QED BY <1>1, <1>2, <1>3, <1>4, <1>5, <1>6, <1>7, <1>8, <1>9, <1>10, <1>11, Effects

-----------------------------------------------------------------------------
(* Uids.                                                                    *)

\* Each queue loses operations at its front only, or keeps them.
Shrinks ==
  \A q \in Queues : \E d \in Nat : \A i \in 1..Len(ops'[q]) :
     i + d \in 1..Len(ops[q]) /\ ops'[q][i] = ops[q][i + d]

\* No push is started, and none in progress changes its operation.
NoNewPush ==
  /\ nextUid' = nextUid
  /\ \A h \in Hosts : Pushing(h)' => Pushing(h) /\ harg'[h] = harg[h]

LEMMA ShrinkKeepsUids ==
  ASSUME UidsUnique, Shrinks, NoNewPush
  PROVE  UidsUnique'
  <1>1. ASSUME NEW q \in Queues, NEW r \in Queues, NEW i \in 1..Len(ops'[q]),
               NEW j \in 1..Len(ops'[r]), ops'[q][i].uid = ops'[r][j].uid
        PROVE  q = r /\ i = j
    <2>1. CASE q = r
      <3>1. PICK d \in Nat : \A k \in 1..Len(ops'[q]) :
               k + d \in 1..Len(ops[q]) /\ ops'[q][k] = ops[q][k + d]
        BY DEF Shrinks
      <3>2. j \in 1..Len(ops'[q]) /\ ops[q][i + d].uid = ops[q][j + d].uid
        BY <1>1, <2>1, <3>1
      <3>3. i + d = j + d
        BY <3>1, <3>2 DEF UidsUnique
      <3> QED BY <2>1, <3>3
    <2>2. CASE q # r
      <3>1. PICK k \in 1..Len(ops[q]) : ops'[q][i] = ops[q][k]
        BY DEF Shrinks
      <3>2. PICK m \in 1..Len(ops[r]) : ops'[r][j] = ops[r][m]
        BY DEF Shrinks
      <3> QED BY <1>1, <2>2, <3>1, <3>2 DEF UidsUnique
    <2> QED BY <2>1, <2>2
  <1>2. ASSUME NEW q \in Queues, NEW i \in 1..Len(ops'[q])
        PROVE  \E k \in 1..Len(ops[q]) : ops'[q][i] = ops[q][k]
    BY DEF Shrinks
  <1>3. \A q \in Queues : \A i \in 1..Len(ops'[q]) : ops'[q][i].uid < nextUid'
    BY <1>2 DEF UidsUnique, NoNewPush
  <1>4. ASSUME NEW h \in Hosts, Pushing(h)'
        PROVE  /\ harg'[h].op \in Operations
               /\ harg'[h].op.uid < nextUid'
               /\ \A q \in Queues : \A i \in 1..Len(ops'[q]) :
                    ops'[q][i].uid # harg'[h].op.uid
    BY <1>2, <1>4 DEF UidsUnique, NoNewPush
  <1>5. \A g, h \in Hosts : Pushing(g)' /\ Pushing(h)' /\ g # h =>
           harg'[g].op.uid # harg'[h].op.uid
    BY DEF UidsUnique, NoNewPush
  <1> QED BY <1>1, <1>3, <1>4, <1>5 DEF UidsUnique

\* Retiring an operation, or creating a stream, shrinks the queues.
LEMMA RetireShrinks ==
  ASSUME TypeOK, NEW q \in Queues, ops[q] # <<>>, RecordNextDone(q)
  PROVE  Shrinks
  <1>1. ASSUME NEW r \in Queues
        PROVE  \E d \in Nat : \A i \in 1..Len(ops'[r]) :
                  i + d \in 1..Len(ops[r]) /\ ops'[r][i] = ops[r][i + d]
    <2>1. CASE r = q
      <3>1. ops[q] \in Seq(Operations) /\ ops'[q] = Tail(ops[q])
        BY DEF TypeOK, RecordNextDone
      <3>2. \A i \in 1..Len(ops'[q]) : i + 1 \in 1..Len(ops[q]) /\ ops'[q][i] = ops[q][i + 1]
        BY <3>1, TailFacts
      <3> QED BY <2>1, <3>2
    <2>2. CASE r # q
      <3>1. ops'[r] = ops[r]
        BY <2>2 DEF TypeOK, RecordNextDone
      <3>2. \A i \in 1..Len(ops[r]) : i + 0 = i
        BY DEF TypeOK
      <3> QED BY <3>1, <3>2
    <2> QED BY <2>1, <2>2
  <1> QED BY <1>1 DEF Shrinks

LEMMA SameShrinks ==
  ASSUME TypeOK, \A q \in Queues : ops'[q] = ops[q] \/ ops'[q] = <<>>
  PROVE  Shrinks
  <1>1. ASSUME NEW q \in Queues
        PROVE  \A i \in 1..Len(ops'[q]) : i + 0 \in 1..Len(ops[q]) /\ ops'[q][i] = ops[q][i + 0]
    <2>1. CASE ops'[q] = <<>>
      BY <2>1
    <2>2. CASE ops'[q] = ops[q]
      <3>1. \A i \in 1..Len(ops[q]) : i + 0 = i
        BY DEF TypeOK
      <3> QED BY <2>2, <3>1
    <2> QED BY <2>1, <2>2
  <1> QED BY <1>1 DEF Shrinks

\* An operation made by PushCall takes a uid nobody has.
LEMMA PushCallUids ==
  ASSUME IInv, NEW h \in Hosts, NEW s, NEW k \in {"copy", "kernel"}, PushCall(h, s, k)
  PROVE  UidsUnique'
  <1> USE DEF queueVars, gpuVars, simVars, hostVars
  <1>1. /\ nextUid \in Uids /\ nextUid \in Nat /\ nextUid' = nextUid + 1 /\ ops' = ops
    BY StreamConstants DEF IInv, TypeOK, PushCall, Uids
  <1>2. /\ harg'[h].op \in Operations /\ harg'[h].op.uid = nextUid
        /\ \A g \in Hosts : g # h => harg'[g] = harg[g] /\ hpc'[g] = hpc[g]
    <2> DEFINE op == [uid |-> nextUid, kind |-> k, host |-> h]
    <2>1. op \in Operations /\ op.uid = nextUid
      BY <1>1 DEF Operations
    <2> HIDE DEF op
    <2>2. harg' = [harg EXCEPT ![h] = [stream |-> s, op |-> op]]
      BY DEF PushCall, op
    <2> QED BY <2>1, <2>2 DEF IInv, TypeOK, PushCall, HostGoto
  <1>u. UidsUnique
    BY DEF IInv
  <1>3. \A q \in Queues : \A i \in 1..Len(ops[q]) : ops[q][i].uid \in Nat
    <2>1. ASSUME NEW q \in Queues, NEW i \in 1..Len(ops[q]) PROVE ops[q][i] \in Operations
      BY DEF IInv, TypeOK
    <2> QED BY <2>1 DEF Operations, Uids
  <1>4. \A q \in Queues : \A i \in 1..Len(ops[q]) :
           ops[q][i].uid < nextUid' /\ ops[q][i].uid # nextUid
    BY <1>1, <1>3, <1>u DEF UidsUnique
  <1>5. ASSUME NEW g \in Hosts, Pushing(g)', g # h
        PROVE  Pushing(g) /\ harg'[g].op.uid < nextUid' /\ harg'[g].op.uid # nextUid
    <2>1. Pushing(g)
      BY <1>2, <1>5 DEF Pushing
    <2>2. harg[g].op \in Operations /\ harg[g].op.uid < nextUid
      BY <1>u, <2>1 DEF UidsUnique
    <2>3. harg[g].op.uid \in Nat
      BY <2>2 DEF Operations, Uids
    <2> QED BY <1>1, <1>2, <1>5, <2>1, <2>2, <2>3
  <1>6. \A q, r \in Queues : \A i \in 1..Len(ops'[q]), j \in 1..Len(ops'[r]) :
           ops'[q][i].uid = ops'[r][j].uid => q = r /\ i = j
    BY <1>1, <1>u DEF UidsUnique
  <1>7. ASSUME NEW g \in Hosts, Pushing(g)'
        PROVE  /\ harg'[g].op \in Operations /\ harg'[g].op.uid < nextUid'
               /\ \A q \in Queues : \A i \in 1..Len(ops'[q]) :
                    ops'[q][i].uid # harg'[g].op.uid
    <2>1. CASE g = h
      BY <1>1, <1>2, <1>4, <2>1
    <2>2. CASE g # h
      BY <1>1, <1>2, <1>5, <1>7, <1>u, <2>2 DEF UidsUnique
    <2> QED BY <2>1, <2>2
  <1>8. ASSUME NEW f \in Hosts, NEW g \in Hosts, Pushing(f)', Pushing(g)', f # g
        PROVE  harg'[f].op.uid # harg'[g].op.uid
    <2>1. CASE f = h
      BY <1>2, <1>5, <1>8, <2>1
    <2>2. CASE g = h
      BY <1>2, <1>5, <1>8, <2>2
    <2>3. CASE f # h /\ g # h
      BY <1>2, <1>5, <1>8, <1>u, <2>3 DEF UidsUnique
    <2> QED BY <2>1, <2>2, <2>3
  <1> QED BY <1>1, <1>4, <1>6, <1>7, <1>8 DEF UidsUnique

\* Enqueueing hands the uid over from the call to the queue.
LEMMA EnqueueUids ==
  ASSUME IInv, NEW h \in Hosts, PushEnqueue(h)
  PROVE  UidsUnique'
  <1> USE DEF queueVars, gpuVars, simVars, hostVars
  <1>u. UidsUnique
    BY DEF IInv
  <1> DEFINE op == harg[h].op
             q0 == IF harg[h].stream = NoStream \/ LaunchBlocking
                   THEN Zero ELSE harg[h].stream
  <1>1. Pushing(h) /\ op \in Operations /\ op.uid < nextUid
    BY <1>u DEF UidsUnique, Pushing, PushEnqueue
  <1>2. q0 \in Queues
    BY DEF IInv, TypeOK, Queues
  <1>3. ops' = [ops EXCEPT ![q0] = Append(ops[q0], op)]
        /\ nextUid' = nextUid /\ harg' = harg
    BY DEF PushEnqueue
  <1>4. ~Pushing(h)' /\ \A g \in Hosts : g # h => hpc'[g] = hpc[g]
    BY DEF Pushing, PushEnqueue, HostGoto, IInv, TypeOK
  <1> HIDE DEF op, q0
  <1>5. /\ Len(ops[q0]) \in Nat
        /\ Len(ops'[q0]) = Len(ops[q0]) + 1 /\ ops'[q0][Len(ops[q0]) + 1] = op
        /\ \A i \in 1..Len(ops[q0]) : ops'[q0][i] = ops[q0][i]
        /\ \A r \in Queues : r # q0 => ops'[r] = ops[r]
    <2>1. ops[q0] \in Seq(Operations) /\ ops'[q0] = Append(ops[q0], op)
          /\ \A r \in Queues : r # q0 => ops'[r] = ops[r]
      BY <1>2, <1>3 DEF IInv, TypeOK
    <2>2. Len(ops[q0]) \in Nat
      BY <2>1
    <2> QED BY <1>1, <2>1, <2>2, AppendFacts
  <1>6. ASSUME NEW q \in Queues, NEW i \in 1..Len(ops'[q])
        PROVE  \/ i \in 1..Len(ops[q]) /\ ops'[q][i] = ops[q][i]
               \/ q = q0 /\ i = Len(ops[q0]) + 1 /\ ops'[q][i] = op
    BY <1>5
  <1>7. \A q \in Queues : \A i \in 1..Len(ops[q]) : ops[q][i].uid # op.uid
    BY <1>1, <1>u DEF UidsUnique, op
  <1>8. ASSUME NEW q \in Queues, NEW r \in Queues, NEW i \in 1..Len(ops'[q]),
               NEW j \in 1..Len(ops'[r]), ops'[q][i].uid = ops'[r][j].uid
        PROVE  q = r /\ i = j
    <2>1. CASE i \in 1..Len(ops[q]) /\ ops'[q][i] = ops[q][i]
      <3>1. j \in 1..Len(ops[r]) /\ ops'[r][j] = ops[r][j]
        BY <1>6, <1>7, <1>8, <2>1
      <3> QED BY <1>8, <1>u, <2>1, <3>1 DEF UidsUnique
    <2>2. CASE q = q0 /\ i = Len(ops[q0]) + 1 /\ ops'[q][i] = op
      BY <1>6, <1>7, <1>8, <2>2
    <2> QED BY <1>6, <2>1, <2>2
  <1>9. \A q \in Queues : \A i \in 1..Len(ops'[q]) : ops'[q][i].uid < nextUid'
    BY <1>1, <1>3, <1>6, <1>u DEF UidsUnique
  <1>10. ASSUME NEW g \in Hosts, Pushing(g)'
         PROVE  g # h /\ Pushing(g) /\ harg'[g] = harg[g]
    BY <1>3, <1>4, <1>10 DEF Pushing
  <1>11. ASSUME NEW g \in Hosts, Pushing(g)'
         PROVE  /\ harg'[g].op \in Operations /\ harg'[g].op.uid < nextUid'
                /\ \A q \in Queues : \A i \in 1..Len(ops'[q]) :
                     ops'[q][i].uid # harg'[g].op.uid
    <2>1. harg[g].op.uid # op.uid
      BY <1>1, <1>10, <1>11, <1>u DEF UidsUnique, op
    <2> QED BY <1>3, <1>6, <1>10, <1>11, <1>u, <2>1 DEF UidsUnique
  <1>12. \A f, g \in Hosts : Pushing(f)' /\ Pushing(g)' /\ f # g =>
            harg'[f].op.uid # harg'[g].op.uid
    BY <1>10, <1>u DEF UidsUnique
  <1> QED BY <1>8, <1>9, <1>11, <1>12 DEF UidsUnique

LEMMA UidStep ==
  ASSUME IInv, [Next]_vars
  PROVE  UidsUnique'
  <1> USE DEF queueVars, gpuVars, simVars, hostVars
  <1>i. TypeOK /\ PendingListed /\ UidsUnique
    BY DEF IInv
  <1>n. UNCHANGED hostVars => NoNewPush
    BY DEF NoNewPush, Pushing
  <1>s. UNCHANGED ops => Shrinks
    BY <1>i, SameShrinks
  <1>1. ASSUME UNCHANGED vars PROVE UidsUnique'
    BY <1>i, <1>1, <1>n, <1>s, ShrinkKeepsUids DEF vars
  <1>2. ASSUME NEW h \in Hosts, Host(h) PROVE UidsUnique'
    <2>1. ASSUME NEW s \in StreamIds, AddStream(h, s) PROVE UidsUnique'
      <3>1. \A q \in Queues : ops'[q] = ops[q] \/ ops'[q] = <<>>
        BY <1>i, <2>1 DEF AddStream, TypeOK
      <3> QED BY <1>i, <1>n, <2>1, <3>1, SameShrinks, ShrinkKeepsUids DEF AddStream
    <2>2. ASSUME NEW s \in StreamIds, StreamSyncCall(h, s) \/ DestroyCall(h, s)
          PROVE  UidsUnique'
      <3>1. ops' = ops /\ NoNewPush
        BY <1>i, <2>2 DEF StreamSyncCall, DestroyCall, HostGoto, NoNewPush, Pushing, TypeOK
      <3> QED BY <1>i, <1>s, <3>1, ShrinkKeepsUids
    <2>3. ASSUME NEW s \in StreamIds \cup {NoStream}, NEW k \in {"copy", "kernel"},
                 PushCall(h, s, k)
          PROVE  UidsUnique'
      BY <2>3, PushCallUids
    <2>4. ASSUME \/ PushBlock(h) \/ PushDrain(h) \/ StreamSyncReturn(h)
                 \/ DestroyReturn(h) \/ SyncRound(h) \/ ExitCall(h) \/ ExitReturn(h)
          PROVE  UidsUnique'
      <3>1. ops' = ops /\ NoNewPush
        BY <1>i, <2>4 DEF PushBlock, PushDrain, StreamSyncReturn, DestroyReturn,
             SyncRound, ExitCall, ExitReturn, HostGoto, NoNewPush, Pushing, TypeOK
      <3> QED BY <1>i, <1>s, <3>1, ShrinkKeepsUids
    <2>5. ASSUME SyncScan(h) PROVE UidsUnique'
      <3>1. ops' = ops /\ harg' = harg /\ nextUid' = nextUid
            /\ \A g \in Hosts : hpc'[g] = hpc[g] \/ hpc'[g] \in {"idle", "sync"}
        BY <1>i, <2>5 DEF SyncScan, HostGoto, TypeOK
      <3>2. NoNewPush
        BY <3>1 DEF NoNewPush, Pushing
      <3> QED BY <1>i, <1>s, <3>1, <3>2, ShrinkKeepsUids
    <2>6. ASSUME PushEnqueue(h) PROVE UidsUnique'
      BY <2>6, EnqueueUids
    <2> QED BY <1>2, <2>1, <2>2, <2>3, <2>4, <2>5, <2>6 DEF Host
  <1>3. ASSUME SimStep PROVE UidsUnique'
    <2>1. UNCHANGED hostVars
      <3>1. ASSUME \/ SpinEnd \/ Activate \/ FinishKernel \/ FrontZero \/ FrontConcurrent
                   \/ After \/ LoopTest \/ Deactivate
            PROVE  UNCHANGED hostVars
        BY <3>1 DEF SpinEnd, Activate, FinishKernel, FrontZero, FrontConcurrent,
                    After, LoopTest, Deactivate
      <3>2. ASSUME DoNothing \/ DoCopy \/ DoLaunch \/ DoFunctional \/ DoNoSlot
            PROVE  UNCHANGED hostVars
        BY <3>2 DEF DoNothing, DoCopy, DoLaunch, DoFunctional, DoNoSlot
      <3>3. ASSUME NEW u, KernelFinish(u) PROVE UNCHANGED hostVars
        BY <3>3 DEF KernelFinish
      <3>4. ASSUME NEW traffic, CycleEnd(traffic) PROVE UNCHANGED hostVars
        BY <3>4 DEF CycleEnd
      <3> QED BY <1>3, <3>1, <3>2, <3>3, <3>4 DEF SimStep
    <2>2. Shrinks
      <3>1. ASSUME \/ SpinEnd \/ Activate \/ FrontZero \/ FrontConcurrent
                   \/ DoNothing \/ DoLaunch \/ DoNoSlot
                   \/ After \/ LoopTest \/ Deactivate
            PROVE  ops' = ops
        BY <3>1 DEF SpinEnd, Activate, FrontZero, FrontConcurrent, DoNothing,
                    DoLaunch, DoNoSlot, After, LoopTest, Deactivate
      <3>2. ASSUME NEW u, KernelFinish(u) PROVE ops' = ops
        BY <3>2 DEF KernelFinish
      <3>3. ASSUME NEW traffic, CycleEnd(traffic) PROVE ops' = ops
        BY <3>3 DEF CycleEnd
      <3>4. ASSUME FinishKernel PROVE Shrinks
        <4>1. CASE finished = <<>>
          BY <1>s, <3>4, <4>1 DEF FinishKernel
        <4>2. CASE finished # <<>>
          <5>1. RecordNextDone(gridStream[Head(finished)])
            BY <3>4, <4>2 DEF FinishKernel
          <5>2. /\ gridStream[Head(finished)] \in Queues
                /\ ops[gridStream[Head(finished)]] # <<>>
            BY <4>2, RetiredQueue DEF OnItsStream
          <5> QED BY <1>i, <5>1, <5>2, RetireShrinks
        <4> QED BY <4>1, <4>2
      <3>5. ASSUME DoCopy \/ DoFunctional PROVE Shrinks
        <4>1. RecordNextDone(cur.stream) /\ cur.stream \in Queues
          BY <3>5, RetiredQueue DEF DoCopy, DoFunctional
        <4>2. ops[cur.stream] # <<>>
          BY <3>5 DEF DoCopy, DoFunctional, IInv, CurrentIsHead
        <4> QED BY <1>i, <4>1, <4>2, RetireShrinks
      <3> QED BY <1>3, <1>s, <3>1, <3>2, <3>3, <3>4, <3>5 DEF SimStep
    <2> QED BY <1>i, <1>n, <2>1, <2>2, ShrinkKeepsUids
  <1> QED BY <1>1, <1>2, <1>3 DEF Next

-----------------------------------------------------------------------------
(* The theorems.                                                            *)

\* IInv is an inductive invariant of the threads.
THEOREM Inductive == Spec => []IInv
  <1>1. Init => IInv
    <2> SUFFICES ASSUME Init PROVE IInv
      OBVIOUS
    <2>1. \A q \in Queues : ops[q] = <<>> /\ Len(ops[q]) = 0 /\ ~pending[q]
      BY DEF Init
    <2>2. Len(finished) = 0 /\ running = {} /\ Listed = {} /\ spc # "do" /\ ~serviceZero
      BY DEF Init, Listed, ToSet
    <2>3. \A h \in Hosts : ~Pushing(h)
      BY DEF Init, Pushing
    <2>4. StreamIds \subseteq Queues /\ Zero \in Queues
      BY DEF Queues
    <2>5. TypeOK
      BY TypeInit
    <2>6. PendingListed /\ ZeroLatch
      BY <2>1, <2>2, <2>4 DEF PendingListed, ZeroLatch
    <2>7. CurrentIsHead /\ FinishedOnce /\ GridMap
      BY <2>2 DEF CurrentIsHead, FinishedOnce, GridMap
    <2>8. UidsUnique
      BY <2>1, <2>3 DEF UidsUnique
    <2> QED BY <2>5, <2>6, <2>7, <2>8 DEF IInv
  <1>2. IInv /\ [Next]_vars => IInv'
    BY TypeStep, PendStep, KernelStep, UidStep DEF IInv, Kernels
  <1> QED BY <1>1, <1>2, PTL DEF Spec

\* The threads keep to the types of their variables.
THEOREM TypeCorrect == Spec => []TypeOK
  <1>1. IInv => TypeOK
    BY DEF IInv
  <1> QED BY <1>1, Inductive, PTL

\* Stream zero is never in progress together with another stream.
THEOREM ZeroExclusive == Spec => []StreamZeroExclusive
  <1>1. IInv => StreamZeroExclusive
    BY DEF IInv, ZeroLatch, StreamZeroExclusive
  <1> QED BY <1>1, Inductive, PTL

\* Every kernel on the GPU is the started head of the stream it is mapped to,
\* so the assertions of register_finished_kernel and record_next_done hold.
THEOREM GridMapCorrect == Spec => []GridMapSound
  <1>1. IInv => GridMapSound
    <2> SUFFICES ASSUME IInv, NEW u \in running \cup ToSet(finished)
                 PROVE  OnItsStream(u)
      BY DEF GridMapSound, OnItsStream
    <2>1. DOMAIN finished = 1..Len(finished)
      BY DEF IInv, TypeOK
    <2> QED BY <2>1 DEF IInv, GridMap, ToSet
  <1> QED BY <1>1, Inductive, PTL

-----------------------------------------------------------------------------
(* gpgpu_sim::init() finds the GPU idle.                                    *)

\* Outside the inner loop of the simulation thread the GPU is idle.
IdleOutside == spc \in {"spin", "activate", "stop", "exited"} => ~Active

LEMMA IdleStep ==
  ASSUME IdleOutside, [Next]_vars
  PROVE  IdleOutside'
  <1> USE DEF queueVars, gpuVars, simVars, hostVars, IdleOutside, Active
  <1>1. ASSUME UNCHANGED vars PROVE IdleOutside'
    BY <1>1 DEF vars
  <1>2. ASSUME NEW h \in Hosts, Host(h) PROVE IdleOutside'
    <2>1. UNCHANGED <<spc, running, busy>>
      BY <1>2 DEF Host, AddStream, StreamSyncCall, DestroyCall, PushCall, PushBlock,
           PushEnqueue, PushDrain, StreamSyncReturn, DestroyReturn, SyncRound,
           SyncScan, ExitCall, ExitReturn
    <2> QED BY <2>1
  <1>3. ASSUME \/ SpinEnd \/ Activate \/ FinishKernel \/ FrontZero
               \/ FrontConcurrent \/ Deactivate
        PROVE  IdleOutside'
    BY <1>3 DEF SpinEnd, Activate, FinishKernel, FrontZero, FrontConcurrent, Deactivate
  <1>4. ASSUME DoNothing \/ DoCopy \/ DoLaunch \/ DoFunctional \/ DoNoSlot
        PROVE  IdleOutside'
    BY <1>4 DEF DoNothing, DoCopy, DoLaunch, DoFunctional, DoNoSlot, DoLeave
  <1>5. ASSUME After \/ LoopTest PROVE IdleOutside'
    BY <1>5 DEF After, AfterGoes, LoopTest, MoreWork
  <1>6. ASSUME NEW u, KernelFinish(u) PROVE IdleOutside'
    BY <1>6 DEF KernelFinish
  <1>7. ASSUME NEW traffic, CycleEnd(traffic) PROVE IdleOutside'
    BY <1>7 DEF CycleEnd
  <1> QED BY <1>1, <1>2, <1>3, <1>4, <1>5, <1>6, <1>7 DEF Next, SimStep

\* init() never runs under a kernel or under memory traffic, whichever way the
\* inner loop was left.
THEOREM InitFindsIdle == Spec => InitQuiescent
  <1>1. Init => IdleOutside
    BY DEF Init, IdleOutside, Active
  <1>2. IdleOutside /\ [Next]_vars => IdleOutside'
    BY IdleStep
  <1>3. IdleOutside /\ [Next]_vars => [Activate => running = {} /\ ~busy]_vars
    BY DEF IdleOutside, Active, Activate
  <1> QED BY <1>1, <1>2, <1>3, PTL DEF Spec, InitQuiescent

-----------------------------------------------------------------------------
(* The threads implement StreamOrder.                                       *)

\* Only a created stream has operations, or is the argument of a push.
CreatedOnly ==
  /\ \A s \in StreamIds : ops[s] # <<>> => s \in created
  /\ \A h \in Hosts : Pushing(h) /\ harg[h].stream # NoStream => harg[h].stream \in created

LEMMA CreatedStep ==
  ASSUME IInv, CreatedOnly, [Next]_vars
  PROVE  CreatedOnly'
  <1> USE DEF queueVars, gpuVars, simVars, hostVars
  <1>i. TypeOK /\ PendingListed
    BY DEF IInv
  <1>r. ASSUME NEW q \in Queues, RecordNextDone(q), ops[q] # <<>>
        PROVE  \A s \in StreamIds : ops'[s] # <<>> => s \in created
    BY <1>i, <1>r DEF RecordNextDone, CreatedOnly, TypeOK, Queues
  <1>1. ASSUME UNCHANGED <<created, ops, hostVars>> PROVE CreatedOnly'
    BY <1>1 DEF CreatedOnly, Pushing
  <1>2. ASSUME NEW h \in Hosts, Host(h) PROVE CreatedOnly'
    <2>1. ASSUME NEW s \in StreamIds, AddStream(h, s) PROVE CreatedOnly'
      BY <1>i, <2>1 DEF AddStream, CreatedOnly, Pushing, TypeOK
    <2>2. ASSUME NEW s \in StreamIds, StreamSyncCall(h, s) \/ DestroyCall(h, s)
          PROVE  CreatedOnly'
      BY <1>i, <2>2 DEF StreamSyncCall, DestroyCall, HostGoto, CreatedOnly, Pushing, TypeOK
    <2>3. ASSUME NEW s \in StreamIds \cup {NoStream}, NEW k \in {"copy", "kernel"},
                 PushCall(h, s, k)
          PROVE  CreatedOnly'
      <3>1. s \in created \cup {NoStream}
        BY <1>i, <2>3 DEF PushCall, PendingListed
      <3>2. harg'[h].stream = s /\ \A g \in Hosts : g # h => harg'[g] = harg[g]
                                                         /\ hpc'[g] = hpc[g]
        BY <1>i, <2>3 DEF PushCall, HostGoto, TypeOK
      <3> QED BY <2>3, <3>1, <3>2 DEF PushCall, CreatedOnly, Pushing
    <2>4. ASSUME \/ PushBlock(h) \/ PushDrain(h) \/ StreamSyncReturn(h)
                 \/ DestroyReturn(h) \/ SyncRound(h) \/ ExitCall(h) \/ ExitReturn(h)
          PROVE  CreatedOnly'
      <3>1. /\ UNCHANGED <<created, ops, harg>>
            /\ \A g \in Hosts : Pushing(g)' => Pushing(g)
        BY <1>i, <2>4 DEF PushBlock, PushDrain, StreamSyncReturn, DestroyReturn,
             SyncRound, ExitCall, ExitReturn, HostGoto, Pushing, TypeOK
      <3> QED BY <3>1 DEF CreatedOnly
    <2>5. ASSUME SyncScan(h) PROVE CreatedOnly'
      <3>1. /\ UNCHANGED <<created, ops, harg>>
            /\ \A g \in Hosts : hpc'[g] = hpc[g] \/ hpc'[g] \in {"idle", "sync"}
        BY <1>i, <2>5 DEF SyncScan, HostGoto, TypeOK
      <3> QED BY <3>1 DEF CreatedOnly, Pushing
    <2>6. ASSUME PushEnqueue(h) PROVE CreatedOnly'
      <3>1. \A s \in StreamIds : ops'[s] # ops[s] => s = harg[h].stream
        BY <1>i, <2>6, StreamConstants DEF PushEnqueue, TypeOK, Queues
      <3>2. harg[h].stream # NoStream => harg[h].stream \in created
        BY <2>6 DEF PushEnqueue, Pushing, CreatedOnly
      <3>3. /\ UNCHANGED <<created, harg>>
            /\ \A g \in Hosts : Pushing(g)' => Pushing(g)
        BY <1>i, <2>6 DEF PushEnqueue, HostGoto, Pushing, TypeOK
      <3> QED BY <3>1, <3>2, <3>3, StreamConstants DEF CreatedOnly
    <2> QED BY <1>2, <2>1, <2>2, <2>3, <2>4, <2>5, <2>6 DEF Host
  <1>3. ASSUME SimStep PROVE CreatedOnly'
    <2>1. ASSUME \/ SpinEnd \/ Activate \/ FrontZero \/ FrontConcurrent
                 \/ After \/ LoopTest \/ Deactivate
                 \/ DoNothing \/ DoLaunch \/ DoNoSlot
          PROVE  CreatedOnly'
      BY <1>1, <2>1 DEF SpinEnd, Activate, FrontZero, FrontConcurrent, After,
           LoopTest, Deactivate, DoNothing, DoLaunch, DoNoSlot
    <2>2. ASSUME NEW u, KernelFinish(u) PROVE CreatedOnly'
      BY <1>1, <2>2 DEF KernelFinish
    <2>3. ASSUME NEW traffic, CycleEnd(traffic) PROVE CreatedOnly'
      BY <1>1, <2>3 DEF CycleEnd
    <2>4. ASSUME FinishKernel PROVE CreatedOnly'
      <3>1. CASE finished = <<>>
        BY <1>1, <2>4, <3>1 DEF FinishKernel
      <3>2. CASE finished # <<>>
        <4>1. \A s \in StreamIds : ops'[s] # <<>> => s \in created
          BY <1>r, <2>4, <3>2, RetiredQueue DEF FinishKernel, OnItsStream
        <4> QED BY <2>4, <4>1 DEF FinishKernel, CreatedOnly, Pushing
      <3> QED BY <3>1, <3>2
    <2>5. ASSUME DoCopy \/ DoFunctional PROVE CreatedOnly'
      <3>1. RecordNextDone(cur.stream) /\ cur.stream \in Queues
        BY <2>5, RetiredQueue DEF DoCopy, DoFunctional
      <3>2. ops[cur.stream] # <<>>
        BY <2>5 DEF DoCopy, DoFunctional, IInv, CurrentIsHead
      <3>3. \A s \in StreamIds : ops'[s] # <<>> => s \in created
        BY <1>r, <3>1, <3>2
      <3> QED BY <2>5, <3>3 DEF DoCopy, DoFunctional, CreatedOnly, Pushing
    <2> QED BY <1>3, <2>1, <2>2, <2>3, <2>4, <2>5 DEF SimStep
  <1> QED BY <1>1, <1>2, <1>3 DEF Next, vars

\* A started operation begins in the abstract queue; zero runs alone.
LEMMA BeginRefines ==
  ASSUME IInv, NEW q \in Queues, Ready(q), Begin(q), ops' = ops,
         IF q = Zero THEN \A s \in Queues : ~pending[s] ELSE ~pending[Zero]
  PROVE  Order!Begin(q)
  <1>1. pending' = [pending EXCEPT ![q] = TRUE] /\ pending \in [Queues -> BOOLEAN]
    BY DEF Begin, IInv, TypeOK
  <1>2. {s \in Queues : pending'[s]} = {s \in Queues : pending[s]} \cup {q}
    BY <1>1
  <1> QED BY <1>2 DEF Order!Begin, Ready

\* A retired operation completes in the abstract queue.
LEMMA RetireRefines ==
  ASSUME TypeOK, NEW q \in Queues, pending[q], RecordNextDone(q)
  PROVE  Order!Complete(q)
  <1>1. /\ {s \in Queues : pending'[s]} = {s \in Queues : pending[s]} \ {q}
        /\ [s \in Queues |-> ops'[s]] = [[s \in Queues |-> ops[s]] EXCEPT ![q] = Tail(@)]
    BY DEF TypeOK, RecordNextDone
  <1> QED BY <1>1 DEF Order!Complete

LEMMA OrderStep ==
  ASSUME IInv, CreatedOnly, [Next]_vars
  PROVE  [Order!Next]_(Order!vars)
  <1> USE DEF queueVars, gpuVars, simVars, hostVars
  <1>i. TypeOK /\ PendingListed /\ ZeroLatch
    BY DEF IInv
  <1>c. Zero \in Queues /\ StreamIds \subseteq Queues /\ Order!Queues = Queues
        /\ Zero \notin StreamIds /\ \A q \in Queues : q = Zero \/ q \in StreamIds
    BY StreamConstants DEF Queues, Order!Queues
  <1>s. ASSUME \A q \in Queues : ops'[q] = ops[q] /\ pending'[q] = pending[q]
        PROVE  UNCHANGED Order!vars
    BY <1>s DEF Order!vars
  <1>n. ASSUME NEW q \in Queues, Order!Begin(q) \/ Order!Complete(q)
        PROVE  Order!Next
    BY <1>c, <1>n DEF Order!Next
  <1>1. CASE Quiet
    BY <1>1, <1>s DEF Quiet
  <1>2. ASSUME NEW h \in Hosts, NEW s \in StreamIds, AddStream(h, s)
        PROVE  UNCHANGED Order!vars
    <2>1. ops[s] = <<>> /\ ~pending[s]
      BY <1>i, <1>2 DEF AddStream, CreatedOnly, PendingListed
    <2> QED BY <1>i, <1>c, <1>2, <1>s, <2>1 DEF AddStream, TypeOK
  <1>3. ASSUME NEW h \in Hosts, PushEnqueue(h)
        PROVE  Order!Next
    <2>1. harg[h].op \in Operations
      BY <1>3 DEF IInv, UidsUnique, Pushing, PushEnqueue
    <2>2. PICK q \in Queues, op \in Operations :
            pending' = pending /\ ops' = [ops EXCEPT ![q] = Append(ops[q], op)]
      BY <1>i, <1>3, <2>1 DEF PushEnqueue, TypeOK, Queues
    <2>3. [s \in Queues |-> ops'[s]]
            = [[s \in Queues |-> ops[s]] EXCEPT ![q] = Append(@, op)]
      BY <1>i, <2>2 DEF TypeOK
    <2>4. Order!Submit(q, op)
      BY <2>2, <2>3 DEF Order!Submit
    <2> QED BY <1>c, <2>4 DEF Order!Next
  <1>4. ASSUME NEW h \in Hosts, DestroyReturn(h)
        PROVE  UNCHANGED Order!vars
    BY <1>4, <1>s DEF DestroyReturn
  <1>5. CASE FinishKernel
    <2>1. CASE finished = <<>>
      BY <1>5, <1>s, <2>1 DEF FinishKernel
    <2>2. CASE finished # <<>>
      <3>1. /\ RecordNextDone(gridStream[Head(finished)])
            /\ gridStream[Head(finished)] \in Queues /\ pending[gridStream[Head(finished)]]
        BY <1>5, <2>2, RetiredQueue DEF FinishKernel, OnItsStream
      <3> QED BY <1>i, <1>n, <3>1, RetireRefines
    <2> QED BY <2>1, <2>2
  <1>6. CASE DoCopy \/ DoFunctional
    <2>1. RecordNextDone(cur.stream) /\ cur.stream \in Queues
      BY <1>6, RetiredQueue DEF DoCopy, DoFunctional
    <2>2. pending[cur.stream]
      BY <1>6 DEF DoCopy, DoFunctional, IInv, CurrentIsHead
    <2> QED BY <1>i, <1>n, <2>1, <2>2, RetireRefines
  <1>7. CASE DoLaunch
    BY <1>7, <1>s DEF DoLaunch
  <1>8. CASE FrontZero
    <2>1. ASSUME NoBegin PROVE UNCHANGED Order!vars
      BY <1>8, <1>s, <2>1 DEF FrontZero, NoBegin
    <2>2. ASSUME Ready(Zero), Begin(Zero) PROVE Order!Next
      <3>1. \A s \in Queues : ~pending[s]
        BY <1>i, <1>c, <1>8, <2>2
           DEF FrontZero, ZeroTurn, ConcurrentStreamsEmpty, PendingListed, ZeroLatch, Ready
      <3>2. ops' = ops
        BY <1>8 DEF FrontZero
      <3> QED BY <1>c, <1>n, <2>2, <3>1, <3>2, BeginRefines
    <2> QED BY <1>8, <2>1, <2>2 DEF FrontZero
  <1>9. CASE FrontConcurrent
    <2>1. ASSUME NoBegin PROVE UNCHANGED Order!vars
      BY <1>9, <1>s, <2>1 DEF FrontConcurrent, NoBegin
    <2>2. ASSUME NEW i \in DOMAIN streams, FirstReady(i), Begin(streams[i])
          PROVE  Order!Next
      <3>1. streams[i] \in StreamIds /\ Ready(streams[i])
        BY <1>i, <2>2 DEF TypeOK, FirstReady
      <3>2. ~pending[Zero] /\ ops' = ops
        BY <1>i, <1>9 DEF FrontConcurrent, ZeroTurn, ZeroLatch
      <3> QED BY <1>c, <1>n, <2>2, <3>1, <3>2, BeginRefines
    <2> QED BY <1>9, <2>1, <2>2 DEF FrontConcurrent
  <1>10. ASSUME NEW u \in running, KernelFinish(u)
         PROVE  UNCHANGED Order!vars
    BY <1>10, <1>s DEF KernelFinish
  <1> QED BY <1>1, <1>2, <1>3, <1>4, <1>5, <1>6, <1>7, <1>8, <1>9, <1>10, Effects

\* The host threads and the simulation thread implement the stream rules:
\* FIFO streams, one operation each in progress, stream zero alone.
THEOREM RefinesOrder == Spec => ImplementsOrder
  <1>1. Init => Order!Init
    BY DEF Init, Order!Init, Order!Queues, Queues
  <1>2. Init => CreatedOnly
    BY DEF Init, CreatedOnly, Pushing, Queues
  <1>3. IInv /\ CreatedOnly /\ [Next]_vars => CreatedOnly'
    BY CreatedStep
  <1>4. IInv /\ CreatedOnly /\ [Next]_vars => [Order!Next]_(Order!vars)
    BY OrderStep
  <1> QED BY <1>1, <1>2, <1>3, <1>4, Inductive, PTL DEF Spec, ImplementsOrder, Order!Spec

\* The state host and simulation threads share stays sound (StreamsSound).
THEOREM StreamsAreSound == Spec => []StreamsSound
<1>1. TypeOK /\ StreamZeroExclusive /\ GridMapSound => StreamsSound
  BY DEF StreamsSound
<1> QED BY <1>1, TypeCorrect, ZeroExclusive, GridMapCorrect, PTL

-----------------------------------------------------------------------------
(* What a host thread finds when its call returns.                          *)

NoOwn(h, q) == \A i \in 1..Len(ops[q]) : ops[q][i].host # h

\* A stream is destroyed while no other host is in a call, so the stream a push
\* was called with is still there; and no operation is on a stream that is not.
CallsAlone ==
  /\ \A g, h \in Hosts : hpc[g] = "destroy" /\ g # h => ~Calling(h)
  /\ \A h \in Hosts : Pushing(h) /\ harg[h].stream # NoStream => harg[h].stream \in Listed
  /\ \A h \in Hosts : Pushing(h) => harg[h].op.host = h
  /\ \A s \in StreamIds : s \notin Listed => ops[s] = <<>>

\* What an unlocked empty() has passed holds nothing of its thread, which pushes
\* nothing meanwhile; nor does any stream when a blocking push has waited.
Passed ==
  /\ \A h \in Hosts : hpc[h] \in {"scan", "drain"} =>
       hidx[h] <= Len(streams) /\ \A i \in 1..hidx[h] : NoOwn(h, streams[i])
  /\ \A h \in Hosts : hpc[h] = "enqueue" /\ (harg[h].stream = NoStream \/ LaunchBlocking) =>
       \A s \in Listed : NoOwn(h, s)

OwnInv == CallsAlone /\ Passed

\* The streams are those of the list, before and after an append.
LEMMA ListedFacts ==
  ASSUME TypeOK
  PROVE  /\ Len(streams) \in Nat
         /\ \A s : s \in Listed <=> \E i \in 1..Len(streams) : streams[i] = s
         /\ \A i \in 1..Len(streams) : streams[i] \in StreamIds
  <1>1. streams \in Seq(StreamIds)
    BY DEF TypeOK
  <1> QED BY <1>1 DEF Listed, ToSet

\* The simulation thread only takes operations off queues.
LEMMA OwnShrinks ==
  ASSUME TypeOK, TypeOK', OwnInv, UNCHANGED <<streams, hpc, harg, hidx>>,
         \A q \in Queues : ops'[q] = ops[q] \/ (ops[q] # <<>> /\ ops'[q] = Tail(ops[q]))
  PROVE  OwnInv'
  <1>1. ASSUME NEW h, NEW q \in Queues, NoOwn(h, q)
        PROVE  NoOwn(h, q)'
    <2>1. CASE ops'[q] = ops[q]
      BY <1>1, <2>1 DEF NoOwn
    <2>2. CASE ops[q] # <<>> /\ ops'[q] = Tail(ops[q])
      <3>1. ops[q] \in Seq(Operations)
        BY DEF TypeOK
      <3>2. \A i \in 1..Len(Tail(ops[q])) : i + 1 \in 1..Len(ops[q]) /\ Tail(ops[q])[i] = ops[q][i + 1]
        BY <3>1, <2>2, TailFacts
      <3> QED BY <1>1, <2>2, <3>2 DEF NoOwn
    <2> QED BY <2>1, <2>2
  <1>2. Listed' = Listed /\ \A i \in 1..Len(streams) : streams[i] \in Queues
    BY ListedFacts DEF Listed, Queues
  <1>3. CallsAlone'
    <2>1. ASSUME NEW s \in StreamIds, s \notin Listed PROVE ops'[s] = <<>>
      BY <2>1 DEF OwnInv, CallsAlone, Queues
    <2> QED BY <1>2, <2>1 DEF OwnInv, CallsAlone, Calling, Pushing
  <1>4. Passed'
    <2>1. ASSUME NEW h \in Hosts, hpc[h] \in {"scan", "drain"}, NEW i \in 1..hidx[h]
          PROVE  NoOwn(h, streams[i])'
      <3>1. hidx[h] \in Nat /\ hidx[h] <= Len(streams) /\ Len(streams) \in Nat /\ NoOwn(h, streams[i])
        BY <2>1, ListedFacts DEF OwnInv, Passed, TypeOK
      <3>2. i \in 1..Len(streams)
        BY <3>1
      <3>3. NoOwn(h, streams[i])'
        BY <1>1, <1>2, <3>1, <3>2 DEF NoOwn
      <3> QED BY <3>3 DEF NoOwn
    <2>2. ASSUME NEW h \in Hosts, hpc[h] = "enqueue", harg[h].stream = NoStream \/ LaunchBlocking,
                 NEW s \in Listed
          PROVE  NoOwn(h, s)'
      <3>1. s \in Queues
        BY ListedFacts DEF Queues
      <3> QED BY <1>1, <2>2, <3>1 DEF OwnInv, Passed
    <2> QED BY <1>2, <2>1, <2>2 DEF OwnInv, Passed
  <1> QED BY <1>3, <1>4 DEF OwnInv

\* Every step of a host keeps them.
LEMMA OwnHost ==
  ASSUME IInv, TypeOK', OwnInv, NEW h \in Hosts, Host(h)
  PROVE  OwnInv'
  <1> USE DEF queueVars, gpuVars, simVars, hostVars
  <1>t. /\ TypeOK /\ hpc \in [Hosts -> HostPcs] /\ hidx \in [Hosts -> Nat]
        /\ harg \in [Hosts -> [stream : StreamIds \cup {NoStream}, op : Operations \cup {NoOp}]]
        /\ \A g \in Hosts : hidx[g] \in Nat
    BY DEF IInv, TypeOK
  <1>l. /\ Len(streams) \in Nat
        /\ \A s : s \in Listed <=> \E i \in 1..Len(streams) : streams[i] = s
        /\ \A i \in 1..Len(streams) : streams[i] \in StreamIds
    BY <1>t, ListedFacts
  <1>s. \A s \in StreamIds : s \in Queues
    BY DEF Queues
  \* No operation of g is on q after the step.
  <1> DEFINE Clear(g, q) == \A i \in 1..Len(ops'[q]) : ops'[q][i].host # g
  <1>c. CallsAlone /\ Passed
    BY DEF OwnInv
  \* The queues and the list of streams are as before.
  <1> DEFINE Same == ops' = ops /\ streams' = streams
  <1>n. ASSUME Same, NEW g, NEW q, NoOwn(g, q) PROVE Clear(g, q)
    BY <1>n DEF NoOwn
  <1>m. ASSUME Same PROVE Listed' = Listed
    BY <1>m DEF Listed
  \* The other hosts' calls are as before.
  <1>o. ASSUME Same, \A g \in Hosts : g # h => hpc'[g] = hpc[g] /\ harg'[g] = harg[g] /\ hidx'[g] = hidx[g],
               hpc'[h] = "destroy" => \A g \in Hosts : g # h => ~Calling(g),
               Calling(h)' => Calling(h) \/ ~Destroying,
               Pushing(h)' => /\ harg'[h].stream # NoStream => harg'[h].stream \in Listed
                              /\ harg'[h].op.host = h,
               hpc'[h] \in {"scan", "drain"} =>
                  hidx'[h] <= Len(streams) /\ \A i \in 1..hidx'[h] : NoOwn(h, streams[i]),
               hpc'[h] = "enqueue" /\ (harg'[h].stream = NoStream \/ LaunchBlocking) =>
                  \A s \in Listed : NoOwn(h, s)
        PROVE  OwnInv'
    <2>1. CallsAlone'
      <3>1. ASSUME NEW g \in Hosts, NEW f \in Hosts, hpc'[g] = "destroy", g # f
            PROVE  ~Calling(f)'
        BY <1>o, <1>c, <3>1 DEF CallsAlone, Calling, Destroying
      <3>2. ASSUME NEW g \in Hosts, Pushing(g)'
            PROVE  /\ harg'[g].stream # NoStream => harg'[g].stream \in Listed
                   /\ harg'[g].op.host = g
        BY <1>o, <1>c, <3>2 DEF CallsAlone, Pushing
      <3> QED BY <1>o, <1>m, <1>c, <3>1, <3>2 DEF CallsAlone
    <2>2. Passed'
      <3>1. ASSUME NEW g \in Hosts, hpc'[g] \in {"scan", "drain"}
            PROVE  hidx'[g] <= Len(streams) /\ \A i \in 1..hidx'[g] : NoOwn(g, streams[i])
        BY <1>o, <1>c, <3>1 DEF Passed
      <3>2. ASSUME NEW g \in Hosts, hpc'[g] = "enqueue", harg'[g].stream = NoStream \/ LaunchBlocking
            PROVE  \A s \in Listed : NoOwn(g, s)
        BY <1>o, <1>c, <3>2 DEF Passed
      <3>3. \A g, q : Clear(g, q) = NoOwn(g, q)
        BY <1>o DEF NoOwn
      <3> QED BY <1>o, <1>m, <3>1, <3>2, <3>3 DEF Passed, NoOwn
    <2> QED BY <2>1, <2>2 DEF OwnInv
  <1>1. ASSUME NEW s \in StreamIds, AddStream(h, s) PROVE OwnInv'
    <2>1. /\ hpc' = hpc /\ harg' = harg /\ hidx' = hidx /\ streams' = Append(streams, s)
          /\ ops' = [ops EXCEPT ![s] = <<>>]
      BY <1>1 DEF AddStream
    <2>2. /\ Len(streams') = Len(streams) + 1 /\ streams'[Len(streams) + 1] = s
          /\ \A i \in 1..Len(streams) : streams'[i] = streams[i]
      BY <1>t, <2>1, AppendFacts DEF TypeOK
    <2>3. \A r : r \in Listed' <=> r \in Listed \/ r = s
      <3>1. \A r : r \in Listed' <=> \E i \in 1..Len(streams') : streams'[i] = r
        <4>1. streams' \in Seq(StreamIds)
          BY DEF TypeOK
        <4> QED BY <4>1 DEF Listed, ToSet
      <3> QED BY <1>l, <2>2, <3>1
    <2>4. ASSUME NEW g, NEW q \in Queues, NoOwn(g, q) PROVE Clear(g, q)
      <3>1. ops'[q] = ops[q] \/ ops'[q] = <<>>
        BY <1>t, <2>1 DEF TypeOK
      <3> QED BY <2>4, <3>1 DEF NoOwn
    <2>5. CallsAlone'
      <3>1. \A r \in StreamIds : r \notin Listed' => ops'[r] = <<>>
        BY <1>c, <1>t, <1>s, <2>1, <2>3 DEF CallsAlone, TypeOK
      <3> QED BY <1>c, <2>1, <2>3, <3>1 DEF CallsAlone, Calling, Pushing
    <2>6. Passed'
      <3>1. ASSUME NEW g \in Hosts, hpc[g] \in {"scan", "drain"}
            PROVE  hidx[g] <= Len(streams) + 1 /\ \A i \in 1..hidx[g] : Clear(g, streams'[i])
        <4>1. hidx[g] <= Len(streams) /\ \A i \in 1..hidx[g] : i \in 1..Len(streams) /\ NoOwn(g, streams[i])
          BY <1>c, <1>l, <1>t, <3>1 DEF Passed
        <4>2. \A i \in 1..hidx[g] : Clear(g, streams[i])
          BY <1>l, <1>s, <2>4, <4>1 DEF NoOwn
        <4> QED BY <1>l, <1>t, <2>2, <4>1, <4>2 DEF NoOwn
      <3>2. ASSUME NEW g \in Hosts, hpc[g] = "enqueue", harg[g].stream = NoStream \/ LaunchBlocking,
                   NEW r \in Listed'
            PROVE  Clear(g, r)
        <4>1. CASE r = s
          <5>1. ops'[s] = <<>>
            BY <1>t, <1>s, <2>1 DEF TypeOK
          <5> QED BY <4>1, <5>1 DEF NoOwn
        <4>2. CASE r \in Listed
          <5>1. r \in Queues /\ NoOwn(g, r)
            BY <1>c, <1>l, <1>s, <3>2, <4>2 DEF Passed
          <5> QED BY <2>4, <5>1
        <4> QED BY <2>3, <3>2, <4>1, <4>2
      <3> QED BY <2>1, <2>2, <3>1, <3>2 DEF Passed, NoOwn
    <2> QED BY <2>5, <2>6 DEF OwnInv
  <1>2. ASSUME NEW s \in StreamIds, StreamSyncCall(h, s) PROVE OwnInv'
    <2>1. /\ Same /\ hpc'[h] = "streamsync" /\ ~Destroying
          /\ \A g \in Hosts : g # h => hpc'[g] = hpc[g] /\ harg'[g] = harg[g] /\ hidx'[g] = hidx[g]
      BY <1>t, <1>2 DEF StreamSyncCall, HostGoto
    <2> QED BY <1>o, <2>1 DEF Pushing
  <1>3. ASSUME NEW s \in StreamIds, DestroyCall(h, s) PROVE OwnInv'
    <2>1. /\ Same /\ hpc'[h] = "destroy" /\ \A g \in Hosts \ {h} : ~Calling(g)
          /\ \A g \in Hosts : g # h => hpc'[g] = hpc[g] /\ harg'[g] = harg[g] /\ hidx'[g] = hidx[g]
          /\ hpc[h] = "idle"
      BY <1>t, <1>3 DEF DestroyCall, HostGoto
    <2>2. ~Destroying
      BY <2>1 DEF Destroying, Calling
    <2> QED BY <1>o, <2>1, <2>2 DEF Pushing
  <1>4. ASSUME NEW s \in StreamIds \cup {NoStream}, NEW k \in {"copy", "kernel"}, PushCall(h, s, k)
        PROVE  OwnInv'
    <2>1. /\ Same /\ hpc'[h] \in {"block", "enqueue"} /\ ~Destroying
          /\ hpc'[h] = "enqueue" => ~(s = NoStream \/ LaunchBlocking)
          /\ \A g \in Hosts : g # h => hpc'[g] = hpc[g] /\ harg'[g] = harg[g] /\ hidx'[g] = hidx[g]
          /\ harg'[h].stream = s /\ harg'[h].op.host = h /\ s \in Listed \cup {NoStream}
      BY <1>t, <1>4 DEF PushCall, HostGoto
    <2> QED BY <1>o, <2>1
  <1>5. ASSUME PushBlock(h) PROVE OwnInv'
    <2>1. /\ Same /\ hpc[h] = "block" /\ hpc'[h] = "enqueue" /\ harg' = harg /\ hidx' = hidx
          /\ \A g \in Hosts : g # h => hpc'[g] = hpc[g]
      BY <1>t, <1>5 DEF PushBlock, HostGoto
    <2>2. \A s \in Listed : NoOwn(h, s)
      BY <1>5 DEF PushBlock, ConcurrentStreamsEmpty, NoOwn
    <2>3. Pushing(h) /\ Calling(h)
      BY <2>1 DEF Pushing, Calling
    <2> QED BY <1>c, <1>o, <2>1, <2>2, <2>3 DEF CallsAlone
  <1>6. ASSUME PushEnqueue(h) PROVE OwnInv'
    <2> DEFINE blocking == harg[h].stream = NoStream \/ LaunchBlocking
               q == IF blocking THEN Zero ELSE harg[h].stream
    <2>1. /\ hpc[h] = "enqueue" /\ hpc' = [hpc EXCEPT ![h] = IF blocking THEN "drain" ELSE "idle"]
          /\ ops' = [ops EXCEPT ![q] = Append(@, harg[h].op)] /\ streams' = streams /\ harg' = harg
          /\ hidx' = [hidx EXCEPT ![h] = 0]
      BY <1>6 DEF PushEnqueue, HostGoto
    <2>2. Pushing(h) /\ harg[h].op \in Operations /\ harg[h].op.host = h /\ q \in Queues
          /\ (~blocking => q \in Listed)
      BY <1>c, <1>t, <2>1 DEF Pushing, CallsAlone, IInv, UidsUnique, Queues
    <2>3. /\ Len(ops'[q]) = Len(ops[q]) + 1 /\ ops'[q][Len(ops[q]) + 1] = harg[h].op
          /\ \A i \in 1..Len(ops[q]) : ops'[q][i] = ops[q][i]
      <3>1. ops'[q] = Append(ops[q], harg[h].op) /\ ops[q] \in Seq(Operations)
        BY <1>t, <2>1, <2>2 DEF TypeOK
      <3>2. ops[q] \in Seq(Operations) /\ harg[h].op \in Operations
        BY <2>2, <3>1
      <3> HIDE DEF q, blocking
      <3>3. LET s == Append(ops[q], harg[h].op)
            IN /\ Len(s) = Len(ops[q]) + 1 /\ s[Len(ops[q]) + 1] = harg[h].op
               /\ \A i \in 1..Len(ops[q]) : s[i] = ops[q][i]
        BY ONLY <3>2, AppendFacts
      <3> QED BY <3>1, <3>3
    <2>4. ASSUME NEW g \in Hosts, g # h, NEW r \in Queues, NoOwn(g, r) PROVE Clear(g, r)
      <3>1. CASE r = q
        <4>1. Len(ops[q]) \in Nat
          BY <1>t, <2>2 DEF TypeOK
        <4>2. \A i \in 1..Len(ops'[q]) : i \in 1..Len(ops[q]) \/ i = Len(ops[q]) + 1
          BY <2>3, <4>1
        <4> QED BY <2>2, <2>3, <2>4, <3>1, <4>2 DEF NoOwn
      <3>2. CASE r # q
        <4>1. ops'[r] = ops[r]
          BY <1>t, <2>1, <2>2, <3>2 DEF TypeOK
        <4> QED BY <2>4, <4>1 DEF NoOwn
      <3> QED BY <3>1, <3>2
    <2>5. /\ \A g \in Hosts : g # h => hpc'[g] = hpc[g] /\ hidx'[g] = hidx[g]
          /\ hpc'[h] \in {"drain", "idle"} /\ hidx'[h] = 0 /\ Listed' = Listed /\ Calling(h)
          /\ \A g \in Hosts : Pushing(g)' => Pushing(g)
      BY <1>t, <2>1 DEF Listed, Calling, Pushing
    <2>6. CallsAlone'
      <3>1. \A s \in StreamIds : s \notin Listed => ops'[s] = <<>>
        <4>1. \A s \in StreamIds : s # q => ops'[s] = ops[s]
          BY <1>t, <2>1, <1>s DEF TypeOK
        <4>2. q \in StreamIds => q \in Listed
          BY <2>2, StreamConstants
        <4> QED BY <1>c, <4>1, <4>2 DEF CallsAlone
      <3> HIDE DEF q
      <3>2. \A f, g \in Hosts : hpc'[f] = "destroy" /\ f # g => ~Calling(g)'
        <4>1. \A g \in Hosts : Calling(g)' => Calling(g)
          BY <2>5 DEF Calling
        <4>2. \A g \in Hosts : hpc'[g] = "destroy" => hpc[g] = "destroy"
          BY <2>5
        <4> QED BY <1>c, <4>1, <4>2 DEF CallsAlone
      <3> QED BY <1>c, <2>1, <2>5, <3>1, <3>2 DEF CallsAlone
    <2>7. Passed'
      <3>1. ASSUME NEW g \in Hosts, hpc'[g] \in {"scan", "drain"}
            PROVE  hidx'[g] <= Len(streams) /\ \A i \in 1..hidx'[g] : Clear(g, streams[i])
        <4>1. CASE g = h
          BY <1>l, <2>5, <4>1
        <4>2. CASE g # h
          <5>1. hidx[g] <= Len(streams) /\ \A i \in 1..hidx[g] : i \in 1..Len(streams) /\ NoOwn(g, streams[i])
            BY <1>c, <1>l, <1>t, <2>5, <3>1, <4>2 DEF Passed
          <5>2. \A i \in 1..hidx[g] : streams[i] \in Queues /\ NoOwn(g, streams[i])
            BY <1>l, <1>s, <5>1
          <5>3. \A i \in 1..hidx[g] : Clear(g, streams[i])
            BY <2>1, <2>4, <4>2, <5>2 DEF NoOwn
          <5> QED BY <2>5, <4>2, <5>1, <5>3
        <4> QED BY <4>1, <4>2
      <3>2. ASSUME NEW g \in Hosts, hpc'[g] = "enqueue", harg[g].stream = NoStream \/ LaunchBlocking,
                   NEW s \in Listed
            PROVE  Clear(g, s)
        <4>1. g # h /\ hpc[g] = "enqueue" /\ s \in Queues
          BY <1>l, <1>s, <2>5, <3>2
        <4>2. NoOwn(g, s)
          BY <1>c, <3>2, <4>1 DEF Passed
        <4> QED BY <2>4, <4>1, <4>2
      <3>3. streams' = streams /\ harg' = harg /\ Listed' = Listed
        BY <2>1, <2>5
      <3>4. \A g, s : NoOwn(g, s)' <=> Clear(g, s)
        BY DEF NoOwn
      <3> HIDE DEF Clear, q, blocking
      <3> QED BY <3>1, <3>2, <3>3, <3>4 DEF Passed
    <2> QED BY <2>6, <2>7 DEF OwnInv
  \* A step of an unlocked empty().
  <1>e. ASSUME hpc[h] \in {"scan", "drain"}, Scanned(h)
        PROVE  hidx'[h] <= Len(streams) /\ \A i \in 1..hidx'[h] : NoOwn(h, streams[i])
    <2>1. hidx[h] <= Len(streams) /\ \A i \in 1..hidx[h] : NoOwn(h, streams[i])
      BY <1>c, <1>e DEF Passed
    <2>2. CASE ScanFails(h) \/ ScanEnds(h)
      <3>1. hidx'[h] = 0
        BY <1>t, <1>e, <2>2 DEF Scanned
      <3> QED BY <1>l, <3>1
    <2>3. CASE ~(ScanFails(h) \/ ScanEnds(h))
      <3>1. hidx'[h] = hidx[h] + 1
        BY <1>t, <1>e, <2>3 DEF Scanned
      <3>2. hidx[h] < Len(streams) /\ ops[streams[hidx[h] + 1]] = <<>>
        BY <1>t, <1>l, <2>3 DEF ScanFails, ScanEnds, ScanNext
      <3>3. NoOwn(h, streams[hidx[h] + 1])
        BY <3>2 DEF NoOwn
      <3>4. \A i \in 1..(hidx[h] + 1) : i \in 1..hidx[h] \/ i = hidx[h] + 1
        BY <1>t
      <3> QED BY <1>l, <1>t, <2>1, <3>1, <3>2, <3>3, <3>4
    <2> QED BY <2>2, <2>3
  <1>7. ASSUME PushDrain(h) PROVE OwnInv'
    <2>1. /\ Same /\ hpc[h] = "drain" /\ hpc'[h] \in {"idle", "drain"} /\ harg' = harg
          /\ \A g \in Hosts : g # h => hpc'[g] = hpc[g] /\ hidx'[g] = hidx[g]
          /\ Scanned(h)
      BY <1>t, <1>7 DEF PushDrain, HostGoto, Scanned
    <2> QED BY <1>e, <1>o, <2>1 DEF Calling, Pushing
  <1>8. ASSUME SyncScan(h) PROVE OwnInv'
    <2>1. /\ Same /\ hpc[h] = "scan" /\ hpc'[h] \in {"idle", "sync", "scan"} /\ harg' = harg
          /\ \A g \in Hosts : g # h => hpc'[g] = hpc[g] /\ hidx'[g] = hidx[g]
          /\ Scanned(h)
      BY <1>t, <1>8 DEF SyncScan, HostGoto, Scanned
    <2> QED BY <1>e, <1>o, <2>1 DEF Calling, Pushing
  <1>9. ASSUME StreamSyncReturn(h) \/ ExitCall(h) \/ ExitReturn(h) PROVE OwnInv'
    <2>1. /\ Same /\ hpc'[h] \in {"idle", "exitwait", "exited"} /\ harg' = harg /\ hidx' = hidx
          /\ \A g \in Hosts : g # h => hpc'[g] = hpc[g]
      BY <1>t, <1>9 DEF StreamSyncReturn, ExitCall, ExitReturn, HostGoto
    <2> QED BY <1>o, <2>1 DEF Calling, Pushing
  <1>10. ASSUME SyncRound(h) PROVE OwnInv'
    <2>1. /\ Same /\ hpc'[h] = "scan" /\ harg' = harg /\ hidx'[h] = 0 /\ ~Destroying
          /\ \A g \in Hosts : g # h => hpc'[g] = hpc[g] /\ hidx'[g] = hidx[g]
      BY <1>t, <1>10 DEF SyncRound, HostGoto
    <2> QED BY <1>l, <1>o, <2>1 DEF Calling, Pushing
  <1>11. ASSUME DestroyReturn(h) PROVE OwnInv'
    <2>1. PICK i \in DOMAIN streams : streams[i] = harg[h].stream /\ streams' = RemoveAt(streams, i)
      BY <1>11 DEF DestroyReturn
    <2>2. /\ hpc[h] = "destroy" /\ hpc'[h] = "idle" /\ ops' = ops /\ harg' = harg /\ hidx' = hidx
          /\ \A g \in Hosts : g # h => hpc'[g] = hpc[g]
          /\ ops[harg[h].stream] = <<>>
      BY <1>t, <1>11 DEF DestroyReturn, HostGoto
    <2>3. \A g \in Hosts : g # h => ~Calling(g)
      BY <1>c, <2>2 DEF CallsAlone
    <2>4. \A g \in Hosts : ~Calling(g)'
      BY <2>2, <2>3 DEF Calling
    <2>5. \A s \in Listed : s # harg[h].stream => s \in Listed'
      <3>1. streams \in Seq(StreamIds)
        BY <1>t DEF TypeOK
      <3> QED BY <2>1, <3>1, RemoveAtFacts DEF Listed
    <2>6. \A s \in StreamIds : s \notin Listed' => ops'[s] = <<>>
      BY <1>c, <2>2, <2>5 DEF CallsAlone
    <2>7. \A g \in Hosts : hpc'[g] \in {"idle", "exitwait", "exited"}
      BY <2>4 DEF Calling
    <2> QED BY <2>6, <2>7 DEF OwnInv, CallsAlone, Passed, Calling, Pushing
  <1> HIDE DEF Same
  <1> QED BY <1>1, <1>2, <1>3, <1>4, <1>5, <1>6, <1>7, <1>8, <1>9, <1>10, <1>11 DEF Host

\* Every step keeps them.
LEMMA OwnStep ==
  ASSUME IInv, TypeOK', OwnInv, [Next]_vars
  PROVE  OwnInv'
  <1> USE DEF queueVars, gpuVars, simVars, hostVars
  <1>t. TypeOK
    BY DEF IInv
  <1> DEFINE Popped == \A q \in Queues : ops'[q] = ops[q] \/ (ops[q] # <<>> /\ ops'[q] = Tail(ops[q]))
  <1>1. CASE UNCHANGED vars
    BY <1>t, <1>1, OwnShrinks DEF vars
  <1>2. ASSUME NEW h \in Hosts, Host(h) PROVE OwnInv'
    BY <1>2, OwnHost
  <1>3. CASE SimStep
    <2>1. UNCHANGED <<streams, hpc, harg, hidx>>
      BY <1>3 DEF SimStep, SpinEnd, Activate, FinishKernel, FrontZero, FrontConcurrent, DoNothing,
           DoCopy, DoLaunch, DoFunctional, DoNoSlot, After, LoopTest, Deactivate, KernelFinish, CycleEnd
    <2>2. ASSUME NEW q \in Queues, RecordNextDone(q), ops[q] # <<>> PROVE Popped
      BY <1>t, <2>2 DEF RecordNextDone, TypeOK
    <2>3. Popped
      <3>1. ASSUME \/ SpinEnd \/ Activate \/ FrontZero \/ FrontConcurrent \/ After \/ LoopTest
                   \/ Deactivate \/ DoNothing \/ DoLaunch \/ DoNoSlot
                   \/ \E u \in running : KernelFinish(u)
                   \/ \E traffic \in BOOLEAN : CycleEnd(traffic)
            PROVE  ops' = ops
        BY <3>1 DEF SpinEnd, Activate, FrontZero, FrontConcurrent, After, LoopTest, Deactivate,
             DoNothing, DoLaunch, DoNoSlot, KernelFinish, CycleEnd
      <3>2. ASSUME FinishKernel PROVE Popped
        <4>1. CASE finished = <<>>
          BY <3>2, <4>1 DEF FinishKernel
        <4>2. CASE finished # <<>>
          BY <2>2, <3>2, <4>2, RetiredQueue DEF FinishKernel, OnItsStream
        <4> QED BY <4>1, <4>2
      <3>3. ASSUME DoCopy \/ DoFunctional PROVE Popped
        <4>1. RecordNextDone(cur.stream) /\ cur.stream \in Queues
          BY <3>3, RetiredQueue DEF DoCopy, DoFunctional
        <4>2. ops[cur.stream] # <<>>
          BY <3>3 DEF DoCopy, DoFunctional, IInv, CurrentIsHead
        <4> QED BY <2>2, <4>1, <4>2
      <3> QED BY <1>3, <3>1, <3>2, <3>3 DEF SimStep
    <2> QED BY <1>t, <2>1, <2>3, OwnShrinks
  <1> QED BY <1>1, <1>2, <1>3 DEF Next

\* Both invariants, of the host threads' calls.
THEOREM OwnHolds == Spec => [](IInv /\ OwnInv)
  <1>1. Init => OwnInv
    BY DEF Init, OwnInv, CallsAlone, Passed, Pushing, Queues, Calling
  <1>2. IInv /\ IInv' /\ OwnInv /\ [Next]_vars => OwnInv'
    BY OwnStep DEF IInv
  <1> QED BY <1>1, <1>2, Inductive, PTL DEF Spec

\* NullStreamSerial: the loop at the start of push() lets an operation on stream zero
\* through only when nothing of its thread is left on another stream.
THEOREM NullStreamSerialHolds == Spec => NullStreamSerial
  <1>1. IInv /\ OwnInv /\ [Next]_vars =>
          [\A h \in Hosts : PushEnqueue(h) /\ Len(ops'[Zero]) > Len(ops[Zero])
             => \A s \in Listed : \A i \in DOMAIN ops[s] : ops[s][i].host # h]_vars
    <2> SUFFICES ASSUME IInv, OwnInv, NEW h \in Hosts, PushEnqueue(h), Len(ops'[Zero]) > Len(ops[Zero]),
                        NEW s \in Listed, NEW i \in DOMAIN ops[s]
                 PROVE  ops[s][i].host # h
      OBVIOUS
    <2>t. TypeOK
      BY DEF IInv
    <2>1. harg[h].stream = NoStream \/ LaunchBlocking
      <3>1. SUFFICES ASSUME ~(harg[h].stream = NoStream \/ LaunchBlocking) PROVE FALSE
        OBVIOUS
      <3>2. harg[h].stream \in StreamIds /\ harg[h].stream # Zero
        BY <2>t, <3>1, StreamConstants DEF TypeOK
      <3>3. ops'[Zero] = ops[Zero]
        BY <2>t, <3>1, <3>2 DEF PushEnqueue, TypeOK, Queues
      <3>4. Len(ops[Zero]) \in Nat
        BY <2>t DEF TypeOK, Queues
      <3> QED BY <3>3, <3>4
    <2>2. NoOwn(h, s)
      BY <2>1 DEF OwnInv, Passed, PushEnqueue
    <2>3. s \in Queues
      BY <2>t, ListedFacts DEF Queues
    <2>4. ops[s] \in Seq(Operations)
      BY <2>t, <2>3 DEF TypeOK
    <2>5. i \in 1..Len(ops[s])
      BY <2>4
    <2> QED BY <2>2, <2>5 DEF NoOwn
  <1> QED BY <1>1, OwnHolds, PTL DEF Spec, NullStreamSerial

\* The step with which a call that scans the queues returns.
LEMMA ScanReturns ==
  ASSUME TypeOK, NEW h \in Hosts, [Next]_vars, hpc[h] \in {"scan", "drain"}, hpc'[h] = "idle"
  PROVE  ScanEnds(h) /\ (hpc[h] = "scan" => SyncScan(h) /\ ~simActive)
  <1> USE DEF queueVars, gpuVars, simVars, hostVars
  <1>t. hpc \in [Hosts -> HostPcs]
    BY DEF TypeOK
  <1>1. hpc' # hpc
    OBVIOUS
  <1>2. PICK g \in Hosts : Host(g)
    <2>1. ~UNCHANGED vars
      BY <1>1 DEF vars
    <2>2. SimStep => hpc' = hpc
      BY DEF SimStep, SpinEnd, Activate, FinishKernel, FrontZero, FrontConcurrent, DoNothing,
           DoCopy, DoLaunch, DoFunctional, DoNoSlot, After, LoopTest, Deactivate, KernelFinish, CycleEnd
    <2> QED BY <1>1, <2>1, <2>2 DEF Next
  <1>3. \A x \in HostPcs : hpc' = [hpc EXCEPT ![g] = x] => g = h
    BY <1>t
  <1>4. g = h
    <2>1. ASSUME NEW s, NEW k,
                 \/ AddStream(g, s) \/ StreamSyncCall(g, s) \/ DestroyCall(g, s) \/ PushCall(g, s, k)
          PROVE  g = h
      BY <1>1, <1>3, <2>1 DEF AddStream, StreamSyncCall, DestroyCall, PushCall, HostGoto, HostPcs
    <2>2. ASSUME \/ PushBlock(g) \/ PushEnqueue(g) \/ PushDrain(g) \/ StreamSyncReturn(g)
                 \/ DestroyReturn(g) \/ SyncRound(g) \/ SyncScan(g) \/ ExitCall(g) \/ ExitReturn(g)
          PROVE  g = h
      BY <1>1, <1>3, <2>2 DEF PushBlock, PushEnqueue, PushDrain, StreamSyncReturn, DestroyReturn,
           SyncRound, SyncScan, ExitCall, ExitReturn, HostGoto, HostPcs
    <2> QED BY <1>2, <2>1, <2>2 DEF Host
  <1>5. PushDrain(h) \/ SyncScan(h)
    BY <1>2, <1>4 DEF Host, AddStream, StreamSyncCall, DestroyCall, PushCall, PushBlock, PushEnqueue,
         StreamSyncReturn, DestroyReturn, SyncRound, ExitCall, ExitReturn
  <1>6. ASSUME PushDrain(h) PROVE ScanEnds(h) /\ hpc[h] = "drain"
    BY <1>t, <1>6 DEF PushDrain, HostGoto
  <1>7. ASSUME SyncScan(h) PROVE ScanEnds(h) /\ ~simActive
    BY <1>t, <1>7 DEF SyncScan, HostGoto
  <1> QED BY <1>5, <1>6, <1>7

\* What a scan that ends has seen: stream zero, and every stream of the list.
LEMMA ScanSees ==
  ASSUME IInv, OwnInv, NEW h \in Hosts, hpc[h] \in {"scan", "drain"}, ScanEnds(h)
  PROVE  /\ ops[Zero] = <<>>
         /\ \A s \in Listed : \E i \in 1..hidx[h] : streams[i] = s
  <1>1. hidx[h] >= Len(streams) /\ hidx[h] \in Nat /\ Len(streams) \in Nat
    BY ListedFacts DEF ScanEnds, IInv, TypeOK
  <1>2. \A i \in 1..Len(streams) : i \in 1..hidx[h]
    BY <1>1
  <1> QED BY <1>2, ListedFacts DEF ScanEnds, IInv

\* CallsWaitForOwnWork: when synchronize() or a blocking push() returns, nothing its
\* thread pushed is left, although empty() reads the queues one by one, unlocked.
THEOREM CallsWaitHolds == Spec => CallsWaitForOwnWork
  <1>1. IInv /\ OwnInv /\ [Next]_vars =>
          [\A h \in Hosts : hpc[h] \in {"scan", "drain"} /\ hpc'[h] = "idle" => OwnDone(h)]_vars
    <2> SUFFICES ASSUME IInv, OwnInv, [Next]_vars, NEW h \in Hosts,
                        hpc[h] \in {"scan", "drain"}, hpc'[h] = "idle"
                 PROVE  OwnDone(h)
      OBVIOUS
    <2>t. TypeOK
      BY DEF IInv
    <2>1. ScanEnds(h)
      BY <2>t, ScanReturns
    <2>2. ASSUME NEW q \in Queues PROVE NoOwn(h, q)
      <3>1. CASE q = Zero
        BY <2>1, <3>1, ScanSees DEF NoOwn
      <3>2. CASE q \in Listed
        BY <2>1, <3>2, ScanSees DEF OwnInv, Passed
      <3>3. CASE q \in StreamIds /\ q \notin Listed
        BY <3>3 DEF OwnInv, CallsAlone, NoOwn
      <3> QED BY <3>1, <3>2, <3>3 DEF Queues
    <2>3. \A q \in Queues : DOMAIN ops[q] = 1..Len(ops[q])
      BY <2>t DEF TypeOK
    <2> QED BY <2>2, <2>3 DEF OwnDone, NoOwn
  <1> QED BY <1>1, OwnHolds, PTL DEF Spec, CallsWaitForOwnWork

-----------------------------------------------------------------------------
(* synchronize() and exit_simulation() find the GPU idle.                   *)

\* g_sim_active is false only outside the inner loop, and g_sim_signal_exit is
\* posted by a thread that has left.
SimFlags ==
  /\ ~simActive => spc \in {"spin", "activate", "exited"}
  /\ spc = "exited" => ~simActive
  /\ exitSem > 0 => spc = "exited"

\* A scan of synchronize() holds g_sim_lock; if it began with the simulation thread
\* outside its loop, no finished kernel is of a stream it has passed.
Seen ==
  /\ \A h \in Hosts : hpc[h] = "scan" => simLock = h
  /\ \A h \in Hosts : hpc[h] = "scan" /\ ~simActive =>
       \A i \in 1..hidx[h] : \A k \in 1..Len(finished) : gridStream[finished[k]] # streams[i]

\* Every step keeps the flags.
LEMMA FlagsStep ==
  ASSUME TypeOK, SimFlags, [Next]_vars
  PROVE  SimFlags'
  <1> USE DEF queueVars, gpuVars, simVars, hostVars, SimFlags
  <1>1. CASE UNCHANGED vars
    BY <1>1 DEF vars
  <1>2. ASSUME NEW h \in Hosts, Host(h) PROVE SimFlags'
    <2>1. UNCHANGED <<spc, simActive>> /\ exitSem' \in {exitSem, exitSem - 1}
      BY <1>2 DEF Host, AddStream, StreamSyncCall, DestroyCall, PushCall, PushBlock,
           PushEnqueue, PushDrain, StreamSyncReturn, DestroyReturn, SyncRound,
           SyncScan, ExitCall, ExitReturn
    <2>2. exitSem \in Nat
      BY DEF TypeOK
    <2> QED BY <2>1, <2>2
  <1>3. ASSUME \/ SpinEnd \/ Activate \/ FinishKernel \/ FrontZero
               \/ FrontConcurrent \/ Deactivate
        PROVE  SimFlags'
    BY <1>3 DEF SpinEnd, Activate, FinishKernel, FrontZero, FrontConcurrent, Deactivate, TypeOK
  <1>4. ASSUME DoNothing \/ DoCopy \/ DoLaunch \/ DoFunctional \/ DoNoSlot
        PROVE  SimFlags'
    BY <1>4 DEF DoNothing, DoCopy, DoLaunch, DoFunctional, DoNoSlot, DoLeave
  <1>5. ASSUME After \/ LoopTest PROVE SimFlags'
    BY <1>5 DEF After, AfterGoes, LoopTest
  <1>6. ASSUME NEW u, KernelFinish(u) PROVE SimFlags'
    BY <1>6 DEF KernelFinish
  <1>7. ASSUME NEW traffic, CycleEnd(traffic) PROVE SimFlags'
    BY <1>7 DEF CycleEnd
  <1> QED BY <1>1, <1>2, <1>3, <1>4, <1>5, <1>6, <1>7 DEF Next, SimStep

\* Every step keeps what a scan has seen: while it runs the simulation thread neither
\* enters nor leaves its loop, which takes g_sim_lock.
LEMMA SeenStep ==
  ASSUME IInv, OwnInv, SimFlags, Seen, [Next]_vars
  PROVE  Seen'
  <1> USE DEF queueVars, gpuVars, simVars, hostVars
  <1>t. /\ TypeOK /\ hpc \in [Hosts -> HostPcs] /\ hidx \in [Hosts -> Nat]
        /\ \A g \in Hosts : hidx[g] \in Nat
    BY DEF IInv, TypeOK
  <1>l. /\ Len(streams) \in Nat
        /\ \A h \in Hosts : hpc[h] = "scan" => hidx[h] <= Len(streams)
    BY <1>t, ListedFacts DEF OwnInv, Passed
  <1>n. None \notin Hosts
    BY StreamConstants
  <1>1. CASE UNCHANGED vars
    BY <1>1 DEF vars, Seen
  <1>2. CASE SimStep
    <2>1. UNCHANGED <<streams, hpc, hidx, simLock>>
      BY <1>2 DEF SimStep, SpinEnd, Activate, FinishKernel, FrontZero, FrontConcurrent, DoNothing,
           DoCopy, DoLaunch, DoFunctional, DoNoSlot, After, LoopTest, Deactivate, KernelFinish, CycleEnd
    <2>2. ASSUME NEW h \in Hosts, hpc[h] = "scan", ~simActive'
          PROVE  ~simActive /\ UNCHANGED <<finished, gridStream>>
      <3>1. simLock # None
        BY <1>n, <2>2 DEF Seen
      <3>2. CASE simActive
        BY <1>2, <2>2, <3>1, <3>2 DEF SimStep, SpinEnd, Activate, FinishKernel, FrontZero, FrontConcurrent,
           DoNothing, DoCopy, DoLaunch, DoFunctional, DoNoSlot, After, LoopTest, Deactivate, KernelFinish, CycleEnd
      <3>3. CASE ~simActive
        <4>1. SpinEnd
          BY <1>2, <3>1, <3>3 DEF SimFlags, SimStep, Activate, FinishKernel, FrontZero, FrontConcurrent,
             DoNothing, DoCopy, DoLaunch, DoFunctional, DoNoSlot, After, LoopTest, Deactivate, KernelFinish, CycleEnd
        <4> QED BY <3>3, <4>1 DEF SpinEnd
      <3> QED BY <3>2, <3>3
    <2> QED BY <2>1, <2>2 DEF Seen
  <1>3. ASSUME NEW h \in Hosts, Host(h) PROVE Seen'
    \* The steps of h, whose place it changes, with what they leave.
    <2>o. ASSUME UNCHANGED <<simActive, finished, gridStream>>,
                 \A g \in Hosts : g # h => hpc'[g] = hpc[g] /\ hidx'[g] = hidx[g],
                 \A i \in 1..Len(streams) : streams'[i] = streams[i],
                 hpc'[h] = "scan" => simLock' = h /\ (simLock = h \/ simLock = None),
                 hpc'[h] # "scan" => simLock' = simLock \/ simLock = h,
                 hpc'[h] = "scan" /\ ~simActive =>
                    \A i \in 1..hidx'[h] : \A k \in 1..Len(finished) : gridStream[finished[k]] # streams'[i]
          PROVE  Seen'
      <3>1. ASSUME NEW g \in Hosts, hpc'[g] = "scan" PROVE simLock' = g
        BY <1>n, <2>o, <3>1 DEF Seen
      <3>2. ASSUME NEW g \in Hosts, hpc'[g] = "scan", ~simActive, NEW i \in 1..hidx'[g],
                   NEW k \in 1..Len(finished)
            PROVE  gridStream[finished[k]] # streams'[i]
        <4>1. CASE g = h
          BY <2>o, <3>2, <4>1
        <4>2. CASE g # h
          <5>1. hidx[g] <= Len(streams) /\ hidx[g] \in Nat /\ i \in 1..hidx[g] /\ hpc[g] = "scan"
            BY <1>l, <1>t, <2>o, <3>2, <4>2
          <5>2. i \in 1..Len(streams)
            BY <1>l, <5>1
          <5> QED BY <2>o, <3>2, <5>1, <5>2 DEF Seen
        <4> QED BY <4>1, <4>2
      <3> QED BY <2>o, <3>1, <3>2 DEF Seen
    <2>1. ASSUME NEW s \in StreamIds, AddStream(h, s) PROVE Seen'
      <3>1. \A i \in 1..Len(streams) : streams'[i] = streams[i]
        BY <1>t, <2>1, AppendFacts DEF TypeOK, AddStream
      <3> QED BY <2>1, <2>o, <3>1 DEF AddStream
    <2>2. ASSUME NEW s, NEW k, StreamSyncCall(h, s) \/ DestroyCall(h, s) \/ PushCall(h, s, k) PROVE Seen'
      <3>1. /\ UNCHANGED <<simActive, finished, gridStream, streams, simLock>> /\ hpc'[h] # "scan"
            /\ \A g \in Hosts : g # h => hpc'[g] = hpc[g] /\ hidx'[g] = hidx[g]
        BY <1>t, <2>2 DEF StreamSyncCall, DestroyCall, PushCall, HostGoto
      <3> QED BY <2>o, <3>1
    <2>3. ASSUME \/ PushBlock(h) \/ PushEnqueue(h) \/ PushDrain(h) \/ StreamSyncReturn(h)
                 \/ ExitCall(h) \/ ExitReturn(h)
          PROVE  Seen'
      <3>1. /\ UNCHANGED <<simActive, finished, gridStream, streams, simLock>> /\ hpc'[h] # "scan"
            /\ \A g \in Hosts : g # h => hpc'[g] = hpc[g] /\ hidx'[g] = hidx[g]
        BY <1>t, <2>3 DEF PushBlock, PushEnqueue, PushDrain, Scanned, StreamSyncReturn, ExitCall,
             ExitReturn, HostGoto
      <3> QED BY <2>o, <3>1
    <2>4. ASSUME DestroyReturn(h) PROVE Seen'
      <3>1. /\ hpc[h] = "destroy" /\ hpc'[h] = "idle"
            /\ \A g \in Hosts : g # h => hpc'[g] = hpc[g]
        BY <1>t, <2>4 DEF DestroyReturn, HostGoto
      <3>2. \A g \in Hosts : hpc'[g] # "scan"
        BY <3>1 DEF OwnInv, CallsAlone, Calling
      <3> QED BY <3>2 DEF Seen
    <2>5. ASSUME SyncRound(h) PROVE Seen'
      <3>1. /\ UNCHANGED <<simActive, finished, gridStream, streams>> /\ hpc'[h] = "scan"
            /\ simLock = None /\ simLock' = h /\ hidx'[h] = 0
            /\ \A g \in Hosts : g # h => hpc'[g] = hpc[g] /\ hidx'[g] = hidx[g]
        BY <1>t, <2>5 DEF SyncRound, HostGoto
      <3> QED BY <2>o, <3>1
    <2>6. ASSUME SyncScan(h) PROVE Seen'
      <3>1. /\ UNCHANGED <<simActive, finished, gridStream, streams>> /\ hpc[h] = "scan" /\ Scanned(h)
            /\ \A g \in Hosts : g # h => hpc'[g] = hpc[g] /\ hidx'[g] = hidx[g]
            /\ simLock = h
        BY <1>t, <2>6 DEF SyncScan, HostGoto, Scanned, Seen
      <3>2. CASE ScanFails(h) \/ ScanEnds(h)
        <4>1. hpc'[h] # "scan"
          BY <1>t, <2>6, <3>2 DEF SyncScan, HostGoto
        <4> QED BY <2>o, <3>1, <4>1
      <3>3. CASE ~(ScanFails(h) \/ ScanEnds(h))
        <4>1. simLock' = simLock /\ hpc' = hpc /\ hidx'[h] = hidx[h] + 1
          BY <1>t, <2>6, <3>3 DEF SyncScan, Scanned
        <4>2. ops[streams[hidx[h] + 1]] = <<>>
          BY <1>t, <1>l, <3>3 DEF ScanFails, ScanEnds, ScanNext
        <4>3. ASSUME NEW k \in 1..Len(finished) PROVE gridStream[finished[k]] # streams[hidx[h] + 1]
          BY <4>2 DEF IInv, GridMap, OnItsStream
        <4>4. \A i \in 1..(hidx[h] + 1) : i \in 1..hidx[h] \/ i = hidx[h] + 1
          BY <1>t
        <4>5. ~simActive =>
                \A i \in 1..hidx'[h] : \A k \in 1..Len(finished) : gridStream[finished[k]] # streams[i]
          BY <3>1, <4>1, <4>3, <4>4 DEF Seen
        <4> QED BY <2>o, <3>1, <4>1, <4>5
      <3> QED BY <3>2, <3>3
    <2> QED BY <1>3, <2>1, <2>2, <2>3, <2>4, <2>5, <2>6 DEF Host
  <1> QED BY <1>1, <1>2, <1>3 DEF Next

\* When synchronize() returns the GPU is idle: a kernel finished but not retired is the
\* head of a stream the scan would have found.
LEMMA SyncIdle ==
  ASSUME IInv, OwnInv, IdleOutside, SimFlags, Seen, [Next]_vars,
         NEW h \in Hosts, hpc[h] = "scan", hpc'[h] = "idle"
  PROVE  running = {} /\ finished = <<>> /\ ~busy
  <1>1. ScanEnds(h) /\ ~simActive
    BY ScanReturns DEF IInv
  <1>2. ~Active
    BY <1>1 DEF SimFlags, IdleOutside
  <1>3. finished = <<>>
    <2>1. SUFFICES ASSUME finished # <<>> PROVE FALSE
      OBVIOUS
    <2>2. finished \in Seq(Uids)
      BY DEF IInv, TypeOK
    <2>3. 1 \in 1..Len(finished)
      BY <2>1, <2>2, TailFacts
    <2> DEFINE q == gridStream[finished[1]]
    <2>4. q \in Queues /\ pending[q] /\ ops[q] # <<>>
      BY <2>3 DEF IInv, GridMap, OnItsStream
    <2>5. q \in Listed
      BY <1>1, <2>4, ScanSees DEF Queues, IInv, PendingListed
    <2>6. PICK i \in 1..hidx[h] : streams[i] = q
      BY <1>1, <2>5, ScanSees
    <2> QED BY <1>1, <2>3, <2>6 DEF Seen
  <1> QED BY <1>2, <1>3 DEF Active

\* GpuQuiescent: init(), synchronize() and exit_simulation() each find the GPU idle,
\* although none of them takes a lock both sides use.
THEOREM GpuIsQuiescent == Spec => GpuQuiescent
  <1> DEFINE Inv == IInv /\ OwnInv /\ IdleOutside /\ SimFlags /\ Seen
             Synced == \A h \in Hosts : hpc[h] = "scan" /\ hpc'[h] = "idle" =>
                         running = {} /\ finished = <<>> /\ ~busy
             Exits == \A h \in Hosts : ExitReturn(h) => running = {} /\ ~busy /\ ~simActive
  <1>1. Init => IdleOutside /\ SimFlags /\ Seen
    BY DEF Init, IdleOutside, Active, SimFlags, Seen
  <1>2. IInv /\ OwnInv /\ IdleOutside /\ SimFlags /\ Seen /\ [Next]_vars => IdleOutside' /\ SimFlags' /\ Seen'
    BY IdleStep, FlagsStep, SeenStep DEF IInv
  <1>3. Spec => []Inv
    BY <1>1, <1>2, OwnHolds, PTL DEF Spec
  <1>4. Inv /\ [Next]_vars => [Synced]_vars
    BY SyncIdle
  <1>5. Inv /\ [Next]_vars => [Exits]_vars
    BY DEF ExitReturn, SimFlags, IdleOutside, Active
  <1>6. Spec => SyncQuiescent
    <2> HIDE DEF Inv
    <2> QED BY <1>3, <1>4, PTL DEF Spec, SyncQuiescent
  <1>7. Spec => ExitQuiescent
    <2> HIDE DEF Inv
    <2> QED BY <1>3, <1>5, PTL DEF Spec, ExitQuiescent
  <1> QED BY <1>6, <1>7, InitFindsIdle, PTL DEF GpuQuiescent
=============================================================================
