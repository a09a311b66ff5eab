------------------------- MODULE WarpBarriersProofs -------------------------
(* Proofs about WarpBarriers, for every number of warps, CTA slots and     *)
(* barriers and for every program of the warps.                            *)
EXTENDS WarpBarriers, SequenceTheorems, TLAPS

\* The barriers of __syncthreads(): every warp waits for every other.
OnlySync == \A op \in Ops : op.waits /\ op.count = EveryWarp

-----------------------------------------------------------------------------
(* Any programs: the bit sets and who may issue.                           *)

\* CTAs share no warp, and a running warp belongs to one.
Owned ==
  /\ \A c, d \in Ctas : c # d => ctaWarps[c] \cap ctaWarps[d] = {}
  /\ \A w \in active : \E c \in Ctas : w \in ctaWarps[c]

LEMMA HeadTail ==
  ASSUME NEW S, NEW s \in Seq(S), s # <<>>
  PROVE  Head(s) \in S /\ Tail(s) \in Seq(S) /\ Tail(s) # s
<1>1. Head(s) \in S /\ Tail(s) \in Seq(S) /\ Len(Tail(s)) = Len(s) - 1 /\ Len(s) \in Nat
  BY HeadTailProperties, LenProperties
<1>2. ASSUME Tail(s) = s PROVE FALSE
  <2>1. Len(Tail(s)) = Len(s)
    BY <1>2, Zenon
  <2>2. ASSUME NEW n \in Nat, NEW m, m = n - 1, m = n PROVE FALSE
    BY <2>2
  <2> QED
    BY <1>1, <2>1, <2>2, Zenon
<1> QED
  BY <1>1, <1>2

LEMMA TypeInit == Init => TypeOK /\ Owned
<1> SUFFICES ASSUME Init PROVE TypeOK /\ Owned
  OBVIOUS
<1> QED
  BY DEF Init, TypeOK, Owned

LEMMA AllocateType ==
  ASSUME TypeOK, Owned, NEW c \in Ctas, NEW ws \in CtaSets, Allocate(c, ws)
  PROVE  TypeOK' /\ Owned'
<1>1. ws \in SUBSET Warps
  BY BarrierConstants
<1>2. PICK program \in [ws -> UNION {Programs(w) : w \in ws}] :
        /\ \A w \in ws : program[w] \in Programs(w)
        /\ todo' = [w \in Warps |-> IF w \in ws THEN program[w] ELSE todo[w]]
  BY DEF Allocate
<1>3. \A w \in ws : program[w] \in Seq(Ops)
  BY <1>1, <1>2, BarrierConstants
<1>4. todo' \in [Warps -> Seq(Ops)]
      /\ \A w \in Warps : w \notin ws => todo'[w] = todo[w]
  BY <1>2, <1>3 DEF TypeOK
<1>5. /\ ctaWarps' = [ctaWarps EXCEPT ![c] = ws] /\ active' = active \cup ws
      /\ waiting' = waiting \ ws /\ arrived' = [b \in BarIds |-> arrived[b] \ ws]
      /\ last' = last
  BY DEF Allocate
<1>6. TypeOK'
  BY <1>1, <1>4, <1>5 DEF TypeOK
<1>7. Owned'
  <2>1. \A d \in Ctas : ws \cap ctaWarps[d] = {}
    BY DEF Allocate
  <2>2. \A d \in Ctas : ctaWarps'[d] = IF d = c THEN ws ELSE ctaWarps[d]
    BY <1>5 DEF TypeOK
  <2>3. ctaWarps[c] = {}
    BY DEF Allocate, Present
  <2> QED
    BY <2>1, <2>2, <2>3, <1>5 DEF Owned
<1> QED
  BY <1>6, <1>7

LEMMA ReachType ==
  ASSUME TypeOK, Owned, NEW c \in Ctas, NEW w \in Warps, Reach(c, w)
  PROVE  TypeOK' /\ Owned'
<1>1. /\ todo[w] # <<>> /\ todo' = [todo EXCEPT ![w] = Tail(@)]
      /\ last' = [last EXCEPT ![w] = Head(todo[w])]
      /\ UNCHANGED <<ctaWarps, active>>
  BY DEF Reach
<1>2. Head(todo[w]) \in Ops /\ Tail(todo[w]) \in Seq(Ops)
  BY <1>1, HeadTail DEF TypeOK
<1>3. Head(todo[w]).id \in BarIds
  BY <1>2, BarrierConstants
<1>4. todo' \in [Warps -> Seq(Ops)] /\ last' \in [Warps -> Ops \cup {NoOp}]
  BY <1>1, <1>2 DEF TypeOK
<1>5. arrived' \in [BarIds -> SUBSET Warps] /\ waiting' \in SUBSET Warps
  <2>1. PICK b \in BarIds, at \in SUBSET ctaWarps[c] :
          /\ \/ arrived' = [arrived EXCEPT ![b] = Cleared(b, at)]
             \/ arrived' = [arrived EXCEPT ![b] = @ \cup {w}]
          /\ waiting' \subseteq waiting \cup {w}
    <3>1. (arrived[Head(todo[w]).id] \cup {w}) \cap ctaWarps[c] \in SUBSET ctaWarps[c]
      OBVIOUS
    <3> QED
      BY <1>3, <3>1 DEF Reach
  <2> QED
    BY <2>1 DEF TypeOK, Cleared
<1>6. \A v \in Warps : todo'[v] # <<>> => v \in active'
  <2>1. \A v \in Warps : todo'[v] # <<>> => todo[v] # <<>>
    BY <1>1 DEF TypeOK
  <2> QED
    BY <2>1, <1>1 DEF TypeOK
<1> QED
  BY <1>1, <1>4, <1>5, <1>6 DEF TypeOK, Owned

LEMMA ExitType ==
  ASSUME TypeOK, Owned, NEW c \in Ctas, NEW w \in Warps, Exit(c, w)
  PROVE  TypeOK' /\ Owned'
BY DEF TypeOK, Owned, Exit, ThreadsDone, Cleared

LEMMA DeallocateType ==
  ASSUME TypeOK, Owned, NEW c \in Ctas, Deallocate(c)
  PROVE  TypeOK' /\ Owned'
<1>1. /\ ctaWarps' = [ctaWarps EXCEPT ![c] = {}] /\ active' = active \ ctaWarps[c]
      /\ waiting' = waiting \ ctaWarps[c]
      /\ arrived' = [b \in BarIds |-> arrived[b] \ ctaWarps[c]]
      /\ UNCHANGED <<last, todo>> /\ Live(c) = {}
  BY DEF Deallocate
<1>2. active' = active
  BY <1>1 DEF Live
<1>3. TypeOK'
  BY <1>1, <1>2 DEF TypeOK
<1>4. \A d \in Ctas : ctaWarps'[d] = IF d = c THEN {} ELSE ctaWarps[d]
  BY <1>1 DEF TypeOK
<1>5. Owned'
  <2>1. \A w \in active' : \E d \in Ctas : w \in ctaWarps'[d]
    BY <1>1, <1>2, <1>4 DEF Owned, Live
  <2> QED
    BY <2>1, <1>4 DEF Owned
<1> QED
  BY <1>3, <1>5

LEMMA TypeStep == TypeOK /\ Owned /\ [Next]_vars => TypeOK' /\ Owned'
<1> SUFFICES ASSUME TypeOK, Owned, [Next]_vars PROVE TypeOK' /\ Owned'
  OBVIOUS
<1>1. CASE UNCHANGED vars
  BY <1>1 DEF TypeOK, Owned, vars
<1>2. CASE Next
  BY <1>2, AllocateType, ReachType, ExitType, DeallocateType DEF Next
<1> QED
  BY <1>1, <1>2

\* The bit sets keep to the core's warps whatever the warps run, bar.arrive and
\* counts included, and a warp whose exit was noticed issues nothing more.
THEOREM TypeCorrect == Spec => []TypeOK
<1>1. Spec => [](TypeOK /\ Owned)
  BY TypeInit, TypeStep, PTL DEF Spec
<1> QED
  BY <1>1, PTL

-----------------------------------------------------------------------------
(* Programs of __syncthreads() only: nobody is stuck, nothing is left      *)
(* behind, every release is justified.                                     *)

\* A barrier's bits are the warps that wait at it.
Bits == \A b \in BarIds, w \in Warps : w \in arrived[b] <=> WaitsAt(w, b)

\* Only running warps wait, each because of a bar.sync it issued.
WaitersRun ==
  /\ waiting \subseteq active
  /\ \A w \in waiting : last[w] \in Ops

\* At every barrier some running warp of each CTA is missing.
Open == \A c \in Ctas, b \in BarIds : Live(c) # {} => \E w \in Live(c) : w \notin arrived[b]

SyncInv == TypeOK /\ Owned /\ Bits /\ WaitersRun /\ Open

LEMMA SyncInit == Init => SyncInv
<1> SUFFICES ASSUME Init PROVE SyncInv
  OBVIOUS
<1>1. TypeOK /\ Owned
  BY TypeInit
<1>2. Bits /\ WaitersRun
  BY DEF Init, Bits, WaitersRun, WaitsAt
<1>3. Open
  BY DEF Init, Open, Live
<1> QED
  BY <1>1, <1>2, <1>3 DEF SyncInv

\* A CTA is given warps nobody runs on: no bit is theirs.
LEMMA AllocateChanges ==
  ASSUME SyncInv, NEW c \in Ctas, NEW ws \in CtaSets, Allocate(c, ws)
  PROVE  /\ ws # {} /\ ws \cap active = {} /\ ws \in SUBSET Warps
         /\ \A d \in Ctas : ctaWarps'[d] = IF d = c THEN ws ELSE ctaWarps[d]
         /\ active' = active \cup ws
         /\ UNCHANGED <<waiting, arrived, last>>
         /\ \A w \in Warps : todo[w] # <<>> => todo'[w] = todo[w]
<1>1. ws # {} /\ ws \in SUBSET Warps
  BY BarrierConstants
<1>2. ws \cap active = {}
  BY DEF SyncInv, Owned, Allocate
<1>3. /\ ctaWarps' = [ctaWarps EXCEPT ![c] = ws] /\ active' = active \cup ws
      /\ waiting' = waiting \ ws /\ arrived' = [b \in BarIds |-> arrived[b] \ ws]
      /\ last' = last
  BY DEF Allocate
<1>4. waiting' = waiting
  BY <1>2, <1>3 DEF SyncInv, WaitersRun
<1>5. \A b \in BarIds : arrived[b] \ ws = arrived[b]
  BY <1>1, <1>2 DEF SyncInv, WaitersRun, Bits, WaitsAt
<1>6. arrived' = arrived
  BY <1>3, <1>5 DEF SyncInv, TypeOK
<1>7. \A w \in Warps : todo[w] # <<>> => todo'[w] = todo[w]
  <2>1. PICK program :
          todo' = [w \in Warps |-> IF w \in ws THEN program[w] ELSE todo[w]]
    BY DEF Allocate
  <2>2. \A w \in ws : todo[w] = <<>>
    BY <1>1, <1>2 DEF SyncInv, TypeOK
  <2> QED
    BY <2>1, <2>2
<1>8. \A d \in Ctas : ctaWarps'[d] = IF d = c THEN ws ELSE ctaWarps[d]
  BY <1>3 DEF SyncInv, TypeOK
<1> QED
  BY <1>1, <1>2, <1>3, <1>4, <1>6, <1>7, <1>8

\* A warp at a barrier opens it for the CTA or waits there.
LEMMA ReachChanges ==
  ASSUME OnlySync, SyncInv, NEW c \in Ctas, NEW w \in Warps, Reach(c, w)
  PROVE  \E b \in BarIds :
           /\ Head(todo[w]) \in Ops /\ b = Head(todo[w]).id
           /\ w \in Live(c) /\ w \notin waiting /\ w \notin arrived[b]
           /\ todo[w] # <<>> /\ todo' = [todo EXCEPT ![w] = Tail(@)]
           /\ last' = [last EXCEPT ![w] = Head(todo[w])]
           /\ UNCHANGED <<ctaWarps, active>>
           /\ (arrived[b] \cup {w}) \cap ctaWarps[c] \subseteq Live(c)
           /\ \/ /\ (arrived[b] \cup {w}) \cap ctaWarps[c] = Live(c)
                 /\ arrived' = [arrived EXCEPT ![b] = @ \ Live(c)]
                 /\ waiting' = waiting \ Live(c)
              \/ /\ (arrived[b] \cup {w}) \cap ctaWarps[c] # Live(c)
                 /\ arrived' = [arrived EXCEPT ![b] = @ \cup {w}]
                 /\ waiting' = waiting \cup {w}
<1>1. /\ todo[w] # <<>> /\ todo' = [todo EXCEPT ![w] = Tail(@)]
      /\ last' = [last EXCEPT ![w] = Head(todo[w])]
      /\ UNCHANGED <<ctaWarps, active>>
      /\ w \in ctaWarps[c] /\ w \notin waiting
  BY DEF Reach
<1>2. Head(todo[w]) \in Ops
  BY <1>1, HeadTail DEF SyncInv, TypeOK
<1>3. PICK b \in BarIds : b = Head(todo[w]).id
  BY <1>2, BarrierConstants
<1>4. w \in Live(c)
  BY <1>1 DEF SyncInv, TypeOK, Live
<1>5. w \notin arrived[b]
  BY <1>1 DEF SyncInv, Bits, WaitsAt
<1>6. (arrived[b] \cup {w}) \cap ctaWarps[c] \subseteq Live(c)
  BY <1>4 DEF SyncInv, TypeOK, Bits, WaitersRun, WaitsAt, Live
<1>7. /\ Head(todo[w]).waits
      /\ \A at : Complete(c, Head(todo[w]), at) <=> at = Live(c)
  BY <1>2 DEF OnlySync, Complete
<1>8. IF (arrived[b] \cup {w}) \cap ctaWarps[c] = Live(c)
      THEN /\ arrived' = [arrived EXCEPT ![b] = arrived[b] \ Live(c)]
           /\ waiting' = (waiting \cup {w}) \ Live(c)
      ELSE /\ arrived' = [arrived EXCEPT ![b] = @ \cup {w}]
           /\ waiting' = waiting \cup {w}
  BY <1>3, <1>7 DEF Reach, Cleared
<1>9. (waiting \cup {w}) \ Live(c) = waiting \ Live(c)
  BY <1>4
<1> QED
  BY <1>1, <1>2, <1>3, <1>4, <1>5, <1>6, <1>8, <1>9

\* A warp that exits opens the barriers where it was the only one missing.
LEMMA ExitChanges ==
  ASSUME SyncInv, NEW c \in Ctas, NEW w \in Warps, Exit(c, w)
  PROVE  /\ w \in Live(c) /\ w \notin waiting
         /\ active' = active \ {w}
         /\ UNCHANGED <<ctaWarps, last, todo>>
         /\ \A b \in BarIds : arrived[b] \cap ctaWarps[c] \subseteq Live(c) \ {w}
         /\ \A b \in BarIds :
              arrived'[b] = IF arrived[b] \cap ctaWarps[c] = Live(c) \ {w}
                            THEN arrived[b] \ ctaWarps[c] ELSE arrived[b]
         /\ \A v : v \in waiting' <=>
              /\ v \in waiting
              /\ ~ \E b \in BarIds : /\ arrived[b] \cap ctaWarps[c] = Live(c) \ {w}
                                    /\ v \in arrived[b] \cap ctaWarps[c]
<1>1. /\ w \in Live(c) /\ w \notin waiting /\ active' = active \ {w}
      /\ UNCHANGED <<ctaWarps, last, todo>>
  BY DEF Exit
<1>2. \A b \in BarIds : arrived[b] \cap ctaWarps[c] \subseteq Live(c) \ {w}
  BY <1>1 DEF SyncInv, TypeOK, Bits, WaitersRun, WaitsAt, Live
<1>3. \A b \in BarIds :
        arrived'[b] = IF arrived[b] \cap ctaWarps[c] = Live(c) \ {w}
                      THEN arrived[b] \ ctaWarps[c] ELSE arrived[b]
  BY DEF Exit, FreedByExit, Cleared
<1>4. \A v : v \in waiting' <=>
        /\ v \in waiting
        /\ ~ \E b \in BarIds : /\ arrived[b] \cap ctaWarps[c] = Live(c) \ {w}
                              /\ v \in arrived[b] \cap ctaWarps[c]
  BY DEF Exit, FreedByExit
<1> QED
  BY <1>1, <1>2, <1>3, <1>4

\* A CTA that has exited leaves its warps and no bit.
LEMMA DeallocateChanges ==
  ASSUME SyncInv, NEW c \in Ctas, Deallocate(c)
  PROVE  /\ Live(c) = {}
         /\ \A d \in Ctas : ctaWarps'[d] = IF d = c THEN {} ELSE ctaWarps[d]
         /\ UNCHANGED <<active, waiting, arrived, last, todo>>
<1>1. /\ ctaWarps' = [ctaWarps EXCEPT ![c] = {}] /\ active' = active \ ctaWarps[c]
      /\ waiting' = waiting \ ctaWarps[c]
      /\ arrived' = [b \in BarIds |-> arrived[b] \ ctaWarps[c]]
      /\ UNCHANGED <<last, todo>> /\ Live(c) = {}
  BY DEF Deallocate
<1>2. active' = active /\ waiting' = waiting
  BY <1>1 DEF SyncInv, WaitersRun, Live
<1>3. \A b \in BarIds : arrived[b] \ ctaWarps[c] = arrived[b]
  BY <1>1 DEF SyncInv, TypeOK, Bits, WaitersRun, WaitsAt, Live
<1>4. arrived' = arrived
  BY <1>1, <1>3 DEF SyncInv, TypeOK
<1>5. \A d \in Ctas : ctaWarps'[d] = IF d = c THEN {} ELSE ctaWarps[d]
  BY <1>1 DEF SyncInv, TypeOK
<1> QED
  BY <1>1, <1>2, <1>4, <1>5

LEMMA AllocateSync ==
  ASSUME SyncInv, NEW c \in Ctas, NEW ws \in CtaSets, Allocate(c, ws)
  PROVE  Bits' /\ WaitersRun' /\ Open'
<1>1. /\ ws # {} /\ ws \cap active = {} /\ ws \in SUBSET Warps
      /\ \A d \in Ctas : ctaWarps'[d] = IF d = c THEN ws ELSE ctaWarps[d]
      /\ active' = active \cup ws
      /\ UNCHANGED <<waiting, arrived, last>>
  BY AllocateChanges
<1>2. Bits' /\ WaitersRun'
  BY <1>1 DEF SyncInv, Bits, WaitersRun, WaitsAt
<1>3. ASSUME NEW d \in Ctas, NEW b \in BarIds, Live(d)' # {}
      PROVE  \E v \in Live(d)' : v \notin arrived'[b]
  <2>1. CASE d = c
    <3>1. Live(d)' = ws
      BY <1>1, <2>1 DEF Live
    <3>2. \A v \in ws : v \notin arrived[b]
      BY <1>1 DEF SyncInv, Bits, WaitersRun, WaitsAt
    <3> QED
      BY <3>1, <3>2, <1>1
  <2>2. CASE d # c
    <3>1. ws \cap ctaWarps[d] = {}
      BY DEF Allocate
    <3>2. Live(d)' = Live(d)
      BY <1>1, <2>2, <3>1 DEF Live
    <3> QED
      BY <3>2, <1>1, <1>3 DEF SyncInv, Open
  <2> QED
    BY <2>1, <2>2
<1> QED
  BY <1>2, <1>3 DEF Open

LEMMA ReachSync ==
  ASSUME OnlySync, SyncInv, NEW c \in Ctas, NEW w \in Warps, Reach(c, w)
  PROVE  Bits' /\ WaitersRun' /\ Open'
<1>1. PICK b \in BarIds :
        /\ Head(todo[w]) \in Ops /\ b = Head(todo[w]).id
        /\ w \in Live(c) /\ w \notin waiting /\ w \notin arrived[b]
        /\ last' = [last EXCEPT ![w] = Head(todo[w])]
        /\ UNCHANGED <<ctaWarps, active>>
        /\ (arrived[b] \cup {w}) \cap ctaWarps[c] \subseteq Live(c)
        /\ \/ /\ (arrived[b] \cup {w}) \cap ctaWarps[c] = Live(c)
              /\ arrived' = [arrived EXCEPT ![b] = @ \ Live(c)]
              /\ waiting' = waiting \ Live(c)
           \/ /\ (arrived[b] \cup {w}) \cap ctaWarps[c] # Live(c)
              /\ arrived' = [arrived EXCEPT ![b] = @ \cup {w}]
              /\ waiting' = waiting \cup {w}
  BY ReachChanges
<1>2. \A d \in Ctas : Live(d)' = Live(d)
  BY <1>1 DEF Live
<1>3. /\ last'[w].id = b /\ last'[w] \in Ops
      /\ \A v \in Warps : v # w => last'[v] = last[v]
  BY <1>1 DEF SyncInv, TypeOK
<1>4. \A a \in BarIds : w \notin arrived[a]
  BY <1>1 DEF SyncInv, Bits, WaitsAt
<1>5. CASE /\ (arrived[b] \cup {w}) \cap ctaWarps[c] = Live(c)
           /\ arrived' = [arrived EXCEPT ![b] = @ \ Live(c)]
           /\ waiting' = waiting \ Live(c)
  <2>1. \A a \in BarIds : arrived'[a] = IF a = b THEN arrived[b] \ Live(c) ELSE arrived[a]
    BY <1>5 DEF SyncInv, TypeOK
  <2>2. ASSUME NEW a \in BarIds, NEW v \in Warps
        PROVE  (v \in arrived[a] <=> WaitsAt(v, a))'
    <3>1. CASE v = w
      BY <3>1, <1>1, <1>4, <1>5, <2>1 DEF WaitsAt
    <3>2. CASE v # w
      <4>1. v \in Live(c) => v \in arrived[b]
        BY <3>2, <1>5
      <4>2. \A e \in BarIds : v \in arrived[e] <=> v \in waiting /\ last[v].id = e
        BY DEF SyncInv, Bits, WaitsAt
      <4> QED
        BY <4>1, <4>2, <3>2, <1>3, <1>5, <2>1 DEF WaitsAt
    <3> QED
      BY <3>1, <3>2
  <2>3. WaitersRun'
    BY <1>1, <1>3, <1>5 DEF SyncInv, WaitersRun, TypeOK
  <2>4. ASSUME NEW d \in Ctas, NEW a \in BarIds, Live(d)' # {}
        PROVE  \E v \in Live(d)' : v \notin arrived'[a]
    <3>1. PICK v \in Live(d) : v \notin arrived[a]
      BY <2>4, <1>2 DEF SyncInv, Open
    <3> QED
      BY <3>1, <1>2, <2>1
  <2> QED
    BY <2>2, <2>3, <2>4 DEF Bits, Open
<1>6. CASE /\ (arrived[b] \cup {w}) \cap ctaWarps[c] # Live(c)
           /\ arrived' = [arrived EXCEPT ![b] = @ \cup {w}]
           /\ waiting' = waiting \cup {w}
  <2>1. \A a \in BarIds : arrived'[a] = IF a = b THEN arrived[b] \cup {w} ELSE arrived[a]
    BY <1>6 DEF SyncInv, TypeOK
  <2>2. Bits'
    BY <1>3, <1>4, <1>6, <2>1 DEF SyncInv, Bits, WaitsAt
  <2>3. WaitersRun'
    BY <1>1, <1>3, <1>6 DEF SyncInv, WaitersRun, TypeOK, Live
  <2>4. ASSUME NEW d \in Ctas, NEW a \in BarIds, Live(d)' # {}
        PROVE  \E v \in Live(d)' : v \notin arrived'[a]
    <3>1. CASE a # b
      <4>1. PICK v \in Live(d) : v \notin arrived[a]
        BY <2>4, <1>2 DEF SyncInv, Open
      <4> QED
        BY <4>1, <3>1, <1>2, <2>1
    <3>2. CASE a = b /\ d = c
      <4>1. PICK v \in Live(c) : v \notin (arrived[b] \cup {w}) \cap ctaWarps[c]
        BY <1>1, <1>6
      <4> QED
        BY <4>1, <3>2, <1>2, <2>1 DEF Live
    <3>3. CASE a = b /\ d # c
      <4>1. PICK v \in Live(d) : v \notin arrived[a]
        BY <2>4, <1>2 DEF SyncInv, Open
      <4>2. v # w
        BY <4>1, <3>3, <1>1 DEF SyncInv, Owned, Live
      <4> QED
        BY <4>1, <4>2, <3>3, <1>2, <2>1
    <3> QED
      BY <3>1, <3>2, <3>3
  <2> QED
    BY <2>2, <2>3, <2>4 DEF Open
<1> QED
  BY <1>1, <1>5, <1>6

LEMMA ExitSync ==
  ASSUME SyncInv, NEW c \in Ctas, NEW w \in Warps, Exit(c, w)
  PROVE  Bits' /\ WaitersRun' /\ Open'
<1>1. /\ w \in Live(c) /\ w \notin waiting
      /\ active' = active \ {w}
      /\ UNCHANGED <<ctaWarps, last, todo>>
      /\ \A b \in BarIds : arrived[b] \cap ctaWarps[c] \subseteq Live(c) \ {w}
      /\ \A b \in BarIds :
           arrived'[b] = IF arrived[b] \cap ctaWarps[c] = Live(c) \ {w}
                         THEN arrived[b] \ ctaWarps[c] ELSE arrived[b]
      /\ \A v : v \in waiting' <=>
           /\ v \in waiting
           /\ ~ \E b \in BarIds : /\ arrived[b] \cap ctaWarps[c] = Live(c) \ {w}
                                 /\ v \in arrived[b] \cap ctaWarps[c]
  BY ExitChanges
<1>2. ASSUME NEW b \in BarIds, NEW v \in Warps
      PROVE  (v \in arrived[b] <=> WaitsAt(v, b))'
  <2>1. \A a \in BarIds : v \in arrived[a] <=> v \in waiting /\ last[v].id = a
    BY DEF SyncInv, Bits, WaitsAt
  <2>2. v \in arrived'[b] <=>
          /\ v \in arrived[b]
          /\ ~(arrived[b] \cap ctaWarps[c] = Live(c) \ {w} /\ v \in ctaWarps[c])
    <3>1. arrived'[b] = IF arrived[b] \cap ctaWarps[c] = Live(c) \ {w}
                        THEN arrived[b] \ ctaWarps[c] ELSE arrived[b]
      BY <1>1
    <3> QED
      BY <3>1
  <2>3. ASSUME v \in arrived[b]
        PROVE  v \in waiting' <=>
                 ~(arrived[b] \cap ctaWarps[c] = Live(c) \ {w} /\ v \in ctaWarps[c])
    <3>1. \A a \in BarIds : v \in arrived[a] => a = b
      BY <2>1, <2>3
    <3> QED
      BY <3>1, <2>1, <2>3, <1>1
  <2>4. v \in waiting' => v \in waiting
    BY <1>1
  <2> QED
    BY <2>1, <2>2, <2>3, <2>4, <1>1 DEF WaitsAt
<1>3. WaitersRun'
  <2>1. waiting' \subseteq waiting
    BY <1>1
  <2> QED
    BY <2>1, <1>1 DEF SyncInv, WaitersRun
<1>4. ASSUME NEW d \in Ctas, NEW b \in BarIds, Live(d)' # {}
      PROVE  \E v \in Live(d)' : v \notin arrived'[b]
  <2>0. arrived'[b] = IF arrived[b] \cap ctaWarps[c] = Live(c) \ {w}
                      THEN arrived[b] \ ctaWarps[c] ELSE arrived[b]
    BY <1>1
  <2>1. CASE d # c
    <3>1. Live(d)' = Live(d)
      BY <2>1, <1>1 DEF SyncInv, Owned, Live
    <3>2. PICK v \in Live(d) : v \notin arrived[b]
      BY <3>1, <1>4 DEF SyncInv, Open
    <3>3. arrived'[b] \subseteq arrived[b]
      BY <2>0
    <3> QED
      BY <3>1, <3>2, <3>3
  <2>2. CASE d = c
    <3>1. Live(d)' = Live(c) \ {w}
      BY <2>2, <1>1 DEF Live
    <3>2. CASE arrived[b] \cap ctaWarps[c] = Live(c) \ {w}
      <4>1. PICK v : v \in Live(d)' /\ v \in ctaWarps[c]
        BY <3>1, <1>4 DEF Live
      <4>2. v \notin arrived'[b]
        BY <4>1, <3>2, <2>0
      <4> QED
        BY <4>1, <4>2
    <3>3. CASE arrived[b] \cap ctaWarps[c] # Live(c) \ {w}
      <4>1. PICK v \in Live(c) \ {w} : v \notin arrived[b] \cap ctaWarps[c]
        BY <3>3, <1>1
      <4> QED
        BY <4>1, <3>1, <2>0, <3>3 DEF Live
    <3> QED
      BY <3>2, <3>3
  <2> QED
    BY <2>1, <2>2
<1> QED
  BY <1>2, <1>3, <1>4 DEF Bits, Open

LEMMA DeallocateSync ==
  ASSUME SyncInv, NEW c \in Ctas, Deallocate(c)
  PROVE  Bits' /\ WaitersRun' /\ Open'
<1>1. /\ \A d \in Ctas : ctaWarps'[d] = IF d = c THEN {} ELSE ctaWarps[d]
      /\ UNCHANGED <<active, waiting, arrived, last, todo>>
  BY DeallocateChanges
<1>2. Bits' /\ WaitersRun'
  BY <1>1 DEF SyncInv, Bits, WaitersRun, WaitsAt
<1>3. ASSUME NEW d \in Ctas, NEW b \in BarIds, Live(d)' # {}
      PROVE  \E v \in Live(d)' : v \notin arrived'[b]
  <2>1. d # c /\ Live(d)' = Live(d)
    BY <1>1, <1>3 DEF Live
  <2> QED
    BY <2>1, <1>1, <1>3 DEF SyncInv, Open
<1> QED
  BY <1>2, <1>3 DEF Open

LEMMA SyncStep == OnlySync /\ SyncInv /\ [Next]_vars => SyncInv'
<1> SUFFICES ASSUME OnlySync, SyncInv, [Next]_vars PROVE SyncInv'
  OBVIOUS
<1>1. TypeOK' /\ Owned'
  BY TypeStep DEF SyncInv
<1>2. CASE UNCHANGED vars
  BY <1>1, <1>2 DEF SyncInv, Bits, WaitersRun, WaitsAt, Open, Live, vars
<1>3. CASE Next
  BY <1>1, <1>3, AllocateSync, ReachSync, ExitSync, DeallocateSync DEF Next, SyncInv
<1> QED
  BY <1>2, <1>3

LEMMA SyncInvariant == OnlySync => (Spec => []SyncInv)
<1> SUFFICES ASSUME OnlySync PROVE Spec => []SyncInv
  OBVIOUS
<1>1. SyncInv /\ [Next]_vars => SyncInv'
  BY SyncStep
<1> QED
  BY <1>1, SyncInit, PTL DEF Spec

\* With bar.sync alone, whatever each warp's program and whenever it exits, no
\* barrier that all the running warps of a CTA wait at stays closed.
THEOREM NobodyIsStuck == OnlySync => (Spec => []NobodyStuck)
<1> SUFFICES ASSUME OnlySync PROVE Spec => []NobodyStuck
  OBVIOUS
<1>1. SyncInv => NobodyStuck
  BY BarrierConstants DEF SyncInv, TypeOK, Bits, Open, Live, NobodyStuck
<1> QED
  BY <1>1, SyncInvariant, PTL

\* With bar.sync alone, when the last warp of a CTA has exited none of its warps
\* is marked, waiting or arrived, for the CTA that gets the warps next.
THEOREM CtaLeavesClean == OnlySync => (Spec => []LeavesClean)
<1> SUFFICES ASSUME OnlySync PROVE Spec => []LeavesClean
  OBVIOUS
<1>1. SyncInv => LeavesClean
  BY DEF SyncInv, TypeOK, Bits, WaitersRun, WaitsAt, Live, LeavesClean
<1> QED
  BY <1>1, SyncInvariant, PTL

-----------------------------------------------------------------------------
(* Who passes a barrier.                                                   *)

\* The warps at b are those with a bit there and the one that comes now.
LEMMA AtBarrierIs ==
  ASSUME OnlySync, SyncInv, NEW c \in Ctas, NEW b \in BarIds
  PROVE  AtBarrier(c, b) =
           {v \in ctaWarps[c] : v \in arrived[b] \/ \E op \in Ops : Issues(v, op) /\ op.id = b}
<1>1. \A v \in ctaWarps[c] : v \in arrived[b] <=> v \in waiting /\ last[v].id = b
  BY DEF SyncInv, TypeOK, Bits, WaitsAt
<1>2. \A v \in arrived[b] \cap ctaWarps[c] : last[v].waits
  BY <1>1 DEF SyncInv, WaitersRun, OnlySync
<1> QED
  BY <1>1, <1>2 DEF AtBarrier, WaitsAt

\* Only a step of Reach issues a bar instruction.
LEMMA NoIssue ==
  ASSUME SyncInv, NEW v \in Warps, todo[v] # <<>> => todo'[v] = todo[v]
  PROVE  \A op : ~Issues(v, op)
<1>1. todo[v] # <<>> => Tail(todo[v]) # todo[v]
  BY HeadTail DEF SyncInv, TypeOK
<1> QED
  BY <1>1 DEF Issues

\* A step that neither issues for a warp nor wakes it lets it pass nothing.
LEMMA NobodyPasses ==
  ASSUME SyncInv, NEW w \in Warps, NEW op, waiting' = waiting,
         todo[w] # <<>> => todo'[w] = todo[w]
  PROVE  ~Passes(w, op)
BY NoIssue DEF Passes

LEMMA ReachJustified ==
  ASSUME OnlySync, SyncInv, NEW d \in Ctas, NEW u \in Warps, Reach(d, u),
         NEW c \in Ctas, NEW op \in Ops, NEW w \in ctaWarps[c], Passes(w, op)
  PROVE  AtBarrier(c, op.id) = ctaWarps[c] \cap active'
<1>1. PICK b \in BarIds :
        /\ Head(todo[u]) \in Ops /\ b = Head(todo[u]).id
        /\ u \in Live(d) /\ u \notin waiting /\ u \notin arrived[b]
        /\ todo[u] # <<>> /\ todo' = [todo EXCEPT ![u] = Tail(@)]
        /\ UNCHANGED <<ctaWarps, active>>
        /\ \/ /\ (arrived[b] \cup {u}) \cap ctaWarps[d] = Live(d)
              /\ waiting' = waiting \ Live(d)
           \/ /\ (arrived[b] \cup {u}) \cap ctaWarps[d] # Live(d)
              /\ waiting' = waiting \cup {u}
  BY ReachChanges
<1>2. w \in Warps /\ u \in ctaWarps[d]
  BY <1>1 DEF SyncInv, TypeOK, Live
<1>3. \A v \in Warps : v # u => todo'[v] = todo[v]
  BY <1>1 DEF SyncInv, TypeOK
<1>4. \A v \in Warps : v # u => \A o : ~Issues(v, o)
  BY <1>3, NoIssue
<1>5. \A o : Issues(u, o) <=> o = Head(todo[u])
  BY <1>1 DEF Issues, SyncInv, TypeOK
<1>6. /\ (arrived[b] \cup {u}) \cap ctaWarps[d] = Live(d)
      /\ waiting' = waiting \ Live(d)
      /\ w \in Live(d) /\ op.id = b
  <2>1. CASE Issues(w, op)
    <3>1. w = u /\ op.id = b /\ w \notin waiting'
      BY <2>1, <1>1, <1>2, <1>4, <1>5 DEF Passes
    <3> QED
      BY <3>1, <1>1
  <2>2. CASE ~Issues(w, op)
    <3>1. w \in waiting /\ op = last[w] /\ w \notin waiting'
      BY <2>2 DEF Passes
    <3>2. /\ (arrived[b] \cup {u}) \cap ctaWarps[d] = Live(d)
          /\ waiting' = waiting \ Live(d) /\ w \in Live(d)
      BY <3>1, <1>1
    <3>3. w \in arrived[b]
      BY <3>1, <3>2, <1>1
    <3>4. op.id = b
      BY <3>1, <3>3, <1>2 DEF SyncInv, Bits, WaitsAt
    <3> QED
      BY <3>2, <3>4
  <2> QED
    BY <2>1, <2>2
<1>7. c = d
  BY <1>6 DEF SyncInv, Owned, Live
<1>8. \A v \in ctaWarps[c] :
        (\E o \in Ops : Issues(v, o) /\ o.id = b) <=> v = u
  <2>1. \A v \in ctaWarps[c] : v \in Warps
    BY DEF SyncInv, TypeOK
  <2> QED
    BY <2>1, <1>1, <1>4, <1>5
<1>9. AtBarrier(c, b) = (arrived[b] \cup {u}) \cap ctaWarps[c]
  BY <1>8, <1>2, <1>7, AtBarrierIs
<1> QED
  BY <1>1, <1>6, <1>7, <1>9 DEF Live

LEMMA ExitJustified ==
  ASSUME OnlySync, SyncInv, NEW d \in Ctas, NEW u \in Warps, Exit(d, u),
         NEW c \in Ctas, NEW op \in Ops, NEW w \in ctaWarps[c], Passes(w, op)
  PROVE  AtBarrier(c, op.id) = ctaWarps[c] \cap active'
<1>1. /\ u \in Live(d) /\ active' = active \ {u}
      /\ UNCHANGED <<ctaWarps, last, todo>>
      /\ \A v : v \in waiting' <=>
           /\ v \in waiting
           /\ ~ \E b \in BarIds : /\ arrived[b] \cap ctaWarps[d] = Live(d) \ {u}
                                 /\ v \in arrived[b] \cap ctaWarps[d]
  BY ExitChanges
<1>2. w \in Warps /\ \A v \in ctaWarps[c] : v \in Warps
  BY DEF SyncInv, TypeOK
<1>3. \A v \in Warps : \A o : ~Issues(v, o)
  BY <1>1, NoIssue
<1>4. w \in waiting /\ op = last[w] /\ w \notin waiting'
  BY <1>2, <1>3 DEF Passes
<1>5. PICK b \in BarIds : /\ arrived[b] \cap ctaWarps[d] = Live(d) \ {u}
                         /\ w \in arrived[b] \cap ctaWarps[d]
  BY <1>1, <1>4
<1>6. c = d
  BY <1>5 DEF SyncInv, Owned
<1>7. op.id = b
  BY <1>2, <1>4, <1>5 DEF SyncInv, Bits, WaitsAt
<1>8. AtBarrier(c, b) = arrived[b] \cap ctaWarps[c]
  BY <1>2, <1>3, AtBarrierIs
<1> QED
  BY <1>1, <1>5, <1>6, <1>7, <1>8 DEF Live

\* With bar.sync alone, a warp goes on from a barrier only when all the running
\* warps of its CTA are at that barrier: none of an earlier use of it counts,
\* and no exit opens a barrier that a running warp has not reached.
THEOREM ReleasesAreJustified == OnlySync => (Spec => ReleaseJustified)
<1> SUFFICES ASSUME OnlySync PROVE Spec => ReleaseJustified
  OBVIOUS
<1>1. ASSUME SyncInv, [Next]_vars, NEW c \in Ctas, NEW op \in Ops, NEW w \in ctaWarps[c],
             Passes(w, op)
      PROVE  AtBarrier(c, op.id) = ctaWarps[c] \cap active'
  <2>1. w \in Warps
    BY <1>1 DEF SyncInv, TypeOK
  <2>2. CASE UNCHANGED vars
    BY <1>1, <2>1, <2>2, NobodyPasses DEF vars
  <2>3. ASSUME NEW d \in Ctas, NEW ws \in CtaSets, Allocate(d, ws) PROVE FALSE
    <3>1. waiting' = waiting /\ (todo[w] # <<>> => todo'[w] = todo[w])
      BY <1>1, <2>1, <2>3, AllocateChanges
    <3> QED
      BY <1>1, <2>1, <3>1, NobodyPasses
  <2>4. ASSUME NEW d \in Ctas, Deallocate(d) PROVE FALSE
    <3>1. waiting' = waiting /\ todo' = todo
      BY <1>1, <2>4, DeallocateChanges
    <3> QED
      BY <1>1, <2>1, <3>1, NobodyPasses
  <2>5. ASSUME NEW d \in Ctas, NEW u \in Warps, Reach(d, u) \/ Exit(d, u)
        PROVE  AtBarrier(c, op.id) = ctaWarps[c] \cap active'
    BY <1>1, <2>5, ReachJustified, ExitJustified
  <2> QED
    BY <1>1, <2>2, <2>3, <2>4, <2>5 DEF Next
<1>2. SyncInv /\ [Next]_vars =>
        (\A c \in Ctas, op \in Ops : \A w \in ctaWarps[c] : Passes(w, op) =>
           \/ AtBarrier(c, op.id) = ctaWarps[c] \cap active'
           \/ op.count # EveryWarp /\ Cardinality(AtBarrier(c, op.id)) = op.count)
  BY <1>1
<1> QED
  BY <1>2, SyncInvariant, PTL DEF Spec, ReleaseJustified

\* With __syncthreads() barriers the bit sets keep to their warps and no barrier
\* stays closed (BarriersSound).
THEOREM BarriersAreSound == OnlySync => (Spec => []BarriersSound)
<1>1. TypeOK /\ NobodyStuck => BarriersSound
  BY DEF BarriersSound
<1> QED BY <1>1, TypeCorrect, NobodyIsStuck, PTL
=============================================================================
