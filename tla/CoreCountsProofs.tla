-------------------------- MODULE CoreCountsProofs --------------------------
(* Counters, scoreboard and pending writes of CorePipeline.  How many      *)
(* instructions of a set are in the core is a sum over the places that can *)
(* hold one, of which a step changes a few; each counter is such a sum.    *)
EXTENDS CorePipelineProofs

-----------------------------------------------------------------------------
(* What is counted.                                                        *)

\* Instructions of a warp, those of them in the arithmetic pipelines, and those that write r.
OfWarp(w)     == {x \in Running : x.w = w}
ArithOf(w)    == {x \in OfWarp(w) : KindOf(P(x).op) # "mem"}
Writers(w, r) == {x \in OfWarp(w) : r \in Range(P(x).out)}

\* How many instructions of F are in the ports, the units, the load/store unit, EX_WB.
In(x, F) == IF x \in F THEN 1 ELSE 0
AtPort(k, F)  == In(idoc[k], F) + In(cu[k], F) + In(ocex[k], F)
Stages(stage, k, F) == Cardinality({s \in 0..(Depth[k] - 1) : stage[s] \in F})
UnitHas(u, k, F) == In(u.disp, F) + Stages(u.stage, k, F)
InLsu(F)      == In(disp, F) + In(shpipe[0], F) + In(shpipe[1], F) + In(shpipe[2], F)
InExWb(F)     == IF exwb = <<>> THEN 0 ELSE In(exwb[1], F)
Inside(F) == AtPort("sp", F) + AtPort("sfu", F) + AtPort("mem", F) + UnitHas(unit["sp"], "sp", F)
             + UnitHas(unit["sfu"], "sfu", F) + InLsu(F) + InExWb(F)

\* Accesses of w's loads at pcs to be sent or to come back.
ToSend(x, n, w, pcs) == IF x.w = w /\ x.pc \in pcs THEN n ELSE 0
InMemory(s, w, pcs) == Cardinality({a \in s : a.w = w /\ a.pc \in pcs})
Coming(w, pcs) == ToSend(disp, left, w, pcs) + InMemory(loads, w, pcs) + From(respq, w, pcs)
                  + From(l1ready, w, pcs) + At(nextGlobal, w, pcs) + At(nextWb, w, pcs)

\* What holds register r: an instruction, a shared load in m_next_wb, accesses that
\* have been sent by a load that has left.
Sends(w, r) == disp \in Writers(w, r) /\ ~Shared(disp) /\ left > 0
Owners(w, r) == Inside(Writers(w, r))
                + (IF nextWb \in Writers(w, r) /\ Shared(nextWb) THEN 1 ELSE 0)
                + (IF pw[w][r] > 0 /\ ~Sends(w, r) THEN 1 ELSE 0)

StorePcs == {i \in DOMAIN Program : Program[i].op = "store"}
SharedLoads == {x \in Running : IsLoad(x) /\ Shared(x)}
SentLoads   == {x \in Running : x.pc \in Loads}

LsuTypes ==
  /\ disp \in Of("mem") /\ left \in Nat
  /\ disp # None /\ ~Shared(disp) /\ P(disp).op = "membar" => left = 0
  /\ shpipe \in [0..2 -> SharedLoads \cup {None}]
  /\ nextWb \in SharedLoads \cup SentLoads \cup {None} /\ nextGlobal \in SentLoads \cup {None}
  /\ l1ready \in Seq(SentLoads)
  /\ loads \subseteq [w : Warps, pc : Loads, k : Nat] /\ IsFiniteSet(loads)
  /\ respq \in Seq([w : Warps, pc : Loads \cup StorePcs, k : Nat])
  /\ acks \in [Warps -> Nat] /\ \A w \in Warps : acks[w] > 0 => StorePcs # {}

OtherTypes ==
  /\ phase \in {"writeback", "sp", "sfu", "lsu", "collect", "response", "dispatch", "oc_ex", "issue", "decode", "fetch"}
  /\ turn > 0 => phase = "issue"
  /\ trips \in [Warps -> 0..MaxTrips]
  /\ written \subseteq Banks /\ pri \in 0..(Square - 1) /\ arb \in 0..4
  /\ Len(respq) <= Responses

CountTypes ==
  /\ inPipe \in [Warps -> Int] /\ stores \in [Warps -> Int] /\ nInst \in [Warps -> Int]
  /\ reserved \in [Warps -> SUBSET Regs] /\ longop \in [Warps -> SUBSET Regs]
  /\ \A i \in DOMAIN exwb : KindOf(P(exwb[i]).op) # "mem"

\* A buffer holds what the warp runs next, in order; the warp being fetched for has none.
BufferSound == \A w \in Warps :
  /\ Head1(w) # 0 => Head1(w) = next_pc[w]
  /\ ibuf[w][3 - nxt[w]] # 0 => Head1(w) # 0 /\ ibuf[w][3 - nxt[w]] = next_pc[w] + 1
  /\ done[w] => Buffered(w) = {} /\ w \notin atBar
  /\ fbuf # None /\ fbuf.w = w => ~done[w] /\ Buffered(w) = {} /\ fbuf.pc = next_pc[w]

PendingSum == \A w \in Warps : \A r \in Regs : pw[w][r] = Coming(w, Into(r))
PwTypes == pw \in [Warps -> [Regs -> Int]]
CountExact == \A w \in Warps : inPipe[w] = Cardinality(Buffered(w)) + Inside(OfWarp(w))
OwnedOnce  == \A w \in Warps : \A r \in Regs : Owners(w, r) = IF r \in reserved[w] THEN 1 ELSE 0
OneLoad == \A w \in Warps : \A r \in Regs : \A c \in Into(r) :
  Coming(w, {c}) > 0 => Coming(w, Into(r)) = Coming(w, {c})
FreshAccess == \A a \in loads : a.w = disp.w /\ a.pc = disp.pc => a.k > left
StoresExact == \A w \in Warps : stores[w] = acks[w] + From(respq, w, StorePcs)
Reclaimed == \A w \in Warps : exited[w] =>
  done[w] /\ inPipe[w] = 0 /\ reserved[w] = {} /\ stores[w] = 0

CountInv == /\ PipeInv /\ LsuTypes /\ OtherTypes /\ CountTypes /\ PwTypes
            /\ PendingSum /\ OneLoad /\ FreshAccess /\ BufferSound /\ CountExact /\ OwnedOnce /\ StoresExact /\ Reclaimed

-----------------------------------------------------------------------------
(* Counting in the stages of a pipeline.                                   *)

\* What is nowhere counts for nothing, what is somewhere once.
LEMMA InValue ==
  ASSUME NEW x, NEW F
  PROVE  /\ In(x, F) \in Nat /\ In(x, F) <= 1
         /\ x \in F <=> In(x, F) = 1
         /\ x \notin F <=> In(x, F) = 0
BY DEF In

\* The stages are finitely many.
LEMMA StagesFinite ==
  ASSUME NEW k \in Alu, NEW st, NEW F
  PROVE  /\ IsFiniteSet({s \in 0..(Depth[k] - 1) : st[s] \in F})
         /\ Stages(st, k, F) \in Nat
<1>1. Depth[k] \in Nat \ {0}
  BY CoreConstants
<1>2. PICK d \in Nat : d = Depth[k] - 1
  BY <1>1
<1>3. IsFiniteSet(0..d)
  BY FS_Interval
<1>4. {s \in 0..d : st[s] \in F} \in SUBSET (0..d)
  OBVIOUS
<1>5. IsFiniteSet({s \in 0..d : st[s] \in F})
  BY <1>3, <1>4, FS_Subset
<1>6. QED
  BY <1>2, <1>5, FS_CardinalityType DEF Stages

\* When all stages move down, what was in the last leaves.
LEMMA StagesShift ==
  ASSUME NEW k \in Alu, NEW st, NEW F, None \notin F,
         NEW m, m = [s \in 0..(Depth[k] - 1) |-> IF s < Depth[k] - 1 THEN st[s + 1] ELSE None]
  PROVE  Stages(m, k, F) = Stages(st, k, F) - In(st[0], F)
<1>1. PICK d \in Nat : d = Depth[k] - 1
  BY CoreConstants
<1> DEFINE A == {s \in 0..d : st[s] \in F}
           B == {s \in 0..d : m[s] \in F}
           f == [s \in B |-> s + 1]
<1>2. IsFiniteSet(A) /\ IsFiniteSet(B) /\ Cardinality(A) \in Nat
  BY <1>1, StagesFinite DEF Stages
<1>3. m = [s \in 0..d |-> IF s < d THEN st[s + 1] ELSE None]
  BY <1>1
<1>4. B = {s \in 0..d : s < d /\ st[s + 1] \in F}
  BY <1>3
<1>5. f \in [B -> A \ {0}] /\ \A x, y \in B : f[x] = f[y] => x = y
  <2>1. ASSUME NEW s \in B PROVE s \in Int /\ s + 1 \in A \ {0}
    <3>1. s \in 0..d /\ s < d /\ st[s + 1] \in F
      BY <1>4
    <3>2. s + 1 \in 0..d /\ s + 1 # 0 /\ s \in Int
      BY <3>1
    <3>3. QED
      BY <3>1, <3>2
  <2> HIDE DEF A, B
  <2>2. QED
    BY <2>1
<1>6. ASSUME NEW u \in A \ {0} PROVE \E x \in B : f[x] = u
  <2>1. u - 1 \in 0..d /\ u - 1 < d /\ (u - 1) + 1 = u /\ st[(u - 1) + 1] \in F
    OBVIOUS
  <2>2. u - 1 \in B
    BY <1>4, <2>1
  <2>3. f[u - 1] = u
    <3> HIDE DEF A, B
    <3>1. QED
      BY <2>1, <2>2
  <2>4. QED
    BY <2>2, <2>3
<1>7. Cardinality(A \ {0}) = Cardinality(B)
  <2> HIDE DEF A, B, f
  <2>1. PICK U : U = A \ {0}
    OBVIOUS
  <2>2. Cardinality(U) = Cardinality(B)
    BY <1>2, <1>5, <1>6, <2>1, SameSize
  <2>3. QED
    BY <2>1, <2>2
<1>8. Cardinality(A \ {0}) = IF 0 \in A THEN Cardinality(A) - 1 ELSE Cardinality(A)
  <2> HIDE DEF A
  <2>1. QED
    BY <1>2, FS_RemoveElement
<1>9. In(st[0], F) = IF 0 \in A THEN 1 ELSE 0
  BY DEF In
<1>10. Stages(m, k, F) = Cardinality(B) /\ Stages(st, k, F) = Cardinality(A)
  BY <1>1 DEF Stages
<1> HIDE DEF A, B
<1>11. QED
  BY <1>2, <1>7, <1>8, <1>9, <1>10

\* What enters an empty stage is counted.
LEMMA StagesEnter ==
  ASSUME NEW k \in Alu, NEW F, None \notin F, NEW m, NEW n, NEW x,
         \E at \in 0..(Depth[k] - 1) :
            m[at] = None /\ \A s \in 0..(Depth[k] - 1) : n[s] = IF s = at THEN x ELSE m[s]
  PROVE  Stages(n, k, F) = Stages(m, k, F) + In(x, F)
<1> DEFINE S == 0..(Depth[k] - 1)
           A == {s \in S : m[s] \in F}
           B == {s \in S : n[s] \in F}
<1>1. IsFiniteSet(A) /\ Cardinality(A) \in Nat
  BY StagesFinite DEF Stages
<1>2. PICK at \in S : at \notin A /\ m[at] = None /\ \A s \in S : n[s] = IF s = at THEN x ELSE m[s]
  OBVIOUS
<1>3. Cardinality(A \cup {at}) = Cardinality(A) + 1
  <2> HIDE DEF A
  <2>1. QED
    BY <1>1, <1>2, FS_AddElement
<1>4. B = IF x \in F THEN A \cup {at} ELSE A
  BY <1>2
<1>5. Stages(n, k, F) = Cardinality(B) /\ Stages(m, k, F) = Cardinality(A)
  BY DEF Stages
<1> HIDE DEF A, B
<1>6. QED
  BY <1>1, <1>3, <1>4, <1>5 DEF In

\* A unit's cycle lets one instruction out: the one in the last stage.
LEMMA UnitLetsOut ==
  ASSUME setup \in Setups, NEW k \in Alu, NEW u \in UnitOf(k), Enters(u),
         NEW c, c = UnitCycle(u, Depth[k]), NEW F, None \notin F
  PROVE  UnitHas(c, k, F) = UnitHas(u, k, F) - In(u.stage[0], F)
<1> DEFINE d == Depth[k]
           S == 0..(d - 1)
           x == u.disp
           enters == x # None /\ u.delay <= 1
           m == [s \in S |-> IF s < d - 1 THEN u.stage[s + 1] ELSE None]
           at == P(x).lat - P(x).ii
<1>1. d \in Nat \ {0}
  BY CoreConstants
<1>2. /\ u.stage \in [S -> Of(k)] /\ x \in Of(k) /\ u.delay \in Nat /\ None \in Of(k)
  BY OfIsInst DEF UnitOf
<1>3. c.disp = (IF enters THEN None ELSE x) /\ c.stage = IF enters THEN [m EXCEPT ![at] = x] ELSE m
  BY DEF UnitCycle
<1>4. ASSUME x # None PROVE at \in S /\ P(x).ii \in Nat /\ P(x).lat \in Nat /\ Final(u) = at + u.delay
  <2>1. x \in Running /\ KindOf(P(x).op) = k /\ x.pc \in DOMAIN Program
    BY <1>2, <1>4 DEF Of, Running
  <2>2. P(x) \in Instruction /\ P(x).ii \in 1..P(x).lat /\ P(x).lat - P(x).ii < Depth[k]
    BY <2>1, ProgramFacts DEF P
  <2>3. P(x).ii \in Nat /\ P(x).lat \in Nat
    BY <2>2 DEF Instruction
  <2>4. QED
    BY <1>1, <2>2, <2>3 DEF Final
<1>5. Stages(m, k, F) = Stages(u.stage, k, F) - In(u.stage[0], F)
  <2>1. PICK st : st = u.stage
    OBVIOUS
  <2>2. QED
    BY <2>1, StagesShift
<1> HIDE DEF m, at, S, d
<1>6. Stages(m, k, F) \in Nat /\ Stages(u.stage, k, F) \in Nat /\ In(u.stage[0], F) \in Nat /\ In(x, F) \in Nat
      /\ In(None, F) = 0
  BY StagesFinite, InValue
<1>7. CASE ~enters
  BY <1>3, <1>5, <1>6, <1>7 DEF UnitHas
<1>8. CASE enters
  <2>1. at \in S /\ P(x).ii \in Nat /\ P(x).lat \in Nat /\ Final(u) = at + u.delay
    BY <1>4, <1>8
  <2>2. u.delay = 1 /\ (at + 1 \in S => u.stage[at + 1] = None)
    BY <1>2, <1>8, <2>1 DEF Enters
  <2>3. m \in [S -> Of(k)] /\ m[at] = None
    <3>1. \A s \in S : s < d - 1 => s + 1 \in S
      BY <1>1 DEF S
    <3>2. \A s \in S : (IF s < d - 1 THEN u.stage[s + 1] ELSE None) \in Of(k)
      BY <1>2, <3>1
    <3>3. m = [s \in S |-> IF s < d - 1 THEN u.stage[s + 1] ELSE None]
      BY DEF m
    <3>4. QED
      BY <2>1, <2>2, <3>1, <3>2, <3>3
  <2>4. Stages([m EXCEPT ![at] = x], k, F) = Stages(m, k, F) + In(x, F)
    <3>1. PICK a, n, e : a = at /\ n = m /\ e = [n EXCEPT ![a] = x]
      OBVIOUS
    <3>2. a \in 0..(Depth[k] - 1) /\ n \in [0..(Depth[k] - 1) -> Of(k)] /\ n[a] = None
      BY <2>1, <2>3, <3>1 DEF S, d
    <3>3. \A s \in 0..(Depth[k] - 1) : e[s] = IF s = a THEN x ELSE n[s]
      BY <3>1, <3>2
    <3>4. \E l \in 0..(Depth[k] - 1) :
             n[l] = None /\ \A s \in 0..(Depth[k] - 1) : e[s] = IF s = l THEN x ELSE n[s]
      BY <3>2, <3>3
    <3>6. Stages(e, k, F) = Stages(n, k, F) + In(x, F)
      BY <3>4, StagesEnter
    <3>5. QED
      BY <3>1, <3>6
  <2>5. QED
    BY <1>3, <1>5, <1>6, <1>8, <2>4 DEF UnitHas
<1>9. QED
  BY <1>7, <1>8

-----------------------------------------------------------------------------
(* How each step moves instructions.                                       *)

\* The sum after a step, part by part.
LEMMA InsideNext ==
  ASSUME NEW F
  PROVE  /\ Inside(F)' = AtPort("sp", F)' + AtPort("sfu", F)' + AtPort("mem", F)'
                         + UnitHas(unit'["sp"], "sp", F) + UnitHas(unit'["sfu"], "sfu", F)
                         + InLsu(F)' + InExWb(F)'
         /\ \A k : AtPort(k, F)' = In(idoc'[k], F) + In(cu'[k], F) + In(ocex'[k], F)
         /\ InLsu(F)' = In(disp', F) + In(shpipe'[0], F) + In(shpipe'[1], F) + In(shpipe'[2], F)
         /\ InExWb(F)' = IF exwb' = <<>> THEN 0 ELSE In(exwb'[1], F)
BY DEF Inside, AtPort, InLsu, InExWb, UnitHas, Stages, In

\* All these are natural numbers.
LEMMA InsideNat ==
  ASSUME NEW F
  PROVE  /\ Inside(F) \in Nat /\ InLsu(F) \in Nat /\ InExWb(F) \in Nat
         /\ \A k : AtPort(k, F) \in Nat
         /\ \A k \in Alu : UnitHas(unit[k], k, F) \in Nat
<1>1. \A k : AtPort(k, F) \in Nat
  BY InValue DEF AtPort
<1>2. InLsu(F) \in Nat /\ InExWb(F) \in Nat
  BY InValue DEF InLsu, InExWb
<1>3. ASSUME NEW k \in Alu PROVE UnitHas(unit[k], k, F) \in Nat
  <2>1. Stages(unit[k].stage, k, F) \in Nat /\ In(unit[k].disp, F) \in Nat
    BY StagesFinite, InValue
  <2>2. QED
    BY <2>1 DEF UnitHas
<1>4. "sp" \in Alu /\ "sfu" \in Alu
  BY DEF Alu
<1>5. UnitHas(unit["sp"], "sp", F) \in Nat /\ UnitHas(unit["sfu"], "sfu", F) \in Nat
  BY <1>3, <1>4
<1>6. QED
  BY <1>1, <1>2, <1>3, <1>5 DEF Inside

\* The sum before it.
LEMMA InsideParts ==
  ASSUME NEW F
  PROVE  /\ Inside(F) = AtPort("sp", F) + AtPort("sfu", F) + AtPort("mem", F)
                       + UnitHas(unit["sp"], "sp", F) + UnitHas(unit["sfu"], "sfu", F)
                       + InLsu(F) + InExWb(F)
         /\ AtPort("sp", F) \in Nat /\ AtPort("sfu", F) \in Nat /\ AtPort("mem", F) \in Nat
         /\ UnitHas(unit["sp"], "sp", F) \in Nat /\ UnitHas(unit["sfu"], "sfu", F) \in Nat
         /\ InLsu(F) \in Nat /\ InExWb(F) \in Nat
BY InsideNat DEF Inside, Alu

\* Nothing is no instruction.
LEMMA NoneNotRunning == None \notin Running
BY DEF None, Running, Warps

\* A step that leaves the places alone.
LEMMA NothingMoves ==
  ASSUME UNCHANGED <<idoc, cu, ocex, unit, exwb, disp, shpipe>>, NEW F
  PROVE  Inside(F)' = Inside(F)
BY DEF Inside, AtPort, InLsu, InExWb, UnitHas, Stages, In

\* writeback() takes the instruction in EX_WB out of the core.
LEMMA WritebackMoves ==
  ASSUME PipeInv, ShaderWriteback, NEW F \in SUBSET Running
  PROVE  /\ exwb = <<>> => Inside(F)' = Inside(F)
         /\ exwb # <<>> => exwb[1] \in Running /\ Inside(F)' = Inside(F) - In(exwb[1], F)
<1>1. UNCHANGED <<idoc, cu, ocex, unit, disp, shpipe>>
  BY DEF ShaderWriteback, ocVars, lsuVars, wbVars
<1>2. exwb \in Seq(Running) /\ Len(exwb) <= 1
  BY DEF PipeInv, AluTypes, BusSound
<1>3. exwb = <<>> => exwb' = <<>>
  BY DEF ShaderWriteback
<1>4. exwb # <<>> => exwb' = <<>> /\ exwb[1] \in Running
  <2>1. exwb # <<>> => exwb' = Tail(exwb)
    BY DEF ShaderWriteback
  <2>2. QED
    BY <1>2, <2>1
<1>5. /\ AtPort("sp", F)' = AtPort("sp", F) /\ AtPort("sfu", F)' = AtPort("sfu", F)
      /\ AtPort("mem", F)' = AtPort("mem", F) /\ InLsu(F)' = InLsu(F) /\ unit' = unit
  BY <1>1 DEF AtPort, InLsu, In
<1>6. InExWb(F)' = 0 /\ InExWb(F) = IF exwb = <<>> THEN 0 ELSE In(exwb[1], F)
  BY <1>3, <1>4, InsideNext DEF InExWb
<1>7. Inside(F)' = Inside(F) - InExWb(F)
  BY <1>5, <1>6, InsideNext, InsideParts
<1>8. In(exwb[1], F) \in Nat /\ Inside(F) \in Nat
  BY InValue, InsideNat
<1>9. QED
  BY <1>4, <1>6, <1>7, <1>8

\* SP and SFU let an instruction go from OC_EX to the unit, through its stages, to EX_WB.
LEMMA AluMoves ==
  ASSUME PipeInv, NEW k \in Alu, ExecuteAlu(k), NEW F \in SUBSET Running
  PROVE  Inside(F)' = Inside(F)
<1>0. None \notin F /\ setup \in Setups /\ AluTypes /\ BusSound /\ k \in Kinds
  BY NoneNotRunning DEF PipeInv, FrontTypes, Alu, Kinds
<1>1. PICK u, c : u = unit[k] /\ c = UnitCycle(u, Depth[k])
  OBVIOUS
<1>2. u \in UnitOf(k) /\ Enters(u)
  BY <1>0, <1>1 DEF AluTypes, BusSound
<1>3. UnitHas(c, k, F) = UnitHas(u, k, F) - In(u.stage[0], F) /\ c \in UnitOf(k)
  BY <1>0, <1>1, <1>2, UnitLetsOut, UnitStep
<1> DEFINE b == IF k = "sp" THEN {l - 1 : l \in bus \ {0}} ELSE bus
           x == ocex[k]
<1>4. /\ phase = k /\ UNCHANGED <<idoc, cu, disp, shpipe>>
      /\ exwb' = IF u.stage[0] = None THEN exwb ELSE Append(exwb, u.stage[0])
      /\ \/ /\ CanIssue(c, x, b)
            /\ unit' = [unit EXCEPT ![k] = [c EXCEPT !.disp = x, !.delay = P(x).ii,
                                                     !.occupied = @ \cup {P(x).lat}]]
            /\ ocex' = [ocex EXCEPT ![k] = None]
         \/ unit' = [unit EXCEPT ![k] = c] /\ ocex' = ocex
  BY <1>1 DEF ExecuteAlu, lsuVars, wbVars
<1> HIDE DEF b
<1>5. exwb \in Seq(Running) /\ Len(exwb) <= 1 /\ (u.stage[0] # None => exwb = <<>>)
  <2>1. exwb \in Seq(Running) /\ Len(exwb) <= 1
    BY <1>0 DEF AluTypes, BusSound
  <2>2. ASSUME u.stage[0] # None PROVE exwb = <<>>
    <3>1. 0 \in DOMAIN u.stage
      BY <1>2, CoreConstants DEF UnitOf
    <3>2. Due(u, 0)
      BY <2>2, <3>1 DEF Due
    <3>3. k = "sp" \/ k = "sfu"
      BY DEF Alu
    <3>4. QED
      BY <1>0, <1>1, <1>4, <3>2, <3>3 DEF BusSound
  <2>3. QED
    BY <2>1, <2>2
<1>6. InExWb(F)' = InExWb(F) + In(u.stage[0], F)
  <2>1. CASE u.stage[0] = None
    <3>1. In(u.stage[0], F) = 0 /\ exwb' = exwb
      BY <1>0, <1>4, <2>1, InValue
    <3>2. InExWb(F) \in Nat
      BY InsideParts
    <3>3. InExWb(F)' = InExWb(F)
      BY <3>1, InsideNext DEF InExWb
    <3>4. QED
      BY <3>1, <3>2, <3>3
  <2>2. CASE u.stage[0] # None
    <3>1. PICK y : y = u.stage[0]
      OBVIOUS
    <3>2. exwb = <<>> /\ exwb' = Append(exwb, y)
      BY <1>4, <1>5, <2>2, <3>1
    <3>6. exwb' # <<>> /\ exwb'[1] = y
      BY <3>2
    <3>3. InExWb(F) = 0 /\ InExWb(F)' = In(y, F)
      BY <3>2, <3>6, InsideNext DEF InExWb
    <3>4. In(y, F) \in Nat
      BY InValue
    <3>5. QED
      BY <3>1, <3>3, <3>4
  <2>3. QED
    BY <2>1, <2>2
<1>7. UnitHas(unit'[k], k, F) + In(ocex'[k], F) = UnitHas(c, k, F) + In(ocex[k], F)
  <2>1. unit \in [Alu -> {unit[l] : l \in Alu}] /\ ocex \in [Kinds -> Inst]
    BY <1>0 DEF AluTypes
  <2>2. CASE unit' = [unit EXCEPT ![k] = c] /\ ocex' = ocex
    <3>1. unit'[k] = c
      BY <2>1, <2>2
    <3>2. QED
      BY <2>2, <3>1
  <2>3. CASE /\ CanIssue(c, x, b)
             /\ unit' = [unit EXCEPT ![k] = [c EXCEPT !.disp = x, !.delay = P(x).ii,
                                                      !.occupied = @ \cup {P(x).lat}]]
             /\ ocex' = [ocex EXCEPT ![k] = None]
    <3>1. PICK e : e = [c EXCEPT !.disp = x, !.delay = P(x).ii, !.occupied = @ \cup {P(x).lat}]
      OBVIOUS
    <3>2. unit'[k] = e /\ ocex'[k] = None /\ c.disp = None
      BY <1>0, <2>1, <2>3, <3>1 DEF CanIssue
    <3>3. e.disp = x /\ e.stage = c.stage
      BY <1>3, <3>1 DEF UnitOf
    <3>4. /\ UnitHas(e, k, F) = In(x, F) + Stages(c.stage, k, F)
          /\ UnitHas(c, k, F) = In(None, F) + Stages(c.stage, k, F)
      BY <3>2, <3>3 DEF UnitHas
    <3>5. In(None, F) = 0 /\ In(x, F) \in Nat /\ Stages(c.stage, k, F) \in Nat
      BY <1>0, InValue, StagesFinite
    <3>6. QED
      BY <3>2, <3>4, <3>5
  <2>4. QED
    BY <1>4, <2>2, <2>3
<1>8. \A j \in Kinds \ {k} : ocex'[j] = ocex[j]
  BY <1>0, <1>4 DEF AluTypes
<1>9. \A j \in Alu \ {k} : unit'[j] = unit[j]
  BY <1>0, <1>4 DEF AluTypes
<1>10. \A j \in Kinds \ {k} : AtPort(j, F)' = AtPort(j, F)
  BY <1>4, <1>8, InsideNext DEF AtPort
<1>11. AtPort(k, F)' = AtPort(k, F) - In(ocex[k], F) + In(ocex'[k], F)
  <2>1. AtPort(k, F)' = In(idoc[k], F) + In(cu[k], F) + In(ocex'[k], F)
    BY <1>4, InsideNext
  <2>2. AtPort(k, F) = In(idoc[k], F) + In(cu[k], F) + In(ocex[k], F)
    BY DEF AtPort
  <2>3. In(idoc[k], F) \in Nat /\ In(cu[k], F) \in Nat /\ In(ocex[k], F) \in Nat /\ In(ocex'[k], F) \in Nat
    BY InValue
  <2>4. QED
    BY <2>1, <2>2, <2>3
<1>12. InLsu(F)' = InLsu(F)
  BY <1>4, InsideNext DEF InLsu
<1>13. /\ UnitHas(unit[k], k, F) \in Nat /\ In(u.stage[0], F) \in Nat
       /\ In(ocex[k], F) \in Nat /\ In(ocex'[k], F) \in Nat /\ UnitHas(unit[k], k, F) = UnitHas(u, k, F)
  BY <1>1, InValue, InsideNat
<1>14. PICK n \in Int : n = In(ocex'[k], F) - In(ocex[k], F)
  BY <1>13
<1>15. /\ UnitHas(unit'[k], k, F) = UnitHas(unit[k], k, F) - In(u.stage[0], F) - n
       /\ AtPort(k, F)' = AtPort(k, F) + n
  <2>1. AtPort(k, F) \in Nat
    BY InsideNat
  <2>2. UnitHas(unit'[k], k, F) \in Nat
    <3>1. Stages(unit'[k].stage, k, F) \in Nat /\ In(unit'[k].disp, F) \in Nat
      BY StagesFinite, InValue
    <3>2. QED
      BY <3>1 DEF UnitHas
  <2>3. QED
    BY <1>3, <1>7, <1>11, <1>13, <1>14, <2>1, <2>2
<1>19. PICK o \in Nat : o = In(u.stage[0], F)
  BY <1>13
<1>16. CASE k = "sp"
  <2>1. /\ AtPort("sfu", F)' = AtPort("sfu", F) /\ AtPort("mem", F)' = AtPort("mem", F)
        /\ unit'["sfu"] = unit["sfu"]
    BY <1>9, <1>10, <1>16 DEF Kinds, Alu
  <2>2. /\ UnitHas(unit'["sp"], "sp", F) = UnitHas(unit["sp"], "sp", F) - o - n
        /\ AtPort("sp", F)' = AtPort("sp", F) + n
    BY <1>15, <1>19, <1>16
  <2>3. UnitHas(unit'["sfu"], "sfu", F) = UnitHas(unit["sfu"], "sfu", F)
    BY <2>1
  <2>4. InExWb(F)' = InExWb(F) + o
    BY <1>6, <1>19
  <2>5. Inside(F)' = AtPort("sp", F)' + AtPort("sfu", F)' + AtPort("mem", F)'
                     + UnitHas(unit'["sp"], "sp", F) + UnitHas(unit'["sfu"], "sfu", F)
                     + InLsu(F)' + InExWb(F)'
    BY InsideNext
  <2>6. QED
    BY ONLY <1>12, <1>14, <1>19, <2>1, <2>2, <2>3, <2>4, <2>5, InsideParts
<1>17. CASE k = "sfu"
  <2>1. /\ AtPort("sp", F)' = AtPort("sp", F) /\ AtPort("mem", F)' = AtPort("mem", F)
        /\ unit'["sp"] = unit["sp"]
    BY <1>9, <1>10, <1>17 DEF Kinds, Alu
  <2>2. /\ UnitHas(unit'["sfu"], "sfu", F) = UnitHas(unit["sfu"], "sfu", F) - o - n
        /\ AtPort("sfu", F)' = AtPort("sfu", F) + n
    BY <1>15, <1>19, <1>17
  <2>3. UnitHas(unit'["sp"], "sp", F) = UnitHas(unit["sp"], "sp", F)
    BY <2>1
  <2>4. InExWb(F)' = InExWb(F) + o
    BY <1>6, <1>19
  <2>5. Inside(F)' = AtPort("sp", F)' + AtPort("sfu", F)' + AtPort("mem", F)'
                     + UnitHas(unit'["sp"], "sp", F) + UnitHas(unit'["sfu"], "sfu", F)
                     + InLsu(F)' + InExWb(F)'
    BY InsideNext
  <2>6. QED
    BY ONLY <1>12, <1>14, <1>19, <2>1, <2>2, <2>3, <2>4, <2>5, InsideParts
<1>18. QED
  BY <1>16, <1>17 DEF Alu

\* The operand collector passes instructions on within a port.
LEMMA CollectorMoves ==
  ASSUME PipeInv, CollectorStep, NEW F \in SUBSET Running
  PROVE  Inside(F)' = Inside(F)
<1> DEFINE goes(k)  == cu[k] # None /\ missing[k] = {} /\ ocex[k] = None
           takes(k) == idoc[k] # None /\ (cu[k] = None \/ goes(k))
<1>1. /\ ocex' = [k \in Kinds |-> IF goes(k) THEN cu[k] ELSE ocex[k]]
      /\ cu' = [k \in Kinds |-> IF takes(k) THEN idoc[k] ELSE IF goes(k) THEN None ELSE cu[k]]
      /\ idoc' = [k \in Kinds |-> IF takes(k) THEN None ELSE idoc[k]]
      /\ unit' = unit /\ exwb' = exwb /\ disp' = disp /\ shpipe' = shpipe
  BY DEF CollectorStep, aluVars, lsuVars, wbVars
<1>2. ASSUME NEW k \in Kinds PROVE AtPort(k, F)' = AtPort(k, F)
  <2>1. /\ ocex'[k] = IF goes(k) THEN cu[k] ELSE ocex[k]
        /\ cu'[k] = IF takes(k) THEN idoc[k] ELSE IF goes(k) THEN None ELSE cu[k]
        /\ idoc'[k] = IF takes(k) THEN None ELSE idoc[k]
    BY <1>1
  <2>2. In(None, F) = 0 /\ In(idoc[k], F) \in Nat /\ In(cu[k], F) \in Nat /\ In(ocex[k], F) \in Nat
    BY InValue, NoneNotRunning
  <2>3. AtPort(k, F)' = In(idoc'[k], F) + In(cu'[k], F) + In(ocex'[k], F)
    BY InsideNext
  <2>4. AtPort(k, F) = In(idoc[k], F) + In(cu[k], F) + In(ocex[k], F)
    BY DEF AtPort
  <2>5. CASE goes(k) /\ takes(k)
    BY <2>1, <2>2, <2>3, <2>4, <2>5
  <2>6. CASE goes(k) /\ ~takes(k)
    BY <2>1, <2>2, <2>3, <2>4, <2>6
  <2>7. CASE ~goes(k) /\ takes(k)
    BY <2>1, <2>2, <2>3, <2>4, <2>7
  <2>8. CASE ~goes(k) /\ ~takes(k)
    BY <2>1, <2>2, <2>3, <2>4, <2>8
  <2>9. QED
    BY <2>5, <2>6, <2>7, <2>8
<1>3. AtPort("sp", F)' = AtPort("sp", F) /\ AtPort("sfu", F)' = AtPort("sfu", F) /\ AtPort("mem", F)' = AtPort("mem", F)
  BY <1>2 DEF Kinds
<1>4. InLsu(F)' = InLsu(F) /\ InExWb(F)' = InExWb(F)
  BY <1>1, InsideNext DEF InLsu, InExWb
<1>5. QED
  BY <1>1, <1>3, <1>4, InsideNext, InsideParts

\* The load/store unit's own steps: shpipe and disp only.
LEMMA LsuMoves ==
  ASSUME UNCHANGED <<idoc, cu, ocex, unit, exwb>>, NEW F
  PROVE  Inside(F)' = Inside(F) - InLsu(F) + InLsu(F)'
<1>1. /\ AtPort("sp", F)' = AtPort("sp", F) /\ AtPort("sfu", F)' = AtPort("sfu", F)
      /\ AtPort("mem", F)' = AtPort("mem", F)
      /\ UnitHas(unit'["sp"], "sp", F) = UnitHas(unit["sp"], "sp", F)
      /\ UnitHas(unit'["sfu"], "sfu", F) = UnitHas(unit["sfu"], "sfu", F)
      /\ InExWb(F)' = InExWb(F)
  BY InsideNext DEF AtPort, InExWb
<1>2. Inside(F)' = AtPort("sp", F)' + AtPort("sfu", F)' + AtPort("mem", F)'
                   + UnitHas(unit'["sp"], "sp", F) + UnitHas(unit'["sfu"], "sfu", F)
                   + InLsu(F)' + InExWb(F)'
  BY InsideNext
<1>3. InLsu(F)' \in Nat
  <2>1. InLsu(F)' = In(disp', F) + In(shpipe'[0], F) + In(shpipe'[1], F) + In(shpipe'[2], F)
    BY InsideNext
  <2>2. In(disp', F) \in Nat /\ In(shpipe'[0], F) \in Nat /\ In(shpipe'[1], F) \in Nat /\ In(shpipe'[2], F) \in Nat
    BY InValue
  <2>3. QED
    BY <2>1, <2>2
<1>4. QED
  BY ONLY <1>1, <1>2, <1>3, InsideParts

\* The shared memory pipeline moves its loads down.
LEMMA ResponseMoves ==
  ASSUME LsuTypes, LsuResponse, NEW F \in SUBSET Running
  PROVE  Inside(F)' = Inside(F)
<1> DEFINE down == IF shpipe[0] = None /\ shpipe[1] # None
                   THEN [shpipe EXCEPT ![0] = shpipe[1], ![1] = None] ELSE shpipe
<1>1. /\ UNCHANGED <<idoc, cu, ocex, unit, exwb, disp>>
      /\ shpipe' = IF down[1] = None /\ down[2] # None
                   THEN [down EXCEPT ![1] = down[2], ![2] = None] ELSE down
  BY DEF LsuResponse, ocVars, aluVars, lsuVars
<1>2. PICK T : shpipe \in [0..2 -> T] /\ None \in T
  BY DEF LsuTypes
<1>3. /\ down \in [0..2 -> T]
      /\ \/ down = shpipe
         \/ shpipe[0] = None /\ down[0] = shpipe[1] /\ down[1] = None /\ down[2] = shpipe[2]
  BY <1>2
<1> HIDE DEF down
<1>4. \/ shpipe' = down
      \/ down[1] = None /\ shpipe'[0] = down[0] /\ shpipe'[1] = down[2] /\ shpipe'[2] = None
  BY <1>1, <1>3
<1>5. In(None, F) = 0 /\ \A x : In(x, F) \in Nat
  BY InValue, NoneNotRunning
<1>6. In(shpipe'[0], F) + In(shpipe'[1], F) + In(shpipe'[2], F)
        = In(down[0], F) + In(down[1], F) + In(down[2], F)
  BY <1>4, <1>5
<1>7. In(down[0], F) + In(down[1], F) + In(down[2], F)
        = In(shpipe[0], F) + In(shpipe[1], F) + In(shpipe[2], F)
  BY <1>3, <1>5
<1>8. /\ InLsu(F)' = In(disp, F) + In(shpipe'[0], F) + In(shpipe'[1], F) + In(shpipe'[2], F)
      /\ InLsu(F) = In(disp, F) + In(shpipe[0], F) + In(shpipe[1], F) + In(shpipe[2], F)
  BY <1>1, InsideNext DEF InLsu
<1>9. InLsu(F)' = InLsu(F)
  BY <1>5, <1>6, <1>7, <1>8
<1>10. QED
  BY <1>1, <1>9, LsuMoves, InsideParts

\* issue() takes an instruction from OC_EX.
LEMMA LsuIssueMoves ==
  ASSUME AluTypes, LsuIssue, NEW F \in SUBSET Running
  PROVE  Inside(F)' = Inside(F)
<1>1. UNCHANGED <<idoc, cu, unit, exwb, shpipe>>
  BY DEF LsuIssue, aluVars, wbVars
<1>2. \/ ocex' = ocex /\ disp' = disp
      \/ disp = None /\ disp' = ocex["mem"] /\ ocex' = [ocex EXCEPT !["mem"] = None]
  BY DEF LsuIssue
<1>3. "sp" \in Kinds /\ "sfu" \in Kinds /\ "mem" \in Kinds /\ ocex \in [Kinds -> Inst]
  BY DEF AluTypes, Kinds
<1>4. In(None, F) = 0 /\ \A x : In(x, F) \in Nat
  BY InValue, NoneNotRunning
<1>5. CASE ocex' = ocex /\ disp' = disp
  BY <1>1, <1>5, NothingMoves
<1>6. CASE disp = None /\ disp' = ocex["mem"] /\ ocex' = [ocex EXCEPT !["mem"] = None]
  <2>1. ocex'["sp"] = ocex["sp"] /\ ocex'["sfu"] = ocex["sfu"] /\ ocex'["mem"] = None
    BY <1>3, <1>6
  <2>2. AtPort("sp", F)' = AtPort("sp", F) /\ AtPort("sfu", F)' = AtPort("sfu", F)
    BY <1>1, <2>1, InsideNext DEF AtPort
  <2>3. AtPort("mem", F)' = AtPort("mem", F) - In(ocex["mem"], F)
    <3>1. AtPort("mem", F)' = In(idoc["mem"], F) + In(cu["mem"], F) + In(None, F)
      BY <1>1, <2>1, InsideNext
    <3>2. QED
      BY <1>4, <3>1 DEF AtPort
  <2>4. InLsu(F)' = InLsu(F) + In(ocex["mem"], F)
    <3>1. InLsu(F)' = In(ocex["mem"], F) + In(shpipe[0], F) + In(shpipe[1], F) + In(shpipe[2], F)
      BY <1>1, <1>6, InsideNext
    <3>2. InLsu(F) = In(None, F) + In(shpipe[0], F) + In(shpipe[1], F) + In(shpipe[2], F)
      BY <1>6 DEF InLsu
    <3>3. QED
      BY <1>4, <3>1, <3>2
  <2>5. /\ UnitHas(unit'["sp"], "sp", F) = UnitHas(unit["sp"], "sp", F)
        /\ UnitHas(unit'["sfu"], "sfu", F) = UnitHas(unit["sfu"], "sfu", F)
        /\ InExWb(F)' = InExWb(F)
    BY <1>1, InsideNext DEF InExWb
  <2>6. Inside(F)' = AtPort("sp", F)' + AtPort("sfu", F)' + AtPort("mem", F)'
                     + UnitHas(unit'["sp"], "sp", F) + UnitHas(unit'["sfu"], "sfu", F)
                     + InLsu(F)' + InExWb(F)'
    BY InsideNext
  <2>7. In(ocex["mem"], F) \in Nat
    BY <1>4
  <2>8. QED
    BY ONLY <2>2, <2>3, <2>4, <2>5, <2>6, <2>7, InsideParts
<1>7. QED
  BY <1>2, <1>5, <1>6

\* writeback() of the load/store unit takes the shared load that is through.
LEMMA LsuWritebackMoves ==
  ASSUME LsuTypes, LsuWriteback, NEW F \in SUBSET Running
  PROVE  /\ shpipe' = shpipe => Inside(F)' = Inside(F)
         /\ shpipe' = [shpipe EXCEPT ![0] = None] => Inside(F)' = Inside(F) - In(shpipe[0], F)
<1>1. UNCHANGED <<idoc, cu, ocex, unit, exwb, disp>>
  BY DEF LsuWriteback, ocVars, aluVars
<1>2. shpipe' = shpipe => Inside(F)' = Inside(F)
  BY <1>1, NothingMoves
<1>3. ASSUME shpipe' = [shpipe EXCEPT ![0] = None] PROVE Inside(F)' = Inside(F) - In(shpipe[0], F)
  <2>1. shpipe'[0] = None /\ shpipe'[1] = shpipe[1] /\ shpipe'[2] = shpipe[2]
    BY <1>3 DEF LsuTypes
  <2>2. In(None, F) = 0 /\ \A x : In(x, F) \in Nat
    BY InValue, NoneNotRunning
  <2>3. /\ InLsu(F)' = In(disp, F) + In(None, F) + In(shpipe[1], F) + In(shpipe[2], F)
        /\ InLsu(F) = In(disp, F) + In(shpipe[0], F) + In(shpipe[1], F) + In(shpipe[2], F)
    BY <1>1, <2>1, InsideNext DEF InLsu
  <2>4. InLsu(F)' = InLsu(F) - In(shpipe[0], F)
    BY <2>2, <2>3
  <2>5. QED
    BY <1>1, <2>2, <2>4, LsuMoves, InsideParts
<1>4. QED
  BY <1>2, <1>3

\* An instruction that leaves the dispatch register is through, but for a shared load.
LEMMA LeaveMoves ==
  ASSUME LsuTypes, UNCHANGED <<idoc, cu, ocex, unit, exwb>>, NEW F \in SUBSET Running
  PROVE  /\ disp' = None /\ shpipe' = shpipe => Inside(F)' = Inside(F) - In(disp, F)
         /\ disp' = None /\ shpipe[2] = None /\ shpipe' = [shpipe EXCEPT ![2] = disp] =>
              Inside(F)' = Inside(F)
<1>2. In(None, F) = 0 /\ \A x : In(x, F) \in Nat
  BY InValue, NoneNotRunning
<1>3. InLsu(F) = In(disp, F) + In(shpipe[0], F) + In(shpipe[1], F) + In(shpipe[2], F)
  BY DEF InLsu
<1>4. ASSUME disp' = None, shpipe' = shpipe PROVE Inside(F)' = Inside(F) - In(disp, F)
  <2>1. InLsu(F)' = In(None, F) + In(shpipe[0], F) + In(shpipe[1], F) + In(shpipe[2], F)
    BY <1>4, InsideNext
  <2>2. InLsu(F)' = InLsu(F) - In(disp, F)
    BY <1>2, <1>3, <2>1
  <2>3. QED
    BY <1>2, <2>2, LsuMoves, InsideParts
<1>5. ASSUME disp' = None, shpipe[2] = None, shpipe' = [shpipe EXCEPT ![2] = disp]
      PROVE  Inside(F)' = Inside(F)
  <2>1. shpipe'[0] = shpipe[0] /\ shpipe'[1] = shpipe[1] /\ shpipe'[2] = disp
    BY <1>5 DEF LsuTypes
  <2>2. InLsu(F)' = In(None, F) + In(shpipe[0], F) + In(shpipe[1], F) + In(disp, F)
    BY <1>5, <2>1, InsideNext
  <2>3. InLsu(F)' = InLsu(F)
    BY <1>2, <1>3, <1>5, <2>2
  <2>4. QED
    BY <2>3, LsuMoves, InsideParts
<1>6. QED
  BY <1>4, <1>5

\* An issued instruction is in its port.
LEMMA IssueMoves ==
  ASSUME AluTypes, UNCHANGED <<cu, ocex, unit, exwb, disp, shpipe>>, NEW F \in SUBSET Running,
         NEW k \in Kinds, idoc[k] = None, NEW x, idoc' = [idoc EXCEPT ![k] = x]
  PROVE  Inside(F)' = Inside(F) + In(x, F)
<1>1. In(None, F) = 0 /\ \A y : In(y, F) \in Nat
  BY InValue, NoneNotRunning
<1>2. idoc'[k] = x /\ \A j \in Kinds \ {k} : idoc'[j] = idoc[j]
  BY DEF AluTypes
<1>3. AtPort(k, F)' = AtPort(k, F) + In(x, F)
  <2>1. AtPort(k, F)' = In(x, F) + In(cu[k], F) + In(ocex[k], F)
    BY <1>2, InsideNext
  <2>2. AtPort(k, F) = In(None, F) + In(cu[k], F) + In(ocex[k], F)
    BY DEF AtPort
  <2>3. QED
    BY <1>1, <2>1, <2>2
<1>4. \A j \in Kinds \ {k} : AtPort(j, F)' = AtPort(j, F)
  BY <1>2, InsideNext DEF AtPort
<1>5. /\ UnitHas(unit'["sp"], "sp", F) = UnitHas(unit["sp"], "sp", F)
      /\ UnitHas(unit'["sfu"], "sfu", F) = UnitHas(unit["sfu"], "sfu", F)
      /\ InExWb(F)' = InExWb(F) /\ InLsu(F)' = InLsu(F)
  BY InsideNext DEF InExWb, InLsu
<1>6. Inside(F)' = AtPort("sp", F)' + AtPort("sfu", F)' + AtPort("mem", F)'
                   + UnitHas(unit'["sp"], "sp", F) + UnitHas(unit'["sfu"], "sfu", F)
                   + InLsu(F)' + InExWb(F)'
  BY InsideNext
<1>7. \/ /\ AtPort("sp", F)' = AtPort("sp", F) + In(x, F)
         /\ AtPort("sfu", F)' = AtPort("sfu", F) /\ AtPort("mem", F)' = AtPort("mem", F)
      \/ /\ AtPort("sfu", F)' = AtPort("sfu", F) + In(x, F)
         /\ AtPort("sp", F)' = AtPort("sp", F) /\ AtPort("mem", F)' = AtPort("mem", F)
      \/ /\ AtPort("mem", F)' = AtPort("mem", F) + In(x, F)
         /\ AtPort("sp", F)' = AtPort("sp", F) /\ AtPort("sfu", F)' = AtPort("sfu", F)
  BY <1>3, <1>4 DEF Kinds
<1>8. In(x, F) \in Nat
  BY <1>1
<1>9. QED
  BY ONLY <1>5, <1>6, <1>7, <1>8, InsideParts

-----------------------------------------------------------------------------
(* What the dispatch register does in a cycle.                             *)

\* It is done with an instruction that is not a shared load.
Through(over) ==
  /\ disp' = None /\ shpipe' = shpipe
  /\ inPipe' = [inPipe EXCEPT ![disp.w] = @ - 1]
  /\ reserved' = IF over THEN [reserved EXCEPT ![disp.w] = @ \ Range(P(disp).out)] ELSE reserved
  /\ longop' = IF over THEN [longop EXCEPT ![disp.w] = @ \ Range(P(disp).out)] ELSE longop
Over(pwx) == IsLoad(disp) /\ ~Shared(disp) /\ \A r \in Range(P(disp).out) : pwx[r] = 0

\* One access hits in the L1D or is sent.
Hit ==
  /\ pw' = IF IsLoad(disp) THEN [pw EXCEPT ![disp.w] = Less(disp, @)] ELSE pw
  /\ UNCHANGED <<loads, acks, stores>>
Sent ==
  /\ pw' = pw
  /\ IsLoad(disp) => loads' = loads \cup {[w |-> disp.w, pc |-> disp.pc, k |-> left]} /\ UNCHANGED <<acks, stores>>
  /\ ~IsLoad(disp) => /\ acks' = [acks EXCEPT ![disp.w] = @ + 1]
                      /\ stores' = [stores EXCEPT ![disp.w] = @ + 1]
                      /\ UNCHANGED loads

\* It waits; it passes a shared load on; it is done with a shared access that is no load; it is
\* done with an instruction that had nothing to send; it makes an access.
Waits  == Stay /\ UNCHANGED <<pw, loads, acks, stores>> /\ (left' = left \/ (disp # None /\ Shared(disp)))
Passes == /\ disp # None /\ IsLoad(disp) /\ Shared(disp) /\ shpipe[2] = None
          /\ shpipe' = [shpipe EXCEPT ![2] = disp] /\ disp' = None
          /\ UNCHANGED <<inPipe, regVars, pw, loads, acks, stores>>
Drops  == /\ disp # None /\ Shared(disp) /\ ~IsLoad(disp)
          /\ Through(FALSE) /\ UNCHANGED <<pw, loads, acks, stores>>
Empties == /\ disp # None /\ ~Shared(disp) /\ left = 0 /\ left' = left
           /\ Through(Over(pw[disp.w])) /\ UNCHANGED <<pw, loads, acks, stores>>
Makes  == /\ disp # None /\ ~Shared(disp) /\ left > 0 /\ left' = left - 1
          /\ Hit \/ Sent
          /\ IF left' = 0 THEN Through(Over(pw'[disp.w])) ELSE Stay

\* ldst_unit::cycle()'s use of the dispatch register is one of these.
LEMMA DispatchCases ==
  ASSUME LsuTypes, LsuDispatch
  PROVE  /\ Waits \/ Passes \/ Drops \/ Empties \/ Makes
         /\ left' \in Nat
         /\ UNCHANGED <<turn, setup, warpVars, fetchVars, schedVars, idoc, ocVars, written, aluVars,
                        nextWb, nextGlobal, arb, l1ready, respq>>
<1>0. left \in Nat
  BY DEF LsuTypes
<1>1. ASSUME NEW q, Leave(q), disp # None
      PROVE  \/ IsLoad(disp) /\ Shared(disp) /\ shpipe[2] # None /\ Stay
             \/ /\ IsLoad(disp) /\ Shared(disp) /\ shpipe[2] = None
                /\ shpipe' = [shpipe EXCEPT ![2] = disp] /\ disp' = None /\ UNCHANGED <<inPipe, regVars>>
             \/ ~(IsLoad(disp) /\ Shared(disp)) /\ Through(Over(q))
  BY <1>1 DEF Leave, Stay, Through, Over
<1>2. CASE disp # None /\ Shared(disp)
  <2>1. SharedCycle
    BY <1>2 DEF LsuDispatch
  <2>2. left' \in Nat /\ UNCHANGED <<pw, loads, acks, stores>>
    BY <1>0, <2>1 DEF SharedCycle
  <2>3. CASE left' # 0
    <3>1. Stay
      BY <2>1, <2>3 DEF SharedCycle
    <3>2. Waits
      BY <1>2, <2>2, <3>1 DEF Waits
    <3>3. QED
      BY <2>2, <3>2 DEF LsuDispatch
  <2>4. CASE left' = 0
    <3>1. Leave(pw[disp.w])
      BY <2>1, <2>4 DEF SharedCycle
    <3>2. Over(pw[disp.w]) = FALSE
      BY <1>2 DEF Over
    <3>3. Waits \/ Passes \/ Drops
      BY <1>1, <1>2, <2>2, <3>1, <3>2 DEF Waits, Passes, Drops
    <3>4. QED
      BY <2>2, <3>3 DEF LsuDispatch
  <2>5. QED
    BY <2>2, <2>3, <2>4 DEF LsuDispatch
<1>3. CASE disp # None /\ ~Shared(disp) /\ left > 0
  <2>1. MemoryCycle
    BY <1>3 DEF LsuDispatch
  <2>2. PICK outcome \in {"hit", "sent", "stall"} :
        /\ left' = IF outcome = "stall" THEN left ELSE left - 1
        /\ pw' = IF outcome = "hit" /\ IsLoad(disp) THEN [pw EXCEPT ![disp.w] = Less(disp, @)] ELSE pw
        /\ loads' = IF outcome = "sent" /\ IsLoad(disp)
                    THEN loads \cup {[w |-> disp.w, pc |-> disp.pc, k |-> left]} ELSE loads
        /\ IF outcome = "sent" /\ ~IsLoad(disp)
           THEN acks' = [acks EXCEPT ![disp.w] = @ + 1] /\ stores' = [stores EXCEPT ![disp.w] = @ + 1]
           ELSE UNCHANGED <<acks, stores>>
        /\ IF left' = 0 THEN Leave(pw'[disp.w]) ELSE Stay
    BY <2>1 DEF MemoryCycle
  <2>3. CASE outcome = "stall"
    BY <1>0, <1>3, <2>2, <2>3 DEF Waits, LsuDispatch
  <2>4. CASE outcome # "stall"
    <3>1. left' = left - 1 /\ left' \in Nat
      BY <1>0, <1>3, <2>2, <2>4
    <3>2. Hit \/ Sent
      BY <2>2, <2>4 DEF Hit, Sent
    <3>3. IF left' = 0 THEN Through(Over(pw'[disp.w])) ELSE Stay
      BY <1>1, <1>3, <2>2
    <3>4. QED
      BY <1>3, <3>1, <3>2, <3>3 DEF Makes, LsuDispatch
  <2>5. QED
    BY <2>3, <2>4
<1>4. CASE disp # None /\ ~Shared(disp) /\ ~(left > 0)
  <2>1. left = 0 /\ UNCHANGED <<left, pw, loads, acks, stores>> /\ Leave(pw[disp.w])
    BY <1>0, <1>4 DEF LsuDispatch
  <2>2. QED
    BY <1>0, <1>1, <1>4, <2>1 DEF Empties, LsuDispatch
<1>5. CASE disp = None
  BY <1>0, <1>5 DEF LsuDispatch, Waits
<1>6. QED
  BY <1>2, <1>3, <1>4, <1>5

-----------------------------------------------------------------------------
(* What the writeback port does in a cycle.                                *)

\* The register m_next_wb goes to the register file; it is then free for the next client,
\* if there is one: the shared memory pipeline, a global access, the L1D.
Goes == nextWb # None /\ Writeback(nextWb, written).ok
Taken(x) ==
  \/ x = None /\ UNCHANGED <<shpipe, inPipe, nextGlobal, l1ready>>
  \/ /\ shpipe[0] # None /\ x = shpipe[0] /\ shpipe' = [shpipe EXCEPT ![0] = None]
     /\ inPipe' = [inPipe EXCEPT ![x.w] = @ - 1] /\ UNCHANGED <<nextGlobal, l1ready>>
  \/ nextGlobal # None /\ x = nextGlobal /\ nextGlobal' = None /\ UNCHANGED <<shpipe, inPipe, l1ready>>
  \/ l1ready # <<>> /\ x = l1ready[1] /\ l1ready' = Tail(l1ready) /\ UNCHANGED <<shpipe, inPipe, nextGlobal>>

\* The arbiter picks one of those that are ready.
LEMMA NextClientReady ==
  ASSUME arb \in 0..4, WbClients # {}
  PROVE  NextClient \in WbClients
<1> DEFINE D == {(c - arb) % 5 : c \in WbClients}
<1>1. WbClients \subseteq 0..4
  BY DEF WbClients
<1>2. \A c \in WbClients : (c - arb) % 5 \in Nat
  BY <1>1
<1>3. D \subseteq Nat /\ D # {}
  BY <1>2
<1>4. Min(D) \in D /\ \A n \in D : Min(D) <= n
  <2> HIDE DEF D
  <2>1. QED
    BY <1>3, LeastIsMin
<1>5. \E c \in WbClients : \A d \in WbClients : (c - arb) % 5 <= (d - arb) % 5
  BY <1>4
<1>6. QED
  BY <1>5 DEF NextClient

\* ldst_unit::writeback() lets the load in m_next_wb go if it can, then takes the next.
LEMMA WritebackCases ==
  ASSUME arb \in 0..4, LsuWriteback
  PROVE  /\ \/ nextWb # None /\ ~Goes /\ nextWb' = nextWb /\ UNCHANGED <<shpipe, inPipe, nextGlobal, l1ready, pw, reserved>>
            \/ (nextWb = None \/ Goes) /\ Taken(nextWb')
         /\ pw' = IF Goes /\ ~Shared(nextWb) THEN [pw EXCEPT ![nextWb.w] = Less(nextWb, @)] ELSE pw
         /\ reserved' = IF Goes THEN [reserved EXCEPT ![nextWb.w] = @ \ Freed(nextWb, pw[nextWb.w])] ELSE reserved
         /\ arb' \in 0..4
         /\ written' = written \/ (nextWb # None /\ written' = Writeback(nextWb, written).banks)
         /\ UNCHANGED <<turn, setup, warpVars, fetchVars, schedVars, longop, idoc, ocVars, aluVars, disp, left,
                        respq, memVars, stores>>
<1> DEFINE c == NextClient
           free == nextWb = None \/ Goes
<1>1. /\ pw' = IF Goes /\ ~Shared(nextWb) THEN [pw EXCEPT ![nextWb.w] = Less(nextWb, @)] ELSE pw
      /\ reserved' = IF Goes THEN [reserved EXCEPT ![nextWb.w] = @ \ Freed(nextWb, pw[nextWb.w])] ELSE reserved
      /\ written' = written \/ (nextWb # None /\ written' = Writeback(nextWb, written).banks)
      /\ UNCHANGED <<turn, setup, warpVars, fetchVars, schedVars, longop, idoc, ocVars, aluVars, disp, left,
                     respq, memVars, stores>>
  BY DEF LsuWriteback, Goes
<1>2. IF free /\ WbClients # {}
      THEN /\ arb' = (c + 1) % 5
           /\ nextWb' = CASE c = 0 -> shpipe[0] [] c = 3 -> nextGlobal [] c = 4 -> l1ready[1]
           /\ shpipe' = IF c = 0 THEN [shpipe EXCEPT ![0] = None] ELSE shpipe
           /\ inPipe' = IF c = 0 THEN [inPipe EXCEPT ![shpipe[0].w] = @ - 1] ELSE inPipe
           /\ nextGlobal' = IF c = 3 THEN None ELSE nextGlobal
           /\ l1ready' = IF c = 4 THEN Tail(l1ready) ELSE l1ready
      ELSE /\ nextWb' = IF free THEN None ELSE nextWb
           /\ UNCHANGED <<arb, shpipe, inPipe, nextGlobal, l1ready>>
  BY DEF LsuWriteback, Goes
<1>3. CASE free /\ WbClients # {}
  <2>1. c \in 0..4 /\ Ready(c)
    BY <1>3, NextClientReady DEF WbClients
  <2>2. c = 0 \/ c = 3 \/ c = 4
    BY <2>1 DEF Ready
  <2>3. arb' \in 0..4
    BY <1>2, <1>3, <2>1
  <2>4. CASE c = 0
    <3>1. shpipe[0] # None
      BY <2>1, <2>4 DEF Ready
    <3>2. /\ nextWb' = shpipe[0] /\ shpipe' = [shpipe EXCEPT ![0] = None]
          /\ inPipe' = [inPipe EXCEPT ![shpipe[0].w] = @ - 1] /\ UNCHANGED <<nextGlobal, l1ready>>
      BY <1>2, <1>3, <2>4
    <3>3. Taken(nextWb')
      BY <3>1, <3>2 DEF Taken
    <3>4. QED
      BY <1>1, <1>3, <2>3, <3>3
  <2>5. CASE c = 3
    <3>1. nextGlobal # None
      BY <2>1, <2>5 DEF Ready
    <3>2. /\ nextWb' = nextGlobal /\ nextGlobal' = None /\ UNCHANGED <<shpipe, inPipe, l1ready>>
      BY <1>2, <1>3, <2>5
    <3>3. Taken(nextWb')
      BY <3>1, <3>2 DEF Taken
    <3>4. QED
      BY <1>1, <1>3, <2>3, <3>3
  <2>6. CASE c = 4
    <3>1. l1ready # <<>>
      BY <2>1, <2>6 DEF Ready
    <3>2. /\ nextWb' = l1ready[1] /\ l1ready' = Tail(l1ready) /\ UNCHANGED <<shpipe, inPipe, nextGlobal>>
      BY <1>2, <1>3, <2>6
    <3>3. Taken(nextWb')
      BY <3>1, <3>2 DEF Taken
    <3>4. QED
      BY <1>1, <1>3, <2>3, <3>3
  <2>7. QED
    BY <2>2, <2>4, <2>5, <2>6
<1>4. CASE ~(free /\ WbClients # {})
  <2>1. /\ nextWb' = IF free THEN None ELSE nextWb
        /\ UNCHANGED <<arb, shpipe, inPipe, nextGlobal, l1ready>>
    BY <1>2, <1>4
  <2>2. CASE free
    <3>1. Taken(nextWb')
      BY <2>1, <2>2 DEF Taken
    <3>2. QED
      BY <1>1, <2>1, <2>2, <3>1
  <2>3. CASE ~free
    <3>1. pw' = pw /\ reserved' = reserved
      BY <1>1, <2>3
    <3>2. QED
      BY <1>1, <2>1, <2>3, <3>1
  <2>4. QED
    BY <2>2, <2>3
<1>5. QED
  BY <1>3, <1>4

-----------------------------------------------------------------------------
(* What the load/store unit holds.                                         *)

\* What else the setup fixes.
LEMMA SameKernel ==
  ASSUME setup' = setup
  PROVE  /\ SharedLoads' = SharedLoads /\ SentLoads' = SentLoads /\ Loads' = Loads /\ StorePcs' = StorePcs
         /\ Program' = Program /\ Regs' = Regs /\ AStore' = AStore
         /\ \A r : Into(r)' = Into(r)
         /\ \A w : OfWarp(w)' = OfWarp(w) /\ ArithOf(w)' = ArithOf(w)
         /\ \A w, r : Writers(w, r)' = Writers(w, r)
BY DEF SharedLoads, SentLoads, Loads, StorePcs, Program, Regs, AStore, Into, OfWarp, ArithOf, Writers,
       Running, IsLoad, Shared, P

\* The types of the load/store unit after a step.
LEMMA LsuTypesNext ==
  ASSUME setup' = setup, disp' \in Of("mem"), left' \in Nat,
         disp' # None /\ ~Shared(disp') /\ P(disp').op = "membar" => left' = 0,
         shpipe' \in [0..2 -> SharedLoads \cup {None}],
         nextWb' \in SharedLoads \cup SentLoads \cup {None}, nextGlobal' \in SentLoads \cup {None},
         l1ready' \in Seq(SentLoads),
         loads' \subseteq [w : Warps, pc : Loads, k : Nat], IsFiniteSet(loads'),
         respq' \in Seq([w : Warps, pc : Loads \cup StorePcs, k : Nat]),
         acks' \in [Warps -> Nat], \A w \in Warps : acks'[w] > 0 => StorePcs # {}
  PROVE  LsuTypes'
<1>1. Shared(disp)' = Shared(disp') /\ P(disp)' = P(disp')
  BY DEF Shared, P, Program
<1>2. Of("mem")' = Of("mem")
  BY SameSetup
<1>3. QED
  BY <1>1, <1>2, SameKernel DEF LsuTypes

\* The variables that they are about.
lsuTypeVars == <<setup, disp, left, shpipe, nextWb, nextGlobal, l1ready, loads, respq, acks>>
\* They are those before it if it leaves the unit alone.
LEMMA SameLsu == ASSUME LsuTypes, UNCHANGED lsuTypeVars PROVE LsuTypes'
<1>1. UNCHANGED <<setup, disp, left, shpipe, nextWb, nextGlobal, l1ready, loads, respq, acks>>
  BY DEF lsuTypeVars
<1>2. QED
  BY <1>1, LsuTypesNext DEF LsuTypes

\* What is on its way is a load.
LEMMA LoadsRun ==
  ASSUME setup \in Setups
  PROVE  /\ SharedLoads \subseteq Running /\ SentLoads \subseteq Running
         /\ \A x \in SentLoads : P(x).op = "load" /\ ~Shared(x) /\ IsLoad(x) /\ x.pc \in Loads /\ x.w \in Warps
         /\ \A x \in SharedLoads : P(x).op = "load" /\ Shared(x) /\ IsLoad(x) /\ x.pc \notin Loads /\ x.w \in Warps
         /\ \A x \in Running : IsLoad(x) /\ ~Shared(x) => x \in SentLoads
         /\ \A x \in Running : IsLoad(x) /\ Shared(x) => x \in SharedLoads
         /\ \A c \in Loads : c \in DOMAIN Program /\ Program[c].op = "load" /\ c \notin StorePcs
         /\ None \notin Running /\ None \notin SharedLoads /\ None \notin SentLoads
BY NoneNotRunning DEF SharedLoads, SentLoads, Loads, StorePcs, Running, IsLoad, Shared, P

\* What is in the dispatch register.
LEMMA InDisp ==
  ASSUME setup \in Setups, LsuTypes, disp # None
  PROVE  /\ disp \in Running /\ disp.w \in Warps /\ disp.pc \in DOMAIN Program
         /\ P(disp).op \in {"load", "store", "membar"}
         /\ IsLoad(disp) /\ Shared(disp) => disp \in SharedLoads
         /\ IsLoad(disp) /\ ~Shared(disp) => disp \in SentLoads /\ disp.pc \in Loads
         /\ left > 0 /\ ~Shared(disp) /\ ~IsLoad(disp) => disp.pc \in StorePcs
         /\ ~IsLoad(disp) => P(disp).out = <<>>
<1>1. disp \in Running /\ KindOf(P(disp).op) = "mem"
  BY DEF LsuTypes, Of
<1>2. disp.w \in Warps /\ disp.pc \in DOMAIN Program /\ P(disp) = Program[disp.pc]
  BY <1>1 DEF Running, P
<1>3. P(disp).op \in {"load", "store", "membar"}
  <2>1. PICK o : o = P(disp).op
    OBVIOUS
  <2>2. o \in {"load", "store", "membar"}
    BY <1>1, <2>1 DEF KindOf
  <2>3. QED
    BY <2>1, <2>2
<1>4. left > 0 /\ ~Shared(disp) => P(disp).op # "membar"
  BY DEF LsuTypes
<1>5. P(disp).op \in {"store", "membar"} => P(disp).out = <<>>
  BY <1>2, ProgramFacts
<1>6. QED
  BY <1>1, <1>2, <1>3, <1>4, <1>5, LoadsRun DEF IsLoad, StorePcs

\* The writeback port keeps them.
LEMMA WritebackLsu ==
  ASSUME setup \in Setups, LsuTypes, arb \in 0..4, LsuWriteback
  PROVE  LsuTypes'
<1>1. /\ UNCHANGED <<setup, disp, left, respq, loads, acks>>
      /\ (nextWb' = nextWb /\ UNCHANGED <<shpipe, nextGlobal, l1ready>>) \/ Taken(nextWb')
  BY WritebackCases DEF memVars
<1>2. CASE nextWb' = nextWb /\ UNCHANGED <<shpipe, nextGlobal, l1ready>>
  BY <1>1, <1>2, SameLsu DEF lsuTypeVars
<1>3. CASE Taken(nextWb')
  <2>1. /\ shpipe \in [0..2 -> SharedLoads \cup {None}] /\ nextGlobal \in SentLoads \cup {None}
        /\ l1ready \in Seq(SentLoads)
    BY DEF LsuTypes
  <2>2. /\ shpipe' \in [0..2 -> SharedLoads \cup {None}] /\ nextGlobal' \in SentLoads \cup {None}
        /\ nextWb' \in SharedLoads \cup SentLoads \cup {None} /\ l1ready' \in Seq(SentLoads)
    <3>1. CASE nextWb' = None /\ UNCHANGED <<shpipe, inPipe, nextGlobal, l1ready>>
      BY <2>1, <3>1
    <3>2. CASE /\ shpipe[0] # None /\ nextWb' = shpipe[0] /\ shpipe' = [shpipe EXCEPT ![0] = None]
               /\ UNCHANGED <<nextGlobal, l1ready>>
      BY <2>1, <3>2
    <3>3. CASE nextGlobal # None /\ nextWb' = nextGlobal /\ nextGlobal' = None /\ UNCHANGED <<shpipe, inPipe, l1ready>>
      BY <2>1, <3>3
    <3>4. CASE l1ready # <<>> /\ nextWb' = l1ready[1] /\ l1ready' = Tail(l1ready) /\ UNCHANGED <<shpipe, inPipe, nextGlobal>>
      BY <2>1, <3>4
    <3>5. QED
      BY <1>3, <3>1, <3>2, <3>3, <3>4 DEF Taken
  <2>3. QED
    BY <1>1, <2>2, LsuTypesNext DEF LsuTypes
<1>4. QED
  BY <1>1, <1>2, <1>3

\* What the load/store unit does with the oldest response: nothing, the acknowledgement of a
\* store, a global load, a fill of the L1D.
Received(x, inst) ==
  \/ UNCHANGED <<respq, stores, nextGlobal, l1ready>>
  \/ /\ respq # <<>> /\ x.pc \in StorePcs /\ respq' = Tail(respq)
     /\ stores' = [stores EXCEPT ![x.w] = @ - 1] /\ UNCHANGED <<nextGlobal, l1ready>>
  \/ /\ respq # <<>> /\ x.pc \in Loads /\ respq' = Tail(respq) /\ nextGlobal = None
     /\ nextGlobal' = inst /\ UNCHANGED <<stores, l1ready>>
  \/ /\ respq # <<>> /\ x.pc \in Loads /\ respq' = Tail(respq)
     /\ l1ready' = Append(l1ready, inst) /\ UNCHANGED <<stores, nextGlobal>>

\* A queue without its first.
LEMMA TailOf ==
  ASSUME NEW S, NEW q \in Seq(S), q # <<>>
  PROVE  /\ Tail(q) \in Seq(S) /\ Len(q) \in Nat \ {0} /\ Len(Tail(q)) = Len(q) - 1 /\ q[1] \in S
         /\ \A i \in 1..(Len(q) - 1) : Tail(q)[i] = q[i + 1]
OBVIOUS

\* What ldst_unit::cycle() does with the oldest answer of memory.
LEMMA ResponseCases ==
  ASSUME setup \in Setups, LsuTypes, LsuResponse
  PROVE  /\ Received(respq[1], [w |-> respq[1].w, pc |-> respq[1].pc])
         /\ respq # <<>> => /\ respq[1].w \in Warps
                            /\ respq[1].pc \in Loads => [w |-> respq[1].w, pc |-> respq[1].pc] \in SentLoads
         /\ shpipe' \in [0..2 -> SharedLoads \cup {None}]
         /\ UNCHANGED <<turn, setup, warpVars, fetchVars, schedVars, regVars, idoc, ocVars, written, aluVars,
                        lsuVars, nextWb, arb, memVars, inPipe>>
<1> DEFINE x == respq[1]
           inst == [w |-> x.w, pc |-> x.pc]
           down == IF shpipe[0] = None /\ shpipe[1] # None
                   THEN [shpipe EXCEPT ![0] = shpipe[1], ![1] = None] ELSE shpipe
<1>1. ASSUME respq # <<>>
      PROVE  /\ x.w \in Warps /\ x.pc \in Loads \cup StorePcs /\ x.pc \in DOMAIN Program
             /\ P(x).op = "store" => x.pc \in StorePcs
             /\ P(x).op # "store" => x.pc \in Loads
             /\ x.pc \in Loads => inst \in SentLoads
  <2>1. PICK T : T = [w : Warps, pc : Loads \cup StorePcs, k : Nat]
    OBVIOUS
  <2>2. respq \in Seq(T)
    BY <2>1 DEF LsuTypes
  <2>3. x \in T
    BY <1>1, <2>2
  <2>4. x.w \in Warps /\ x.pc \in Loads \cup StorePcs
    BY <2>1, <2>3
  <2>5. QED
    BY <2>4 DEF Loads, StorePcs, P, SentLoads, Running
<1>2. IF respq = <<>> THEN UNCHANGED <<respq, stores, nextGlobal, l1ready>>
      ELSE IF P(x).op = "store"
      THEN respq' = Tail(respq) /\ stores' = [stores EXCEPT ![x.w] = @ - 1]
           /\ UNCHANGED <<nextGlobal, l1ready>>
      ELSE IF P(x).space = "global"
      THEN /\ IF nextGlobal = None THEN respq' = Tail(respq) /\ nextGlobal' = inst
              ELSE UNCHANGED <<respq, nextGlobal>>
           /\ UNCHANGED <<stores, l1ready>>
      ELSE respq' = Tail(respq) /\ l1ready' = Append(l1ready, inst) /\ UNCHANGED <<stores, nextGlobal>>
  BY DEF LsuResponse
<1>3. Received(x, inst)
  <2>1. CASE respq = <<>>
    BY <1>2, <2>1 DEF Received
  <2>2. CASE respq # <<>> /\ P(x).op = "store"
    BY <1>1, <1>2, <2>2 DEF Received
  <2>3. CASE respq # <<>> /\ P(x).op # "store" /\ P(x).space = "global" /\ nextGlobal = None
    BY <1>1, <1>2, <2>3 DEF Received
  <2>4. CASE respq # <<>> /\ P(x).op # "store" /\ P(x).space = "global" /\ nextGlobal # None
    BY <1>1, <1>2, <2>4 DEF Received
  <2>5. CASE respq # <<>> /\ P(x).op # "store" /\ P(x).space # "global"
    BY <1>1, <1>2, <2>5 DEF Received
  <2>6. QED
    BY <2>1, <2>2, <2>3, <2>4, <2>5
<1>4. shpipe' \in [0..2 -> SharedLoads \cup {None}]
  <2>1. PICK T : T = SharedLoads \cup {None}
    OBVIOUS
  <2>2. shpipe \in [0..2 -> T] /\ None \in T
    BY <2>1 DEF LsuTypes
  <2>3. down \in [0..2 -> T]
    BY <2>2
  <2>4. shpipe' = IF down[1] = None /\ down[2] # None
                  THEN [down EXCEPT ![1] = down[2], ![2] = None] ELSE down
    BY DEF LsuResponse
  <2> HIDE DEF down
  <2>5. QED
    BY <2>1, <2>2, <2>3, <2>4
<1>5. UNCHANGED <<turn, setup, warpVars, fetchVars, schedVars, regVars, idoc, ocVars, written, aluVars,
                  lsuVars, nextWb, arb, memVars, inPipe>>
  BY DEF LsuResponse
<1>6. QED
  BY <1>1, <1>3, <1>4, <1>5

\* Taking a response keeps the types.
LEMMA ResponseLsu ==
  ASSUME setup \in Setups, LsuTypes, LsuResponse
  PROVE  LsuTypes'
<1>1. PICK x, inst : x = respq[1] /\ inst = [w |-> x.w, pc |-> x.pc]
  OBVIOUS
<1>2. /\ Received(x, inst) /\ (respq # <<>> /\ x.pc \in Loads => inst \in SentLoads)
      /\ shpipe' \in [0..2 -> SharedLoads \cup {None}]
      /\ UNCHANGED <<setup, disp, left, nextWb, loads, acks>>
  BY <1>1, ResponseCases DEF lsuVars, memVars
<1>3. PICK T : T = [w : Warps, pc : Loads \cup StorePcs, k : Nat]
  OBVIOUS
<1>4. respq \in Seq(T) /\ nextGlobal \in SentLoads \cup {None} /\ l1ready \in Seq(SentLoads)
  BY <1>3 DEF LsuTypes
<1>5. respq' \in Seq(T) /\ nextGlobal' \in SentLoads \cup {None} /\ l1ready' \in Seq(SentLoads)
  <2>1. respq' = respq \/ (respq # <<>> /\ respq' = Tail(respq))
    BY <1>2 DEF Received
  <2>2. nextGlobal' = nextGlobal \/ (inst \in SentLoads /\ nextGlobal' = inst)
    BY <1>2 DEF Received
  <2>3. l1ready' = l1ready \/ (inst \in SentLoads /\ l1ready' = Append(l1ready, inst))
    BY <1>2 DEF Received
  <2>4. respq' \in Seq(T)
    BY <1>4, <2>1, TailOf
  <2>5. l1ready' \in Seq(SentLoads)
    BY <1>4, <2>3
  <2>6. QED
    BY <1>4, <2>2, <2>4, <2>5
<1>6. QED
  BY <1>2, <1>3, <1>5, LsuTypesNext DEF LsuTypes

\* So does a cycle of the dispatch register.
LEMMA DispatchLsu ==
  ASSUME setup \in Setups, LsuTypes, LsuDispatch
  PROVE  LsuTypes'
<1>1. /\ Waits \/ Passes \/ Drops \/ Empties \/ Makes
      /\ left' \in Nat
      /\ UNCHANGED <<setup, nextWb, nextGlobal, l1ready, respq>>
  BY DispatchCases
<1>2. None \in Of("mem")
  BY OfIsInst
<1>3. /\ disp \in Of("mem") /\ left \in Nat
      /\ disp # None /\ ~Shared(disp) /\ P(disp).op = "membar" => left = 0
      /\ shpipe \in [0..2 -> SharedLoads \cup {None}]
      /\ loads \subseteq [w : Warps, pc : Loads, k : Nat] /\ IsFiniteSet(loads)
      /\ acks \in [Warps -> Nat] /\ \A w \in Warps : acks[w] > 0 => StorePcs # {}
  BY DEF LsuTypes
<1>4. /\ disp' = disp \/ disp' = None
      /\ disp' = disp => left' = left \/ Shared(disp) \/ left > 0
  BY <1>1 DEF Waits, Passes, Drops, Empties, Makes, Through, Stay
<1>5. /\ disp' \in Of("mem")
      /\ disp' # None /\ ~Shared(disp') /\ P(disp').op = "membar" => left' = 0
  BY <1>2, <1>3, <1>4
<1>6. shpipe' \in [0..2 -> SharedLoads \cup {None}]
  <2>1. shpipe' = shpipe \/ (disp # None /\ IsLoad(disp) /\ Shared(disp) /\ shpipe' = [shpipe EXCEPT ![2] = disp])
    BY <1>1 DEF Waits, Passes, Drops, Empties, Makes, Through, Stay
  <2>2. CASE shpipe' = shpipe
    BY <1>3, <2>2
  <2>3. CASE disp # None /\ IsLoad(disp) /\ Shared(disp) /\ shpipe' = [shpipe EXCEPT ![2] = disp]
    <3>1. disp \in SharedLoads
      BY <2>3, InDisp
    <3>2. QED
      BY <1>3, <2>3, <3>1
  <2>4. QED
    BY <2>1, <2>2, <2>3
<1>7. /\ loads' \subseteq [w : Warps, pc : Loads, k : Nat] /\ IsFiniteSet(loads')
      /\ acks' \in [Warps -> Nat] /\ \A w \in Warps : acks'[w] > 0 => StorePcs # {}
  <2>1. CASE loads' = loads /\ acks' = acks
    BY <1>3, <2>1
  <2>2. CASE Makes /\ Sent /\ IsLoad(disp)
    <3>1. PICK a : a = [w |-> disp.w, pc |-> disp.pc, k |-> left]
      OBVIOUS
    <3>2. loads' = loads \cup {a} /\ acks' = acks /\ a \in [w : Warps, pc : Loads, k : Nat]
      BY <1>3, <2>2, <3>1, InDisp DEF Makes, Sent
    <3>3. IsFiniteSet(loads')
      BY <1>3, <3>2, FS_AddElement
    <3>4. QED
      BY <1>3, <3>2, <3>3
  <2>3. CASE Makes /\ Sent /\ ~IsLoad(disp)
    <3>1. loads' = loads /\ acks' = [acks EXCEPT ![disp.w] = @ + 1] /\ StorePcs # {} /\ disp.w \in Warps
      BY <2>3, InDisp DEF Makes, Sent
    <3>2. QED
      BY <1>3, <3>1
  <2>4. QED
    BY <1>1, <2>1, <2>2, <2>3 DEF Waits, Passes, Drops, Empties, Makes, Hit
<1>8. QED
  BY <1>1, <1>5, <1>6, <1>7, LsuTypesNext DEF LsuTypes

\* What an instruction brings when it comes to the dispatch register.
LEMMA LsuIssueCases ==
  ASSUME setup \in Setups, AluTypes, LsuIssue
  PROVE  /\ \/ UNCHANGED <<ocex, disp, left, pw>>
            \/ /\ disp = None /\ disp' = ocex["mem"] /\ disp' # None /\ disp' \in Of("mem")
               /\ ocex' = [ocex EXCEPT !["mem"] = None]
               /\ left' = (IF Shared(disp') THEN P(disp').ii ELSE P(disp').n) /\ left' \in Nat
               /\ P(disp').op = "membar" /\ ~Shared(disp') => left' = 0
               /\ pw' = IF IsLoad(disp') /\ ~Shared(disp')
                        THEN [pw EXCEPT ![disp'.w] = Counted(disp', @)] ELSE pw
         /\ UNCHANGED <<turn, setup, warpVars, fetchVars, schedVars, regVars, idoc, cu, missing, queue, pri,
                        written, aluVars, wbVars, memVars, inPipe, stores>>
<1>1. UNCHANGED <<turn, setup, warpVars, fetchVars, schedVars, regVars, idoc, cu, missing, queue, pri,
                  written, aluVars, wbVars, memVars, inPipe, stores>>
  BY DEF LsuIssue
<1>2. \/ UNCHANGED <<ocex, disp, left, pw>>
      \/ /\ disp = None /\ disp' = ocex["mem"] /\ disp' # None
         /\ ocex' = [ocex EXCEPT !["mem"] = None]
         /\ left' = IF Shared(disp') THEN P(disp').ii ELSE P(disp').n
         /\ pw' = IF IsLoad(disp') /\ ~Shared(disp')
                  THEN [pw EXCEPT ![disp'.w] = Counted(disp', @)] ELSE pw
  <2>1. PICK x : x = ocex["mem"]
    OBVIOUS
  <2>2. CASE x = None \/ disp # None
    BY <2>1, <2>2 DEF LsuIssue
  <2>3. CASE ~(x = None \/ disp # None)
    <3>1. /\ disp' = x /\ ocex' = [ocex EXCEPT !["mem"] = None]
          /\ left' = IF Shared(x) THEN P(x).ii ELSE P(x).n
          /\ pw' = IF IsLoad(x) /\ ~Shared(x) THEN [pw EXCEPT ![x.w] = Counted(x, @)] ELSE pw
      BY <2>1, <2>3 DEF LsuIssue
    <3>2. QED
      BY <2>1, <2>3, <3>1
  <2>4. QED
    BY <2>2, <2>3
<1>3. ocex["mem"] \in Of("mem")
  BY DEF AluTypes, Kinds
<1>4. ASSUME NEW x \in Of("mem"), x # None
      PROVE  P(x).ii \in Nat /\ P(x).n \in Nat /\ (P(x).op = "membar" => P(x).n = 0)
  <2>1. x.pc \in DOMAIN Program /\ P(x) = Program[x.pc]
    BY <1>4 DEF Of, Running, P
  <2>2. P(x) \in Instruction
    BY <2>1, ProgramFacts
  <2>3. P(x).op = "membar" => P(x).n = 0
    BY <2>1, CoreConstants DEF Program
  <2>4. QED
    BY <2>2, <2>3 DEF Instruction
<1>5. QED
  BY <1>1, <1>2, <1>3, <1>4

\* An instruction that enters the unit keeps them.
LEMMA LsuIssueLsu ==
  ASSUME setup \in Setups, LsuTypes, AluTypes, LsuIssue
  PROVE  LsuTypes'
<1>1. UNCHANGED <<setup, shpipe, nextWb, nextGlobal, l1ready, loads, respq, acks>>
  BY LsuIssueCases DEF wbVars, memVars
<1>2. /\ disp' \in Of("mem") /\ left' \in Nat
      /\ disp' # None /\ ~Shared(disp') /\ P(disp').op = "membar" => left' = 0
  BY LsuIssueCases DEF LsuTypes
<1>3. QED
  BY <1>1, <1>2, LsuTypesNext DEF LsuTypes

\* What memory sends arrives in the response queue.
LEMMA AnswerLsu ==
  ASSUME setup \in Setups, LsuTypes, Memory
  PROVE  LsuTypes'
<1>1. PICK T : T = [w : Warps, pc : Loads \cup StorePcs, k : Nat]
  OBVIOUS
<1>2. respq \in Seq(T)
  BY <1>1 DEF LsuTypes
<1>3. ASSUME NEW x \in loads, AnswerLoad(x) PROVE LsuTypes'
  <2>1. /\ UNCHANGED <<setup, disp, left, shpipe, nextWb, nextGlobal, l1ready, acks>>
        /\ respq' = Append(respq, x) /\ loads' = loads \ {x}
    BY <1>3 DEF AnswerLoad, Arrives, lsuVars
  <2>2. x \in T
    BY <1>1 DEF LsuTypes
  <2>3. loads' \subseteq [w : Warps, pc : Loads, k : Nat] /\ IsFiniteSet(loads')
    BY <2>1, FS_RemoveElement DEF LsuTypes
  <2>4. respq' \in Seq(T)
    BY <1>2, <2>1, <2>2
  <2>5. QED
    BY <1>1, <2>1, <2>3, <2>4, LsuTypesNext DEF LsuTypes
<1>4. ASSUME NEW w \in Warps, AnswerStore(w) PROVE LsuTypes'
  <2>1. PICK x : x = [w |-> w, pc |-> AStore, k |-> 0]
    OBVIOUS
  <2>2. /\ UNCHANGED <<setup, disp, left, shpipe, nextWb, nextGlobal, l1ready, loads>>
        /\ respq' = Append(respq, x) /\ acks' = [acks EXCEPT ![w] = @ - 1] /\ acks[w] > 0
    BY <1>4, <2>1 DEF AnswerStore, Arrives, lsuVars
  <2>3. AStore \in StorePcs
    <3>1. StorePcs # {}
      BY <2>2 DEF LsuTypes
    <3>2. QED
      BY <3>1 DEF AStore, StorePcs
  <2>4. x \in T
    BY <1>1, <2>1, <2>3
  <2>5. respq' \in Seq(T)
    BY <1>2, <2>2, <2>4
  <2>6. acks' \in [Warps -> Nat] /\ \A v \in Warps : acks'[v] > 0 => StorePcs # {}
    BY <2>2, <2>3 DEF LsuTypes
  <2>7. QED
    BY <1>1, <2>2, <2>5, <2>6, LsuTypesNext DEF LsuTypes
<1>5. CASE AnswerFetch
  BY <1>5, SameLsu DEF AnswerFetch, lsuTypeVars, lsuVars, wbVars, memVars
<1>6. QED
  BY <1>3, <1>4, <1>5 DEF Memory

-----------------------------------------------------------------------------
(* Accesses on their way.                                                  *)

\* An instruction or a response counts once or not at all.
LEMMA AtValue ==
  ASSUME NEW x, NEW w, NEW pcs
  PROVE  At(x, w, pcs) \in Nat /\ At(x, w, pcs) = (IF x.w = w /\ x.pc \in pcs THEN 1 ELSE 0)
BY DEF At

\* No instruction counts for no warp.
LEMMA AtNone == ASSUME NEW w \in Warps, NEW pcs PROVE At(None, w, pcs) = 0 /\ \A n : ToSend(None, n, w, pcs) = 0
<1>1. None.w = -1 /\ w # -1
  BY DEF None, Warps
<1>2. QED
  BY <1>1 DEF At, ToSend

\* Those in a queue.
LEMMA FromFinite ==
  ASSUME NEW S, NEW q \in Seq(S), NEW w, NEW pcs
  PROVE  /\ \A A : A = {i \in 1..Len(q) : q[i].w = w /\ q[i].pc \in pcs} =>
               IsFiniteSet(A) /\ From(q, w, pcs) = Cardinality(A) /\ Cardinality(A) \in Nat
         /\ From(q, w, pcs) \in Nat
<1>1. PICK n \in Nat : n = Len(q) /\ DOMAIN q = 1..n
  OBVIOUS
<1>2. IsFiniteSet(1..n)
  BY FS_Interval
<1>3. PICK A : A = {i \in 1..n : q[i].w = w /\ q[i].pc \in pcs}
  OBVIOUS
<1>4. A \in SUBSET (1..n)
  BY <1>3
<1>5. IsFiniteSet(A) /\ Cardinality(A) \in Nat
  BY <1>2, <1>4, FS_Subset, FS_CardinalityType
<1>6. From(q, w, pcs) = Cardinality(A)
  BY <1>1, <1>3 DEF From
<1>7. QED
  BY <1>1, <1>3, <1>5, <1>6

\* A queue and one more.
LEMMA AppendOf ==
  ASSUME NEW S, NEW q \in Seq(S), NEW x \in S
  PROVE  /\ Append(q, x) \in Seq(S) /\ Len(Append(q, x)) = Len(q) + 1 /\ Len(q) \in Nat
         /\ Append(q, x)[Len(q) + 1] = x
         /\ \A i \in 1..Len(q) : Append(q, x)[i] = q[i]
OBVIOUS

\* One more comes in.
LEMMA FromAppend ==
  ASSUME NEW S, NEW q \in Seq(S), NEW x \in S, NEW w, NEW pcs
  PROVE  From(Append(q, x), w, pcs) = From(q, w, pcs) + At(x, w, pcs)
<1>0. PICK t : t = Append(q, x)
  OBVIOUS
<1>1. PICK n \in Nat : n = Len(q)
  OBVIOUS
<1> DEFINE A == {i \in 1..n : q[i].w = w /\ q[i].pc \in pcs}
           B == {i \in 1..(n + 1) : t[i].w = w /\ t[i].pc \in pcs}
<1>2. t[n + 1] = x /\ (\A i \in 1..n : t[i] = q[i]) /\ DOMAIN t = 1..(n + 1)
  BY <1>0, <1>1, AppendOf
<1>3. B = IF x.w = w /\ x.pc \in pcs THEN A \cup {n + 1} ELSE A
  <2>1. \A i \in 1..(n + 1) : i \in 1..n \/ i = n + 1
    OBVIOUS
  <2>2. 1..n \subseteq 1..(n + 1) /\ n + 1 \in 1..(n + 1)
    OBVIOUS
  <2>3. QED
    BY <1>2, <2>1, <2>2
<1>4. IsFiniteSet(A) /\ From(q, w, pcs) = Cardinality(A) /\ Cardinality(A) \in Nat
  <2>1. A = {i \in 1..Len(q) : q[i].w = w /\ q[i].pc \in pcs}
    BY <1>1
  <2> HIDE DEF A
  <2>2. QED
    BY <2>1, FromFinite
<1>5. From(t, w, pcs) = Cardinality(B)
  BY <1>2 DEF From
<1>6. n + 1 \notin A
  OBVIOUS
<1> HIDE DEF A, B
<1>7. Cardinality(A \cup {n + 1}) = Cardinality(A) + 1
  BY <1>4, <1>6, FS_AddElement
<1>8. QED
  BY <1>0, <1>3, <1>4, <1>5, <1>7 DEF At

\* The first goes.
LEMMA FromTail ==
  ASSUME NEW S, NEW q \in Seq(S), q # <<>>, NEW t, t = Tail(q), NEW w, NEW pcs
  PROVE  From(t, w, pcs) = From(q, w, pcs) - At(q[1], w, pcs)
<1>1. PICK n \in Nat \ {0} : n = Len(q)
  BY TailOf
<1> DEFINE A == {i \in 1..n : q[i].w = w /\ q[i].pc \in pcs}
           B == {i \in 1..(n - 1) : t[i].w = w /\ t[i].pc \in pcs}
           f == [i \in B |-> i + 1]
<1>2. t \in Seq(S) /\ Len(t) = n - 1 /\ \A i \in 1..(n - 1) : t[i] = q[i + 1]
  <2>1. /\ Tail(q) \in Seq(S) /\ Len(Tail(q)) = Len(q) - 1
        /\ \A i \in 1..(Len(q) - 1) : Tail(q)[i] = q[i + 1]
    BY TailOf
  <2>2. QED
    BY <1>1, <2>1
<1>3. IsFiniteSet(A) /\ From(q, w, pcs) = Cardinality(A) /\ Cardinality(A) \in Nat
  <2>1. A = {i \in 1..Len(q) : q[i].w = w /\ q[i].pc \in pcs}
    BY <1>1
  <2>2. q \in Seq(S)
    OBVIOUS
  <2> HIDE DEF A
  <2>3. QED
    BY ONLY <2>1, <2>2, FromFinite
<1>4. IsFiniteSet(B) /\ From(t, w, pcs) = Cardinality(B)
  <2>1. B = {i \in 1..Len(t) : t[i].w = w /\ t[i].pc \in pcs}
    BY <1>2
  <2>2. t \in Seq(S)
    BY <1>2
  <2> HIDE DEF B
  <2>3. QED
    BY ONLY <2>1, <2>2, FromFinite
<1>5. f \in [B -> A \ {1}] /\ \A x, y \in B : f[x] = f[y] => x = y
  <2>1. \A i \in B : i \in Int /\ i + 1 \in A \ {1}
    BY <1>2
  <2> HIDE DEF A, B
  <2>2. QED
    BY <2>1
<1>6. ASSUME NEW u \in A \ {1} PROVE \E x \in B : f[x] = u
  <2>1. u - 1 \in 1..(n - 1) /\ (u - 1) + 1 = u /\ q[u].w = w /\ q[u].pc \in pcs
    OBVIOUS
  <2>2. t[u - 1] = q[u]
    BY <1>2, <2>1
  <2>3. u - 1 \in B
    BY <2>1, <2>2
  <2> HIDE DEF A, B
  <2>4. QED
    BY <2>1, <2>3
<1>7. Cardinality(A \ {1}) = Cardinality(B)
  <2> HIDE DEF A, B, f
  <2>1. PICK U : U = A \ {1}
    OBVIOUS
  <2>2. Cardinality(U) = Cardinality(B)
    BY <1>4, <1>5, <1>6, <2>1, SameSize
  <2>3. QED
    BY <2>1, <2>2
<1>8. Cardinality(A \ {1}) = IF 1 \in A THEN Cardinality(A) - 1 ELSE Cardinality(A)
  <2> HIDE DEF A
  <2>1. QED
    BY <1>3, FS_RemoveElement
<1>9. At(q[1], w, pcs) = IF 1 \in A THEN 1 ELSE 0
  BY DEF At
<1> HIDE DEF A, B
<1>10. QED
  BY <1>3, <1>4, <1>7, <1>8, <1>9

\* Those that memory has.
LEMMA InMemoryFinite ==
  ASSUME NEW s, IsFiniteSet(s), NEW w, NEW pcs
  PROVE  IsFiniteSet({a \in s : a.w = w /\ a.pc \in pcs}) /\ InMemory(s, w, pcs) \in Nat
<1>1. {a \in s : a.w = w /\ a.pc \in pcs} \in SUBSET s
  OBVIOUS
<1>2. IsFiniteSet({a \in s : a.w = w /\ a.pc \in pcs})
  BY <1>1, FS_Subset
<1>3. QED
  BY <1>2, FS_CardinalityType DEF InMemory

\* One access more.
LEMMA InMemoryAdd ==
  ASSUME NEW s, IsFiniteSet(s), NEW x, x \notin s, NEW t, t = s \cup {x}, NEW w, NEW pcs
  PROVE  InMemory(t, w, pcs) = InMemory(s, w, pcs) + At(x, w, pcs)
<1> DEFINE A == {a \in s : a.w = w /\ a.pc \in pcs}
           B == {a \in t : a.w = w /\ a.pc \in pcs}
<1>1. IsFiniteSet(A) /\ Cardinality(A) \in Nat
  <2>1. A \in SUBSET s
    OBVIOUS
  <2> HIDE DEF A
  <2>2. QED
    BY <2>1, FS_Subset, FS_CardinalityType
<1>2. B = (IF x.w = w /\ x.pc \in pcs THEN A \cup {x} ELSE A) /\ x \notin A
  OBVIOUS
<1>3. InMemory(t, w, pcs) = Cardinality(B) /\ InMemory(s, w, pcs) = Cardinality(A)
  BY DEF InMemory
<1> HIDE DEF A, B
<1>4. Cardinality(A \cup {x}) = Cardinality(A) + 1
  BY <1>1, <1>2, FS_AddElement
<1>5. QED
  BY <1>1, <1>2, <1>3, <1>4 DEF At

\* One access less.
LEMMA InMemoryRemove ==
  ASSUME NEW s, IsFiniteSet(s), NEW x \in s, NEW t, t = s \ {x}, NEW w, NEW pcs
  PROVE  InMemory(t, w, pcs) = InMemory(s, w, pcs) - At(x, w, pcs)
<1>1. IsFiniteSet(t) /\ x \notin t /\ s = t \cup {x}
  BY FS_RemoveElement
<1>2. InMemory(s, w, pcs) = InMemory(t, w, pcs) + At(x, w, pcs)
  BY <1>1, InMemoryAdd
<1>3. InMemory(t, w, pcs) \in Nat /\ At(x, w, pcs) \in Nat
  BY <1>1, InMemoryFinite, AtValue
<1>4. QED
  BY <1>2, <1>3

\* The sum, and the sum after a step.
LEMMA ComingParts ==
  ASSUME LsuTypes, NEW w \in Warps, NEW pcs
  PROVE  /\ ToSend(disp, left, w, pcs) \in Nat /\ InMemory(loads, w, pcs) \in Nat /\ From(respq, w, pcs) \in Nat
         /\ From(l1ready, w, pcs) \in Nat /\ At(nextGlobal, w, pcs) \in Nat /\ At(nextWb, w, pcs) \in Nat
         /\ Coming(w, pcs) \in Nat
         /\ Coming(w, pcs) = ToSend(disp, left, w, pcs) + InMemory(loads, w, pcs) + From(respq, w, pcs)
                             + From(l1ready, w, pcs) + At(nextGlobal, w, pcs) + At(nextWb, w, pcs)
         /\ At(disp, w, pcs) * left + Outstanding(w, pcs) = Coming(w, pcs)
<1>1. /\ ToSend(disp, left, w, pcs) \in Nat /\ InMemory(loads, w, pcs) \in Nat /\ From(respq, w, pcs) \in Nat
      /\ From(l1ready, w, pcs) \in Nat /\ At(nextGlobal, w, pcs) \in Nat /\ At(nextWb, w, pcs) \in Nat
  <2>1. PICK S, T : S = [w : Warps, pc : Loads \cup StorePcs, k : Nat] /\ T = SentLoads
    OBVIOUS
  <2>2. respq \in Seq(S) /\ l1ready \in Seq(T)
    BY <2>1 DEF LsuTypes
  <2>3. left \in Nat /\ IsFiniteSet(loads)
    BY DEF LsuTypes
  <2>4. QED
    BY <2>2, <2>3, FromFinite, InMemoryFinite, AtValue DEF ToSend
<1>2. At(disp, w, pcs) * left = ToSend(disp, left, w, pcs)
  <2>1. left \in Nat /\ 0 * left = 0 /\ 1 * left = left
    BY DEF LsuTypes
  <2>2. QED
    BY <2>1 DEF At, ToSend
<1>3. Coming(w, pcs) = ToSend(disp, left, w, pcs) + InMemory(loads, w, pcs) + From(respq, w, pcs)
                       + From(l1ready, w, pcs) + At(nextGlobal, w, pcs) + At(nextWb, w, pcs)
  BY DEF Coming
<1>4. Outstanding(w, pcs) = InMemory(loads, w, pcs) + From(respq, w, pcs) + From(l1ready, w, pcs)
                            + At(nextGlobal, w, pcs) + At(nextWb, w, pcs)
  BY DEF Outstanding, InMemory
<1>5. QED
  BY <1>1, <1>2, <1>3, <1>4

\* The accesses on their way after a step.
LEMMA ComingNext ==
  ASSUME NEW w, NEW pcs
  PROVE  Coming(w, pcs)' = ToSend(disp', left', w, pcs) + InMemory(loads', w, pcs) + From(respq', w, pcs)
                           + From(l1ready', w, pcs) + At(nextGlobal', w, pcs) + At(nextWb', w, pcs)
BY DEF Coming, ToSend, InMemory, From, At

\* A step that leaves the accesses alone.
LEMMA SameComing ==
  ASSUME UNCHANGED <<disp, left, loads, respq, l1ready, nextGlobal, nextWb>>, NEW w, NEW pcs
  PROVE  Coming(w, pcs)' = Coming(w, pcs)
BY ComingNext DEF Coming

\* Instructions that are no load count nowhere; what is no load of pcs does not count.
LEMMA AtOther ==
  ASSUME setup \in Setups, NEW w \in Warps, NEW pcs \in SUBSET Loads, NEW x,
         x = None \/ x.pc \in StorePcs \/ x \in SharedLoads \/ (x \in Running /\ ~(IsLoad(x) /\ ~Shared(x)))
  PROVE  At(x, w, pcs) = 0 /\ \A n : ToSend(x, n, w, pcs) = 0
<1>1. CASE x = None
  BY <1>1, AtNone
<1>2. CASE x # None
  <2>1. x.pc \notin pcs
    BY <1>2, LoadsRun DEF StorePcs, Loads, IsLoad, Shared, P
  <2>2. QED
    BY <2>1 DEF At, ToSend
<1>3. QED
  BY <1>1, <1>2

\* A response that comes in stays an access.
LEMMA ResponseComing ==
  ASSUME setup \in Setups, LsuTypes, LsuResponse, NEW w \in Warps, NEW pcs \in SUBSET Loads
  PROVE  Coming(w, pcs)' = Coming(w, pcs)
<1>1. PICK x, inst : x = respq[1] /\ inst = [w |-> x.w, pc |-> x.pc]
  OBVIOUS
<1>2. /\ Received(x, inst) /\ UNCHANGED <<disp, left, nextWb, loads>>
      /\ respq # <<>> /\ x.pc \in Loads => inst \in SentLoads
  BY <1>1, ResponseCases DEF lsuVars, memVars
<1>3. At(inst, w, pcs) = At(x, w, pcs)
  BY <1>1 DEF At
<1>4. PICK S, T : S = [w : Warps, pc : Loads \cup StorePcs, k : Nat] /\ T = SentLoads
  OBVIOUS
<1>5. respq \in Seq(S) /\ l1ready \in Seq(T)
  BY <1>4 DEF LsuTypes
<1>t. respq # <<>> /\ respq' = Tail(respq) => From(respq', w, pcs) = From(respq, w, pcs) - At(x, w, pcs)
  <2>1. respq # <<>> /\ respq' = Tail(respq) =>
          From(respq', w, pcs) = From(respq, w, pcs) - At(respq[1], w, pcs)
    BY ONLY <1>5, FromTail
  <2>2. QED
    BY <1>1, <2>1
<1>6. From(respq', w, pcs) + From(l1ready', w, pcs) + At(nextGlobal', w, pcs)
        = From(respq, w, pcs) + From(l1ready, w, pcs) + At(nextGlobal, w, pcs)
  <2>1. CASE UNCHANGED <<respq, nextGlobal, l1ready>>
    BY <2>1
  <2>2. CASE respq # <<>> /\ respq' = Tail(respq) /\ x.pc \in StorePcs /\ UNCHANGED <<nextGlobal, l1ready>>
    <3>1. At(x, w, pcs) = 0
      BY <2>2, AtOther
    <3>2. From(respq', w, pcs) = From(respq, w, pcs) - At(x, w, pcs)
      BY <1>t, <2>2
    <3>3. QED
      BY <2>2, <3>1, <3>2, ComingParts
  <2>3. CASE respq # <<>> /\ respq' = Tail(respq) /\ nextGlobal = None /\ nextGlobal' = inst /\ l1ready' = l1ready
    <3>1. From(respq', w, pcs) = From(respq, w, pcs) - At(x, w, pcs)
      BY <1>t, <2>3
    <3>2. At(nextGlobal, w, pcs) = 0 /\ At(nextGlobal', w, pcs) = At(x, w, pcs) /\ At(x, w, pcs) \in Nat
      BY <1>3, <2>3, AtNone, AtValue
    <3>3. QED
      BY <2>3, <3>1, <3>2, ComingParts
  <2>4. CASE /\ respq # <<>> /\ x.pc \in Loads /\ respq' = Tail(respq)
             /\ l1ready' = Append(l1ready, inst) /\ nextGlobal' = nextGlobal
    <3>1. From(respq', w, pcs) = From(respq, w, pcs) - At(x, w, pcs)
      BY <1>1, <1>5, <2>4, FromTail
    <3>2. inst \in T
      BY <1>2, <1>4, <2>4
    <3>3. From(l1ready', w, pcs) = From(l1ready, w, pcs) + At(inst, w, pcs)
      BY <1>5, <2>4, <3>2, FromAppend
    <3>4. At(x, w, pcs) \in Nat
      BY AtValue
    <3>5. QED
      BY <1>3, <2>4, <3>1, <3>3, <3>4, ComingParts
  <2>5. QED
    BY <1>2, <2>1, <2>2, <2>3, <2>4 DEF Received
<1>7. Coming(w, pcs)' = ToSend(disp, left, w, pcs) + InMemory(loads, w, pcs) + From(respq', w, pcs)
                        + From(l1ready', w, pcs) + At(nextGlobal', w, pcs) + At(nextWb, w, pcs)
  BY <1>2, ComingNext
<1>8. From(respq', w, pcs) \in Nat /\ From(l1ready', w, pcs) \in Nat /\ At(nextGlobal', w, pcs) \in Nat
  <2>1. LsuTypes'
    BY ResponseLsu
  <2>2. respq' \in Seq(S) /\ l1ready' \in Seq(T)
    <3>1. UNCHANGED setup
      BY ResponseCases
    <3>2. QED
      BY <1>4, <2>1, <3>1, SameKernel DEF LsuTypes
  <2>3. QED
    BY <2>2, FromFinite, AtValue
<1>9. QED
  BY ONLY <1>6, <1>7, <1>8, ComingParts, LsuTypes, w \in Warps

\* The writeback port takes one from the queue and the others move up.
LEMMA WritebackComing ==
  ASSUME setup \in Setups, LsuTypes, arb \in 0..4, LsuWriteback, NEW w \in Warps, NEW pcs \in SUBSET Loads
  PROVE  Coming(w, pcs)' = Coming(w, pcs) - (IF Goes THEN At(nextWb, w, pcs) ELSE 0)
<1>1. /\ UNCHANGED <<disp, left, respq, loads>>
      /\ \/ nextWb # None /\ ~Goes /\ nextWb' = nextWb /\ UNCHANGED <<nextGlobal, l1ready>>
         \/ (nextWb = None \/ Goes) /\ Taken(nextWb')
  BY WritebackCases DEF memVars
<1>2. CASE ~Goes /\ nextWb' = nextWb /\ UNCHANGED <<nextGlobal, l1ready>>
  <2>1. Coming(w, pcs)' = Coming(w, pcs) /\ Coming(w, pcs) \in Nat
    BY <1>1, <1>2, SameComing, ComingParts
  <2>2. QED
    BY <1>2, <2>1
<1>3. CASE (nextWb = None \/ Goes) /\ Taken(nextWb')
  <2>1. PICK T : T = SentLoads
    OBVIOUS
  <2>2. l1ready \in Seq(T)
    BY <2>1 DEF LsuTypes
  <2>3. At(nextWb', w, pcs) + At(nextGlobal', w, pcs) + From(l1ready', w, pcs)
          = At(nextGlobal, w, pcs) + From(l1ready, w, pcs)
    <3>1. CASE nextWb' = None /\ UNCHANGED <<nextGlobal, l1ready>>
      BY <3>1, AtNone, ComingParts
    <3>2. CASE shpipe[0] # None /\ nextWb' = shpipe[0] /\ UNCHANGED <<nextGlobal, l1ready>>
      <4>1. nextWb' \in SharedLoads
        BY <3>2 DEF LsuTypes
      <4>2. At(nextWb', w, pcs) = 0
        BY <4>1, AtOther
      <4>3. QED
        BY <3>2, <4>2, ComingParts
    <3>3. CASE nextGlobal # None /\ nextWb' = nextGlobal /\ nextGlobal' = None /\ l1ready' = l1ready
      BY <3>3, AtNone, ComingParts
    <3>4. CASE l1ready # <<>> /\ nextWb' = l1ready[1] /\ l1ready' = Tail(l1ready) /\ nextGlobal' = nextGlobal
      <4>1. From(l1ready', w, pcs) = From(l1ready, w, pcs) - At(nextWb', w, pcs)
        BY <2>2, <3>4, FromTail
      <4>2. At(nextWb', w, pcs) \in Nat
        BY AtValue
      <4>3. QED
        BY <3>4, <4>1, <4>2, ComingParts
    <3>5. QED
      BY <1>3, <3>1, <3>2, <3>3, <3>4 DEF Taken
  <2>4. At(nextWb, w, pcs) = IF Goes THEN At(nextWb, w, pcs) ELSE 0
    BY <1>3, AtNone
  <2>5. Coming(w, pcs)' = ToSend(disp, left, w, pcs) + InMemory(loads, w, pcs) + From(respq, w, pcs)
                        + From(l1ready', w, pcs) + At(nextGlobal', w, pcs) + At(nextWb', w, pcs)
    BY <1>1, ComingNext
  <2>6. From(l1ready', w, pcs) \in Nat /\ At(nextGlobal', w, pcs) \in Nat /\ At(nextWb', w, pcs) \in Nat
    <3>1. l1ready' \in Seq(T)
      BY <1>3, <2>2, TailOf DEF Taken
    <3>2. QED
      BY <3>1, FromFinite, AtValue
  <2>7. PICK g : g = IF Goes THEN At(nextWb, w, pcs) ELSE 0
    OBVIOUS
  <2>8. At(nextWb, w, pcs) = g
    BY <2>4, <2>7
  <2>9. Coming(w, pcs)' = Coming(w, pcs) - g
    BY ONLY <2>3, <2>5, <2>6, <2>8, ComingParts, LsuTypes, w \in Warps
  <2>10. QED
    BY <2>7, <2>9
<1>4. QED
  BY <1>1, <1>2, <1>3

\* A hit is an access less; one that is sent is in memory.
LEMMA DispatchComing ==
  ASSUME setup \in Setups, LsuTypes, FreshAccess, LsuDispatch, NEW w \in Warps, NEW pcs \in SUBSET Loads
  PROVE  /\ ~Makes => Coming(w, pcs)' = Coming(w, pcs)
         /\ Makes /\ Hit => Coming(w, pcs)' = Coming(w, pcs) - At(disp, w, pcs)
         /\ Makes /\ Sent => Coming(w, pcs)' = Coming(w, pcs)
<1>1. /\ UNCHANGED <<setup, nextWb, nextGlobal, l1ready, respq>>
      /\ Waits \/ Passes \/ Drops \/ Empties \/ Makes
  BY DispatchCases
<1>2. Coming(w, pcs)' = ToSend(disp', left', w, pcs) + InMemory(loads', w, pcs) + From(respq, w, pcs)
                        + From(l1ready, w, pcs) + At(nextGlobal, w, pcs) + At(nextWb, w, pcs)
  BY <1>1, ComingNext
<1>3. ASSUME ~Makes PROVE Coming(w, pcs)' = Coming(w, pcs)
  <2>1. loads' = loads
    BY <1>1, <1>3 DEF Waits, Passes, Drops, Empties
  <2>2. ToSend(disp', left', w, pcs) = ToSend(disp, left, w, pcs)
    <3>1. CASE Waits
      <4>1. disp' = disp
        BY <3>1 DEF Waits, Stay
      <4>2. CASE left' = left
        BY <4>1, <4>2
      <4>3. CASE disp # None /\ Shared(disp)
        <5>1. disp \in Running
          BY <4>3, InDisp
        <5>2. \A n : ToSend(disp, n, w, pcs) = 0
          BY <4>3, <5>1, AtOther
        <5>3. QED
          BY <4>1, <5>2
      <4>4. QED
        BY <3>1, <4>2, <4>3 DEF Waits
    <3>2. CASE Passes \/ Drops
      <4>1. disp # None /\ Shared(disp) /\ disp' = None
        BY <3>2 DEF Passes, Drops, Through
      <4>2. disp \in Running
        BY <4>1, InDisp
      <4>3. \A n : ToSend(disp, n, w, pcs) = 0
        BY <4>1, <4>2, AtOther
      <4>4. QED
        BY <4>1, <4>3, AtNone
    <3>3. CASE Empties
      <4>1. left = 0 /\ disp' = None
        BY <3>3 DEF Empties, Through
      <4>2. QED
        BY <4>1, AtNone DEF ToSend
    <3>4. QED
      BY <1>1, <1>3, <3>1, <3>2, <3>3
  <2>3. QED
    BY <1>2, <2>1, <2>2 DEF Coming
<1>4. ASSUME Makes
      PROVE  /\ disp # None /\ ~Shared(disp) /\ disp \in Running
             /\ ToSend(disp', left', w, pcs) = ToSend(disp, left, w, pcs) - At(disp, w, pcs)
  <2>1. disp # None /\ ~Shared(disp) /\ left \in Nat \ {0} /\ left' = left - 1
    BY <1>4 DEF Makes, LsuTypes
  <2>2. disp' = disp \/ (disp' = None /\ left' = 0)
    BY <1>4 DEF Makes, Through, Stay
  <2>3. ToSend(disp, left, w, pcs) = IF disp.w = w /\ disp.pc \in pcs THEN left ELSE 0
    BY DEF ToSend
  <2>4. At(disp, w, pcs) = IF disp.w = w /\ disp.pc \in pcs THEN 1 ELSE 0
    BY DEF At
  <2>5. CASE disp' = disp
    <3>1. ToSend(disp', left', w, pcs) = IF disp.w = w /\ disp.pc \in pcs THEN left - 1 ELSE 0
      BY <2>1, <2>5 DEF ToSend
    <3>2. QED
      BY <2>1, <2>3, <2>4, <3>1, InDisp
  <2>6. CASE disp' = None /\ left' = 0
    <3>1. ToSend(disp', left', w, pcs) = 0 /\ left = 1
      BY <2>1, <2>6, AtNone
    <3>2. QED
      BY <2>1, <2>3, <2>4, <3>1, InDisp
  <2>7. QED
    BY <2>2, <2>5, <2>6
<1>5. At(disp, w, pcs) \in Nat
  BY AtValue
<1>6. ASSUME Makes, Hit PROVE Coming(w, pcs)' = Coming(w, pcs) - At(disp, w, pcs)
  <2>1. loads' = loads
    BY <1>6 DEF Hit
  <2>2. QED
    BY <1>2, <1>4, <1>5, <1>6, <2>1, ComingParts
<1>7. ASSUME Makes, Sent PROVE Coming(w, pcs)' = Coming(w, pcs)
  <2>1. InMemory(loads', w, pcs) = InMemory(loads, w, pcs) + At(disp, w, pcs)
    <3>1. CASE IsLoad(disp)
      <4>1. PICK a : a = [w |-> disp.w, pc |-> disp.pc, k |-> left]
        OBVIOUS
      <4>2. loads' = loads \cup {a}
        BY <1>7, <3>1, <4>1 DEF Sent
      <4>3. a \notin loads
        <5>1. left \in Nat
          BY DEF LsuTypes
        <5>2. QED
          BY <4>1, <5>1 DEF FreshAccess
      <4>4. IsFiniteSet(loads)
        BY DEF LsuTypes
      <4>5. At(a, w, pcs) = At(disp, w, pcs)
        BY <4>1 DEF At
      <4>6. InMemory(loads', w, pcs) = InMemory(loads, w, pcs) + At(a, w, pcs)
        BY <4>2, <4>3, <4>4, InMemoryAdd
      <4>7. QED
        BY <4>5, <4>6
    <3>2. CASE ~IsLoad(disp)
      <4>1. loads' = loads /\ At(disp, w, pcs) = 0
        BY <1>4, <1>7, <3>2, AtOther DEF Sent
      <4>2. QED
        BY <4>1, ComingParts
    <3>3. QED
      BY <3>1, <3>2
  <2>2. QED
    BY <1>2, <1>4, <1>5, <1>7, <2>1, ComingParts
<1>8. QED
  BY <1>3, <1>6, <1>7

\* A load that comes to the dispatch register brings its accesses.
LEMMA LsuIssueComing ==
  ASSUME setup \in Setups, LsuTypes, AluTypes, LsuIssue, NEW w \in Warps, NEW pcs \in SUBSET Loads
  PROVE  /\ disp' = disp => Coming(w, pcs)' = Coming(w, pcs)
         /\ disp' # disp => Coming(w, pcs)' = Coming(w, pcs) + ToSend(disp', left', w, pcs)
<1>1. UNCHANGED <<nextWb, nextGlobal, l1ready, respq, loads>>
  BY LsuIssueCases DEF wbVars, memVars
<1>2. UNCHANGED <<disp, left>> \/ (disp = None /\ disp' # None /\ left' \in Nat)
  BY LsuIssueCases
<1>3. CASE UNCHANGED <<disp, left>>
  BY <1>1, <1>3, SameComing
<1>4. CASE disp = None /\ disp' # None /\ left' \in Nat
  <2>1. ToSend(disp, left, w, pcs) = 0
    BY <1>4, AtNone
  <2>2. ToSend(disp', left', w, pcs) \in Nat
    BY <1>4 DEF ToSend
  <2>3. Coming(w, pcs)' = ToSend(disp', left', w, pcs) + InMemory(loads, w, pcs) + From(respq, w, pcs)
                        + From(l1ready, w, pcs) + At(nextGlobal, w, pcs) + At(nextWb, w, pcs)
    BY <1>1, ComingNext
  <2>4. Coming(w, pcs)' = Coming(w, pcs) + ToSend(disp', left', w, pcs)
    BY <2>1, <2>2, <2>3, ComingParts
  <2>5. QED
    BY <1>4, <2>4
<1>5. QED
  BY <1>2, <1>3, <1>4

\* An answer is still to be written back.
LEMMA AnswerComing ==
  ASSUME setup \in Setups, LsuTypes, Memory, NEW w \in Warps, NEW pcs \in SUBSET Loads
  PROVE  Coming(w, pcs)' = Coming(w, pcs)
<1>1. PICK T : T = [w : Warps, pc : Loads \cup StorePcs, k : Nat]
  OBVIOUS
<1>2. respq \in Seq(T) /\ IsFiniteSet(loads)
  BY <1>1 DEF LsuTypes
<1>3. ASSUME NEW x \in loads, AnswerLoad(x) PROVE Coming(w, pcs)' = Coming(w, pcs)
  <2>1. /\ UNCHANGED <<disp, left, nextWb, nextGlobal, l1ready>>
        /\ respq' = Append(respq, x) /\ loads' = loads \ {x}
    BY <1>3 DEF AnswerLoad, Arrives, lsuVars
  <2>2. x \in T
    BY <1>1 DEF LsuTypes
  <2>3. From(respq', w, pcs) = From(respq, w, pcs) + At(x, w, pcs)
    BY <1>2, <2>1, <2>2, FromAppend
  <2>4. InMemory(loads', w, pcs) = InMemory(loads, w, pcs) - At(x, w, pcs)
    BY <1>2, <2>1, InMemoryRemove
  <2>5. Coming(w, pcs)' = ToSend(disp, left, w, pcs) + InMemory(loads', w, pcs) + From(respq', w, pcs)
                        + From(l1ready, w, pcs) + At(nextGlobal, w, pcs) + At(nextWb, w, pcs)
    BY <2>1, ComingNext
  <2>6. At(x, w, pcs) \in Nat
    BY AtValue
  <2>7. QED
    BY <2>3, <2>4, <2>5, <2>6, ComingParts
<1>4. ASSUME NEW v \in Warps, AnswerStore(v) PROVE Coming(w, pcs)' = Coming(w, pcs)
  <2>1. PICK x : x = [w |-> v, pc |-> AStore, k |-> 0]
    OBVIOUS
  <2>2. /\ UNCHANGED <<disp, left, nextWb, nextGlobal, l1ready, loads>>
        /\ respq' = Append(respq, x) /\ acks[v] > 0
    BY <1>4, <2>1 DEF AnswerStore, Arrives, lsuVars
  <2>3. AStore \in StorePcs
    <3>1. StorePcs # {}
      BY <2>2 DEF LsuTypes
    <3>2. QED
      BY <3>1 DEF AStore, StorePcs
  <2>4. x \in T /\ x.pc \in StorePcs
    BY <1>1, <2>1, <2>3
  <2>5. From(respq', w, pcs) = From(respq, w, pcs) + At(x, w, pcs)
    BY <1>2, <2>2, <2>4, FromAppend
  <2>6. At(x, w, pcs) = 0
    BY <2>4, AtOther
  <2>7. Coming(w, pcs)' = ToSend(disp, left, w, pcs) + InMemory(loads, w, pcs) + From(respq', w, pcs)
                        + From(l1ready, w, pcs) + At(nextGlobal, w, pcs) + At(nextWb, w, pcs)
    BY <2>2, ComingNext
  <2>8. QED
    BY <2>5, <2>6, <2>7, ComingParts
<1>5. CASE AnswerFetch
  BY <1>5, SameComing DEF AnswerFetch, lsuVars, wbVars, memVars
<1>6. QED
  BY <1>3, <1>4, <1>5 DEF Memory

-----------------------------------------------------------------------------
(* m_pending_writes.                                                       *)

\* What the sum says after a step.
LEMMA PendingBy ==
  ASSUME setup' = setup,
         \A w \in Warps : \A r \in Regs : \A pcs \in SUBSET Loads :
           pcs = Into(r) => pw'[w][r] = Coming(w, pcs)'
  PROVE  PendingSum'
<1>1. Regs' = Regs
  BY SameSetup
<1>2. ASSUME NEW w \in Warps, NEW r \in Regs PROVE pw'[w][r] = Coming(w, Into(r))'
  <2>1. PICK pcs \in SUBSET Loads : pcs = Into(r)
    BY DEF Into
  <2>2. Into(r)' = pcs
    BY <2>1, SameKernel
  <2>3. Coming(w, Into(r))' = Coming(w, pcs)'
    BY <2>2 DEF Coming, ToSend, InMemory, From, At
  <2>4. QED
    BY <2>1, <2>3
<1>3. QED
  BY <1>1, <1>2 DEF PendingSum

\* A load counts for the registers it writes.
LEMMA AtInto ==
  ASSUME setup \in Setups, NEW x \in SentLoads, NEW w \in Warps, NEW r, NEW pcs, pcs = Into(r)
  PROVE  /\ At(x, w, pcs) = IF x.w = w /\ r \in Range(P(x).out) THEN 1 ELSE 0
         /\ \A n : ToSend(x, n, w, pcs) = IF x.w = w /\ r \in Range(P(x).out) THEN n ELSE 0
<1>1. x.pc \in pcs <=> r \in Range(P(x).out)
  BY LoadsRun DEF Into, P
<1>2. QED
  BY <1>1 DEF At, ToSend

\* A step that leaves them alone.
LEMMA SamePending ==
  ASSUME PendingSum, PwTypes, setup' = setup, pw' = pw,
         \A w \in Warps : \A pcs \in SUBSET Loads : Coming(w, pcs)' = Coming(w, pcs)
  PROVE  PendingSum' /\ PwTypes'
<1>1. PwTypes'
  BY SameSetup DEF PwTypes
<1>2. PendingSum'
  BY PendingBy DEF PendingSum
<1>3. QED
  BY <1>1, <1>2

\* One access less, for the registers of a load.
LEMMA PendingLess ==
  ASSUME setup \in Setups, PendingSum, PwTypes, setup' = setup, NEW x \in SentLoads, LsuTypes,
         pw' = [pw EXCEPT ![x.w] = Less(x, @)],
         \A w \in Warps : \A pcs \in SUBSET Loads : Coming(w, pcs)' = Coming(w, pcs) - At(x, w, pcs)
  PROVE  PendingSum' /\ PwTypes'
<1>1. x.w \in Warps
  BY LoadsRun
<1>2. Less(x, pw[x.w]) = [r \in Regs |-> pw[x.w][r] - (IF r \in Range(P(x).out) THEN 1 ELSE 0)]
  BY DEF Less
<1>3. /\ pw \in [Warps -> [Regs -> Int]]
      /\ \A w \in Warps : \A r \in Regs : pw[w][r] \in Int /\ pw[w][r] = Coming(w, Into(r))
  BY DEF PwTypes, PendingSum
<1>4. Less(x, pw[x.w]) \in [Regs -> Int]
  BY <1>1, <1>2, <1>3
<1>5. PwTypes'
  <2>1. pw' \in [Warps -> [Regs -> Int]]
    BY <1>1, <1>3, <1>4
  <2>2. QED
    BY <2>1, SameSetup DEF PwTypes
<1>6. ASSUME NEW w \in Warps, NEW r \in Regs, NEW pcs \in SUBSET Loads, pcs = Into(r)
      PROVE  pw'[w][r] = Coming(w, pcs)'
  <2>1. pw'[w][r] = pw[w][r] - (IF x.w = w /\ r \in Range(P(x).out) THEN 1 ELSE 0)
    <3>1. CASE x.w = w
      <4>1. pw'[w] = Less(x, pw[x.w])
        BY <1>3, <3>1
      <4>2. QED
        BY <1>2, <3>1, <4>1
    <3>2. CASE x.w # w
      <4>1. pw'[w] = pw[w]
        BY <1>3, <3>2
      <4>2. QED
        BY <1>3, <3>2, <4>1
    <3>3. QED
      BY <3>1, <3>2
  <2>2. At(x, w, pcs) = IF x.w = w /\ r \in Range(P(x).out) THEN 1 ELSE 0
    BY <1>6, AtInto
  <2>3. QED
    BY <1>3, <1>6, <2>1, <2>2
<1>7. QED
  BY <1>5, <1>6, PendingBy

\* The writeback port keeps them exact.
LEMMA WritebackPending ==
  ASSUME setup \in Setups, LsuTypes, PendingSum, PwTypes, arb \in 0..4, LsuWriteback
  PROVE  PendingSum' /\ PwTypes'
<1>1. /\ setup' = setup
      /\ pw' = IF Goes /\ ~Shared(nextWb) THEN [pw EXCEPT ![nextWb.w] = Less(nextWb, @)] ELSE pw
  BY WritebackCases
<1>2. \A w \in Warps : \A pcs \in SUBSET Loads :
        Coming(w, pcs)' = Coming(w, pcs) - (IF Goes THEN At(nextWb, w, pcs) ELSE 0)
  BY WritebackComing
<1>3. \A w \in Warps : \A pcs \in SUBSET Loads : Coming(w, pcs) \in Nat
  BY ComingParts
<1>4. CASE Goes /\ ~Shared(nextWb)
  <2>1. nextWb \in SentLoads
    BY <1>4, LoadsRun DEF LsuTypes, Goes
  <2>2. QED
    BY <1>1, <1>2, <1>4, <2>1, PendingLess
<1>5. CASE Goes /\ Shared(nextWb)
  <2>1. nextWb \in SharedLoads
    BY <1>5, LoadsRun DEF LsuTypes, Goes
  <2>2. \A w \in Warps : \A pcs \in SUBSET Loads : At(nextWb, w, pcs) = 0
    BY <2>1, AtOther
  <2>3. \A w \in Warps : \A pcs \in SUBSET Loads : Coming(w, pcs)' = Coming(w, pcs)
    BY <1>2, <1>3, <1>5, <2>2
  <2>4. QED
    BY <1>1, <1>5, <2>3, SamePending
<1>6. CASE ~Goes
  <2>1. \A w \in Warps : \A pcs \in SUBSET Loads : Coming(w, pcs)' = Coming(w, pcs)
    BY <1>2, <1>3, <1>6
  <2>2. QED
    BY <1>1, <1>6, <2>1, SamePending
<1>7. QED
  BY <1>4, <1>5, <1>6

\* So does the dispatch register.
LEMMA DispatchPending ==
  ASSUME setup \in Setups, LsuTypes, FreshAccess, PendingSum, PwTypes, LsuDispatch
  PROVE  PendingSum' /\ PwTypes'
<1>1. setup' = setup /\ (Waits \/ Passes \/ Drops \/ Empties \/ Makes)
  BY DispatchCases
<1>2. /\ \A w \in Warps : \A pcs \in SUBSET Loads : ~Makes => Coming(w, pcs)' = Coming(w, pcs)
      /\ \A w \in Warps : \A pcs \in SUBSET Loads : Makes /\ Hit => Coming(w, pcs)' = Coming(w, pcs) - At(disp, w, pcs)
      /\ \A w \in Warps : \A pcs \in SUBSET Loads : Makes /\ Sent => Coming(w, pcs)' = Coming(w, pcs)
  BY DispatchComing
<1>3. CASE ~Makes
  <2>1. pw' = pw
    BY <1>1, <1>3 DEF Waits, Passes, Drops, Empties
  <2>2. QED
    BY <1>1, <1>2, <1>3, <2>1, SamePending
<1>4. CASE Makes /\ Sent
  BY <1>1, <1>2, <1>4, SamePending DEF Sent
<1>5. CASE Makes /\ Hit
  <2>1. disp # None /\ ~Shared(disp)
    BY <1>5 DEF Makes
  <2>2. CASE IsLoad(disp)
    <3>1. disp \in SentLoads
      BY <2>1, <2>2, InDisp
    <3>2. pw' = [pw EXCEPT ![disp.w] = Less(disp, @)]
      BY <1>5, <2>2 DEF Hit
    <3>3. QED
      BY <1>1, <1>2, <1>5, <3>1, <3>2, PendingLess
  <2>3. CASE ~IsLoad(disp)
    <3>1. disp \in Running
      BY <2>1, InDisp
    <3>2. \A w \in Warps : \A pcs \in SUBSET Loads : At(disp, w, pcs) = 0 /\ Coming(w, pcs) \in Nat
      BY <2>3, <3>1, AtOther, ComingParts
    <3>3. \A w \in Warps : \A pcs \in SUBSET Loads : Coming(w, pcs)' = Coming(w, pcs)
      BY <1>2, <1>5, <3>2
    <3>4. pw' = pw
      BY <1>5, <2>3 DEF Hit
    <3>5. QED
      BY <1>1, <3>3, <3>4, SamePending
  <2>4. QED
    BY <2>2, <2>3
<1>6. QED
  BY <1>3, <1>4, <1>5 DEF Makes

\* And the issue to it.
LEMMA LsuIssuePending ==
  ASSUME setup \in Setups, LsuTypes, AluTypes, PendingSum, PwTypes, LsuIssue
  PROVE  PendingSum' /\ PwTypes'
<1>1. setup' = setup
  BY LsuIssueCases
<1>2. /\ \A w \in Warps : \A pcs \in SUBSET Loads : disp' = disp => Coming(w, pcs)' = Coming(w, pcs)
      /\ \A w \in Warps : \A pcs \in SUBSET Loads :
           disp' # disp => Coming(w, pcs)' = Coming(w, pcs) + ToSend(disp', left', w, pcs)
  BY LsuIssueComing
<1>3. PICK x, n : x = disp' /\ n = left'
  OBVIOUS
<1>4. \/ x = disp /\ pw' = pw
      \/ /\ x # disp /\ x # None /\ x \in Of("mem") /\ n \in Nat
         /\ n = IF Shared(x) THEN P(x).ii ELSE P(x).n
         /\ pw' = IF IsLoad(x) /\ ~Shared(x) THEN [pw EXCEPT ![x.w] = Counted(x, @)] ELSE pw
  BY <1>3, LsuIssueCases
<1>5. CASE x = disp /\ pw' = pw
  BY <1>1, <1>2, <1>3, <1>5, SamePending
<1>6. CASE x # disp /\ x # None /\ x \in Of("mem") /\ pw' = pw /\ ~(IsLoad(x) /\ ~Shared(x))
  <2>1. x \in Running
    BY <1>6 DEF Of
  <2>2. \A w \in Warps : \A pcs \in SUBSET Loads : ToSend(x, n, w, pcs) = 0 /\ Coming(w, pcs) \in Nat
    BY <1>6, <2>1, AtOther, ComingParts
  <2>3. \A w \in Warps : \A pcs \in SUBSET Loads : Coming(w, pcs)' = Coming(w, pcs)
    BY <1>2, <1>3, <1>6, <2>2
  <2>4. QED
    BY <1>1, <1>6, <2>3, SamePending
<1>7. CASE /\ x # disp /\ x # None /\ x \in Of("mem") /\ n \in Nat /\ n = P(x).n /\ IsLoad(x) /\ ~Shared(x)
           /\ pw' = [pw EXCEPT ![x.w] = Counted(x, @)]
  <2>1. x \in SentLoads /\ x.w \in Warps
    BY <1>7, LoadsRun DEF Of
  <2>2. Counted(x, pw[x.w]) = [r \in Regs |-> pw[x.w][r] + (IF r \in Range(P(x).out) THEN n ELSE 0)]
    BY <1>7 DEF Counted
  <2>3. /\ pw \in [Warps -> [Regs -> Int]]
        /\ \A w \in Warps : \A r \in Regs : pw[w][r] \in Int /\ pw[w][r] = Coming(w, Into(r))
    BY DEF PwTypes, PendingSum
  <2>4. Counted(x, pw[x.w]) \in [Regs -> Int]
    BY <1>7, <2>1, <2>2, <2>3
  <2>5. PwTypes'
    <3>1. pw' \in [Warps -> [Regs -> Int]]
      BY <1>7, <2>1, <2>3, <2>4
    <3>2. QED
      BY <1>1, <3>1, SameSetup DEF PwTypes
  <2>6. ASSUME NEW w \in Warps, NEW r \in Regs, NEW pcs \in SUBSET Loads, pcs = Into(r)
        PROVE  pw'[w][r] = Coming(w, pcs)'
    <3>1. pw'[w][r] = pw[w][r] + (IF x.w = w /\ r \in Range(P(x).out) THEN n ELSE 0)
      <4>1. CASE x.w = w
        <5>1. pw'[w] = Counted(x, pw[x.w])
          BY <1>7, <2>3, <4>1
        <5>2. QED
          BY <2>2, <4>1, <5>1
      <4>2. CASE x.w # w
        <5>1. pw'[w] = pw[w]
          BY <1>7, <2>3, <4>2
        <5>2. QED
          BY <2>3, <4>2, <5>1
      <4>3. QED
        BY <4>1, <4>2
    <3>2. ToSend(x, n, w, pcs) = IF x.w = w /\ r \in Range(P(x).out) THEN n ELSE 0
      BY <2>1, <2>6, AtInto
    <3>3. Coming(w, pcs)' = Coming(w, pcs) + ToSend(x, n, w, pcs)
      BY <1>2, <1>3, <1>7
    <3>4. QED
      BY <2>3, <2>6, <3>1, <3>2, <3>3
  <2>7. QED
    BY <1>1, <2>5, <2>6, PendingBy
<1>8. QED
  BY <1>4, <1>5, <1>6, <1>7

-----------------------------------------------------------------------------
(* One load at a time for a register.                                      *)

\* More places in the program, more accesses.
LEMMA FromMore ==
  ASSUME NEW S, NEW q \in Seq(S), NEW w, NEW pcs, NEW qcs, pcs \subseteq qcs
  PROVE  From(q, w, pcs) <= From(q, w, qcs)
<1>1. PICK A, B : /\ A = {i \in 1..Len(q) : q[i].w = w /\ q[i].pc \in pcs}
                  /\ B = {i \in 1..Len(q) : q[i].w = w /\ q[i].pc \in qcs}
  OBVIOUS
<1>2. A \in SUBSET B
  BY <1>1
<1>3. IsFiniteSet(B) /\ From(q, w, pcs) = Cardinality(A) /\ From(q, w, qcs) = Cardinality(B)
  BY <1>1, FromFinite
<1>4. Cardinality(A) <= Cardinality(B)
  BY <1>2, <1>3, FS_Subset
<1>5. QED
  BY <1>3, <1>4

\* The same in memory.
LEMMA InMemoryMore ==
  ASSUME NEW s, IsFiniteSet(s), NEW w, NEW pcs, NEW qcs, pcs \subseteq qcs
  PROVE  InMemory(s, w, pcs) <= InMemory(s, w, qcs)
<1>1. PICK A, B : /\ A = {a \in s : a.w = w /\ a.pc \in pcs}
                  /\ B = {a \in s : a.w = w /\ a.pc \in qcs}
  OBVIOUS
<1>2. A \in SUBSET B
  BY <1>1
<1>3. IsFiniteSet(B)
  <2>1. B \in SUBSET s
    BY <1>1
  <2>2. QED
    BY <2>1, FS_Subset
<1>4. Cardinality(A) <= Cardinality(B)
  BY <1>2, <1>3, FS_Subset
<1>5. QED
  BY <1>1, <1>4 DEF InMemory

\* And on the whole, before and after a step.
LEMMA ComingMore ==
  ASSUME NEW w \in Warps, NEW pcs, NEW qcs, pcs \subseteq qcs
  PROVE  /\ LsuTypes => Coming(w, pcs) <= Coming(w, qcs)
         /\ LsuTypes' => Coming(w, pcs)' \in Nat /\ Coming(w, pcs)' <= Coming(w, qcs)'
<1>1. ASSUME NEW x, NEW n \in Nat, NEW s, IsFiniteSet(s), NEW S, NEW q \in Seq(S), NEW T, NEW l \in Seq(T),
             NEW y, NEW z, NEW a, NEW b,
             a = ToSend(x, n, w, pcs) + InMemory(s, w, pcs) + From(q, w, pcs) + From(l, w, pcs)
                 + At(y, w, pcs) + At(z, w, pcs),
             b = ToSend(x, n, w, qcs) + InMemory(s, w, qcs) + From(q, w, qcs) + From(l, w, qcs)
                 + At(y, w, qcs) + At(z, w, qcs)
      PROVE  a \in Nat /\ a <= b
  <2>1. ToSend(x, n, w, pcs) \in Nat /\ ToSend(x, n, w, qcs) \in Nat
        /\ ToSend(x, n, w, pcs) <= ToSend(x, n, w, qcs)
    BY DEF ToSend
  <2>2. \A v : At(v, w, pcs) \in Nat /\ At(v, w, qcs) \in Nat /\ At(v, w, pcs) <= At(v, w, qcs)
    BY DEF At
  <2>3. From(q, w, pcs) <= From(q, w, qcs) /\ From(l, w, pcs) <= From(l, w, qcs)
    BY FromMore
  <2>4. /\ From(q, w, pcs) \in Nat /\ From(q, w, qcs) \in Nat /\ From(l, w, pcs) \in Nat /\ From(l, w, qcs) \in Nat
    BY FromFinite
  <2>5. InMemory(s, w, pcs) \in Nat /\ InMemory(s, w, qcs) \in Nat /\ InMemory(s, w, pcs) <= InMemory(s, w, qcs)
    BY <1>1, InMemoryFinite, InMemoryMore
  <2>6. PICK i1, i2, i3, i4 \in Nat : i1 = ToSend(x, n, w, pcs) /\ i2 = ToSend(x, n, w, qcs)
                                      /\ i3 = InMemory(s, w, pcs) /\ i4 = InMemory(s, w, qcs)
    BY <2>1, <2>5
  <2>7. PICK j1, j2, j3, j4 \in Nat : j1 = From(q, w, pcs) /\ j2 = From(q, w, qcs)
                                      /\ j3 = From(l, w, pcs) /\ j4 = From(l, w, qcs)
    BY <2>4
  <2>8. PICK k1, k2, k3, k4 \in Nat : k1 = At(y, w, pcs) /\ k2 = At(y, w, qcs)
                                      /\ k3 = At(z, w, pcs) /\ k4 = At(z, w, qcs)
    BY <2>2
  <2>9. i1 <= i2 /\ i3 <= i4 /\ j1 <= j2 /\ j3 <= j4 /\ k1 <= k2 /\ k3 <= k4
    BY <2>1, <2>2, <2>3, <2>5, <2>6, <2>7, <2>8
  <2>10. a = i1 + i3 + j1 + j3 + k1 + k3 /\ b = i2 + i4 + j2 + j4 + k2 + k4
    BY <1>1, <2>6, <2>7, <2>8
  <2>11. QED
    BY <2>9, <2>10
<1>2. ASSUME LsuTypes PROVE Coming(w, pcs) <= Coming(w, qcs)
  <2>1. PICK S, T : respq \in Seq(S) /\ l1ready \in Seq(T)
    BY <1>2 DEF LsuTypes
  <2>2. left \in Nat /\ IsFiniteSet(loads)
    BY <1>2 DEF LsuTypes
  <2>3. QED
    BY <1>1, <2>1, <2>2 DEF Coming
<1>3. ASSUME LsuTypes' PROVE Coming(w, pcs)' \in Nat /\ Coming(w, pcs)' <= Coming(w, qcs)'
  <2>1. PICK S, T : respq' \in Seq(S) /\ l1ready' \in Seq(T)
    BY <1>3 DEF LsuTypes
  <2>2. left' \in Nat /\ IsFiniteSet(loads')
    BY <1>3 DEF LsuTypes
  <2>3. QED
    BY <1>1, <2>1, <2>2, ComingNext
<1>4. QED
  BY <1>2, <1>3

\* What the invariant says after a step.
LEMMA OneLoadBy ==
  ASSUME setup' = setup,
         \A w \in Warps : \A r \in Regs : \A c \in Into(r) : \A pcs, one \in SUBSET Loads :
           pcs = Into(r) /\ one = {c} /\ Coming(w, one)' > 0 => Coming(w, pcs)' = Coming(w, one)'
  PROVE  OneLoad'
<1>1. Regs' = Regs
  BY SameSetup
<1>2. ASSUME NEW w \in Warps, NEW r \in Regs, NEW c \in Into(r), Coming(w, {c})' > 0
      PROVE  Coming(w, Into(r))' = Coming(w, {c})'
  <2>1. PICK pcs, one \in SUBSET Loads : pcs = Into(r) /\ one = {c}
    BY DEF Into
  <2>2. Into(r)' = pcs
    BY <2>1, SameKernel
  <2>3. Coming(w, Into(r))' = Coming(w, pcs)' /\ Coming(w, {c})' = Coming(w, one)'
    BY <2>1, <2>2 DEF Coming, ToSend, InMemory, From, At
  <2>4. QED
    BY <1>2, <2>1, <2>3
<1>3. \A r : Into(r)' = Into(r)
  BY SameKernel
<1>4. QED
  BY <1>1, <1>2, <1>3 DEF OneLoad

\* Accesses that are written back or hit leave those of one load.
LEMMA OneLoadLess ==
  ASSUME OneLoad, LsuTypes, LsuTypes', setup' = setup, NEW x,
         \A w \in Warps : \A pcs \in SUBSET Loads :
            Coming(w, pcs)' = Coming(w, pcs) \/ Coming(w, pcs)' = Coming(w, pcs) - At(x, w, pcs),
         \A w \in Warps : \A pcs, one \in SUBSET Loads :
            (Coming(w, pcs)' = Coming(w, pcs) /\ Coming(w, one)' = Coming(w, one))
            \/ (Coming(w, pcs)' = Coming(w, pcs) - At(x, w, pcs) /\ Coming(w, one)' = Coming(w, one) - At(x, w, one))
  PROVE  OneLoad'
<1>1. ASSUME NEW w \in Warps, NEW r \in Regs, NEW c \in Into(r), NEW pcs \in SUBSET Loads, NEW one \in SUBSET Loads,
             pcs = Into(r), one = {c}, Coming(w, one)' > 0
      PROVE  Coming(w, pcs)' = Coming(w, one)'
  <2>1. Coming(w, one) \in Nat /\ Coming(w, pcs) \in Nat
    BY ComingParts
  <2>2. At(x, w, one) \in {0, 1} /\ At(x, w, pcs) \in {0, 1} /\ At(x, w, one) <= At(x, w, pcs)
    BY <1>1 DEF At
  <2>3. Coming(w, one) > 0
    BY <1>1, <2>1, <2>2
  <2>4. Coming(w, pcs) = Coming(w, one)
    BY <1>1, <2>3 DEF OneLoad
  <2>5. Coming(w, one)' <= Coming(w, pcs)'
    <3>1. one \subseteq pcs
      BY <1>1
    <3>2. QED
      BY <3>1, ComingMore
  <2>6. QED
    BY <2>1, <2>2, <2>4, <2>5
<1>2. QED
  BY <1>1, OneLoadBy

\* Nothing coming: nothing to send and nothing in memory.
LEMMA NothingComing ==
  ASSUME LsuTypes, NEW w \in Warps, NEW pcs, Coming(w, pcs) = 0
  PROVE  /\ \A a \in loads : ~(a.w = w /\ a.pc \in pcs)
         /\ \A qcs : qcs \subseteq pcs => Coming(w, qcs) = 0
<1>1. InMemory(loads, w, pcs) = 0
  BY ComingParts
<1>2. PICK A : A = {a \in loads : a.w = w /\ a.pc \in pcs}
  OBVIOUS
<1>3. A \in SUBSET loads /\ IsFiniteSet(loads)
  BY <1>2 DEF LsuTypes
<1>4. IsFiniteSet(A) /\ Cardinality(A) = 0
  BY <1>1, <1>2, <1>3, FS_Subset DEF InMemory
<1>5. A = {}
  BY <1>4, FS_EmptySet
<1>6. \A qcs : qcs \subseteq pcs => Coming(w, qcs) = 0
  BY ComingMore, ComingParts
<1>7. QED
  BY <1>2, <1>5, <1>6

\* What is in a place is counted.
LEMMA InsideHas ==
  ASSUME NEW F
  PROVE  /\ disp \in F => Inside(F) >= 1
         /\ ocex["mem"] \in F => Inside(F) >= 1
         /\ \A k \in 0..2 : shpipe[k] \in F => Inside(F) >= 1
         /\ exwb # <<>> /\ exwb[1] \in F => Inside(F) >= 1
<1>1. \A x : In(x, F) \in Nat /\ (x \in F => In(x, F) = 1)
  BY InValue
<1>2. InLsu(F) = In(disp, F) + In(shpipe[0], F) + In(shpipe[1], F) + In(shpipe[2], F)
  BY DEF InLsu
<1>3. AtPort("mem", F) = In(idoc["mem"], F) + In(cu["mem"], F) + In(ocex["mem"], F)
  BY DEF AtPort
<1>4. disp \in F => InLsu(F) >= 1
  BY <1>1, <1>2
<1>5. \A k \in 0..2 : shpipe[k] \in F => InLsu(F) >= 1
  BY <1>1, <1>2
<1>6. ocex["mem"] \in F => AtPort("mem", F) >= 1
  BY <1>1, <1>3
<1>7. exwb # <<>> /\ exwb[1] \in F => InExWb(F) >= 1
  BY <1>1 DEF InExWb
<1>8. InLsu(F) >= 1 \/ AtPort("mem", F) >= 1 \/ InExWb(F) >= 1 => Inside(F) >= 1
  BY InsideParts
<1>9. QED
  BY <1>4, <1>5, <1>6, <1>7, <1>8

\* A register of an instruction that is in the core, but not in the dispatch register with
\* accesses to send, has nothing pending.
LEMMA NothingPending ==
  ASSUME LsuTypes, PwTypes, PendingSum, OwnedOnce, NEW w \in Warps, NEW r \in Regs,
         Inside(Writers(w, r)) >= 1, ~Sends(w, r)
  PROVE  /\ pw[w][r] = 0 /\ Coming(w, Into(r)) = 0
         /\ ~(nextWb \in Writers(w, r) /\ Shared(nextWb)) /\ Inside(Writers(w, r)) = 1 /\ r \in reserved[w]
<1>1. PICK i, s, p : /\ i = Inside(Writers(w, r)) /\ s = IF nextWb \in Writers(w, r) /\ Shared(nextWb) THEN 1 ELSE 0
                     /\ p = IF pw[w][r] > 0 /\ ~Sends(w, r) THEN 1 ELSE 0
  OBVIOUS
<1>2. i \in Nat
  BY <1>1, InsideNat
<1>3. i + s + p = IF r \in reserved[w] THEN 1 ELSE 0
  BY <1>1 DEF OwnedOnce, Owners
<1>4. s \in {0, 1} /\ p \in {0, 1}
  BY <1>1
<1>5. i = 1 /\ s = 0 /\ p = 0 /\ r \in reserved[w]
  BY <1>1, <1>2, <1>3, <1>4
<1>6. Coming(w, Into(r)) \in Nat /\ pw[w][r] = Coming(w, Into(r))
  BY ComingParts DEF PendingSum
<1>7. QED
  BY <1>1, <1>5, <1>6

\* A load that comes to the dispatch register finds no accesses for its registers.
LEMMA IssueFindsNone ==
  ASSUME setup \in Setups, LsuTypes, AluTypes, PwTypes, PendingSum, OwnedOnce, LsuIssue, disp' # disp,
         IsLoad(disp'), ~Shared(disp')
  PROVE  /\ disp' \in SentLoads /\ disp = None
         /\ \A r \in Range(P(disp').out) : r \in Regs /\ Coming(disp'.w, Into(r)) = 0
         /\ Coming(disp'.w, {disp'.pc}) = 0
<1>1. PICK x : x = disp'
  OBVIOUS
<1>2. disp = None /\ x = ocex["mem"] /\ x # None /\ x \in Of("mem") /\ IsLoad(x) /\ ~Shared(x)
  BY <1>1, LsuIssueCases
<1>3. x \in SentLoads /\ x \in Running /\ x.w \in Warps /\ P(x).op = "load" /\ x.pc \in DOMAIN Program
      /\ x.pc \in Loads
  BY <1>2, LoadsRun DEF Of, Running
<1>4. Range(P(x).out) \subseteq Regs /\ P(x).out # <<>> /\ P(x).out \in Seq(Nat)
  BY <1>3, ProgramFacts DEF P, Instruction
<1>5. ASSUME NEW r \in Range(P(x).out) PROVE Coming(x.w, Into(r)) = 0 /\ Coming(x.w, {x.pc}) = 0
  <2>1. x \in Writers(x.w, r)
    BY <1>3, <1>5 DEF Writers, OfWarp
  <2>2. Inside(Writers(x.w, r)) >= 1
    BY <1>2, <2>1, InsideHas
  <2>3. ~Sends(x.w, r)
    BY <1>2, NoneNotRunning DEF Sends, Writers, OfWarp
  <2>4. Coming(x.w, Into(r)) = 0
    BY <1>3, <1>4, <1>5, <2>2, <2>3, NothingPending
  <2>5. {x.pc} \subseteq Into(r)
    BY <1>3, <1>5 DEF Into, P
  <2>6. QED
    BY <1>3, <2>4, <2>5, NothingComing
<1>6. P(x).out[1] \in Range(P(x).out)
  BY <1>4 DEF Range
<1>7. QED
  BY <1>1, <1>2, <1>3, <1>4, <1>5, <1>6

\* Accesses in memory, and their numbers, after steps of the load/store unit.
LEMMA FreshKept ==
  ASSUME LsuTypes, FreshAccess, loads' \subseteq loads,
         disp' = None \/ (disp' = disp /\ left' \in Nat /\ left' <= left)
  PROVE  FreshAccess'
<1>1. \A a \in loads : a.w \in Warps /\ a.k \in Nat /\ left \in Nat
  BY DEF LsuTypes
<1>2. CASE disp' = None
  <2>1. \A a \in loads : a.w # None.w
    BY <1>1 DEF Warps, None
  <2>2. QED
    BY <1>2, <2>1 DEF FreshAccess
<1>3. CASE disp' = disp /\ left' \in Nat /\ left' <= left
  <2>1. ASSUME NEW a \in loads', a.w = disp'.w, a.pc = disp'.pc PROVE a.k > left'
    <3>1. a \in loads /\ a.k > left
      BY <1>3, <2>1 DEF FreshAccess
    <3>2. QED
      BY <1>1, <1>3, <3>1
  <2>2. QED
    BY <2>1 DEF FreshAccess
<1>4. QED
  BY <1>2, <1>3

\* The dispatch register numbers them downwards.
LEMMA DispatchFresh ==
  ASSUME setup \in Setups, LsuTypes, FreshAccess, LsuDispatch
  PROVE  FreshAccess'
<1>1. (Waits \/ Passes \/ Drops \/ Empties \/ Makes) /\ left' \in Nat
  BY DispatchCases
<1>2. left \in Nat /\ \A a \in loads : a.w \in Warps /\ a.k \in Nat /\ a.pc \in Loads
  BY DEF LsuTypes
<1>3. CASE Passes \/ Drops \/ Empties
  BY <1>3, FreshKept DEF Passes, Drops, Empties, Through
<1>4. CASE Waits
  <2>1. disp' = disp /\ loads' = loads
    BY <1>4 DEF Waits, Stay
  <2>2. CASE left' = left
    BY <1>1, <2>1, <2>2, FreshKept
  <2>3. CASE disp # None /\ Shared(disp)
    <3>1. disp.pc \notin Loads
      BY <2>3 DEF Shared, P, Loads
    <3>2. QED
      BY <1>2, <2>1, <3>1 DEF FreshAccess
  <2>4. QED
    BY <1>4, <2>2, <2>3 DEF Waits
<1>5. CASE Makes
  <2>1. /\ left > 0 /\ left' = left - 1 /\ (disp' = None \/ disp' = disp)
        /\ loads' = loads \/ loads' = loads \cup {[w |-> disp.w, pc |-> disp.pc, k |-> left]}
    BY <1>5 DEF Makes, Through, Stay, Hit, Sent
  <2>2. ASSUME NEW a \in loads', a.w = disp'.w, a.pc = disp'.pc PROVE a.k > left'
    <3>1. CASE disp' = disp
      <4>1. CASE a \in loads
        <5>1. a.k > left
          BY <2>2, <3>1, <4>1 DEF FreshAccess
        <5>2. QED
          BY <1>2, <2>1, <4>1, <5>1
      <4>2. CASE a = [w |-> disp.w, pc |-> disp.pc, k |-> left]
        BY <1>2, <2>1, <4>2
      <4>3. QED
        BY <2>1, <4>1, <4>2
    <3>2. CASE disp' = None
      <4>1. a.w \in Warps
        <5>1. disp.w \in Warps
          BY <1>5, InDisp DEF Makes
        <5>2. QED
          BY <1>2, <2>1, <5>1
      <4>2. QED
        BY <2>2, <3>2, <4>1 DEF Warps, None
    <3>3. QED
      BY <2>1, <3>1, <3>2
  <2>3. QED
    BY <2>2 DEF FreshAccess
<1>6. QED
  BY <1>1, <1>3, <1>4, <1>5

\* A load that comes finds none of an earlier run of its own.
LEMMA LsuIssueFresh ==
  ASSUME setup \in Setups, LsuTypes, AluTypes, PwTypes, PendingSum, OwnedOnce, FreshAccess, LsuIssue
  PROVE  FreshAccess'
<1>1. loads' = loads /\ left \in Nat
  BY LsuIssueCases DEF memVars, LsuTypes
<1>2. CASE UNCHANGED <<disp, left>>
  BY <1>1, <1>2, FreshKept
<1>3. CASE disp' # disp
  <2>1. PICK x : x = disp'
    OBVIOUS
  <2>2. x # None /\ x \in Running
    BY <1>3, <2>1, LsuIssueCases DEF Of
  <2>3. ASSUME NEW a \in loads PROVE ~(a.w = x.w /\ a.pc = x.pc)
    <3>1. a.pc \in Loads
      BY DEF LsuTypes
    <3>2. CASE IsLoad(x) /\ ~Shared(x)
      <4>1. IsLoad(disp') /\ ~Shared(disp')
        BY <2>1, <3>2
      <4>2. x \in SentLoads /\ Coming(x.w, {x.pc}) = 0
        BY <1>3, <2>1, <4>1, IssueFindsNone
      <4>3. x.w \in Warps
        BY <4>2, LoadsRun
      <4>4. QED
        BY <4>2, <4>3, NothingComing
    <3>3. CASE ~(IsLoad(x) /\ ~Shared(x))
      BY <3>1, <3>3 DEF Loads, IsLoad, Shared, P
    <3>4. QED
      BY <3>2, <3>3
  <2>4. QED
    BY <1>1, <2>1, <2>3 DEF FreshAccess
<1>4. QED
  BY <1>2, <1>3, LsuIssueCases

\* What the writeback port takes is a load's.
LEMMA WritebackOneLoad ==
  ASSUME setup \in Setups, LsuTypes, OneLoad, arb \in 0..4, LsuWriteback
  PROVE  OneLoad'
<1>1. LsuTypes' /\ setup' = setup
  BY WritebackLsu, WritebackCases
<1>2. \A w \in Warps : \A pcs \in SUBSET Loads :
        Coming(w, pcs)' = Coming(w, pcs) - (IF Goes THEN At(nextWb, w, pcs) ELSE 0)
  BY WritebackComing
<1>3. \A w \in Warps : \A pcs \in SUBSET Loads : Coming(w, pcs) \in Nat
  BY ComingParts
<1>4. PICK x : x = nextWb
  OBVIOUS
<1>5. CASE Goes
  <2>1. \A w \in Warps : \A pcs \in SUBSET Loads : Coming(w, pcs)' = Coming(w, pcs) - At(x, w, pcs)
    BY <1>2, <1>4, <1>5
  <2>2. QED
    BY <1>1, <2>1, OneLoadLess
<1>6. CASE ~Goes
  <2>1. \A w \in Warps : \A pcs \in SUBSET Loads : Coming(w, pcs)' = Coming(w, pcs)
    BY <1>2, <1>3, <1>6
  <2>2. QED
    BY <1>1, <2>1, OneLoadLess
<1>7. QED
  BY <1>5, <1>6

\* So is what the dispatch register sends.
LEMMA DispatchOneLoad ==
  ASSUME setup \in Setups, LsuTypes, OneLoad, FreshAccess, LsuDispatch
  PROVE  OneLoad'
<1>1. LsuTypes' /\ setup' = setup
  BY DispatchLsu, DispatchCases
<1>2. /\ \A w \in Warps : \A pcs \in SUBSET Loads : ~Makes => Coming(w, pcs)' = Coming(w, pcs)
      /\ \A w \in Warps : \A pcs \in SUBSET Loads : Makes /\ Hit => Coming(w, pcs)' = Coming(w, pcs) - At(disp, w, pcs)
      /\ \A w \in Warps : \A pcs \in SUBSET Loads : Makes /\ Sent => Coming(w, pcs)' = Coming(w, pcs)
  BY DispatchComing
<1>3. CASE Makes /\ Hit
  <2>1. \A w \in Warps : \A pcs \in SUBSET Loads : Coming(w, pcs)' = Coming(w, pcs) - At(disp, w, pcs)
    BY <1>2, <1>3
  <2>2. PICK x : x = disp
    OBVIOUS
  <2>3. \A w \in Warps : \A pcs \in SUBSET Loads : Coming(w, pcs)' = Coming(w, pcs) - At(x, w, pcs)
    BY <2>1, <2>2
  <2>4. QED
    BY <1>1, <2>3, OneLoadLess
<1>4. CASE ~Makes \/ Sent
  <2>1. \A w \in Warps : \A pcs \in SUBSET Loads : Coming(w, pcs)' = Coming(w, pcs)
    BY <1>2, <1>4
  <2>2. QED
    BY <1>1, <2>1, OneLoadLess
<1>5. QED
  BY <1>3, <1>4 DEF Makes

\* A load that comes is the only one that has accesses for its registers.
LEMMA LsuIssueOneLoad ==
  ASSUME setup \in Setups, LsuTypes, AluTypes, PwTypes, PendingSum, OwnedOnce, OneLoad, LsuIssue
  PROVE  OneLoad'
<1>1. LsuTypes' /\ setup' = setup
  BY LsuIssueLsu, LsuIssueCases
<1>2. /\ \A w \in Warps : \A pcs \in SUBSET Loads : disp' = disp => Coming(w, pcs)' = Coming(w, pcs)
      /\ \A w \in Warps : \A pcs \in SUBSET Loads :
           disp' # disp => Coming(w, pcs)' = Coming(w, pcs) + ToSend(disp', left', w, pcs)
  BY LsuIssueComing
<1>3. CASE disp' = disp
  <2>1. \A w \in Warps : \A pcs \in SUBSET Loads : Coming(w, pcs)' = Coming(w, pcs)
    BY <1>2, <1>3
  <2>2. QED
    BY <1>1, <2>1, OneLoadLess
<1>4. PICK x, n : x = disp' /\ n = left'
  OBVIOUS
<1>5. CASE disp' # disp /\ ~(IsLoad(x) /\ ~Shared(x))
  <2>1. x \in Running
    BY <1>4, <1>5, LsuIssueCases DEF Of
  <2>2. \A w \in Warps : \A pcs \in SUBSET Loads : ToSend(x, n, w, pcs) = 0 /\ Coming(w, pcs) \in Nat
    BY <1>5, <2>1, AtOther, ComingParts
  <2>3. \A w \in Warps : \A pcs \in SUBSET Loads : Coming(w, pcs)' = Coming(w, pcs)
    BY <1>2, <1>4, <1>5, <2>2
  <2>4. QED
    BY <1>1, <2>3, OneLoadLess
<1>6. CASE disp' # disp /\ IsLoad(x) /\ ~Shared(x)
  <2>1. IsLoad(disp') /\ ~Shared(disp') /\ disp' # disp
    BY <1>4, <1>6
  <2>2. /\ x \in SentLoads
        /\ \A r \in Range(P(x).out) : Coming(x.w, Into(r)) = 0
        /\ Coming(x.w, {x.pc}) = 0
    BY <1>4, <2>1, IssueFindsNone
  <2>3. x.w \in Warps /\ n \in Nat
    BY <1>1, <1>4, <2>2, LoadsRun DEF LsuTypes
  <2>4. ASSUME NEW w \in Warps, NEW r \in Regs, NEW c \in Into(r), NEW pcs \in SUBSET Loads, NEW one \in SUBSET Loads,
               pcs = Into(r), one = {c}, Coming(w, one)' > 0
        PROVE  Coming(w, pcs)' = Coming(w, one)'
    <3>1. /\ Coming(w, pcs)' = Coming(w, pcs) + ToSend(x, n, w, pcs)
          /\ Coming(w, one)' = Coming(w, one) + ToSend(x, n, w, one)
          /\ Coming(w, pcs) \in Nat /\ Coming(w, one) \in Nat
      BY <1>2, <1>4, <1>6, ComingParts
    <3>2. one \subseteq pcs
      BY <2>4
    <3>3. ToSend(x, n, w, pcs) = IF x.w = w /\ r \in Range(P(x).out) THEN n ELSE 0
      BY <2>2, <2>4, AtInto
    <3>4. ToSend(x, n, w, one) = IF x.w = w /\ x.pc = c THEN n ELSE 0
      BY <2>4 DEF ToSend
    <3>5. CASE x.w = w /\ r \in Range(P(x).out)
      <4>1. Coming(w, pcs) = 0
        BY <2>2, <2>4, <3>5
      <4>2. Coming(w, one) = 0
        BY <3>2, <4>1, NothingComing
      <4>3. x.pc = c
        BY <2>4, <3>1, <3>4, <4>2
      <4>4. QED
        BY <3>1, <3>3, <3>4, <3>5, <4>1, <4>2, <4>3
    <3>6. CASE ~(x.w = w /\ r \in Range(P(x).out))
      <4>1. ~(x.w = w /\ x.pc = c)
        BY <3>6 DEF Into, P
      <4>2. Coming(w, one) > 0
        BY <2>4, <3>1, <3>4, <4>1
      <4>3. Coming(w, pcs) = Coming(w, one)
        BY <2>4, <4>2 DEF OneLoad
      <4>4. QED
        BY <3>1, <3>3, <3>4, <3>6, <4>1, <4>3
    <3>7. QED
      BY <3>5, <3>6
  <2>5. QED
    BY <1>1, <2>4, OneLoadBy
<1>7. QED
  BY <1>3, <1>5, <1>6

-----------------------------------------------------------------------------
(* The instruction buffers.                                                *)

\* What a scheduler's turn does: it flushes warps of a control hazard, and one may issue.
Flushes(F) ==
  /\ next_pc' = [w \in Warps |-> IF w \in F THEN top[w] ELSE next_pc[w]]
  /\ ibuf' = [w \in Warps |-> IF w \in F THEN <<0, 0>> ELSE ibuf[w]]
  /\ inPipe' = [w \in Warps |-> IF w \in F THEN inPipe[w] - Cardinality(Buffered(w)) ELSE inPipe[w]]
  /\ UNCHANGED <<idoc, top, trips, nxt, done, nInst, atBar, regVars>>
IssuesTo(w, npc, F) ==
  /\ Issues(w) /\ w \notin F
  /\ npc = top[w] + 1 \/ (Program[top[w]].op = "bra" /\ trips[w] < MaxTrips /\ npc = Program[top[w]].target)
  /\ IssueWarp(w, npc, F)

\* A scheduler's turn is one of the two.
LEMMA ScheduleCases ==
  ASSUME FrontTypes, Schedule
  PROVE  /\ \E F \in SUBSET Warps : /\ \A v \in F : Hazard(v)
                                    /\ Flushes(F) \/ \E w \in Warps : \E npc : IssuesTo(w, npc, F)
         /\ UNCHANGED <<setup, fetchVars, ocVars, written, aluVars, lsuVars, wbVars, memVars, stores>>
         /\ (turn' = 0 /\ phase' = "decode") \/ (phase = "issue" /\ phase' = phase)
<1>1. PICK o \in OrderWarps(turn) : NoIssue(o.active) \/ \E k \in DOMAIN o.active : IssueFrom(o.active, k)
  BY DEF Schedule
<1>2. PICK L \in Seq(Warps) : NoIssue(L) \/ \E k \in DOMAIN L : IssueFrom(L, k)
  BY <1>1, OrderLists DEF FrontTypes
<1>3. CASE NoIssue(L)
  <2>1. PICK F : F = Flushed(L, Len(L))
    OBVIOUS
  <2>2. Flushes(F)
    BY <1>3, <2>1 DEF NoIssue, Flushes
  <2>3. F \in SUBSET Warps /\ \A v \in F : Hazard(v)
    BY <2>1 DEF Flushed
  <2>4. QED
    BY <2>2, <2>3 DEF Schedule
<1>4. ASSUME NEW k \in DOMAIN L, IssueFrom(L, k)
      PROVE  \E F \in SUBSET Warps : (\A v \in F : Hazard(v)) /\ \E w \in Warps : \E npc : IssuesTo(w, npc, F)
  <2>1. PICK F, w : F = Flushed(L, k) /\ w = L[k]
    OBVIOUS
  <2>2. F \in SUBSET Warps /\ w \in Warps /\ \A v \in F : Hazard(v)
    BY <2>1 DEF Flushed
  <2>3. Issues(w) /\ w \notin F
    BY <1>4, <2>1, <2>2 DEF IssueFrom, Issues, Hazard
  <2>4. PICK npc : /\ npc \in {top[w] + 1} \cup (IF Program[top[w]].op = "bra" /\ trips[w] < MaxTrips
                                                 THEN {Program[top[w]].target} ELSE {})
                   /\ IssueWarp(w, npc, F)
    BY <1>4, <2>1 DEF IssueFrom
  <2>5. IssuesTo(w, npc, F)
    BY <2>3, <2>4 DEF IssuesTo
  <2>6. QED
    BY <2>2, <2>5
<1>5. QED
  BY <1>2, <1>3, <1>4 DEF Schedule

\* What issue_warp() leaves.
LEMMA IssueLeaves ==
  ASSUME FrontTypes, NEW w \in Warps, NEW npc, NEW F \in SUBSET Warps, IssuesTo(w, npc, F)
  PROVE  /\ ~done[w] /\ w \notin atBar /\ ~exited[w] /\ Head1(w) = top[w] /\ top[w] \in DOMAIN Program /\ w \notin F
         /\ \A v \in Warps :
              /\ v \in F => ibuf'[v] = <<0, 0>> /\ next_pc'[v] = top[v]
              /\ v # w /\ v \notin F => ibuf'[v] = ibuf[v] /\ next_pc'[v] = next_pc[v]
              /\ v # w => nxt'[v] = nxt[v] /\ done'[v] = done[v] /\ top'[v] = top[v] /\ nInst'[v] = nInst[v]
                          /\ trips'[v] = trips[v] /\ reserved'[v] = reserved[v]
              /\ v \in atBar' => v \in atBar \/ v = w
         /\ next_pc'[w] = top[w] + 1 /\ top'[w] = npc /\ nxt'[w] = 3 - nxt[w]
         /\ Program[top[w]].op = "exit" => done'[w] /\ w \notin atBar' /\ ibuf'[w] = <<0, 0>>
         /\ Program[top[w]].op # "exit" => ~done'[w] /\ ibuf'[w] = [ibuf[w] EXCEPT ![nxt[w]] = 0]
<1>1. ~done[w] /\ w \notin atBar /\ ~exited[w] /\ Head1(w) = top[w] /\ top[w] \in DOMAIN Program /\ w \notin F
  BY DEF IssuesTo, Issues, Tried, Waiting, FrontTypes
<1>2. /\ next_pc' = [v \in Warps |-> IF v \in F THEN top[v] ELSE IF v = w THEN top[w] + 1 ELSE next_pc[v]]
      /\ top' = [top EXCEPT ![w] = npc]
      /\ trips' = IF npc = top[w] + 1 THEN trips ELSE [trips EXCEPT ![w] = @ + 1]
      /\ ibuf' = [v \in Warps |-> IF v \in F \/ (v = w /\ Program[top[w]].op = "exit") THEN <<0, 0>>
                                  ELSE IF v = w THEN [ibuf[v] EXCEPT ![nxt[v]] = 0] ELSE ibuf[v]]
      /\ nxt' = [nxt EXCEPT ![w] = 3 - @]
      /\ done' = [done EXCEPT ![w] = Program[top[w]].op = "exit"]
      /\ nInst' = IF Program[top[w]].op = "exit" THEN nInst
                  ELSE [nInst EXCEPT ![w] = tw_warp_issue(@, next_pc[w], tw_find_next_pc(next_pc[w], {npc}))]
      /\ atBar' = CASE Program[top[w]].op = "bar" -> Released(atBar \cup {w}, {v \in Warps : ~done[v]})
                    [] Program[top[w]].op = "exit" -> Released(atBar, {v \in Warps : ~done[v]} \ {w})
                    [] OTHER        -> atBar
      /\ reserved' = [reserved EXCEPT ![w] = @ \cup Range(Program[top[w]].out)]
  BY DEF IssuesTo, IssueWarp
<1>3. /\ done \in [Warps -> BOOLEAN] /\ top \in [Warps -> 1..(Len(Program) + 1)] /\ nxt \in [Warps -> {1, 2}]
      /\ ibuf \in [Warps -> [{1, 2} -> {0} \cup DOMAIN Program]]
  BY DEF FrontTypes
<1>4. \A a, b : Released(a, b) \subseteq a
  BY DEF Released
<1>5. /\ \A v \in atBar' : v \in atBar \/ v = w
      /\ Program[top[w]].op = "exit" => w \notin atBar'
  <2>1. PICK o, a, b : o = Program[top[w]].op /\ a = {v \in Warps : ~done[v]} /\ b = a \ {w}
    OBVIOUS
  <2>2. atBar' = CASE o = "bar" -> Released(atBar \cup {w}, a) [] o = "exit" -> Released(atBar, b) [] OTHER -> atBar
    BY <1>2, <2>1
  <2>3. CASE o = "bar"
    BY <1>4, <2>1, <2>2, <2>3
  <2>4. CASE o = "exit"
    BY <1>1, <1>4, <2>1, <2>2, <2>4
  <2>5. CASE o # "bar" /\ o # "exit"
    BY <1>1, <2>1, <2>2, <2>5
  <2>6. QED
    BY <2>3, <2>4, <2>5
<1>6. \A v \in Warps :
         /\ v \in F => ibuf'[v] = <<0, 0>> /\ next_pc'[v] = top[v]
         /\ v # w /\ v \notin F => ibuf'[v] = ibuf[v] /\ next_pc'[v] = next_pc[v]
  BY <1>2
<1>7. \A v \in Warps : v # w => nxt'[v] = nxt[v] /\ done'[v] = done[v] /\ top'[v] = top[v]
  BY <1>2, <1>3
<1>8. \A v \in Warps : v # w => nInst'[v] = nInst[v] /\ trips'[v] = trips[v] /\ reserved'[v] = reserved[v]
  <2>1. nInst' = nInst \/ \E n : nInst' = [nInst EXCEPT ![w] = n]
    BY <1>2
  <2>2. trips' = trips \/ trips' = [trips EXCEPT ![w] = trips[w] + 1]
    BY <1>2
  <2>3. QED
    BY <1>2, <2>1, <2>2
<1>9. /\ next_pc'[w] = top[w] + 1 /\ top'[w] = npc /\ nxt'[w] = 3 - nxt[w]
      /\ Program[top[w]].op = "exit" => done'[w] /\ ibuf'[w] = <<0, 0>>
      /\ Program[top[w]].op # "exit" => ~done'[w] /\ ibuf'[w] = [ibuf[w] EXCEPT ![nxt[w]] = 0]
  BY <1>1, <1>2, <1>3
<1>10. QED
  BY <1>1, <1>5, <1>6, <1>7, <1>8, <1>9

\* The buffer of one warp is sound.
Sound(w) ==
  /\ Head1(w) # 0 => Head1(w) = next_pc[w]
  /\ ibuf[w][3 - nxt[w]] # 0 => Head1(w) # 0 /\ ibuf[w][3 - nxt[w]] = next_pc[w] + 1
  /\ done[w] => Buffered(w) = {} /\ w \notin atBar
  /\ fbuf # None /\ fbuf.w = w => ~done[w] /\ Buffered(w) = {} /\ fbuf.pc = next_pc[w]

\* What it says after a step.
LEMMA SoundNext ==
  ASSUME NEW w,
         ibuf'[w][nxt'[w]] # 0 => ibuf'[w][nxt'[w]] = next_pc'[w],
         ibuf'[w][3 - nxt'[w]] # 0 => ibuf'[w][nxt'[w]] # 0 /\ ibuf'[w][3 - nxt'[w]] = next_pc'[w] + 1,
         done'[w] => ibuf'[w][1] = 0 /\ ibuf'[w][2] = 0 /\ w \notin atBar',
         fbuf' # None /\ fbuf'.w = w => ~done'[w] /\ ibuf'[w][1] = 0 /\ ibuf'[w][2] = 0 /\ fbuf'.pc = next_pc'[w]
  PROVE  Sound(w)'
BY DEF Sound, Head1, Buffered

\* An empty buffer.
LEMMA NoneBuffered == \A w : Buffered(w) = {} <=> ibuf[w][1] = 0 /\ ibuf[w][2] = 0
BY DEF Buffered

\* A scheduler's turn keeps the buffers sound.
LEMMA ScheduleBuffer ==
  ASSUME FrontTypes, BufferSound, Schedule
  PROVE  BufferSound'
<1>1. PICK F \in SUBSET Warps : /\ \A v \in F : Hazard(v)
                                /\ Flushes(F) \/ \E w \in Warps : \E npc : IssuesTo(w, npc, F)
  BY ScheduleCases
<1>2. fbuf' = fbuf
  BY ScheduleCases DEF fetchVars
<1>3. /\ done \in [Warps -> BOOLEAN] /\ nxt \in [Warps -> {1, 2}]
      /\ ibuf \in [Warps -> [{1, 2} -> {0} \cup DOMAIN Program]]
  BY DEF FrontTypes
<1>4. \A w \in Warps : Sound(w) /\ (nxt[w] = 1 \/ nxt[w] = 2)
  BY <1>3 DEF BufferSound, Sound
<1>5. ASSUME NEW v \in Warps, v \in F, ibuf'[v] = <<0, 0>>, nxt'[v] = nxt[v], done'[v] = done[v]
      PROVE  Sound(v)'
  <2>1. ~done[v] /\ Head1(v) # 0
    BY <1>1, <1>5 DEF Hazard, Tried, Waiting
  <2>2. ~(fbuf # None /\ fbuf.w = v)
    <3>1. Buffered(v) # {}
      BY <1>4, <2>1, NoneBuffered DEF Head1
    <3>2. QED
      BY <1>4, <3>1 DEF Sound
  <2>3. ibuf'[v][1] = 0 /\ ibuf'[v][2] = 0 /\ ibuf'[v][nxt'[v]] = 0 /\ ibuf'[v][3 - nxt'[v]] = 0
    BY <1>4, <1>5
  <2>4. QED
    BY <1>2, <1>5, <2>1, <2>2, <2>3, SoundNext
<1>6. ASSUME NEW v \in Warps, ibuf'[v] = ibuf[v], nxt'[v] = nxt[v], done'[v] = done[v], next_pc'[v] = next_pc[v],
             v \in atBar' => v \in atBar
      PROVE  Sound(v)'
  BY <1>2, <1>4, <1>6, NoneBuffered, SoundNext DEF Sound, Head1
<1>7. CASE Flushes(F)
  <2>1. \A v \in Warps : Sound(v)'
    BY <1>5, <1>6, <1>7 DEF Flushes
  <2>2. QED
    BY <2>1 DEF BufferSound, Sound
<1>8. ASSUME NEW w \in Warps, NEW npc, IssuesTo(w, npc, F) PROVE BufferSound'
  <2>0. /\ w \notin F
        /\ \A v \in Warps :
              /\ v \in F => ibuf'[v] = <<0, 0>> /\ next_pc'[v] = top[v]
              /\ v # w /\ v \notin F => ibuf'[v] = ibuf[v] /\ next_pc'[v] = next_pc[v]
              /\ v # w => nxt'[v] = nxt[v] /\ done'[v] = done[v] /\ top'[v] = top[v] /\ nInst'[v] = nInst[v]
                          /\ trips'[v] = trips[v] /\ reserved'[v] = reserved[v]
              /\ v \in atBar' => v \in atBar \/ v = w
    BY <1>8, IssueLeaves
  <2>1. ASSUME NEW v \in Warps PROVE Sound(v)'
    <3>0. /\ w \notin F
          /\ v \in F => ibuf'[v] = <<0, 0>> /\ next_pc'[v] = top[v]
          /\ v # w /\ v \notin F => ibuf'[v] = ibuf[v] /\ next_pc'[v] = next_pc[v]
          /\ v # w => nxt'[v] = nxt[v] /\ done'[v] = done[v]
          /\ v \in atBar' => v \in atBar \/ v = w
      BY <2>0
    <3>1. CASE v \in F
      BY <1>5, <3>0, <3>1
    <3>2. CASE v # w /\ v \notin F
      BY <1>6, <3>0, <3>2
    <3>3. CASE v = w
      <4>1. /\ Head1(w) = top[w] /\ top[w] \in DOMAIN Program /\ next_pc'[w] = top[w] + 1 /\ nxt'[w] = 3 - nxt[w]
            /\ Program[top[w]].op = "exit" => done'[w] /\ w \notin atBar' /\ ibuf'[w] = <<0, 0>>
            /\ Program[top[w]].op # "exit" => ~done'[w] /\ ibuf'[w] = [ibuf[w] EXCEPT ![nxt[w]] = 0]
        BY <1>8, IssueLeaves
      <4>2. top[w] # 0
        BY <4>1, SetupFacts DEF FrontTypes
      <4>3. ~(fbuf # None /\ fbuf.w = w)
        BY <1>4, <4>1, <4>2, NoneBuffered DEF Sound, Head1
      <4>4. CASE Program[top[w]].op = "exit"
        <5>1. ibuf'[w][1] = 0 /\ ibuf'[w][2] = 0 /\ ibuf'[w][nxt'[w]] = 0 /\ ibuf'[w][3 - nxt'[w]] = 0
          BY <1>4, <4>1, <4>4
        <5>2. QED
          BY <1>2, <3>3, <4>1, <4>3, <4>4, <5>1, SoundNext
      <4>5. CASE Program[top[w]].op # "exit"
        <5>1. next_pc[w] = top[w]
          BY <1>4, <4>1, <4>2 DEF Sound
        <5>2. ibuf'[w][3 - nxt'[w]] = 0 /\ ibuf'[w][nxt'[w]] = ibuf[w][3 - nxt[w]]
          BY <1>3, <1>4, <4>1, <4>5
        <5>3. ibuf[w][3 - nxt[w]] # 0 => ibuf[w][3 - nxt[w]] = next_pc[w] + 1
          BY <1>4 DEF Sound
        <5>4. QED
          BY <1>2, <3>3, <4>1, <4>3, <4>5, <5>1, <5>2, <5>3, SoundNext
      <4>6. QED
        BY <4>4, <4>5
    <3>4. QED
      BY <3>1, <3>2, <3>3
  <2>2. QED
    BY <2>1 DEF BufferSound, Sound
<1>9. QED
  BY <1>1, <1>7, <1>8

\* Decode fills the buffer of the warp that was fetched for.
LEMMA DecodeBuffer ==
  ASSUME FrontTypes, BufferSound, Decode
  PROVE  BufferSound'
<1>1. /\ done \in [Warps -> BOOLEAN] /\ nxt \in [Warps -> {1, 2}]
      /\ ibuf \in [Warps -> [{1, 2} -> {0} \cup DOMAIN Program]] /\ fbuf \in Inst
  BY DEF FrontTypes
<1>2. \A w \in Warps : Sound(w) /\ (nxt[w] = 1 \/ nxt[w] = 2)
  BY <1>1 DEF BufferSound, Sound
<1>3. UNCHANGED <<next_pc, done, atBar>> /\ fbuf' = None
  BY DEF Decode
<1>4. ASSUME NEW w \in Warps PROVE Sound(w)'
  <2>1. CASE ibuf'[w] = ibuf[w] /\ nxt'[w] = nxt[w]
    BY <1>2, <1>3, <2>1, NoneBuffered, SoundNext DEF Sound, Head1
  <2>2. CASE fbuf # None /\ fbuf.w = w
    <3>1. /\ ibuf' = [ibuf EXCEPT ![w] = <<fbuf.pc, IF fbuf.pc < Len(Program) THEN fbuf.pc + 1 ELSE 0>>]
          /\ nxt' = [nxt EXCEPT ![w] = 1]
      BY <2>2 DEF Decode
    <3>2. ibuf'[w][1] = fbuf.pc /\ ibuf'[w][2] = (IF fbuf.pc < Len(Program) THEN fbuf.pc + 1 ELSE 0) /\ nxt'[w] = 1
      BY <1>1, <3>1
    <3>3. ~done[w] /\ fbuf.pc = next_pc[w]
      BY <1>2, <2>2 DEF Sound
    <3>4. fbuf.pc \in DOMAIN Program /\ fbuf.pc # 0
      <4>1. fbuf.pc \in DOMAIN Program
        BY <1>1, <2>2 DEF Inst
      <4>2. QED
        BY <4>1, SetupFacts DEF FrontTypes
    <3>5. ibuf'[w][nxt'[w]] = next_pc[w] /\ (ibuf'[w][3 - nxt'[w]] # 0 => ibuf'[w][3 - nxt'[w]] = next_pc[w] + 1)
      BY <3>2, <3>3
    <3>6. QED
      BY <1>3, <3>3, <3>4, <3>5, SoundNext
  <2>3. CASE fbuf # None /\ fbuf.w # w
    <3>1. /\ ibuf' = [ibuf EXCEPT ![fbuf.w] = <<fbuf.pc, IF fbuf.pc < Len(Program) THEN fbuf.pc + 1 ELSE 0>>]
          /\ nxt' = [nxt EXCEPT ![fbuf.w] = 1]
      BY <2>3 DEF Decode
    <3>2. ibuf'[w] = ibuf[w] /\ nxt'[w] = nxt[w]
      BY <1>1, <2>3, <3>1
    <3>3. QED
      BY <2>1, <3>2
  <2>4. CASE fbuf = None
    <3>1. ibuf' = ibuf /\ nxt' = nxt
      BY <2>4 DEF Decode
    <3>2. QED
      BY <2>1, <3>1
  <2>5. QED
    BY <2>2, <2>3, <2>4
<1>5. QED
  BY <1>4 DEF BufferSound, Sound

\* Fetch asks for a warp that wants instructions; a warp it reclaims is finished.
LEMMA FetchCases ==
  ASSUME FrontTypes, Fetch
  PROVE  /\ fbuf' = fbuf \/ \E w \in Warps : Wants(w) /\ fbuf' = [w |-> w, pc |-> next_pc[w]]
         /\ \A v \in Warps : exited'[v] => exited[v] \/ Reclaimable(v)
         /\ phase' = "writeback"
         /\ UNCHANGED <<turn, setup, warpVars, schedVars, regVars, idoc, ocVars, written, aluVars, lsuVars,
                        wbVars, memVars, inPipe, stores>>
<1> DEFINE W == {i \in 1..NumWarps : Wants((lastFetch + i) % NumWarps)}
           f == IF W = {} THEN NumWarps ELSE CHOOSE i \in W : \A j \in W : i <= j
           w == (lastFetch + f) % NumWarps
<1>1. NumWarps \in Nat \ {0} /\ lastFetch \in 0..(NumWarps - 1)
  BY CoreConstants DEF FrontTypes, Warps
<1>2. \A i \in 1..NumWarps : (lastFetch + i) % NumWarps \in Warps
  BY <1>1 DEF Warps
<1>3. W # {} => f \in W
  <2>1. PICK V : V = W
    OBVIOUS
  <2>2. V # {} => \E i \in V : \A j \in V : i <= j
    <3>1. V \subseteq Nat
      BY <2>1
    <3> HIDE DEF f, W
    <3>2. QED
      BY <3>1, LeastIsMin
  <2>3. QED
    BY <2>1, <2>2
<1>4. fbuf' = fbuf \/ (W # {} /\ fbuf' = [w |-> w, pc |-> next_pc[w]])
  BY DEF Fetch
<1>5. exited' = [v \in Warps |-> exited[v] \/ (Reclaimable(v) /\ \E i \in 1..f : (lastFetch + i) % NumWarps = v)]
  BY DEF Fetch
<1> HIDE DEF f
<1>6. W # {} => w \in Warps /\ Wants(w)
  BY <1>2, <1>3
<1>7. fbuf' = fbuf \/ \E v \in Warps : Wants(v) /\ fbuf' = [w |-> v, pc |-> next_pc[v]]
  BY <1>4, <1>6
<1>8. \A v \in Warps : exited'[v] => exited[v] \/ Reclaimable(v)
  BY <1>5
<1>9. /\ phase' = "writeback"
      /\ UNCHANGED <<turn, setup, warpVars, schedVars, regVars, idoc, ocVars, written, aluVars, lsuVars,
                     wbVars, memVars, inPipe, stores>>
  BY DEF Fetch
<1>10. QED
  BY <1>7, <1>8, <1>9

\* Fetch keeps the buffers sound.
LEMMA FetchBuffer ==
  ASSUME FrontTypes, BufferSound, Fetch
  PROVE  BufferSound'
<1>1. /\ UNCHANGED <<next_pc, done, ibuf, nxt, atBar>>
      /\ fbuf' = fbuf \/ \E w \in Warps : Wants(w) /\ fbuf' = [w |-> w, pc |-> next_pc[w]]
  BY FetchCases DEF warpVars
<1>2. ASSUME NEW v \in Warps PROVE Sound(v)'
  <2>1. Sound(v)
    BY DEF BufferSound, Sound
  <2>2. fbuf' # None /\ fbuf'.w = v => ~done[v] /\ Buffered(v) = {} /\ fbuf'.pc = next_pc[v]
    <3>1. CASE fbuf' = fbuf
      BY <2>1, <3>1 DEF Sound
    <3>2. ASSUME NEW w \in Warps, Wants(w), fbuf' = [w |-> w, pc |-> next_pc[w]]
          PROVE  fbuf'.w = v => ~done[v] /\ Buffered(v) = {} /\ fbuf'.pc = next_pc[v]
      BY <3>2 DEF Wants
    <3>3. QED
      BY <1>1, <3>1, <3>2
  <2>3. QED
    BY <1>1, <2>1, <2>2, NoneBuffered, SoundNext DEF Sound, Head1
<1>3. QED
  BY <1>2 DEF BufferSound, Sound

\* Any other step leaves them alone.
LEMMA SameBuffer ==
  ASSUME BufferSound, UNCHANGED <<ibuf, nxt, next_pc, done, atBar, fbuf>>
  PROVE  BufferSound'
BY DEF BufferSound, Head1, Buffered

-----------------------------------------------------------------------------
(* m_inst_in_pipeline.                                                     *)

\* A buffer has two slots.
Slot(x) == IF x = 0 THEN 0 ELSE 1

\* So many instructions are in it.
LEMMA BufferSize ==
  ASSUME NEW b
  PROVE  Cardinality({s \in {1, 2} : b[s] # 0}) = Slot(b[1]) + Slot(b[2])
<1>1. PICK B : B = {s \in {1, 2} : b[s] # 0}
  OBVIOUS
<1>2. CASE b[1] = 0 /\ b[2] = 0
  <2>1. B = {}
    BY <1>1, <1>2
  <2>2. QED
    BY <1>1, <1>2, <2>1, FS_EmptySet DEF Slot
<1>3. CASE b[1] # 0 /\ b[2] = 0
  <2>1. B = {1}
    BY <1>1, <1>3
  <2>2. QED
    BY <1>1, <1>3, <2>1, FS_Singleton DEF Slot
<1>4. CASE b[1] = 0 /\ b[2] # 0
  <2>1. B = {2}
    BY <1>1, <1>4
  <2>2. QED
    BY <1>1, <1>4, <2>1, FS_Singleton DEF Slot
<1>5. CASE b[1] # 0 /\ b[2] # 0
  <2>1. B = {1} \cup {2}
    BY <1>1, <1>5
  <2>2. IsFiniteSet({1}) /\ Cardinality({1}) = 1
    BY FS_Singleton
  <2>3. Cardinality({1} \cup {2}) = 2
    BY <2>2, FS_AddElement
  <2>4. QED
    BY <1>1, <1>5, <2>1, <2>3 DEF Slot
<1>6. QED
  BY <1>2, <1>3, <1>4, <1>5

\* The count, before and after a step.
LEMMA BufferedNow == \A w : Cardinality(Buffered(w)) = Slot(ibuf[w][1]) + Slot(ibuf[w][2])
BY BufferSize DEF Buffered

\* What it says after a step.
LEMMA CountBy ==
  ASSUME setup' = setup,
         \A w \in Warps : \A F \in SUBSET Running :
           F = OfWarp(w) => inPipe'[w] = Slot(ibuf'[w][1]) + Slot(ibuf'[w][2]) + Inside(F)'
  PROVE  CountExact'
<1>1. ASSUME NEW w \in Warps PROVE inPipe'[w] = Cardinality(Buffered(w))' + Inside(OfWarp(w))'
  <2>1. PICK F \in SUBSET Running : F = OfWarp(w)
    BY DEF OfWarp
  <2>2. OfWarp(w)' = F
    BY <2>1, SameKernel
  <2>3. Inside(OfWarp(w))' = Inside(F)'
    BY <2>2 DEF Inside, AtPort, InLsu, InExWb, UnitHas, Stages, In
  <2>4. Cardinality(Buffered(w))' = Slot(ibuf'[w][1]) + Slot(ibuf'[w][2])
    <3>1. PICK b : b = ibuf'[w]
      OBVIOUS
    <3>2. Buffered(w)' = {s \in {1, 2} : b[s] # 0}
      BY <3>1 DEF Buffered
    <3>3. QED
      BY <3>1, <3>2, BufferSize
  <2>5. QED
    BY <2>1, <2>3, <2>4
<1>2. QED
  BY <1>1 DEF CountExact

\* The buffers stay: the counter follows what is inside.
LEMMA CountShift ==
  ASSUME CountExact, CountTypes, setup' = setup, ibuf' = ibuf, inPipe' \in [Warps -> Int],
         \A w \in Warps : \A F \in SUBSET Running :
           F = OfWarp(w) => Inside(F)' = Inside(F) + (inPipe'[w] - inPipe[w])
  PROVE  CountExact'
<1>1. ASSUME NEW w \in Warps, NEW F \in SUBSET Running, F = OfWarp(w)
      PROVE  inPipe'[w] = Slot(ibuf'[w][1]) + Slot(ibuf'[w][2]) + Inside(F)'
  <2>1. inPipe[w] = Slot(ibuf[w][1]) + Slot(ibuf[w][2]) + Inside(F)
    BY <1>1, BufferedNow DEF CountExact
  <2>2. inPipe[w] \in Int /\ inPipe'[w] \in Int
    BY DEF CountTypes
  <2>3. Inside(F) \in Nat /\ Slot(ibuf[w][1]) \in Nat /\ Slot(ibuf[w][2]) \in Nat
    BY InsideNat DEF Slot
  <2>4. Inside(F)' = Inside(F) + (inPipe'[w] - inPipe[w])
    BY <1>1
  <2>5. QED
    BY <2>1, <2>2, <2>3, <2>4
<1>2. QED
  BY <1>1, CountBy

\* One instruction of a warp leaves.
LEMMA CountLess ==
  ASSUME CountExact, CountTypes, setup' = setup, ibuf' = ibuf, NEW x \in Running,
         inPipe' = [inPipe EXCEPT ![x.w] = @ - 1],
         \A F \in SUBSET Running : Inside(F)' = Inside(F) - In(x, F)
  PROVE  CountExact' /\ inPipe' \in [Warps -> Int]
<1>1. inPipe \in [Warps -> Int] /\ x.w \in Warps
  BY DEF CountTypes, Running
<1>2. inPipe' \in [Warps -> Int]
  BY <1>1
<1>3. ASSUME NEW w \in Warps, NEW F \in SUBSET Running, F = OfWarp(w)
      PROVE  Inside(F)' = Inside(F) + (inPipe'[w] - inPipe[w])
  <2>1. In(x, F) = IF x.w = w THEN 1 ELSE 0
    BY <1>3 DEF In, OfWarp
  <2>2. inPipe'[w] = inPipe[w] - (IF x.w = w THEN 1 ELSE 0) /\ inPipe[w] \in Int
    BY <1>1
  <2>3. Inside(F) \in Nat
    BY InsideNat
  <2>4. Inside(F)' = Inside(F) - In(x, F)
    OBVIOUS
  <2>5. QED
    BY <2>1, <2>2, <2>3, <2>4
<1>4. QED
  BY <1>2, <1>3, CountShift

\* Nothing leaves and nothing comes.
LEMMA CountSame ==
  ASSUME CountExact, CountTypes, setup' = setup, ibuf' = ibuf, inPipe' = inPipe,
         \A F \in SUBSET Running : Inside(F)' = Inside(F)
  PROVE  CountExact' /\ inPipe' \in [Warps -> Int]
<1>1. inPipe \in [Warps -> Int]
  BY DEF CountTypes
<1>2. ASSUME NEW w \in Warps, NEW F \in SUBSET Running, F = OfWarp(w)
      PROVE  Inside(F)' = Inside(F) + (inPipe'[w] - inPipe[w])
  <2>1. inPipe[w] \in Int /\ Inside(F) \in Nat /\ Inside(F)' = Inside(F)
    BY <1>1, InsideNat
  <2>2. QED
    BY <2>1
<1>3. QED
  BY <1>1, <1>2, CountShift

\* How an instruction leaves the dispatch register.
LEMMA DispatchMoves ==
  ASSUME setup \in Setups, LsuTypes, LsuDispatch
  PROVE  \/ /\ \A F \in SUBSET Running : Inside(F)' = Inside(F)
            /\ inPipe' = inPipe /\ reserved' = reserved /\ longop' = longop
         \/ /\ disp \in Running /\ inPipe' = [inPipe EXCEPT ![disp.w] = @ - 1]
            /\ \A F \in SUBSET Running : Inside(F)' = Inside(F) - In(disp, F)
<1>1. /\ Waits \/ Passes \/ Drops \/ Empties \/ Makes
      /\ UNCHANGED <<idoc, cu, ocex, unit, exwb>>
  BY DispatchCases DEF ocVars, aluVars
<1>2. ASSUME NEW over, Through(over), disp # None
      PROVE  /\ disp \in Running /\ inPipe' = [inPipe EXCEPT ![disp.w] = @ - 1]
             /\ \A F \in SUBSET Running : Inside(F)' = Inside(F) - In(disp, F)
  BY <1>1, <1>2, InDisp, LeaveMoves DEF Through
<1>3. ASSUME Stay
      PROVE  /\ \A F \in SUBSET Running : Inside(F)' = Inside(F)
             /\ inPipe' = inPipe /\ reserved' = reserved /\ longop' = longop
  <2>1. UNCHANGED <<idoc, cu, ocex, unit, exwb, disp, shpipe>> /\ inPipe' = inPipe /\ reserved' = reserved /\ longop' = longop
    BY <1>1, <1>3 DEF Stay, regVars
  <2>2. QED
    BY <2>1, NothingMoves
<1>4. CASE Passes
  <2>1. disp' = None /\ shpipe[2] = None /\ shpipe' = [shpipe EXCEPT ![2] = disp]
        /\ inPipe' = inPipe /\ reserved' = reserved /\ longop' = longop
    BY <1>4 DEF Passes, regVars
  <2>2. \A F \in SUBSET Running : Inside(F)' = Inside(F)
    BY <1>1, <2>1, LeaveMoves
  <2>3. QED
    BY <2>1, <2>2
<1>5. CASE Waits
  BY <1>3, <1>5 DEF Waits
<1>6. CASE Drops
  BY <1>2, <1>6 DEF Drops
<1>7. CASE Empties
  BY <1>2, <1>7 DEF Empties
<1>8. CASE Makes
  <2>1. disp # None /\ (Stay \/ Through(Over(pw'[disp.w])))
    BY <1>8 DEF Makes
  <2>2. QED
    BY <1>2, <1>3, <2>1
<1>9. QED
  BY <1>1, <1>4, <1>5, <1>6, <1>7, <1>8

\* A load leaves the shared memory pipeline when the writeback port takes it.
LEMMA LsuWritebackLeaves ==
  ASSUME setup \in Setups, LsuTypes, arb \in 0..4, LsuWriteback
  PROVE  \/ /\ \A F \in SUBSET Running : Inside(F)' = Inside(F)
            /\ inPipe' = inPipe /\ (nextWb' = nextWb \/ nextWb' = None \/ nextWb' \in SentLoads)
         \/ /\ nextWb' \in SharedLoads /\ inPipe' = [inPipe EXCEPT ![nextWb'.w] = @ - 1]
            /\ \A F \in SUBSET Running : Inside(F)' = Inside(F) - In(nextWb', F)
<1>1. \/ nextWb' = nextWb /\ UNCHANGED <<shpipe, inPipe>>
      \/ Taken(nextWb')
  BY WritebackCases
<1>2. /\ shpipe' = shpipe => \A F \in SUBSET Running : Inside(F)' = Inside(F)
      /\ shpipe' = [shpipe EXCEPT ![0] = None] => \A F \in SUBSET Running : Inside(F)' = Inside(F) - In(shpipe[0], F)
  BY LsuWritebackMoves
<1>3. CASE nextWb' = nextWb /\ UNCHANGED <<shpipe, inPipe>>
  BY <1>2, <1>3
<1>4. CASE Taken(nextWb')
  <2>1. CASE nextWb' = None /\ UNCHANGED <<shpipe, inPipe>>
    BY <1>2, <2>1
  <2>2. CASE /\ shpipe[0] # None /\ nextWb' = shpipe[0] /\ shpipe' = [shpipe EXCEPT ![0] = None]
             /\ inPipe' = [inPipe EXCEPT ![nextWb'.w] = @ - 1]
    <3>1. nextWb' \in SharedLoads
      BY <2>2 DEF LsuTypes
    <3>2. QED
      BY <1>2, <2>2, <3>1
  <2>3. CASE nextGlobal # None /\ nextWb' = nextGlobal /\ UNCHANGED <<shpipe, inPipe>>
    <3>1. nextWb' \in SentLoads
      BY <2>3 DEF LsuTypes
    <3>2. QED
      BY <1>2, <2>3, <3>1
  <2>4. CASE l1ready # <<>> /\ nextWb' = l1ready[1] /\ UNCHANGED <<shpipe, inPipe>>
    <3>1. nextWb' \in SentLoads
      <4>1. l1ready \in Seq(SentLoads)
        BY DEF LsuTypes
      <4>2. QED
        BY <2>4, <4>1, TailOf
    <3>2. QED
      BY <1>2, <2>4, <3>1
  <2>5. QED
    BY <1>4, <2>1, <2>2, <2>3, <2>4 DEF Taken
<1>5. QED
  BY <1>1, <1>3, <1>4

\* Where an issued instruction goes.
LEMMA IssueEnters ==
  ASSUME FrontTypes, AluTypes, Schedule, NEW w \in Warps, NEW npc, NEW F \in SUBSET Warps, IssuesTo(w, npc, F),
         NEW x, x = [w |-> w, pc |-> top[w]], NEW k, k = KindOf(P(x).op)
  PROVE  /\ x \in Running /\ P(x) = Program[top[w]] /\ k \in Kinds
         /\ idoc[k] = None /\ idoc' = [idoc EXCEPT ![k] = x]
         /\ \A G \in SUBSET Running : Inside(G)' = Inside(G) + In(x, G)
<1>1. top[w] \in DOMAIN Program
  BY IssueLeaves
<1>2. x \in Running /\ P(x) = Program[top[w]] /\ k \in Kinds
  BY <1>1, KindOfOp DEF Running, P
<1>3. idoc[k] = None /\ idoc' = [idoc EXCEPT ![k] = x]
  BY <1>2 DEF IssuesTo, Issues, IssueWarp
<1>4. UNCHANGED <<cu, ocex, unit, exwb, disp, shpipe>>
  BY ScheduleCases DEF ocVars, aluVars, lsuVars, wbVars
<1>5. \A G \in SUBSET Running : Inside(G)' = Inside(G) + In(x, G)
  BY <1>2, <1>3, <1>4, IssueMoves
<1>6. QED
  BY <1>2, <1>3, <1>5

\* A scheduler's turn keeps the count: the instructions flushed are taken back.
LEMMA ScheduleCount ==
  ASSUME FrontTypes, AluTypes, CountTypes, CountExact, Schedule
  PROVE  CountExact' /\ inPipe' \in [Warps -> Int]
<1>1. PICK F \in SUBSET Warps : /\ \A v \in F : Hazard(v)
                                /\ Flushes(F) \/ \E w \in Warps : \E npc : IssuesTo(w, npc, F)
  BY ScheduleCases
<1>2. /\ inPipe \in [Warps -> Int] /\ setup' = setup
      /\ ibuf \in [Warps -> [{1, 2} -> {0} \cup DOMAIN Program]] /\ nxt \in [Warps -> {1, 2}]
  BY ScheduleCases DEF CountTypes, FrontTypes
<1>3. \A w \in Warps : /\ Slot(ibuf[w][1]) \in Nat /\ Slot(ibuf[w][2]) \in Nat
                       /\ Cardinality(Buffered(w)) = Slot(ibuf[w][1]) + Slot(ibuf[w][2])
  BY BufferedNow DEF Slot
<1>4. \A w \in Warps : \A G \in SUBSET Running :
        G = OfWarp(w) => /\ inPipe[w] = Slot(ibuf[w][1]) + Slot(ibuf[w][2]) + Inside(G)
                         /\ Inside(G) \in Nat
  BY <1>3, InsideNat DEF CountExact
<1>5. CASE Flushes(F)
  <2>1. /\ \A v \in Warps : v \in F => ibuf'[v] = <<0, 0>> /\ inPipe'[v] = inPipe[v] - Cardinality(Buffered(v))
        /\ \A v \in Warps : v \notin F => ibuf'[v] = ibuf[v] /\ inPipe'[v] = inPipe[v]
        /\ inPipe' = [v \in Warps |-> IF v \in F THEN inPipe[v] - Cardinality(Buffered(v)) ELSE inPipe[v]]
    BY <1>5 DEF Flushes
  <2>2. \A v \in Warps : Cardinality(Buffered(v)) \in Int /\ inPipe[v] \in Int
    BY <1>2, <1>3
  <2>3. inPipe' \in [Warps -> Int]
    BY <2>1, <2>2
  <2>4. \A G \in SUBSET Running : Inside(G)' = Inside(G)
    <3>1. UNCHANGED <<idoc, cu, ocex, unit, exwb, disp, shpipe>>
      BY <1>5, ScheduleCases DEF Flushes, ocVars, aluVars, lsuVars, wbVars
    <3>2. QED
      BY <3>1, NothingMoves
  <2>5. ASSUME NEW v \in Warps, NEW G \in SUBSET Running, G = OfWarp(v)
        PROVE  inPipe'[v] = Slot(ibuf'[v][1]) + Slot(ibuf'[v][2]) + Inside(G)'
    <3>1. CASE v \in F
      <4>1. Slot(ibuf'[v][1]) = 0 /\ Slot(ibuf'[v][2]) = 0
        BY <2>1, <3>1 DEF Slot
      <4>2. QED
        BY <1>3, <1>4, <2>1, <2>2, <2>4, <2>5, <3>1, <4>1
    <3>2. CASE v \notin F
      BY <1>4, <2>1, <2>4, <2>5, <3>2
    <3>3. QED
      BY <3>1, <3>2
  <2>6. QED
    BY <1>2, <2>3, <2>5, CountBy
<1>6. ASSUME NEW w \in Warps, NEW npc, IssuesTo(w, npc, F) PROVE CountExact' /\ inPipe' \in [Warps -> Int]
  <2>1. PICK x, k : x = [w |-> w, pc |-> top[w]] /\ k = KindOf(P(x).op)
    OBVIOUS
  <2>2. \A G \in SUBSET Running : Inside(G)' = Inside(G) + In(x, G)
    BY <1>6, <2>1, IssueEnters
  <2>10. x \in Running
    BY <1>6, <2>1, IssueEnters
  <2>3. /\ w \notin F
        /\ \A v \in Warps :
              /\ v \in F => ibuf'[v] = <<0, 0>> /\ next_pc'[v] = top[v]
              /\ v # w /\ v \notin F => ibuf'[v] = ibuf[v] /\ next_pc'[v] = next_pc[v]
              /\ v # w => nxt'[v] = nxt[v] /\ done'[v] = done[v] /\ top'[v] = top[v] /\ nInst'[v] = nInst[v]
                          /\ trips'[v] = trips[v] /\ reserved'[v] = reserved[v]
              /\ v \in atBar' => v \in atBar \/ v = w
    BY <1>6, IssueLeaves
  <2>4. PICK o : o = Program[top[w]].op
    OBVIOUS
  <2>5. /\ Head1(w) = top[w] /\ top[w] \in DOMAIN Program
        /\ o = "exit" => ibuf'[w] = <<0, 0>>
        /\ o # "exit" => ibuf'[w] = [ibuf[w] EXCEPT ![nxt[w]] = 0]
    BY <1>6, <2>4, IssueLeaves
  <2>6. inPipe' = [v \in Warps |-> inPipe[v] - Dropped(v, w, o, F)]
    BY <1>6, <2>4 DEF IssuesTo, IssueWarp
  <2>7. \A v \in Warps : /\ v \in F => Dropped(v, w, o, F) = Cardinality(Buffered(v))
                         /\ v \notin F /\ v = w /\ o = "exit" => Dropped(v, w, o, F) = Cardinality(Buffered(v)) - 1
                         /\ v \notin F /\ ~(v = w /\ o = "exit") => Dropped(v, w, o, F) = 0
    BY DEF Dropped
  <2>8. \A v \in Warps : Dropped(v, w, o, F) \in Int /\ inPipe[v] \in Int
    BY <1>2, <1>3, <2>7
  <2>9. inPipe' \in [Warps -> Int]
    BY <2>6, <2>8
  <2>11. ASSUME NEW v \in Warps, NEW G \in SUBSET Running, G = OfWarp(v)
        PROVE  inPipe'[v] = Slot(ibuf'[v][1]) + Slot(ibuf'[v][2]) + Inside(G)'
    <3>1. /\ Inside(G)' = Inside(G) + In(x, G) /\ inPipe[v] = Slot(ibuf[v][1]) + Slot(ibuf[v][2]) + Inside(G)
          /\ Inside(G) \in Nat /\ inPipe'[v] = inPipe[v] - Dropped(v, w, o, F)
          /\ Cardinality(Buffered(v)) = Slot(ibuf[v][1]) + Slot(ibuf[v][2])
          /\ Slot(ibuf[v][1]) \in Nat /\ Slot(ibuf[v][2]) \in Nat
      BY <1>3, <1>4, <2>2, <2>6, <2>11
    <3>2. In(x, G) = IF v = w THEN 1 ELSE 0
      BY <2>1, <2>10, <2>11 DEF In, OfWarp
    <3>3. Slot(0) = 0
      BY DEF Slot
    <3>4. CASE v \in F
      <4>1. ibuf'[v][1] = 0 /\ ibuf'[v][2] = 0 /\ v # w /\ Dropped(v, w, o, F) = Cardinality(Buffered(v))
        BY <2>3, <2>7, <3>4
      <4>2. QED
        BY <3>1, <3>2, <3>3, <4>1
    <3>5. CASE v \notin F /\ v # w
      <4>1. ibuf'[v] = ibuf[v] /\ Dropped(v, w, o, F) = 0
        BY <2>3, <2>7, <3>5
      <4>2. QED
        BY <3>1, <3>2, <3>5, <4>1
    <3>6. CASE v = w /\ o = "exit"
      <4>1. ibuf'[v][1] = 0 /\ ibuf'[v][2] = 0 /\ Dropped(v, w, o, F) = Cardinality(Buffered(v)) - 1
        BY <2>3, <2>5, <2>7, <3>6
      <4>2. QED
        BY <3>1, <3>2, <3>3, <3>6, <4>1
    <3>7. CASE v = w /\ o # "exit"
      <4>1. /\ ibuf'[v] = [ibuf[v] EXCEPT ![nxt[v]] = 0] /\ Dropped(v, w, o, F) = 0 /\ (nxt[v] = 1 \/ nxt[v] = 2)
            /\ ibuf[v][nxt[v]] = top[v] /\ top[v] \in DOMAIN Program /\ ibuf[v] \in [{1, 2} -> {0} \cup DOMAIN Program]
        BY <1>2, <2>3, <2>5, <2>7, <3>7 DEF Head1
      <4>2. top[v] # 0
        BY <4>1, SetupFacts DEF FrontTypes
      <4>3. Slot(ibuf'[v][1]) + Slot(ibuf'[v][2]) = Slot(ibuf[v][1]) + Slot(ibuf[v][2]) - 1
        <5>1. CASE nxt[v] = 1
          <6>1. ibuf'[v][1] = 0 /\ ibuf'[v][2] = ibuf[v][2] /\ Slot(ibuf[v][1]) = 1
            BY <4>1, <4>2, <5>1 DEF Slot
          <6>2. QED
            BY <3>1, <3>3, <6>1
        <5>2. CASE nxt[v] = 2
          <6>1. ibuf'[v][2] = 0 /\ ibuf'[v][1] = ibuf[v][1] /\ Slot(ibuf[v][2]) = 1
            BY <4>1, <4>2, <5>2 DEF Slot
          <6>2. QED
            BY <3>1, <3>3, <6>1
        <5>3. QED
          BY <4>1, <5>1, <5>2
      <4>4. PICK a, b, c \in Nat : a = Slot(ibuf[v][1]) /\ b = Slot(ibuf[v][2]) /\ c = Inside(G)
        BY <3>1
      <4>5. PICK d : d = Slot(ibuf'[v][1]) + Slot(ibuf'[v][2])
        OBVIOUS
      <4>6. inPipe'[v] = a + b + c - 0 /\ d = a + b - 1 /\ Inside(G)' = c + 1
        BY <3>1, <3>2, <3>7, <4>1, <4>3, <4>4, <4>5
      <4>7. QED
        BY <4>5, <4>6
    <3>8. QED
      BY <3>4, <3>5, <3>6, <3>7
  <2>12. QED
    BY <1>2, <2>9, <2>11, CountBy
<1>7. QED
  BY <1>1, <1>5, <1>6

\* Decode counts the instructions it puts in a buffer that is empty.
LEMMA DecodeCount ==
  ASSUME FrontTypes, BufferSound, CountTypes, CountExact, Decode
  PROVE  CountExact' /\ inPipe' \in [Warps -> Int]
<1>1. /\ inPipe \in [Warps -> Int] /\ setup' = setup /\ fbuf \in Inst
      /\ ibuf \in [Warps -> [{1, 2} -> {0} \cup DOMAIN Program]]
  BY DEF CountTypes, FrontTypes, Decode
<1>2. \A G \in SUBSET Running : Inside(G)' = Inside(G)
  <2>1. UNCHANGED <<idoc, cu, ocex, unit, exwb, disp, shpipe>>
    BY DEF Decode, ocVars, aluVars, lsuVars, wbVars
  <2>2. QED
    BY <2>1, NothingMoves
<1>3. CASE fbuf = None
  <2>1. ibuf' = ibuf /\ inPipe' = inPipe
    BY <1>3 DEF Decode
  <2>2. QED
    BY <1>1, <1>2, <2>1, CountSame
<1>4. CASE fbuf # None
  <2>1. PICK w, pc : w = fbuf.w /\ pc = fbuf.pc
    OBVIOUS
  <2>2. w \in Warps /\ pc \in DOMAIN Program
    BY <1>1, <1>4, <2>1 DEF Inst
  <2>3. PICK nx, n : nx = (IF pc < Len(Program) THEN pc + 1 ELSE 0) /\ n = IF pc < Len(Program) THEN 2 ELSE 1
    OBVIOUS
  <2>4. ibuf' = [ibuf EXCEPT ![w] = <<pc, nx>>] /\ inPipe' = [inPipe EXCEPT ![w] = @ + n]
    BY <1>4, <2>1, <2>3 DEF Decode
  <2>5. inPipe' \in [Warps -> Int] /\ n \in Nat
    BY <1>1, <2>2, <2>3, <2>4
  <2>6. pc # 0 /\ Slot(pc) + Slot(nx) = n
    <3>1. pc \in Nat \ {0}
      BY <2>2, SetupFacts DEF FrontTypes
    <3>2. QED
      BY <2>3, <3>1 DEF Slot
  <2>7. Slot(ibuf[w][1]) = 0 /\ Slot(ibuf[w][2]) = 0
    <3>1. Buffered(w) = {}
      BY <1>4, <2>1, <2>2 DEF BufferSound
    <3>2. QED
      BY <3>1, NoneBuffered DEF Slot
  <2>8. ASSUME NEW v \in Warps, NEW G \in SUBSET Running, G = OfWarp(v)
        PROVE  inPipe'[v] = Slot(ibuf'[v][1]) + Slot(ibuf'[v][2]) + Inside(G)'
    <3>1. /\ inPipe[v] = Slot(ibuf[v][1]) + Slot(ibuf[v][2]) + Inside(G) /\ Inside(G) \in Nat
          /\ Inside(G)' = Inside(G)
      BY <1>2, <2>8, BufferedNow, InsideNat DEF CountExact
    <3>2. CASE v = w
      <4>1. inPipe'[v] = inPipe[v] + n /\ ibuf'[v] = <<pc, nx>>
        BY <1>1, <2>4, <3>2
      <4>2. ibuf'[v][1] = pc /\ ibuf'[v][2] = nx
        BY <4>1
      <4>3. QED
        BY <2>5, <2>6, <2>7, <3>1, <3>2, <4>1, <4>2
    <3>3. CASE v # w
      <4>1. inPipe'[v] = inPipe[v] /\ ibuf'[v] = ibuf[v]
        BY <1>1, <2>4, <3>3
      <4>2. QED
        BY <3>1, <4>1
    <3>4. QED
      BY <3>2, <3>3
  <2>9. QED
    BY <1>1, <2>5, <2>8, CountBy
<1>5. QED
  BY <1>3, <1>4

-----------------------------------------------------------------------------
(* Stores that are not acknowledged.                                       *)

\* What the count of them says after a step.
LEMMA StoresBy ==
  ASSUME setup' = setup,
         \A w \in Warps : \A pcs \in SUBSET (DOMAIN Program) :
           pcs = StorePcs => stores'[w] = acks'[w] + From(respq', w, pcs)
  PROVE  StoresExact'
<1>1. ASSUME NEW w \in Warps PROVE stores'[w] = acks'[w] + From(respq, w, StorePcs)'
  <2>1. PICK pcs \in SUBSET (DOMAIN Program) : pcs = StorePcs
    BY DEF StorePcs
  <2>2. StorePcs' = pcs
    BY <2>1, SameKernel
  <2>3. From(respq, w, StorePcs)' = From(respq', w, pcs)
    BY <2>2 DEF From
  <2>4. QED
    BY <2>1, <2>3
<1>2. QED
  BY <1>1 DEF StoresExact

\* A step that leaves them alone.
LEMMA SameStores ==
  ASSUME StoresExact, UNCHANGED <<setup, stores, acks, respq>>
  PROVE  StoresExact'
<1>1. ASSUME NEW w \in Warps, NEW pcs \in SUBSET (DOMAIN Program), pcs = StorePcs
      PROVE  stores'[w] = acks'[w] + From(respq', w, pcs)
  BY <1>1 DEF StoresExact
<1>2. QED
  BY <1>1, StoresBy

\* An acknowledgement that is taken is one less.
LEMMA ResponseStores ==
  ASSUME setup \in Setups, LsuTypes, CountTypes, StoresExact, LsuResponse
  PROVE  StoresExact' /\ stores' \in [Warps -> Int]
<1>1. PICK x, inst : x = respq[1] /\ inst = [w |-> x.w, pc |-> x.pc]
  OBVIOUS
<1>2. /\ Received(x, inst) /\ UNCHANGED <<setup, acks>>
      /\ respq # <<>> => x.w \in Warps
  BY <1>1, ResponseCases DEF memVars
<1>3. PICK S : S = [w : Warps, pc : Loads \cup StorePcs, k : Nat]
  OBVIOUS
<1>4. respq \in Seq(S) /\ stores \in [Warps -> Int] /\ acks \in [Warps -> Nat]
  BY <1>3 DEF LsuTypes, CountTypes
<1>5. stores' \in [Warps -> Int]
  <2>1. stores' = stores \/ stores' = [stores EXCEPT ![x.w] = @ - 1]
    BY <1>2 DEF Received
  <2>2. QED
    BY <1>4, <2>1
<1>6. ASSUME NEW w \in Warps, NEW pcs \in SUBSET (DOMAIN Program), pcs = StorePcs
      PROVE  stores'[w] = acks'[w] + From(respq', w, pcs)
  <2>1. stores[w] = acks[w] + From(respq, w, pcs) /\ From(respq, w, pcs) \in Nat /\ acks[w] \in Nat
    BY <1>4, <1>6, FromFinite DEF StoresExact
  <2>2. CASE UNCHANGED <<respq, stores>>
    BY <1>2, <2>1, <2>2
  <2>3. CASE respq # <<>> /\ x.pc \in StorePcs /\ respq' = Tail(respq) /\ stores' = [stores EXCEPT ![x.w] = @ - 1]
    <3>1. From(respq', w, pcs) = From(respq, w, pcs) - At(x, w, pcs)
      BY <1>1, <1>4, <2>3, FromTail
    <3>2. At(x, w, pcs) = IF x.w = w THEN 1 ELSE 0
      BY <1>6, <2>3 DEF At
    <3>3. stores'[w] = stores[w] - (IF x.w = w THEN 1 ELSE 0)
      BY <1>4, <2>3
    <3>4. QED
      BY <1>2, <2>1, <3>1, <3>2, <3>3
  <2>4. CASE respq # <<>> /\ x.pc \in Loads /\ respq' = Tail(respq) /\ stores' = stores
    <3>1. From(respq', w, pcs) = From(respq, w, pcs) - At(x, w, pcs)
      BY <1>1, <1>4, <2>4, FromTail
    <3>2. At(x, w, pcs) = 0
      BY <1>6, <2>4, LoadsRun DEF At
    <3>3. QED
      BY <1>2, <2>1, <2>4, <3>1, <3>2
  <2>5. QED
    BY <1>2, <2>2, <2>3, <2>4 DEF Received
<1>7. QED
  BY <1>2, <1>5, <1>6, StoresBy

\* A store that is sent is one more.
LEMMA DispatchStores ==
  ASSUME setup \in Setups, LsuTypes, CountTypes, StoresExact, LsuDispatch
  PROVE  StoresExact' /\ stores' \in [Warps -> Int]
<1>1. Waits \/ Passes \/ Drops \/ Empties \/ Makes
  BY DispatchCases
<1>2. UNCHANGED <<setup, respq>>
  BY DispatchCases
<1>3. /\ stores \in [Warps -> Int] /\ acks \in [Warps -> Nat]
      /\ \A w \in Warps : \A pcs \in SUBSET (DOMAIN Program) :
            From(respq, w, pcs) \in Nat
  <2>1. PICK S : S = [w : Warps, pc : Loads \cup StorePcs, k : Nat]
    OBVIOUS
  <2>2. respq \in Seq(S)
    BY <2>1 DEF LsuTypes
  <2>3. QED
    BY <2>2, FromFinite DEF CountTypes, LsuTypes
<1>4. CASE UNCHANGED <<stores, acks>>
  <2>1. StoresExact'
    BY <1>2, <1>4, SameStores
  <2>2. QED
    BY <1>3, <1>4, <2>1
<1>5. CASE /\ disp # None /\ acks' = [acks EXCEPT ![disp.w] = @ + 1]
           /\ stores' = [stores EXCEPT ![disp.w] = @ + 1]
  <2>1. disp.w \in Warps
    BY <1>5, InDisp
  <2>2. stores' \in [Warps -> Int]
    BY <1>3, <1>5, <2>1
  <2>3. ASSUME NEW w \in Warps, NEW pcs \in SUBSET (DOMAIN Program), pcs = StorePcs
        PROVE  stores'[w] = acks'[w] + From(respq', w, pcs)
    <3>1. stores[w] = acks[w] + From(respq, w, pcs)
      BY <2>3 DEF StoresExact
    <3>2. stores'[w] = stores[w] + (IF disp.w = w THEN 1 ELSE 0) /\ acks'[w] = acks[w] + (IF disp.w = w THEN 1 ELSE 0)
      BY <1>3, <1>5, <2>1
    <3>3. stores[w] \in Int /\ acks[w] \in Int /\ From(respq, w, pcs) \in Int /\ respq' = respq
      BY <1>2, <1>3
    <3>4. QED
      BY <3>1, <3>2, <3>3
  <2>4. QED
    BY <1>2, <2>2, <2>3, StoresBy
<1>6. QED
  BY <1>1, <1>4, <1>5 DEF Waits, Passes, Drops, Empties, Makes, Hit, Sent

\* An acknowledgement is on its way until it is taken.
LEMMA AnswerStores ==
  ASSUME setup \in Setups, LsuTypes, StoresExact, Memory
  PROVE  StoresExact'
<1>1. PICK S : S = [w : Warps, pc : Loads \cup StorePcs, k : Nat]
  OBVIOUS
<1>2. respq \in Seq(S) /\ acks \in [Warps -> Nat]
  BY <1>1 DEF LsuTypes
<1>3. ASSUME NEW x \in loads, AnswerLoad(x) PROVE StoresExact'
  <2>1. UNCHANGED <<setup, stores, acks>> /\ respq' = Append(respq, x)
    BY <1>3 DEF AnswerLoad, Arrives
  <2>2. x \in S /\ x.pc \in Loads
    BY <1>1 DEF LsuTypes
  <2>3. ASSUME NEW w \in Warps, NEW pcs \in SUBSET (DOMAIN Program), pcs = StorePcs
        PROVE  stores'[w] = acks'[w] + From(respq', w, pcs)
    <3>1. stores[w] = acks[w] + From(respq, w, pcs) /\ From(respq, w, pcs) \in Nat
      BY <1>2, <2>3, FromFinite DEF StoresExact
    <3>2. From(respq', w, pcs) = From(respq, w, pcs) + At(x, w, pcs)
      BY <1>2, <2>1, <2>2, FromAppend
    <3>3. At(x, w, pcs) = 0
      BY <2>2, <2>3, LoadsRun DEF At
    <3>4. QED
      BY <2>1, <3>1, <3>2, <3>3
  <2>4. QED
    BY <2>1, <2>3, StoresBy
<1>4. ASSUME NEW v \in Warps, AnswerStore(v) PROVE StoresExact'
  <2>1. PICK x : x = [w |-> v, pc |-> AStore, k |-> 0]
    OBVIOUS
  <2>2. UNCHANGED <<setup, stores>> /\ respq' = Append(respq, x) /\ acks' = [acks EXCEPT ![v] = @ - 1] /\ acks[v] > 0
    BY <1>4, <2>1 DEF AnswerStore, Arrives
  <2>3. AStore \in StorePcs
    <3>1. StorePcs # {}
      BY <2>2 DEF LsuTypes
    <3>2. QED
      BY <3>1 DEF AStore, StorePcs
  <2>4. x \in S /\ x.w = v /\ x.pc = AStore
    BY <1>1, <2>1, <2>3
  <2>5. ASSUME NEW w \in Warps, NEW pcs \in SUBSET (DOMAIN Program), pcs = StorePcs
        PROVE  stores'[w] = acks'[w] + From(respq', w, pcs)
    <3>1. stores[w] = acks[w] + From(respq, w, pcs) /\ From(respq, w, pcs) \in Nat /\ acks[w] \in Nat
      BY <1>2, <2>5, FromFinite DEF StoresExact
    <3>2. From(respq', w, pcs) = From(respq, w, pcs) + At(x, w, pcs)
      BY <1>2, <2>2, <2>4, FromAppend
    <3>3. At(x, w, pcs) = IF v = w THEN 1 ELSE 0
      BY <2>3, <2>4, <2>5 DEF At
    <3>4. acks'[w] = acks[w] - (IF v = w THEN 1 ELSE 0)
      BY <1>2, <2>2
    <3>5. QED
      BY <2>2, <3>1, <3>2, <3>3, <3>4
  <2>6. QED
    BY <2>2, <2>5, StoresBy
<1>5. CASE AnswerFetch
  BY <1>5, SameStores DEF AnswerFetch, wbVars, memVars
<1>6. QED
  BY <1>3, <1>4, <1>5 DEF Memory

\* A step that leaves the load/store unit and what it waits for alone.
LEMMA SameAccesses ==
  ASSUME LsuTypes, PwTypes, PendingSum, OneLoad, FreshAccess, StoresExact,
         UNCHANGED lsuTypeVars, pw' = pw, stores' = stores
  PROVE  LsuTypes' /\ PwTypes' /\ PendingSum' /\ OneLoad' /\ FreshAccess' /\ StoresExact'
<1>1. UNCHANGED <<setup, disp, left, shpipe, nextWb, nextGlobal, l1ready, loads, respq, acks>>
  BY DEF lsuTypeVars
<1>2. LsuTypes'
  BY SameLsu
<1>3. \A w \in Warps : \A pcs \in SUBSET Loads : Coming(w, pcs)' = Coming(w, pcs)
  BY <1>1, SameComing
<1>4. PendingSum' /\ PwTypes'
  BY <1>1, <1>3, SamePending
<1>5. FreshAccess'
  BY <1>1 DEF FreshAccess
<1>6. OneLoad'
  BY <1>1, <1>2, <1>3, OneLoadLess
<1>7. StoresExact'
  BY <1>1, SameStores
<1>8. QED
  BY <1>2, <1>4, <1>5, <1>6, <1>7

-----------------------------------------------------------------------------
(* What holds a register.                                                  *)

\* A shared load that waits to be written back; accesses of a load that has gone.
SharedIn(x, F) == IF x \in F /\ Shared(x) THEN 1 ELSE 0
Gone(p, x, n, F) == IF p > 0 /\ ~(x \in F /\ ~Shared(x) /\ n > 0) THEN 1 ELSE 0

\* What the invariant says of them.
LEMMA OwnedNow ==
  ASSUME OwnedOnce, NEW w \in Warps, NEW r \in Regs, NEW F, F = Writers(w, r)
  PROVE  /\ Inside(F) + SharedIn(nextWb, F) + Gone(pw[w][r], disp, left, F) = IF r \in reserved[w] THEN 1 ELSE 0
         /\ Inside(F) \in Nat /\ SharedIn(nextWb, F) \in {0, 1} /\ Gone(pw[w][r], disp, left, F) \in {0, 1}
BY InsideNat DEF OwnedOnce, Owners, Sends, SharedIn, Gone

\* And after a step.
LEMMA OwnedBy ==
  ASSUME setup' = setup,
         \A w \in Warps : \A r \in Regs : \A F \in SUBSET Running :
           F = Writers(w, r) =>
             Inside(F)' + SharedIn(nextWb', F) + Gone(pw'[w][r], disp', left', F) = IF r \in reserved'[w] THEN 1 ELSE 0
  PROVE  OwnedOnce'
<1>1. Regs' = Regs /\ \A x : Shared(x)' = Shared(x)
  BY SameSetup DEF Shared
<1>2. ASSUME NEW w \in Warps, NEW r \in Regs
      PROVE  Owners(w, r)' = IF r \in reserved'[w] THEN 1 ELSE 0
  <2>1. PICK F \in SUBSET Running : F = Writers(w, r)
    BY DEF Writers, OfWarp
  <2>2. Writers(w, r)' = F
    BY <2>1, SameKernel
  <2>3. Inside(Writers(w, r))' = Inside(F)'
    BY <2>2 DEF Inside, AtPort, InLsu, InExWb, UnitHas, Stages, In
  <2>4. Shared(nextWb)' = Shared(nextWb') /\ Shared(disp)' = Shared(disp')
    BY DEF Shared, P, Program
  <2>5. Owners(w, r)' = Inside(F)' + SharedIn(nextWb', F) + Gone(pw'[w][r], disp', left', F)
    BY <2>2, <2>3, <2>4 DEF Owners, Sends, SharedIn, Gone
  <2>6. QED
    BY <2>1, <2>5
<1>3. QED
  BY <1>1, <1>2 DEF OwnedOnce

\* A step that leaves them alone.
LEMMA SameOwned ==
  ASSUME OwnedOnce, UNCHANGED <<setup, nextWb, pw, disp, left, reserved>>,
         \A F \in SUBSET Running : Inside(F)' = Inside(F)
  PROVE  OwnedOnce'
<1>1. ASSUME NEW w \in Warps, NEW r \in Regs, NEW F \in SUBSET Running, F = Writers(w, r)
      PROVE  Inside(F)' + SharedIn(nextWb', F) + Gone(pw'[w][r], disp', left', F) = IF r \in reserved'[w] THEN 1 ELSE 0
  BY <1>1, OwnedNow
<1>2. QED
  BY <1>1, OwnedBy

\* The instructions that write a register.
LEMMA WritersOf ==
  ASSUME NEW x \in Running, NEW w, NEW r, NEW F, F = Writers(w, r)
  PROVE  /\ x \in F <=> x.w = w /\ r \in Range(P(x).out)
         /\ In(x, F) = IF x.w = w /\ r \in Range(P(x).out) THEN 1 ELSE 0
BY DEF Writers, OfWarp, In

\* writeback() releases what its instruction holds.
LEMMA WritebackOwned ==
  ASSUME PipeInv, CountTypes, OwnedOnce, ShaderWriteback
  PROVE  OwnedOnce' /\ reserved' \in [Warps -> SUBSET Regs]
<1>1. UNCHANGED <<setup, nextWb, pw, disp, left>> /\ reserved \in [Warps -> SUBSET Regs]
  BY DEF ShaderWriteback, wbVars, lsuVars, CountTypes
<1>2. CASE exwb = <<>>
  <2>1. reserved' = reserved
    BY <1>2 DEF ShaderWriteback, regVars
  <2>2. QED
    BY <1>1, <1>2, <2>1, WritebackMoves, SameOwned
<1>3. CASE exwb # <<>>
  <2>1. PICK x : x = exwb[1]
    OBVIOUS
  <2>2. x \in Running /\ \A F \in SUBSET Running : Inside(F)' = Inside(F) - In(x, F)
    BY <1>3, <2>1, WritebackMoves
  <2>3. reserved' = [reserved EXCEPT ![x.w] = @ \ Range(P(x).out)]
    BY <1>3, <2>1 DEF ShaderWriteback
  <2>4. x.w \in Warps
    BY <2>2 DEF Running
  <2>5. ASSUME NEW w \in Warps, NEW r \in Regs, NEW F \in SUBSET Running, F = Writers(w, r)
        PROVE  Inside(F)' + SharedIn(nextWb', F) + Gone(pw'[w][r], disp', left', F) = IF r \in reserved'[w] THEN 1 ELSE 0
    <3>1. PICK i \in Nat, s, g \in {0, 1} : /\ i = Inside(F) /\ s = SharedIn(nextWb, F) /\ g = Gone(pw[w][r], disp, left, F)
                                            /\ i + s + g = IF r \in reserved[w] THEN 1 ELSE 0
      BY <2>5, OwnedNow
    <3>2. SharedIn(nextWb', F) = s /\ Gone(pw'[w][r], disp', left', F) = g
      BY <1>1, <3>1
    <3>3. CASE x \in F
      <4>1. i >= 1 /\ In(x, F) = 1 /\ x.w = w /\ r \in Range(P(x).out)
        BY <1>3, <2>1, <2>2, <2>5, <3>1, <3>3, InsideHas, WritersOf
      <4>2. r \notin reserved'[w]
        BY <1>1, <2>3, <4>1
      <4>3. Inside(F)' = i - 1
        BY <2>2, <3>1, <4>1
      <4>4. QED
        BY <3>1, <3>2, <4>1, <4>2, <4>3
    <3>4. CASE x \notin F
      <4>1. In(x, F) = 0 /\ ~(x.w = w /\ r \in Range(P(x).out))
        BY <2>2, <2>5, <3>4, WritersOf
      <4>2. r \in reserved'[w] <=> r \in reserved[w]
        BY <1>1, <2>3, <4>1
      <4>3. Inside(F)' = i
        BY <2>2, <3>1, <4>1
      <4>4. QED
        BY <3>1, <3>2, <4>2, <4>3
    <3>5. QED
      BY <3>3, <3>4
  <2>6. reserved' \in [Warps -> SUBSET Regs]
    BY <1>1, <2>3, <2>4
  <2>7. QED
    BY <1>1, <2>5, <2>6, OwnedBy
<1>4. QED
  BY <1>2, <1>3

\* An instruction is issued only when nothing holds the registers it writes.
LEMMA ScheduleOwned ==
  ASSUME FrontTypes, AluTypes, CountTypes, OwnedOnce, Schedule
  PROVE  OwnedOnce' /\ reserved' \in [Warps -> SUBSET Regs]
<1>1. PICK F \in SUBSET Warps : /\ \A v \in F : Hazard(v)
                                /\ Flushes(F) \/ \E w \in Warps : \E npc : IssuesTo(w, npc, F)
  BY ScheduleCases
<1>2. /\ UNCHANGED <<setup, nextWb, pw, disp, left, cu, ocex, unit, exwb, shpipe>>
      /\ reserved \in [Warps -> SUBSET Regs]
  BY ScheduleCases DEF wbVars, lsuVars, ocVars, aluVars, CountTypes
<1>3. CASE Flushes(F)
  <2>1. reserved' = reserved /\ idoc' = idoc
    BY <1>3 DEF Flushes, regVars
  <2>2. QED
    BY <1>2, <2>1, NothingMoves, SameOwned
<1>4. ASSUME NEW v \in Warps, NEW npc, IssuesTo(v, npc, F)
      PROVE  OwnedOnce' /\ reserved' \in [Warps -> SUBSET Regs]
  <2>1. PICK x, k : x = [w |-> v, pc |-> top[v]] /\ k = KindOf(P(x).op)
    OBVIOUS
  <2>2. /\ x \in Running /\ P(x) = Program[top[v]]
        /\ \A G \in SUBSET Running : Inside(G)' = Inside(G) + In(x, G)
    BY <1>4, <2>1, IssueEnters
  <2>3. reserved' = [reserved EXCEPT ![v] = @ \cup Range(P(x).out)] /\ reserved[v] \cap Range(P(x).out) = {}
    BY <1>4, <2>2 DEF IssuesTo, IssueWarp, Issues, Collision
  <2>4. Range(P(x).out) \subseteq Regs
    <3>1. top[v] \in DOMAIN Program /\ setup \in Setups
      BY <2>1, <2>2 DEF Running, FrontTypes
    <3>2. QED
      BY <2>2, <3>1, ProgramFacts
  <2>5. ASSUME NEW w \in Warps, NEW r \in Regs, NEW G \in SUBSET Running, G = Writers(w, r)
        PROVE  Inside(G)' + SharedIn(nextWb', G) + Gone(pw'[w][r], disp', left', G) = IF r \in reserved'[w] THEN 1 ELSE 0
    <3>1. PICK i \in Nat, s, g \in {0, 1} : /\ i = Inside(G) /\ s = SharedIn(nextWb, G) /\ g = Gone(pw[w][r], disp, left, G)
                                            /\ i + s + g = IF r \in reserved[w] THEN 1 ELSE 0
      BY <2>5, OwnedNow
    <3>2. SharedIn(nextWb', G) = s /\ Gone(pw'[w][r], disp', left', G) = g
      BY <1>2, <3>1
    <3>3. In(x, G) = IF v = w /\ r \in Range(P(x).out) THEN 1 ELSE 0
      BY <2>1, <2>2, <2>5, WritersOf
    <3>4. r \in reserved'[w] <=> r \in reserved[w] \/ (v = w /\ r \in Range(P(x).out))
      BY <1>2, <2>3
    <3>5. v = w /\ r \in Range(P(x).out) => r \notin reserved[w]
      BY <2>3
    <3>6. Inside(G)' = i + In(x, G)
      BY <2>2, <3>1
    <3>7. QED
      BY <3>1, <3>2, <3>3, <3>4, <3>5, <3>6
  <2>6. reserved' \in [Warps -> SUBSET Regs]
    BY <1>2, <2>3, <2>4
  <2>7. QED
    BY <1>2, <2>5, <2>6, OwnedBy
<1>5. QED
  BY <1>1, <1>3, <1>4

\* The load that the writeback port takes keeps its registers.
LEMMA TakenMoves ==
  ASSUME setup \in Setups, LsuTypes, LsuWriteback, Taken(nextWb'), NEW F \in SUBSET Running
  PROVE  Inside(F)' = Inside(F) - SharedIn(nextWb', F)
<1>1. /\ shpipe' = shpipe => Inside(F)' = Inside(F)
      /\ shpipe' = [shpipe EXCEPT ![0] = None] => Inside(F)' = Inside(F) - In(shpipe[0], F)
  BY LsuWritebackMoves
<1>2. Inside(F) \in Nat /\ In(shpipe[0], F) \in Nat
  BY InsideNat, InValue
<1>3. /\ shpipe \in [0..2 -> SharedLoads \cup {None}] /\ nextGlobal \in SentLoads \cup {None}
      /\ l1ready \in Seq(SentLoads)
  BY DEF LsuTypes
<1>4. \A x : x = None \/ x \in SentLoads => SharedIn(x, F) = 0
  BY LoadsRun, NoneNotRunning DEF SharedIn
<1>5. CASE nextWb' = None /\ shpipe' = shpipe
  BY <1>1, <1>2, <1>4, <1>5
<1>6. CASE shpipe[0] # None /\ nextWb' = shpipe[0] /\ shpipe' = [shpipe EXCEPT ![0] = None]
  <2>1. nextWb' \in SharedLoads /\ Shared(nextWb')
    BY <1>3, <1>6, LoadsRun
  <2>2. SharedIn(nextWb', F) = In(shpipe[0], F)
    BY <1>6, <2>1 DEF SharedIn, In
  <2>3. QED
    BY <1>1, <1>2, <1>6, <2>2
<1>7. CASE nextGlobal # None /\ nextWb' = nextGlobal /\ shpipe' = shpipe
  BY <1>1, <1>2, <1>3, <1>4, <1>7
<1>8. CASE l1ready # <<>> /\ nextWb' = l1ready[1] /\ shpipe' = shpipe
  <2>1. nextWb' \in SentLoads
    BY <1>3, <1>8, TailOf
  <2>2. QED
    BY <1>1, <1>2, <1>4, <1>8, <2>1
<1>9. QED
  BY <1>5, <1>6, <1>7, <1>8 DEF Taken

\* A register is released with the last access of the load that writes it, not before.
LEMMA LsuWritebackOwned ==
  ASSUME setup \in Setups, LsuTypes, CountTypes, PwTypes, PendingSum, OwnedOnce, arb \in 0..4, LsuWriteback
  PROVE  OwnedOnce' /\ reserved' \in [Warps -> SUBSET Regs]
<1>1. /\ \/ nextWb # None /\ ~Goes /\ nextWb' = nextWb /\ UNCHANGED <<shpipe, pw, reserved>>
         \/ (nextWb = None \/ Goes) /\ Taken(nextWb')
      /\ pw' = IF Goes /\ ~Shared(nextWb) THEN [pw EXCEPT ![nextWb.w] = Less(nextWb, @)] ELSE pw
      /\ reserved' = IF Goes THEN [reserved EXCEPT ![nextWb.w] = @ \ Freed(nextWb, pw[nextWb.w])] ELSE reserved
  BY WritebackCases
<1>2. /\ UNCHANGED <<setup, disp, left>> /\ reserved \in [Warps -> SUBSET Regs]
      /\ pw \in [Warps -> [Regs -> Int]]
  BY WritebackCases DEF CountTypes, PwTypes
<1>3. reserved' \in [Warps -> SUBSET Regs]
  <2>1. PICK Z : reserved' = IF Goes THEN [reserved EXCEPT ![nextWb.w] = @ \ Z] ELSE reserved
    BY <1>1
  <2>2. QED
    BY <1>2, <2>1
<1>4. CASE nextWb' = nextWb /\ UNCHANGED <<shpipe, pw, reserved>>
  BY <1>2, <1>3, <1>4, LsuWritebackMoves, SameOwned
<1>5. CASE (nextWb = None \/ Goes) /\ Taken(nextWb')
  <2>1. \A F \in SUBSET Running : Inside(F)' = Inside(F) - SharedIn(nextWb', F)
    BY <1>5, TakenMoves
  <2>2. PICK x : x = nextWb
    OBVIOUS
  <2>3. x \in SharedLoads \cup SentLoads \cup {None}
    BY <2>2 DEF LsuTypes
  <2>5. ASSUME NEW w \in Warps, NEW r \in Regs, NEW F \in SUBSET Running, F = Writers(w, r)
        PROVE  Inside(F)' + SharedIn(nextWb', F) + Gone(pw'[w][r], disp', left', F) = IF r \in reserved'[w] THEN 1 ELSE 0
    <3>1. PICK i \in Nat, s, g \in {0, 1} : /\ i = Inside(F) /\ s = SharedIn(x, F) /\ g = Gone(pw[w][r], disp, left, F)
                                            /\ i + s + g = IF r \in reserved[w] THEN 1 ELSE 0
      BY <2>2, <2>5, OwnedNow
    <3>2. PICK j \in Int, t, h \in {0, 1} : /\ j = Inside(F)' /\ t = SharedIn(nextWb', F) /\ h = Gone(pw'[w][r], disp', left', F)
      <4>1. Inside(F)' \in Int
        BY <2>1, <3>1 DEF SharedIn
      <4>2. QED
        BY <4>1 DEF SharedIn, Gone
    <3>3. j + t = i
      BY <2>1, <3>1, <3>2
    <3>4. h = Gone(pw'[w][r], disp, left, F)
      BY <1>2, <3>2
    <3>5. CASE x = None
      <4>1. ~Goes
        BY <2>2, <3>5 DEF Goes
      <4>2. s = 0 /\ pw' = pw /\ reserved' = reserved
        BY <1>1, <3>1, <3>5, <4>1, NoneNotRunning DEF SharedIn
      <4>3. h = g
        BY <3>1, <3>4, <4>2
      <4>4. QED
        BY <3>1, <3>2, <3>3, <4>2, <4>3
    <3>6. CASE x \in SharedLoads
      <4>1. x \in Running /\ Shared(x) /\ x # None /\ Goes
        BY <1>5, <2>2, <3>6, LoadsRun
      <4>2. pw' = pw /\ reserved' = [reserved EXCEPT ![x.w] = @ \ Range(P(x).out)]
        <5>1. Freed(x, pw[x.w]) = Range(P(x).out)
          BY <4>1 DEF Freed
        <5>2. QED
          BY <1>1, <2>2, <4>1, <5>1
      <4>3. h = g
        BY <3>1, <3>4, <4>2
      <4>4. s = IF x.w = w /\ r \in Range(P(x).out) THEN 1 ELSE 0
        BY <2>5, <3>1, <4>1, WritersOf DEF SharedIn
      <4>5. r \in reserved'[w] <=> r \in reserved[w] /\ ~(x.w = w /\ r \in Range(P(x).out))
        BY <1>2, <4>2
      <4>6. QED
        BY <3>1, <3>2, <3>3, <4>3, <4>4, <4>5
    <3>7. CASE x \in SentLoads
      <4>1. x \in Running /\ ~Shared(x) /\ x # None /\ Goes /\ x.w \in Warps
        BY <1>5, <2>2, <3>7, LoadsRun
      <4>2. s = 0
        BY <3>1, <4>1 DEF SharedIn
      <4>3. /\ pw' = [pw EXCEPT ![x.w] = Less(x, @)]
            /\ reserved' = [reserved EXCEPT ![x.w] = @ \ Freed(x, pw[x.w])]
        BY <1>1, <2>2, <4>1
      <4>4. CASE ~(x.w = w /\ r \in Range(P(x).out))
        <5>1. pw'[w][r] = pw[w][r]
          BY <1>2, <4>3, <4>4 DEF Less
        <5>2. h = g
          BY <3>1, <3>4, <5>1
        <5>3. r \in reserved'[w] <=> r \in reserved[w]
          BY <1>2, <4>3, <4>4 DEF Freed
        <5>4. QED
          BY <3>1, <3>2, <3>3, <4>2, <5>2, <5>3
      <4>5. CASE x.w = w /\ r \in Range(P(x).out)
        <5>1. pw'[w][r] = pw[w][r] - 1 /\ pw[w][r] \in Int
          BY <1>2, <4>3, <4>5 DEF Less
        <5>2. r \in reserved'[w] <=> r \in reserved[w] /\ pw'[w][r] # 0
          <6>1. r \in Freed(x, pw[x.w]) <=> pw'[w][r] = 0
            BY <1>2, <4>1, <4>3, <4>5 DEF Freed
          <6>2. reserved'[w] = reserved[w] \ Freed(x, pw[x.w])
            BY <1>2, <4>3, <4>5
          <6>3. QED
            BY <6>1, <6>2
        <5>3. PICK pcs : pcs = Into(r)
          OBVIOUS
        <5>4. At(x, w, pcs) = 1
          BY <3>7, <4>5, <5>3, AtInto
        <5>5. pw[w][r] >= 1 + ToSend(disp, left, w, pcs) /\ ToSend(disp, left, w, pcs) \in Nat
          <6>1. pw[w][r] = Coming(w, pcs)
            BY <5>3 DEF PendingSum
          <6>2. PICK a1, a2, a3, a4, a5, a6 \in Nat :
                  /\ a1 = ToSend(disp, left, w, pcs) /\ a2 = InMemory(loads, w, pcs) /\ a3 = From(respq, w, pcs)
                  /\ a4 = From(l1ready, w, pcs) /\ a5 = At(nextGlobal, w, pcs) /\ a6 = At(nextWb, w, pcs)
            BY ComingParts
          <6>3. Coming(w, pcs) = a1 + a2 + a3 + a4 + a5 + a6
            BY <6>2, ComingParts
          <6>4. a6 = 1
            BY <2>2, <5>4, <6>2
          <6>5. QED
            BY <6>1, <6>2, <6>3, <6>4
        <5>6. CASE disp \in F /\ ~Shared(disp) /\ left > 0
          <6>1. disp \in Running /\ disp # None /\ disp.w = w /\ r \in Range(P(disp).out)
            BY <2>5, <5>6, WritersOf, NoneNotRunning
          <6>2. IsLoad(disp)
            <7>1. ~IsLoad(disp) => P(disp).out = <<>>
              BY <6>1, InDisp
            <7>2. QED
              BY <6>1, <7>1 DEF Range
          <6>3. disp \in SentLoads
            BY <5>6, <6>1, <6>2, LoadsRun
          <6>4. ToSend(disp, left, w, pcs) = left
            BY <5>3, <6>1, <6>3, AtInto
          <6>5. left \in Nat
            BY DEF LsuTypes
          <6>6. pw'[w][r] > 0
            BY <5>1, <5>5, <5>6, <6>4, <6>5
          <6>7. h = 0 /\ g = 0
            BY <3>1, <3>4, <5>6 DEF Gone
          <6>8. QED
            BY <3>1, <3>2, <3>3, <4>2, <5>1, <5>2, <6>6, <6>7
        <5>7. CASE ~(disp \in F /\ ~Shared(disp) /\ left > 0)
          <6>1. pw[w][r] >= 1
            BY <5>1, <5>5
          <6>2. g = 1 /\ h = IF pw'[w][r] > 0 THEN 1 ELSE 0
            BY <3>1, <3>4, <5>1, <5>7, <6>1 DEF Gone
          <6>3. r \in reserved[w] /\ i = 0
            BY <3>1, <6>2
          <6>4. PICK p \in Int : p = pw'[w][r] /\ p >= 0
            BY <5>1, <6>1
          <6>5. j + t + h = IF p > 0 THEN 1 ELSE 0
            BY <3>3, <6>2, <6>3, <6>4
          <6>6. r \in reserved'[w] <=> p > 0
            BY <5>2, <6>3, <6>4
          <6>7. QED
            BY <3>2, <6>5, <6>6
        <5>8. QED
          BY <5>6, <5>7
      <4>6. QED
        BY <4>4, <4>5
    <3>8. QED
      BY <2>3, <3>5, <3>6, <3>7
  <2>6. QED
    BY <1>2, <1>3, <2>5, OwnedBy
<1>6. QED
  BY <1>1, <1>4, <1>5

\* A load whose accesses are counted holds its registers already: nothing of an earlier one is left.
LEMMA LsuIssueOwned ==
  ASSUME setup \in Setups, LsuTypes, AluTypes, PwTypes, PendingSum, OwnedOnce, LsuIssue
  PROVE  OwnedOnce'
<1>1. /\ \/ UNCHANGED <<ocex, disp, left, pw>>
         \/ /\ disp = None /\ disp' = ocex["mem"] /\ disp' # None /\ disp' \in Of("mem")
            /\ left' = (IF Shared(disp') THEN P(disp').ii ELSE P(disp').n) /\ left' \in Nat
            /\ pw' = IF IsLoad(disp') /\ ~Shared(disp')
                     THEN [pw EXCEPT ![disp'.w] = Counted(disp', @)] ELSE pw
      /\ UNCHANGED <<setup, reserved, nextWb>>
  BY LsuIssueCases DEF regVars, wbVars
<1>2. \A F \in SUBSET Running : Inside(F)' = Inside(F)
  BY LsuIssueMoves
<1>3. CASE UNCHANGED <<ocex, disp, left, pw>>
  BY <1>1, <1>2, <1>3, SameOwned
<1>4. CASE /\ disp = None /\ disp' = ocex["mem"] /\ disp' # None /\ disp' \in Of("mem")
           /\ left' = (IF Shared(disp') THEN P(disp').ii ELSE P(disp').n) /\ left' \in Nat
           /\ pw' = IF IsLoad(disp') /\ ~Shared(disp')
                    THEN [pw EXCEPT ![disp'.w] = Counted(disp', @)] ELSE pw
  <2>1. PICK x, n : x = disp' /\ n = left'
    OBVIOUS
  <2>2. /\ x = ocex["mem"] /\ x # None /\ x \in Running /\ n \in Nat /\ (~Shared(x) => n = P(x).n)
        /\ pw' = IF IsLoad(x) /\ ~Shared(x) THEN [pw EXCEPT ![x.w] = Counted(x, @)] ELSE pw
        /\ KindOf(P(x).op) = "mem"
    BY <1>4, <2>1 DEF Of
  <2>3. ~IsLoad(x) => P(x).out = <<>>
    <3>1. x.pc \in DOMAIN Program /\ P(x) = Program[x.pc]
      BY <2>2 DEF Running, P
    <3>2. P(x).op \in {"store", "membar"} => P(x).out = <<>>
      BY <3>1, ProgramFacts
    <3>3. PICK o : o = P(x).op
      OBVIOUS
    <3>4. o \in {"load", "store", "membar"}
      BY <2>2, <3>3 DEF KindOf
    <3>5. QED
      BY <3>2, <3>3, <3>4 DEF IsLoad
  <2>4. pw \in [Warps -> [Regs -> Int]] /\ x.w \in Warps
    BY <2>2 DEF PwTypes, Running
  <2>5. ASSUME NEW w \in Warps, NEW r \in Regs, NEW F \in SUBSET Running, F = Writers(w, r)
        PROVE  Inside(F)' + SharedIn(nextWb', F) + Gone(pw'[w][r], disp', left', F) = IF r \in reserved'[w] THEN 1 ELSE 0
    <3>1. Gone(pw[w][r], disp, left, F) = IF pw[w][r] > 0 THEN 1 ELSE 0
      BY <1>4, NoneNotRunning DEF Gone
    <3>2. Gone(pw'[w][r], x, n, F) = Gone(pw[w][r], disp, left, F)
      <4>1. CASE x \in F /\ ~Shared(x)
        <5>1. x.w = w /\ r \in Range(P(x).out) /\ IsLoad(x)
          BY <2>2, <2>3, <2>5, <4>1, WritersOf DEF Range
        <5>2. Inside(Writers(w, r)) >= 1 /\ ~Sends(w, r)
          BY <1>4, <2>2, <2>5, <4>1, InsideHas, NoneNotRunning DEF Sends
        <5>3. pw[w][r] = 0
          BY <5>2, NothingPending
        <5>4. pw'[w][r] = n
          <6>1. pw'[w][r] = pw[w][r] + P(x).n
            BY <2>2, <2>4, <4>1, <5>1 DEF Counted
          <6>2. QED
            BY <2>2, <4>1, <5>3, <6>1
        <5>5. QED
          BY <2>2, <3>1, <4>1, <5>3, <5>4 DEF Gone
      <4>2. CASE x \notin F \/ Shared(x)
        <5>1. pw'[w][r] = pw[w][r]
          <6>1. CASE Shared(x)
            BY <2>2, <6>1
          <6>2. CASE x \notin F
            <7>1. ~(x.w = w /\ r \in Range(P(x).out))
              BY <2>2, <2>5, <6>2, WritersOf
            <7>2. QED
              BY <2>2, <2>4, <7>1 DEF Counted
          <6>3. QED
            BY <4>2, <6>1, <6>2
        <5>2. QED
          BY <3>1, <4>2, <5>1 DEF Gone
      <4>3. QED
        BY <4>1, <4>2
    <3>3. Inside(F)' = Inside(F) /\ SharedIn(nextWb', F) = SharedIn(nextWb, F) /\ reserved'[w] = reserved[w]
      BY <1>1, <1>2
    <3>4. QED
      BY <2>1, <2>5, <3>2, <3>3, OwnedNow
  <2>6. QED
    BY <1>1, <2>5, OwnedBy
<1>5. QED
  BY <1>1, <1>3, <1>4

\* When the dispatch register is done with a load, all its registers wait for the same accesses.
LEMMA LastAccess ==
  ASSUME setup \in Setups, LsuTypes, FreshAccess, PendingSum, PwTypes, OneLoad, LsuDispatch, Makes, IsLoad(disp)
  PROVE  \E n \in Nat : \A r \in Range(P(disp).out) : r \in Regs /\ pw'[disp.w][r] = n
<1>1. PICK x : x = disp
  OBVIOUS
<1>2. x \in SentLoads /\ x \in Running /\ x.w \in Warps /\ x.pc \in Loads /\ x.pc \in DOMAIN Program /\ left > 0
      /\ left \in Nat
  BY <1>1, InDisp DEF Makes, LsuTypes
<1>3. Range(P(x).out) \subseteq Regs
  BY <1>2, ProgramFacts DEF P
<1>4. PICK one \in SUBSET Loads : one = {x.pc}
  BY <1>2
<1>5. Coming(x.w, one) \in Nat /\ Coming(x.w, one) >= left
  <2>1. PICK a1, a2, a3, a4, a5, a6 \in Nat :
          /\ a1 = ToSend(disp, left, x.w, one) /\ a2 = InMemory(loads, x.w, one) /\ a3 = From(respq, x.w, one)
          /\ a4 = From(l1ready, x.w, one) /\ a5 = At(nextGlobal, x.w, one) /\ a6 = At(nextWb, x.w, one)
    BY <1>2, ComingParts
  <2>2. Coming(x.w, one) = a1 + a2 + a3 + a4 + a5 + a6
    BY <1>2, <2>1, ComingParts
  <2>3. a1 = left
    BY <1>1, <1>4, <2>1 DEF ToSend
  <2>4. QED
    BY <2>2, <2>3
<1>6. PICK d \in {0, 1} : d = IF Hit THEN 1 ELSE 0
  OBVIOUS
<1>7. \A pcs \in SUBSET Loads : x.pc \in pcs => Coming(x.w, pcs)' = Coming(x.w, pcs) - d
  <2>1. ASSUME NEW pcs \in SUBSET Loads, x.pc \in pcs PROVE Coming(x.w, pcs)' = Coming(x.w, pcs) - d
    <3>1. At(disp, x.w, pcs) = 1
      BY <1>1, <2>1 DEF At
    <3>2. Hit => Coming(x.w, pcs)' = Coming(x.w, pcs) - At(disp, x.w, pcs)
      BY <1>2, DispatchComing
    <3>3. Sent => Coming(x.w, pcs)' = Coming(x.w, pcs)
      BY <1>2, DispatchComing
    <3>4. Coming(x.w, pcs) \in Nat
      BY <1>2, ComingParts
    <3>5. QED
      BY <1>6, <3>1, <3>2, <3>3, <3>4 DEF Makes
  <2>2. QED
    BY <2>1
<1>8. PICK n \in Nat : n = Coming(x.w, one) - d
  BY <1>2, <1>5, <1>6
<1>9. ASSUME NEW r \in Range(P(x).out) PROVE pw'[x.w][r] = n
  <2>1. PICK pcs \in SUBSET Loads : pcs = Into(r)
    BY DEF Into
  <2>2. x.pc \in pcs /\ r \in Regs
    BY <1>2, <1>3, <1>9, <2>1 DEF Into, P
  <2>3. Coming(x.w, pcs) = Coming(x.w, one)
    BY <1>2, <1>4, <1>5, <2>1, <2>2 DEF OneLoad
  <2>4. Coming(x.w, pcs)' = n
    BY <1>7, <1>8, <2>2, <2>3
  <2>5. PendingSum'
    BY DispatchPending
  <2>6. setup' = setup
    BY DispatchCases
  <2>7. Regs' = Regs /\ Into(r)' = pcs
    BY <2>1, <2>6, SameKernel
  <2>8. Coming(x.w, Into(r))' = Coming(x.w, pcs)'
    BY <2>7 DEF Coming, ToSend, InMemory, From, At
  <2>9. pw'[x.w][r] = Coming(x.w, Into(r))'
    BY <1>2, <2>2, <2>5, <2>7 DEF PendingSum
  <2>10. QED
    BY <2>4, <2>8, <2>9
<1>10. QED
  BY <1>1, <1>3, <1>9

\* The dispatch register releases the registers of a load that has nothing on its way.
LEMMA DispatchOwned ==
  ASSUME setup \in Setups, LsuTypes, CountTypes, PwTypes, PendingSum, OneLoad, FreshAccess, OwnedOnce, LsuDispatch
  PROVE  OwnedOnce'
<1>1. /\ Waits \/ Passes \/ Drops \/ Empties \/ Makes
      /\ UNCHANGED <<setup, nextWb, idoc, cu, ocex, unit, exwb>>
  BY DispatchCases DEF ocVars, aluVars
<1>2. /\ pw \in [Warps -> [Regs -> Int]] /\ reserved \in [Warps -> SUBSET Regs] /\ left \in Nat
  BY DEF PwTypes, CountTypes, LsuTypes
<1>3. ASSUME Stay PROVE /\ reserved' = reserved /\ disp' = disp
                        /\ \A F \in SUBSET Running : Inside(F)' = Inside(F)
  BY <1>1, <1>3, NothingMoves DEF Stay, regVars
<1>4. ASSUME NEW over, Through(over) PROVE \A F \in SUBSET Running : Inside(F)' = Inside(F) - In(disp, F)
  BY <1>1, <1>4, LeaveMoves DEF Through
<1>5. ASSUME NEW r, NEW w, NEW F, F = Writers(w, r), disp \in F
      PROVE  disp # None /\ disp.w = w /\ r \in Range(P(disp).out) /\ IsLoad(disp)
  <2>1. disp \in Running /\ disp # None /\ disp.w = w /\ r \in Range(P(disp).out)
    BY <1>5, NoneNotRunning DEF Writers, OfWarp
  <2>2. ~IsLoad(disp) => P(disp).out = <<>>
    BY <2>1, InDisp
  <2>3. QED
    BY <2>1, <2>2 DEF Range
<1>6. CASE Waits \/ Passes \/ Drops
  <2>1. pw' = pw /\ reserved' = reserved
    BY <1>6 DEF Waits, Passes, Drops, Stay, Through, regVars
  <2>2. ASSUME NEW w \in Warps, NEW r \in Regs, NEW F \in SUBSET Running, F = Writers(w, r)
        PROVE  Inside(F)' + SharedIn(nextWb', F) + Gone(pw'[w][r], disp', left', F) = IF r \in reserved'[w] THEN 1 ELSE 0
    <3>1. Inside(F)' = Inside(F)
      <4>1. CASE Waits
        BY <1>3, <4>1 DEF Waits
      <4>2. CASE Passes
        BY <1>1, <4>2, LeaveMoves DEF Passes
      <4>3. CASE Drops
        <5>1. disp \notin F
          BY <1>5, <2>2, <4>3 DEF Drops
        <5>2. Inside(F)' = Inside(F) - 0
          BY <1>4, <4>3, <5>1 DEF Drops, In
        <5>3. QED
          BY <5>2, InsideNat
      <4>4. QED
        BY <1>6, <4>1, <4>2, <4>3
    <3>2. Gone(pw'[w][r], disp', left', F) = Gone(pw[w][r], disp, left, F)
      <4>1. CASE Waits
        BY <2>1, <4>1 DEF Waits, Stay, Gone
      <4>2. CASE Passes \/ Drops
        <5>1. Shared(disp) /\ disp' = None
          BY <4>2 DEF Passes, Drops, Through
        <5>2. QED
          BY <2>1, <5>1, NoneNotRunning DEF Gone
      <4>3. QED
        BY <1>6, <4>1, <4>2
    <3>3. QED
      BY <1>1, <2>1, <2>2, <3>1, <3>2, OwnedNow
  <2>3. QED
    BY <1>1, <2>2, OwnedBy
<1>7. CASE Empties
  <2>1. /\ disp # None /\ ~Shared(disp) /\ left = 0 /\ left' = 0 /\ pw' = pw
        /\ Through(Over(pw[disp.w])) /\ disp' = None
    BY <1>7 DEF Empties, Through
  <2>2. ASSUME NEW w \in Warps, NEW r \in Regs, NEW F \in SUBSET Running, F = Writers(w, r)
        PROVE  Inside(F)' + SharedIn(nextWb', F) + Gone(pw'[w][r], disp', left', F) = IF r \in reserved'[w] THEN 1 ELSE 0
    <3>1. PICK i \in Nat, s, g \in {0, 1} : /\ i = Inside(F) /\ s = SharedIn(nextWb, F) /\ g = Gone(pw[w][r], disp, left, F)
                                            /\ i + s + g = IF r \in reserved[w] THEN 1 ELSE 0
      BY <2>2, OwnedNow
    <3>2. Gone(pw'[w][r], disp', left', F) = g /\ SharedIn(nextWb', F) = s
      BY <1>1, <1>2, <2>1, <3>1, NoneNotRunning DEF Gone
    <3>3. CASE disp \in F
      <4>1. disp.w = w /\ r \in Range(P(disp).out) /\ IsLoad(disp) /\ i >= 1 /\ In(disp, F) = 1
        BY <1>5, <2>2, <3>1, <3>3, InsideHas DEF In
      <4>2. \A q \in Range(P(disp).out) : pw[w][q] = 0
        <5>1. ASSUME NEW q \in Range(P(disp).out) PROVE pw[w][q] = 0
          <6>1. disp \in Running /\ disp.pc \in DOMAIN Program
            BY <2>1, InDisp
          <6>2. q \in Regs
            BY <5>1, <6>1, ProgramFacts DEF P
          <6>3. disp \in Writers(w, q)
            BY <4>1, <5>1, <6>1 DEF Writers, OfWarp
          <6>4. Inside(Writers(w, q)) >= 1 /\ ~Sends(w, q)
            BY <2>1, <6>3, InsideHas DEF Sends
          <6>5. QED
            BY <6>2, <6>4, NothingPending
        <5>2. QED
          BY <5>1
      <4>3. Over(pw[disp.w])
        BY <2>1, <4>1, <4>2 DEF Over
      <4>4. reserved' = [reserved EXCEPT ![disp.w] = @ \ Range(P(disp).out)]
        BY <2>1, <4>3 DEF Through
      <4>5. r \notin reserved'[w]
        BY <1>2, <4>1, <4>4
      <4>6. Inside(F)' = i - 1
        BY <1>4, <2>1, <3>1, <4>1
      <4>7. QED
        BY <3>1, <3>2, <4>1, <4>5, <4>6
    <3>4. CASE disp \notin F
      <4>1. ~(disp.w = w /\ r \in Range(P(disp).out))
        <5>1. disp \in Running
          BY <2>1, InDisp
        <5>2. QED
          BY <2>2, <3>4, <5>1, WritersOf
      <4>2. r \in reserved'[w] <=> r \in reserved[w]
        BY <1>2, <2>1, <4>1 DEF Through
      <4>3. Inside(F)' = i
        BY <1>4, <2>1, <3>1, <3>4 DEF In
      <4>4. QED
        BY <3>1, <3>2, <4>2, <4>3
    <3>5. QED
      BY <3>3, <3>4
  <2>3. QED
    BY <1>1, <2>2, OwnedBy
<1>8. CASE Makes
  <2>1. /\ disp # None /\ ~Shared(disp) /\ left > 0 /\ left' = left - 1 /\ left' \in Nat
        /\ IF left' = 0 THEN Through(Over(pw'[disp.w])) ELSE Stay
    BY <1>2, <1>8 DEF Makes
  <2>2. disp \in Running /\ disp.w \in Warps
    BY <2>1, InDisp
  <2>3. ASSUME NEW w \in Warps, NEW r \in Regs, ~(disp.w = w /\ r \in Range(P(disp).out)) PROVE pw'[w][r] = pw[w][r]
    <3>1. pw' = pw \/ pw' = [pw EXCEPT ![disp.w] = Less(disp, @)]
      BY <1>8 DEF Makes, Hit, Sent
    <3>2. QED
      BY <1>2, <2>3, <3>1 DEF Less
  <2>4. ASSUME NEW w \in Warps, NEW r \in Regs, NEW F \in SUBSET Running, F = Writers(w, r)
        PROVE  Inside(F)' + SharedIn(nextWb', F) + Gone(pw'[w][r], disp', left', F) = IF r \in reserved'[w] THEN 1 ELSE 0
    <3>1. PICK i \in Nat, s, g \in {0, 1} : /\ i = Inside(F) /\ s = SharedIn(nextWb, F) /\ g = Gone(pw[w][r], disp, left, F)
                                            /\ i + s + g = IF r \in reserved[w] THEN 1 ELSE 0
      BY <2>4, OwnedNow
    <3>2. SharedIn(nextWb', F) = s
      BY <1>1, <3>1
    <3>3. CASE disp \notin F
      <4>1. ~(disp.w = w /\ r \in Range(P(disp).out))
        BY <2>2, <2>4, <3>3, WritersOf
      <4>2. disp' \notin F /\ pw'[w][r] = pw[w][r]
        BY <2>1, <2>3, <2>4, <3>3, <4>1, NoneNotRunning DEF Through, Stay
      <4>3. Gone(pw'[w][r], disp', left', F) = g
        BY <3>1, <3>3, <4>2 DEF Gone
      <4>4. r \in reserved'[w] <=> r \in reserved[w]
        BY <1>2, <2>1, <4>1 DEF Through, Stay, regVars
      <4>5. Inside(F)' = i
        <5>1. In(disp, F) = 0
          BY <3>3 DEF In
        <5>2. Stay => Inside(F)' = Inside(F)
          BY <1>3
        <5>3. Through(Over(pw'[disp.w])) => Inside(F)' = Inside(F) - In(disp, F)
          BY <1>4
        <5>4. QED
          BY <2>1, <3>1, <5>1, <5>2, <5>3
      <4>6. QED
        BY <3>1, <3>2, <4>3, <4>4, <4>5
    <3>4. CASE disp \in F
      <4>1. disp.w = w /\ r \in Range(P(disp).out) /\ IsLoad(disp) /\ i >= 1 /\ In(disp, F) = 1
        BY <1>5, <2>4, <3>1, <3>4, InsideHas DEF In
      <4>2. i = 1 /\ s = 0 /\ g = 0 /\ r \in reserved[w]
        <5>1. r \in reserved[w]
          BY <3>1, <4>1
        <5>2. QED
          BY <3>1, <4>1, <5>1
      <4>3. CASE left' # 0
        <5>1. Stay
          BY <2>1, <4>3
        <5>2. Inside(F)' = i /\ reserved' = reserved /\ disp' = disp
          <6>1. reserved' = reserved /\ disp' = disp /\ Inside(F)' = Inside(F)
            BY <1>3, <5>1
          <6>2. QED
            BY <3>1, <6>1
        <5>3. Gone(pw'[w][r], disp', left', F) = 0
          <6>1. left' > 0
            <7>1. left' \in Nat
              BY <2>1
            <7>2. QED
              BY <4>3, <7>1
          <6>2. disp' \in F /\ ~Shared(disp')
            BY <2>1, <3>4, <5>2, Zenon
          <6>3. QED
            BY <6>1, <6>2 DEF Gone
        <5>4. QED
          BY <3>2, <4>2, <5>2, <5>3
      <4>4. CASE left' = 0
        <5>1. Through(Over(pw'[disp.w])) /\ disp' = None
          BY <2>1, <4>4 DEF Through
        <5>2. Inside(F)' = 0
          <6>1. Through(Over(pw'[disp.w])) => Inside(F)' = Inside(F) - In(disp, F)
            BY <1>4
          <6>2. QED
            BY <3>1, <4>1, <4>2, <5>1, <6>1
        <5>3. PICK n \in Nat : \A q \in Range(P(disp).out) : q \in Regs /\ pw'[disp.w][q] = n
          BY <1>8, <4>1, LastAccess
        <5>4. Over(pw'[disp.w]) <=> n = 0
          BY <2>1, <4>1, <5>3 DEF Over
        <5>5. Gone(pw'[w][r], disp', left', F) = IF n > 0 THEN 1 ELSE 0
          BY <4>1, <4>4, <5>3 DEF Gone
        <5>6. r \in reserved'[w] <=> n > 0
          <6>1. CASE n = 0
            <7>1. reserved' = [reserved EXCEPT ![disp.w] = @ \ Range(P(disp).out)]
              BY <5>1, <5>4, <6>1 DEF Through
            <7>2. QED
              BY <1>2, <4>1, <6>1, <7>1
          <6>2. CASE n > 0
            <7>1. reserved' = reserved
              BY <5>1, <5>4, <6>2 DEF Through
            <7>2. QED
              BY <4>2, <6>2, <7>1
          <6>3. QED
            BY <6>1, <6>2
        <5>7. QED
          BY <3>2, <4>2, <5>2, <5>5, <5>6
      <4>5. QED
        BY <4>3, <4>4
    <3>5. QED
      BY <3>3, <3>4
  <2>5. QED
    BY <1>1, <2>4, OwnedBy
<1>9. QED
  BY <1>1, <1>6, <1>7, <1>8

-----------------------------------------------------------------------------
(* What the counters and the rest of the core hold.                        *)

\* The types of the counters after a step.
LEMMA CountTypesBy ==
  ASSUME setup' = setup, inPipe' \in [Warps -> Int], stores' \in [Warps -> Int], nInst' \in [Warps -> Int],
         reserved' \in [Warps -> SUBSET Regs], longop' \in [Warps -> SUBSET Regs],
         \A i \in DOMAIN exwb' : KindOf(P(exwb'[i]).op) # "mem"
  PROVE  CountTypes'
<1>1. Regs' = Regs
  BY SameSetup
<1>2. \A i : P(exwb[i])' = P(exwb'[i])
  BY DEF P, Program
<1>3. QED
  BY <1>1, <1>2 DEF CountTypes

\* And of the rest.
LEMMA OtherTypesBy ==
  ASSUME OtherTypes, setup' = setup, turn \in Nat,
         phase' \in {"writeback", "sp", "sfu", "lsu", "collect", "response", "dispatch", "oc_ex", "issue", "decode", "fetch"},
         phase' = phase \/ turn' = 0 \/ (phase # "issue" /\ turn' = turn),
         turn' = turn \/ turn' = 0 \/ phase = "issue",
         trips' \in [Warps -> 0..MaxTrips], written' \subseteq Banks, pri' \in 0..(Square - 1), arb' \in 0..4,
         Len(respq') <= Responses
  PROVE  OtherTypes'
BY DEF OtherTypes

\* A bank.
LEMMA WrittenBanks ==
  ASSUME setup \in Setups, NEW x \in Running, NEW busy \in SUBSET Banks
  PROVE  Writeback(x, busy).banks \subseteq Banks
<1>1. x.w \in Nat /\ P(x).out \in Seq(Nat)
  <2>1. x.w \in Warps /\ x.pc \in DOMAIN Program /\ P(x) = Program[x.pc]
    BY DEF Running, P
  <2>2. P(x) \in Instruction
    BY <2>1, ProgramFacts
  <2>3. QED
    BY <2>1, <2>2 DEF Warps, Instruction
<1>2. NumBanks \in Nat \ {0}
  BY CoreConstants
<1>3. \A i \in DOMAIN P(x).out : Bank(x.w, P(x).out[i]) \in Banks
  <2>1. ASSUME NEW r \in Nat PROVE Bank(x.w, r) \in Banks
    <3>1. PICK a \in Nat : a = r + x.w
      BY <1>1
    <3>2. a % NumBanks \in 0..(NumBanks - 1)
      BY <1>2
    <3>3. QED
      BY <3>1, <3>2 DEF Bank, Banks
  <2>2. QED
    BY <1>1, <2>1
<1>4. QED
  BY <1>3 DEF Writeback

\* What fits the load/store unit comes from its port, the other ports hold no memory instruction.
LEMMA AluKind ==
  ASSUME AluTypes, NEW k \in Alu
  PROVE  unit[k].stage[0] \in {None} \cup Running /\ (unit[k].stage[0] # None => KindOf(P(unit[k].stage[0]).op) # "mem")
<1>1. unit[k] \in UnitOf(k)
  BY DEF AluTypes
<1>2. 0 \in 0..(Depth[k] - 1)
  BY CoreConstants
<1>3. unit[k].stage[0] \in Of(k)
  BY <1>1, <1>2 DEF UnitOf
<1>4. k # "mem"
  BY DEF Alu
<1>5. QED
  BY <1>3, <1>4 DEF Of

\* An instruction that is completed takes CPL's count one down.
LEMMA WritebackCounts ==
  ASSUME PipeInv, CountTypes, CountExact, OwnedOnce, ShaderWriteback
  PROVE  CountTypes' /\ CountExact'
<1>1. /\ UNCHANGED <<setup, ibuf, stores>> /\ nInst \in [Warps -> Int] /\ longop \in [Warps -> SUBSET Regs]
      /\ inPipe \in [Warps -> Int] /\ stores \in [Warps -> Int]
  BY DEF ShaderWriteback, CountTypes
<1>2. exwb \in Seq(Running) /\ Len(exwb) <= 1
  BY DEF PipeInv, AluTypes, BusSound
<1>3. reserved' \in [Warps -> SUBSET Regs]
  BY WritebackOwned
<1>4. CASE exwb = <<>>
  <2>1. UNCHANGED <<exwb, longop, inPipe, nInst>>
    BY <1>4 DEF ShaderWriteback, regVars
  <2>2. CountExact'
    BY <1>1, <1>4, <2>1, WritebackMoves, CountSame
  <2>3. CountTypes'
    BY <1>1, <1>3, <1>4, <2>1, CountTypesBy
  <2>4. QED
    BY <2>2, <2>3
<1>5. CASE exwb # <<>>
  <2>1. PICK x : x = exwb[1]
    OBVIOUS
  <2>2. x \in Running /\ \A F \in SUBSET Running : Inside(F)' = Inside(F) - In(x, F)
    BY <1>5, <2>1, WritebackMoves
  <2>3. /\ inPipe' = [inPipe EXCEPT ![x.w] = @ - 1] /\ nInst' = [nInst EXCEPT ![x.w] = @ - 1]
        /\ longop' = [longop EXCEPT ![x.w] = @ \ Range(P(x).out)] /\ exwb' = Tail(exwb)
    BY <1>5, <2>1 DEF ShaderWriteback
  <2>4. exwb' = <<>>
    BY <1>2, <1>5, <2>3
  <2>5. CountExact' /\ inPipe' \in [Warps -> Int]
    BY <1>1, <2>2, <2>3, CountLess
  <2>6. x.w \in Warps
    BY <2>2 DEF Running
  <2>7. nInst' \in [Warps -> Int] /\ longop' \in [Warps -> SUBSET Regs]
    BY <1>1, <2>3, <2>6
  <2>8. CountTypes'
    BY <1>1, <1>3, <2>4, <2>5, <2>7, CountTypesBy
  <2>9. QED
    BY <2>5, <2>8
<1>6. QED
  BY <1>4, <1>5

\* Execution moves instructions and counts none.
LEMMA AluCounts ==
  ASSUME PipeInv, CountTypes, CountExact, NEW k \in Alu, ExecuteAlu(k)
  PROVE  CountTypes' /\ CountExact'
<1>1. UNCHANGED <<setup, ibuf, stores, inPipe, nInst, reserved, longop>>
  BY DEF ExecuteAlu, warpVars, regVars
<1>2. CountExact'
  BY <1>1, AluMoves, CountSame
<1>3. \A i \in DOMAIN exwb' : KindOf(P(exwb'[i]).op) # "mem"
  <2>1. exwb \in Seq(Running) /\ \A i \in DOMAIN exwb : KindOf(P(exwb[i]).op) # "mem"
    BY DEF PipeInv, AluTypes, CountTypes
  <2>2. PICK y : y = unit[k].stage[0]
    OBVIOUS
  <2>3. y \in {None} \cup Running /\ (y # None => KindOf(P(y).op) # "mem")
    BY <2>2, AluKind DEF PipeInv
  <2>4. exwb' = IF y = None THEN exwb ELSE Append(exwb, y)
    BY <2>2 DEF ExecuteAlu
  <2>5. CASE y = None
    BY <2>1, <2>4, <2>5
  <2>6. CASE y # None
    <3>1. y \in Running /\ exwb' = Append(exwb, y)
      BY <2>3, <2>4, <2>6
    <3>2. /\ exwb' \in Seq(Running) /\ Len(exwb') = Len(exwb) + 1 /\ Len(exwb) \in Nat /\ exwb'[Len(exwb) + 1] = y
          /\ \A i \in 1..Len(exwb) : exwb'[i] = exwb[i]
      BY <2>1, <3>1, AppendOf
    <3>3. ASSUME NEW i \in DOMAIN exwb' PROVE KindOf(P(exwb'[i]).op) # "mem"
      <4>1. i \in 1..Len(exwb) \/ i = Len(exwb) + 1
        BY <3>2, <3>3
      <4>2. CASE i \in 1..Len(exwb)
        BY <2>1, <3>2, <4>2
      <4>3. CASE i = Len(exwb) + 1
        BY <2>3, <2>6, <3>2, <4>3
      <4>4. QED
        BY <4>1, <4>2, <4>3
    <3>4. QED
      BY <3>3
  <2>7. QED
    BY <2>5, <2>6
<1>4. CountTypes'
  BY <1>1, <1>3, CountTypesBy DEF CountTypes
<1>5. QED
  BY <1>2, <1>4

\* A step that only moves instructions.
LEMMA MovesCount ==
  ASSUME CountTypes, CountExact, UNCHANGED <<setup, ibuf, inPipe, nInst, reserved, longop, exwb>>,
         stores' \in [Warps -> Int], \A F \in SUBSET Running : Inside(F)' = Inside(F)
  PROVE  CountTypes' /\ CountExact'
<1>1. CountExact'
  BY CountSame
<1>2. CountTypes'
  BY CountTypesBy DEF CountTypes
<1>3. QED
  BY <1>1, <1>2

\* The stages of the operand collector and of the load/store unit that move an instruction on,
\* fetch, and memory's answers.
LEMMA StageCounts ==
  ASSUME PipeInv, LsuTypes, CountTypes, CountExact, StoresExact,
         CollectorStep \/ LsuResponse \/ LsuIssue \/ Fetch \/ Memory
  PROVE  CountTypes' /\ CountExact'
<1>1. setup \in Setups /\ AluTypes /\ FrontTypes /\ stores \in [Warps -> Int]
  BY DEF PipeInv, FrontTypes, CountTypes
<1>2. CASE CollectorStep
  <2>1. UNCHANGED <<setup, ibuf, inPipe, nInst, reserved, longop, exwb>> /\ stores' = stores
    BY <1>2 DEF CollectorStep, warpVars, regVars, aluVars
  <2>2. \A F \in SUBSET Running : Inside(F)' = Inside(F)
    BY <1>2, CollectorMoves
  <2>3. QED
    BY <1>1, <2>1, <2>2, MovesCount
<1>3. CASE LsuResponse
  <2>1. UNCHANGED <<setup, ibuf, inPipe, nInst, reserved, longop, exwb>>
    BY <1>3 DEF LsuResponse, warpVars, regVars, aluVars
  <2>2. \A F \in SUBSET Running : Inside(F)' = Inside(F)
    BY <1>3, ResponseMoves
  <2>3. stores' \in [Warps -> Int]
    BY <1>1, <1>3, ResponseStores
  <2>4. QED
    BY <2>1, <2>2, <2>3, MovesCount
<1>4. CASE LsuIssue
  <2>1. UNCHANGED <<setup, ibuf, inPipe, nInst, reserved, longop, exwb>> /\ stores' = stores
    BY <1>4 DEF LsuIssue, warpVars, regVars, aluVars
  <2>2. \A F \in SUBSET Running : Inside(F)' = Inside(F)
    BY <1>1, <1>4, LsuIssueMoves
  <2>3. QED
    BY <1>1, <2>1, <2>2, MovesCount
<1>5. CASE Fetch
  <2>1. UNCHANGED <<setup, ibuf, inPipe, nInst, reserved, longop, exwb>> /\ stores' = stores
        /\ UNCHANGED <<idoc, cu, ocex, unit, exwb, disp, shpipe>>
    BY <1>5 DEF Fetch, warpVars, regVars, aluVars, ocVars, lsuVars, wbVars
  <2>2. QED
    BY <1>1, <2>1, NothingMoves, MovesCount
<1>6. CASE Memory
  <2>1. UNCHANGED <<setup, ibuf, inPipe, nInst, reserved, longop, exwb>> /\ stores' = stores
        /\ UNCHANGED <<idoc, cu, ocex, unit, exwb, disp, shpipe>>
    BY <1>6 DEF Memory, AnswerLoad, AnswerStore, AnswerFetch, Arrives, warpVars, regVars, aluVars, ocVars, lsuVars, wbVars
  <2>2. QED
    BY <1>1, <2>1, NothingMoves, MovesCount
<1>7. QED
  BY <1>2, <1>3, <1>4, <1>5, <1>6

\* Shared loads leave the count at the writeback port.
LEMMA LsuWritebackCounts ==
  ASSUME PipeInv, LsuTypes, arb \in 0..4, CountTypes, CountExact, PwTypes, PendingSum, OwnedOnce, LsuWriteback
  PROVE  CountTypes' /\ CountExact'
<1>1. setup \in Setups /\ reserved' \in [Warps -> SUBSET Regs]
  <2>1. setup \in Setups
    BY DEF PipeInv, FrontTypes
  <2>2. QED
    BY <2>1, LsuWritebackOwned
<1>2. UNCHANGED <<setup, ibuf, nInst, longop, exwb, stores>>
  BY DEF LsuWriteback, warpVars, aluVars
<1>3. CountExact' /\ inPipe' \in [Warps -> Int]
  <2>1. CASE (\A F \in SUBSET Running : Inside(F)' = Inside(F)) /\ inPipe' = inPipe
    BY <1>2, <2>1, CountSame
  <2>2. CASE /\ nextWb' \in SharedLoads /\ inPipe' = [inPipe EXCEPT ![nextWb'.w] = @ - 1]
             /\ \A F \in SUBSET Running : Inside(F)' = Inside(F) - In(nextWb', F)
    <3>1. PICK x \in Running : x = nextWb'
      BY <1>1, <2>2, LoadsRun
    <3>2. inPipe' = [inPipe EXCEPT ![x.w] = @ - 1] /\ \A F \in SUBSET Running : Inside(F)' = Inside(F) - In(x, F)
      BY <2>2, <3>1
    <3>3. QED
      BY <1>2, <3>2, CountLess
  <2>3. QED
    BY <1>1, <2>1, <2>2, LsuWritebackLeaves
<1>4. CountTypes'
  BY <1>1, <1>2, <1>3, CountTypesBy DEF CountTypes
<1>5. QED
  BY <1>3, <1>4

\* The other memory instructions leave it with the dispatch register.
LEMMA DispatchCounts ==
  ASSUME PipeInv, LsuTypes, CountTypes, CountExact, StoresExact, LsuDispatch
  PROVE  CountTypes' /\ CountExact'
<1>1. setup \in Setups
  BY DEF PipeInv, FrontTypes
<1>2. UNCHANGED <<setup, ibuf, nInst, exwb>> /\ (Waits \/ Passes \/ Drops \/ Empties \/ Makes)
  BY DispatchCases DEF warpVars, aluVars
<1>3. CountExact' /\ inPipe' \in [Warps -> Int]
  <2>1. CASE (\A F \in SUBSET Running : Inside(F)' = Inside(F)) /\ inPipe' = inPipe
    BY <1>2, <2>1, CountSame
  <2>2. CASE /\ disp \in Running /\ inPipe' = [inPipe EXCEPT ![disp.w] = @ - 1]
             /\ \A F \in SUBSET Running : Inside(F)' = Inside(F) - In(disp, F)
    BY <1>2, <2>2, CountLess
  <2>3. QED
    BY <1>1, <2>1, <2>2, DispatchMoves
<1>4. reserved' \in [Warps -> SUBSET Regs] /\ longop' \in [Warps -> SUBSET Regs]
  <2>1. \/ reserved' = reserved /\ longop' = longop
        \/ \E over : Through(over)
    BY <1>2 DEF Waits, Passes, Drops, Empties, Makes, Stay, regVars
  <2>2. reserved \in [Warps -> SUBSET Regs] /\ longop \in [Warps -> SUBSET Regs]
    BY DEF CountTypes
  <2>3. ASSUME NEW over, Through(over)
        PROVE  reserved' \in [Warps -> SUBSET Regs] /\ longop' \in [Warps -> SUBSET Regs]
    <3>1. PICK w, O : w = disp.w /\ O = Range(P(disp).out)
      OBVIOUS
    <3>2. /\ reserved' = reserved \/ reserved' = [reserved EXCEPT ![w] = @ \ O]
          /\ longop' = longop \/ longop' = [longop EXCEPT ![w] = @ \ O]
      BY <2>3, <3>1 DEF Through
    <3>3. QED
      BY <2>2, <3>2
  <2>4. QED
    BY <2>1, <2>2, <2>3
<1>5. stores' \in [Warps -> Int]
  BY <1>1, DispatchStores
<1>6. CountTypes'
  BY <1>2, <1>3, <1>4, <1>5, CountTypesBy DEF CountTypes
<1>7. QED
  BY <1>3, <1>6

\* Decode moves CPL's count by nothing.
LEMMA DecodeCounts ==
  ASSUME PipeInv, BufferSound, CountTypes, CountExact, Decode
  PROVE  CountTypes' /\ CountExact'
<1>1. FrontTypes
  BY DEF PipeInv
<1>2. UNCHANGED <<setup, nInst, reserved, longop, exwb, stores>>
  BY DEF Decode, regVars, aluVars
<1>3. CountExact' /\ inPipe' \in [Warps -> Int]
  BY <1>1, DecodeCount
<1>4. CountTypes'
  BY <1>2, <1>3, CountTypesBy DEF CountTypes
<1>5. QED
  BY <1>3, <1>4

\* What CPL adds for an instruction: the distance that its warp comes nearer, and one.
LEMMA CplIssue ==
  ASSUME NEW n, NEW cur \in Int, NEW npc \in Int
  PROVE  tw_warp_issue(n, cur, tw_find_next_pc(cur, {npc})) = n + (cur - npc) + 1
<1>1. tw_find_next_pc(cur, {npc}) = npc
  <2>1. (CHOOSE x \in {npc} : \A y \in {npc} : x <= y) = npc
    OBVIOUS
  <2>2. npc < cur => {p \in {npc} : p > cur} = {}
    OBVIOUS
  <2>3. QED
    BY <2>1, <2>2 DEF tw_find_next_pc
<1>2. QED
  BY <1>1 DEF tw_warp_issue

\* A scheduler's turn keeps the types of the counters.
LEMMA ScheduleCounts ==
  ASSUME PipeInv, BufferSound, CountTypes, CountExact, OwnedOnce, Schedule
  PROVE  CountTypes' /\ CountExact'
<1>1. FrontTypes /\ AluTypes
  BY DEF PipeInv
<1>2. UNCHANGED <<setup, stores, exwb>> /\ FrontTypes /\ setup \in Setups
  BY <1>1, ScheduleCases DEF aluVars, FrontTypes
<1>3. CountExact' /\ inPipe' \in [Warps -> Int] /\ reserved' \in [Warps -> SUBSET Regs]
  BY <1>1, ScheduleCount, ScheduleOwned
<1>4. nInst \in [Warps -> Int] /\ longop \in [Warps -> SUBSET Regs] /\ stores \in [Warps -> Int]
  BY DEF CountTypes
<1>5. PICK F \in SUBSET Warps : /\ \A v \in F : Hazard(v)
                                /\ Flushes(F) \/ \E w \in Warps : \E npc : IssuesTo(w, npc, F)
  BY <1>1, ScheduleCases
<1>6. CASE Flushes(F)
  <2>1. nInst' = nInst /\ longop' = longop
    BY <1>6 DEF Flushes, regVars
  <2>2. QED
    BY <1>2, <1>3, <1>4, <2>1, CountTypesBy DEF CountTypes
<1>7. ASSUME NEW w \in Warps, NEW npc, IssuesTo(w, npc, F) PROVE CountTypes'
  <2>1. PICK i, cur : cur = top[w] /\ i = Program[cur]
    OBVIOUS
  <2>2. /\ nInst' = IF i.op = "exit" THEN nInst
                    ELSE [nInst EXCEPT ![w] = tw_warp_issue(@, next_pc[w], tw_find_next_pc(next_pc[w], {npc}))]
        /\ longop' = IF i.op = "load" /\ i.space # "shared" THEN [longop EXCEPT ![w] = @ \cup Range(i.out)]
                     ELSE longop
    BY <1>7, <2>1 DEF IssuesTo, IssueWarp
  <2>3. cur \in DOMAIN Program /\ cur \in Int /\ npc \in Int /\ next_pc[w] \in Int /\ Range(i.out) \subseteq Regs
    <3>1. cur \in DOMAIN Program
      BY <1>1, <1>7, <2>1, IssueLeaves
    <3>2. Program[cur].op = "bra" => Program[cur].target \in DOMAIN Program
      BY <1>2, <3>1, ProgramFacts
    <3>3. DOMAIN Program \subseteq Int
      BY <1>2, SetupFacts
    <3>4. npc = cur + 1 \/ npc \in DOMAIN Program
      BY <1>7, <2>1, <3>2 DEF IssuesTo
    <3>5. next_pc[w] \in Int
      BY <1>1 DEF FrontTypes
    <3>6. Range(i.out) \subseteq Regs
      BY <1>2, <2>1, <3>1, ProgramFacts
    <3>7. QED
      BY <3>1, <3>3, <3>4, <3>5, <3>6
  <2>4. PICK n : n = tw_warp_issue(nInst[w], next_pc[w], tw_find_next_pc(next_pc[w], {npc}))
    OBVIOUS
  <2>5. n \in Int
    <3>1. n = nInst[w] + (next_pc[w] - npc) + 1
      BY <2>3, <2>4, CplIssue
    <3>2. QED
      BY <1>4, <2>3, <3>1
  <2>6. nInst' = nInst \/ nInst' = [nInst EXCEPT ![w] = n]
    BY <2>2, <2>4
  <2>7. nInst' \in [Warps -> Int]
    BY <1>4, <2>5, <2>6
  <2>8. longop' \in [Warps -> SUBSET Regs]
    BY <1>4, <2>2, <2>3
  <2>9. QED
    BY <1>2, <1>3, <1>4, <2>7, <2>8, CountTypesBy DEF CountTypes
<1>8. QED
  BY <1>3, <1>5, <1>6, <1>7

\* A turn is a number.
LEMMA TurnNumber == ASSUME FrontTypes PROVE turn \in Nat
<1>1. turn \in 0..(NumScheds - 1) /\ NumScheds \in 1..NumWarps /\ NumWarps \in Nat
  BY SetupFacts, CoreConstants DEF FrontTypes, Scheds
<1>2. QED
  BY <1>1

\* The stages that touch none of what the remaining types speak of but the phase.
LEMMA QuietOther ==
  ASSUME OtherTypes, FrontTypes,
         ExecuteAlu("sp") \/ ExecuteAlu("sfu") \/ LsuDispatch \/ LsuIssue \/ Decode \/ Fetch
  PROVE  OtherTypes'
<1>1. turn \in Nat
  BY TurnNumber
<1>2. UNCHANGED <<setup, turn, trips, written, pri, arb, respq>>
  <2>1. CASE ExecuteAlu("sp") \/ ExecuteAlu("sfu")
    BY <2>1 DEF ExecuteAlu, warpVars, wbVars
  <2>2. CASE LsuDispatch
    BY <2>2 DEF LsuDispatch, warpVars, ocVars
  <2>3. CASE LsuIssue
    BY <2>3 DEF LsuIssue, warpVars, wbVars
  <2>4. CASE Decode
    BY <2>4 DEF Decode, ocVars, wbVars
  <2>5. CASE Fetch
    BY <2>5 DEF Fetch, warpVars, ocVars, wbVars
  <2>6. QED
    BY <2>1, <2>2, <2>3, <2>4, <2>5
<1>3. phase # "issue" /\ phase' \in {"sfu", "lsu", "oc_ex", "issue", "fetch", "writeback"}
  BY DEF ExecuteAlu, LsuDispatch, LsuIssue, Decode, Fetch
<1>4. QED
  BY <1>1, <1>2, <1>3, OtherTypesBy DEF OtherTypes

\* The stages of the operand collector and of the load/store unit.
LEMMA CollectorOther ==
  ASSUME OtherTypes, PipeInv, LsuTypes, ShaderWriteback \/ LsuWriteback \/ CollectorStep \/ LsuResponse
  PROVE  OtherTypes'
<1>1. turn \in Nat /\ setup \in Setups
  BY TurnNumber DEF PipeInv, FrontTypes
<1>2. CASE ShaderWriteback
  <2>1. UNCHANGED <<setup, turn, trips, pri, arb, respq>> /\ phase = "writeback" /\ phase' = "sp"
    BY <1>2 DEF ShaderWriteback, ocVars, wbVars
  <2>2. written' \subseteq Banks
    <3>1. exwb \in Seq(Running) /\ written \in SUBSET Banks
      BY DEF PipeInv, AluTypes, OtherTypes
    <3>2. CASE exwb = <<>>
      BY <1>2, <3>1, <3>2 DEF ShaderWriteback
    <3>3. CASE exwb # <<>>
      <4>1. exwb[1] \in Running
        BY <3>1, <3>3, TailOf
      <4>2. written' = Writeback(exwb[1], written).banks
        BY <1>2, <3>3 DEF ShaderWriteback
      <4>3. QED
        BY <1>1, <3>1, <4>1, <4>2, WrittenBanks
    <3>4. QED
      BY <3>2, <3>3
  <2>3. QED
    BY <1>1, <2>1, <2>2, OtherTypesBy DEF OtherTypes
<1>3. CASE LsuWriteback
  <2>1. arb \in 0..4 /\ written \in SUBSET Banks
    BY DEF OtherTypes
  <2>2. /\ arb' \in 0..4 /\ UNCHANGED <<setup, turn, trips, pri, respq>>
        /\ written' = written \/ (nextWb # None /\ written' = Writeback(nextWb, written).banks)
    BY <1>3, <2>1, WritebackCases DEF warpVars, ocVars
  <2>3. phase = "lsu" /\ phase' = "collect"
    BY <1>3 DEF LsuWriteback
  <2>4. written' \subseteq Banks
    <3>1. nextWb # None => nextWb \in Running
      BY <1>1, LoadsRun DEF LsuTypes
    <3>2. QED
      BY <1>1, <2>1, <2>2, <3>1, WrittenBanks
  <2>5. QED
    BY <1>1, <2>2, <2>3, <2>4, OtherTypesBy DEF OtherTypes
<1>4. CASE CollectorStep
  <2>1. /\ UNCHANGED <<setup, turn, trips, arb, respq>> /\ phase = "collect" /\ phase' = "response"
        /\ pri' = (pri + 1) % Square /\ written' = {}
    BY <1>4 DEF CollectorStep, warpVars, wbVars
  <2>2. pri' \in 0..(Square - 1)
    <3>1. PICK s \in Nat \ {0} : s = Square
      BY CoreConstants DEF Square
    <3>2. PICK p \in Nat : p = pri
      BY <3>1 DEF OtherTypes
    <3>3. (p + 1) % s \in 0..(s - 1)
      BY <3>1, <3>2
    <3>4. QED
      BY <2>1, <3>1, <3>2, <3>3
  <2>3. QED
    BY <1>1, <2>1, <2>2, OtherTypesBy DEF OtherTypes
<1>5. CASE LsuResponse
  <2>1. UNCHANGED <<setup, turn, trips, pri, arb, written>>
    BY <1>5 DEF LsuResponse, warpVars, ocVars
  <2>2. phase = "response" /\ phase' = "dispatch"
    BY <1>5 DEF LsuResponse
  <2>3. respq' = respq \/ (respq # <<>> /\ respq' = Tail(respq))
    <3>1. Received(respq[1], [w |-> respq[1].w, pc |-> respq[1].pc])
      BY <1>1, <1>5, ResponseCases
    <3>2. QED
      BY <3>1 DEF Received
  <2>4. Len(respq') <= Responses
    <3>1. PICK S : respq \in Seq(S)
      BY DEF LsuTypes
    <3>2. PICK r \in Nat : r = Responses
      BY CoreConstants
    <3>3. Len(respq) <= Responses
      BY DEF OtherTypes
    <3>4. respq # <<>> => Len(Tail(respq)) = Len(respq) - 1 /\ Len(respq) \in Nat
      BY <3>1, TailOf
    <3>5. QED
      BY <2>3, <3>2, <3>3, <3>4
  <2>5. QED
    BY <1>1, <2>1, <2>2, <2>4, OtherTypesBy DEF OtherTypes
<1>6. QED
  BY <1>2, <1>3, <1>4, <1>5

\* Memory's answers fit the response queue.
LEMMA AnswerOther ==
  ASSUME OtherTypes, PipeInv, LsuTypes, Memory
  PROVE  OtherTypes'
<1>1. turn \in Nat
  BY TurnNumber DEF PipeInv
<1>2. UNCHANGED <<setup, turn, phase, trips, pri, arb, written>>
  BY DEF Memory, AnswerLoad, AnswerStore, AnswerFetch, Arrives, warpVars, ocVars, wbVars
<1>3. respq' = respq \/ \E x : Len(respq) < Responses /\ respq' = Append(respq, x)
  BY DEF Memory, AnswerLoad, AnswerStore, AnswerFetch, Arrives, wbVars
<1>4. Len(respq') <= Responses
  <2>1. PICK S : respq \in Seq(S)
    BY DEF LsuTypes
  <2>2. Len(respq) \in Nat /\ Len(respq) <= Responses /\ Responses \in Nat
    BY <2>1, CoreConstants DEF OtherTypes
  <2>3. ASSUME NEW x, Len(respq) < Responses, respq' = Append(respq, x) PROVE Len(respq') <= Responses
    <3>1. respq \in Seq(S \cup {x}) /\ x \in S \cup {x}
      BY <2>1
    <3>2. Len(Append(respq, x)) = Len(respq) + 1
      BY <3>1, AppendOf
    <3>3. QED
      BY <2>2, <2>3, <3>2
  <2>4. QED
    BY <1>3, <2>2, <2>3
<1>5. QED
  BY <1>1, <1>2, <1>4, OtherTypesBy DEF OtherTypes

\* A branch that is taken is within the bound.
LEMMA ScheduleOther ==
  ASSUME OtherTypes, PipeInv, Schedule
  PROVE  OtherTypes'
<1>1. turn \in Nat /\ FrontTypes
  BY TurnNumber DEF PipeInv
<1>2. UNCHANGED <<setup, pri, arb, written, respq>>
  BY <1>1, ScheduleCases DEF ocVars, wbVars
<1>3. (turn' = 0 /\ phase' = "decode") \/ (phase = "issue" /\ phase' = phase)
  BY <1>1, ScheduleCases
<1>4. phase = "issue"
  BY DEF Schedule
<1>5. trips' \in [Warps -> 0..MaxTrips]
  <2>1. PICK F \in SUBSET Warps : Flushes(F) \/ \E w \in Warps : \E npc : IssuesTo(w, npc, F)
    BY <1>1, ScheduleCases
  <2>2. trips \in [Warps -> 0..MaxTrips] /\ MaxTrips \in Nat
    BY CoreConstants DEF OtherTypes
  <2>3. CASE Flushes(F)
    BY <2>2, <2>3 DEF Flushes
  <2>4. ASSUME NEW w \in Warps, NEW npc, IssuesTo(w, npc, F) PROVE trips' \in [Warps -> 0..MaxTrips]
    <3>1. trips' = IF npc = top[w] + 1 THEN trips ELSE [trips EXCEPT ![w] = @ + 1]
      BY <2>4 DEF IssuesTo, IssueWarp
    <3>2. npc = top[w] + 1 \/ trips[w] < MaxTrips
      BY <2>4 DEF IssuesTo
    <3>3. QED
      BY <2>2, <3>1, <3>2
  <2>5. QED
    BY <2>1, <2>3, <2>4
<1>6. QED
  BY <1>1, <1>2, <1>3, <1>4, <1>5, OtherTypesBy DEF OtherTypes

-----------------------------------------------------------------------------
(* Reclaiming a warp.                                                      *)

\* Of a warp that is reclaimed.
Idle(w) == done[w] /\ inPipe[w] = 0 /\ reserved[w] = {} /\ stores[w] = 0

\* Nothing of it is in the core, nor a store of it in memory.
LEMMA NothingLeft ==
  ASSUME CountInv, NEW w \in Warps, Idle(w)
  PROVE  /\ Buffered(w) = {} /\ Inside(OfWarp(w)) = 0
         /\ acks[w] = 0 /\ From(respq, w, StorePcs) = 0
         /\ disp # None => disp.w # w
         /\ shpipe[0] # None => shpipe[0].w # w
         /\ exwb # <<>> => exwb[1].w # w
<1>1. Buffered(w) = {}
  BY DEF CountInv, BufferSound, Idle
<1>2. setup \in Setups /\ LsuTypes /\ exwb \in Seq(Running)
  BY DEF CountInv, PipeInv, FrontTypes, AluTypes
<1>3. PICK F : F = OfWarp(w)
  OBVIOUS
<1>4. inPipe[w] = 0 /\ inPipe[w] = Cardinality(Buffered(w)) + Inside(F)
  BY <1>3 DEF CountInv, CountExact, Idle
<1>5. Cardinality(Buffered(w)) = 0
  BY <1>1, FS_EmptySet
<1>6. Inside(F) = 0
  BY <1>4, <1>5, InsideNat
<1>7. \A x \in Running : x.w = w => x \in F
  BY <1>3 DEF OfWarp
<1>8. disp # None => disp.w # w
  <2>1. disp # None => disp \in Running
    BY <1>2, InDisp
  <2>2. disp \in F => Inside(F) >= 1
    BY InsideHas
  <2>3. QED
    BY <1>6, <1>7, <2>1, <2>2
<1>9. shpipe[0] # None => shpipe[0].w # w
  <2>1. shpipe[0] # None => shpipe[0] \in Running
    <3>1. shpipe[0] \in SharedLoads \cup {None}
      BY <1>2 DEF LsuTypes
    <3>2. QED
      BY <1>2, <3>1, LoadsRun
  <2>2. \A k \in 0..2 : shpipe[k] \in F => Inside(F) >= 1
    BY InsideHas
  <2>3. shpipe[0] \in F => Inside(F) >= 1
    BY <2>2
  <2>4. QED
    BY <1>6, <1>7, <2>1, <2>3
<1>10. exwb # <<>> => exwb[1].w # w
  <2>1. exwb # <<>> => exwb[1] \in Running
    BY <1>2, TailOf
  <2>2. exwb # <<>> /\ exwb[1] \in F => Inside(F) >= 1
    BY InsideHas
  <2>3. QED
    BY <1>6, <1>7, <2>1, <2>2
<1>11. acks[w] = 0 /\ From(respq, w, StorePcs) = 0
  <2>1. stores[w] = 0 /\ stores[w] = acks[w] + From(respq, w, StorePcs)
    BY DEF CountInv, StoresExact, Idle
  <2>2. acks[w] \in Nat
    BY <1>2 DEF LsuTypes
  <2>3. From(respq, w, StorePcs) \in Nat
    <3>1. PICK S : respq \in Seq(S)
      BY <1>2 DEF LsuTypes
    <3>2. QED
      BY <3>1, FromFinite
  <2>4. QED
    BY <2>1, <2>2, <2>3
<1>12. QED
  BY <1>1, <1>3, <1>6, <1>8, <1>9, <1>10, <1>11

\* It stays so in the load/store unit and at the writeback ports.
LEMMA IdleInLsu ==
  ASSUME CountInv, NEW w \in Warps, Idle(w), ShaderWriteback \/ LsuWriteback \/ LsuResponse \/ LsuDispatch
  PROVE  Idle(w)'
<1>1. /\ setup \in Setups /\ LsuTypes /\ arb \in 0..4 /\ exwb \in Seq(Running) /\ CountTypes
      /\ inPipe \in [Warps -> Int] /\ stores \in [Warps -> Int]
      /\ reserved \in [Warps -> SUBSET Regs]
  BY DEF CountInv, PipeInv, FrontTypes, AluTypes, OtherTypes, CountTypes
<1>2. done[w] /\ inPipe[w] = 0 /\ reserved[w] = {} /\ stores[w] = 0
  BY DEF Idle
<1>3. /\ disp # None => disp.w # w
      /\ shpipe[0] # None => shpipe[0].w # w
      /\ exwb # <<>> => exwb[1].w # w
  BY NothingLeft
<1>4. CASE ShaderWriteback
  <2>1. done' = done /\ stores' = stores
    BY <1>4 DEF ShaderWriteback
  <2>2. CASE exwb = <<>>
    BY <1>2, <1>4, <2>1, <2>2 DEF ShaderWriteback, regVars, Idle
  <2>3. CASE exwb # <<>>
    <3>1. PICK v, O : v = exwb[1].w /\ O = Range(P(exwb[1]).out)
      OBVIOUS
    <3>2. inPipe' = [inPipe EXCEPT ![v] = @ - 1] /\ reserved' = [reserved EXCEPT ![v] = @ \ O] /\ v # w
      BY <1>3, <1>4, <2>3, <3>1 DEF ShaderWriteback
    <3>3. inPipe'[w] = inPipe[w] /\ reserved'[w] = reserved[w]
      BY <1>1, <3>2
    <3>4. QED
      BY <1>2, <2>1, <3>3 DEF Idle
  <2>4. QED
    BY <2>2, <2>3
<1>5. CASE LsuWriteback
  <2>1. done' = done /\ stores' = stores
    BY <1>5 DEF LsuWriteback, warpVars
  <2>2. inPipe'[w] = 0
    <3>1. inPipe' = inPipe \/ (shpipe[0] # None /\ inPipe' = [inPipe EXCEPT ![shpipe[0].w] = @ - 1])
      BY <1>1, <1>5, WritebackCases DEF Taken
    <3>2. CASE inPipe' = inPipe
      BY <1>2, <3>2
    <3>3. CASE shpipe[0] # None /\ inPipe' = [inPipe EXCEPT ![shpipe[0].w] = @ - 1]
      <4>1. PICK v : v = shpipe[0].w
        OBVIOUS
      <4>2. v # w /\ inPipe' = [inPipe EXCEPT ![v] = @ - 1]
        BY <1>3, <3>3, <4>1
      <4>3. QED
        BY <1>1, <1>2, <4>2
    <3>4. QED
      BY <3>1, <3>2, <3>3
  <2>3. reserved'[w] = {}
    <3>1. reserved' = IF Goes THEN [reserved EXCEPT ![nextWb.w] = @ \ Freed(nextWb, pw[nextWb.w])] ELSE reserved
      BY <1>1, <1>5, WritebackCases
    <3>2. PICK v, O : v = nextWb.w /\ O = Freed(nextWb, pw[nextWb.w])
      OBVIOUS
    <3>3. reserved' = reserved \/ reserved' = [reserved EXCEPT ![v] = @ \ O]
      BY <3>1, <3>2
    <3>4. QED
      BY <1>1, <1>2, <3>3
  <2>4. QED
    BY <1>2, <2>1, <2>2, <2>3 DEF Idle
<1>6. CASE LsuResponse
  <2>1. UNCHANGED <<done, inPipe, reserved>>
    BY <1>6 DEF LsuResponse, warpVars, regVars
  <2>2. \/ stores' = stores
        \/ respq # <<>> /\ respq[1].pc \in StorePcs /\ stores' = [stores EXCEPT ![respq[1].w] = @ - 1]
    BY <1>1, <1>6, ResponseCases DEF Received
  <2>3. CASE respq # <<>> /\ respq[1].pc \in StorePcs /\ stores' = [stores EXCEPT ![respq[1].w] = @ - 1]
    <3>1. PICK S : respq \in Seq(S)
      BY <1>1 DEF LsuTypes
    <3>2. PICK v, t, x : v = respq[1].w /\ t = Tail(respq) /\ x = respq[1]
      OBVIOUS
    <3>3. t \in Seq(S)
      BY <2>3, <3>1, <3>2, TailOf
    <3>4. From(t, w, StorePcs) \in Nat
      BY <3>3, FromFinite
    <3>5. From(t, w, StorePcs) = From(respq, w, StorePcs) - At(x, w, StorePcs)
      BY <2>3, <3>1, <3>2, FromTail
    <3>6. At(x, w, StorePcs) = (IF x.w = w /\ x.pc \in StorePcs THEN 1 ELSE 0) /\ From(respq, w, StorePcs) = 0
      BY AtValue, NothingLeft
    <3>7. x.w # w
      BY <2>3, <3>2, <3>4, <3>5, <3>6
    <3>8. stores' = [stores EXCEPT ![v] = @ - 1] /\ v # w
      BY <2>3, <3>2, <3>7
    <3>9. stores'[w] = stores[w]
      BY <1>1, <3>8
    <3>10. QED
      BY <1>2, <2>1, <3>9 DEF Idle
  <2>4. QED
    BY <1>2, <2>1, <2>2, <2>3 DEF Idle
<1>7. CASE LsuDispatch
  <2>1. done' = done /\ (Waits \/ Passes \/ Drops \/ Empties \/ Makes)
    BY <1>1, <1>7, DispatchCases DEF warpVars
  <2>2. PICK v, O : v = disp.w /\ O = Range(P(disp).out)
    OBVIOUS
  <2>3. /\ inPipe' = inPipe \/ (v # w /\ inPipe' = [inPipe EXCEPT ![v] = @ - 1])
        /\ reserved' = reserved \/ reserved' = [reserved EXCEPT ![v] = @ \ O]
    BY <1>3, <2>1, <2>2 DEF Waits, Passes, Drops, Empties, Makes, Stay, Through, regVars
  <2>4. stores' = stores \/ (v # w /\ stores' = [stores EXCEPT ![v] = @ + 1])
    BY <1>3, <2>1, <2>2 DEF Waits, Passes, Drops, Empties, Makes, Hit, Sent
  <2>5. inPipe'[w] = inPipe[w] /\ stores'[w] = stores[w]
    BY <1>1, <2>3, <2>4
  <2>6. reserved'[w] = {}
    BY <1>1, <1>2, <2>3
  <2>7. QED
    BY <1>2, <2>1, <2>5, <2>6 DEF Idle
<1>8. QED
  BY <1>4, <1>5, <1>6, <1>7

\* And in the front end, where only warps that are not done act.
LEMMA IdleInFront ==
  ASSUME CountInv, NEW w \in Warps, Idle(w), Schedule \/ Decode
  PROVE  Idle(w)'
<1>1. FrontTypes /\ inPipe \in [Warps -> Int] /\ stores \in [Warps -> Int] /\ reserved \in [Warps -> SUBSET Regs]
  BY DEF CountInv, PipeInv, CountTypes
<1>2. done[w] /\ inPipe[w] = 0 /\ reserved[w] = {} /\ stores[w] = 0
  BY DEF Idle
<1>3. CASE Schedule
  <2>1. PICK F \in SUBSET Warps : /\ \A v \in F : Hazard(v)
                                  /\ Flushes(F) \/ \E v \in Warps : \E npc : IssuesTo(v, npc, F)
    BY <1>1, <1>3, ScheduleCases
  <2>2. w \notin F
    BY <1>2, <2>1 DEF Hazard, Tried, Waiting
  <2>3. stores' = stores
    BY <1>1, <1>3, ScheduleCases
  <2>4. CASE Flushes(F)
    <3>1. done' = done /\ reserved' = reserved /\ inPipe'[w] = inPipe[w]
      BY <2>2, <2>4 DEF Flushes, regVars
    <3>2. QED
      BY <1>2, <2>3, <3>1 DEF Idle
  <2>5. ASSUME NEW v \in Warps, NEW npc, IssuesTo(v, npc, F) PROVE Idle(w)'
    <3>1. ~done[v]
      BY <1>1, <2>5, IssueLeaves
    <3>2. v # w
      BY <1>2, <3>1
    <3>3. done' = [done EXCEPT ![v] = Program[top[v]].op = "exit"]
          /\ reserved' = [reserved EXCEPT ![v] = @ \cup Range(Program[top[v]].out)]
          /\ inPipe' = [u \in Warps |-> inPipe[u] - Dropped(u, v, Program[top[v]].op, F)]
      BY <2>5 DEF IssuesTo, IssueWarp
    <3>4. Dropped(w, v, Program[top[v]].op, F) = 0
      BY <2>2, <3>2 DEF Dropped
    <3>5. inPipe'[w] = 0
      BY <1>2, <3>3, <3>4
    <3>6. done'[w] = done[w] /\ reserved'[w] = reserved[w]
      BY <1>1, <3>2, <3>3 DEF FrontTypes
    <3>7. QED
      BY <1>2, <2>3, <3>5, <3>6 DEF Idle
  <2>6. QED
    BY <2>1, <2>4, <2>5
<1>4. CASE Decode
  <2>1. UNCHANGED <<done, reserved, stores>>
    BY <1>4 DEF Decode, regVars
  <2>2. inPipe'[w] = inPipe[w]
    <3>1. CASE fbuf = None
      BY <1>4, <3>1 DEF Decode
    <3>2. CASE fbuf # None
      <4>1. fbuf.w # w
        BY <1>2, <3>2 DEF CountInv, BufferSound
      <4>2. PICK v, n : v = fbuf.w /\ n = IF fbuf.pc < Len(Program) THEN 2 ELSE 1
        OBVIOUS
      <4>3. inPipe' = [inPipe EXCEPT ![v] = @ + n] /\ v # w
        BY <1>4, <3>2, <4>1, <4>2 DEF Decode
      <4>4. QED
        BY <1>1, <4>3
    <3>3. QED
      BY <3>1, <3>2
  <2>3. QED
    BY <1>2, <2>1, <2>2 DEF Idle
<1>5. QED
  BY <1>3, <1>4

\* A warp is reclaimed when it is idle, and stays idle.
LEMMA ReclaimedStep ==
  ASSUME CountInv, [Next]_vars
  PROVE  Reclaimed'
<1>1. \A w \in Warps : exited[w] => Idle(w)
  BY DEF CountInv, Reclaimed, Idle
<1>2. FrontTypes
  BY DEF CountInv, PipeInv
<1>3. ASSUME NEW w \in Warps, exited'[w] PROVE Idle(w)'
  <2>1. CASE Fetch
    <3>1. exited[w] \/ Reclaimable(w)
      BY <1>2, <1>3, <2>1, FetchCases
    <3>2. Idle(w)
      BY <1>1, <3>1 DEF Reclaimable, HardwareDone, PendingWrites, Idle
    <3>3. UNCHANGED <<done, inPipe, reserved, stores>>
      BY <2>1 DEF Fetch, warpVars, regVars
    <3>4. QED
      BY <3>2, <3>3 DEF Idle
  <2>2. CASE ShaderWriteback \/ LsuWriteback \/ LsuResponse \/ LsuDispatch
    <3>1. exited' = exited
      BY <2>2 DEF ShaderWriteback, LsuWriteback, LsuResponse, LsuDispatch, fetchVars
    <3>2. QED
      BY <1>1, <1>3, <2>2, <3>1, IdleInLsu
  <2>3. CASE Schedule \/ Decode
    <3>1. exited' = exited
      BY <2>3 DEF Schedule, Decode, fetchVars
    <3>2. QED
      BY <1>1, <1>3, <2>3, <3>1, IdleInFront
  <2>4. CASE ExecuteAlu("sp") \/ ExecuteAlu("sfu") \/ CollectorStep \/ LsuIssue \/ Memory \/ UNCHANGED vars
    <3>1. UNCHANGED <<exited, done, inPipe, reserved, stores>>
      <4>1. CASE ExecuteAlu("sp") \/ ExecuteAlu("sfu")
        BY <4>1 DEF ExecuteAlu, fetchVars, warpVars, regVars
      <4>2. CASE CollectorStep
        BY <4>2 DEF CollectorStep, fetchVars, warpVars, regVars
      <4>3. CASE LsuIssue
        BY <4>3 DEF LsuIssue, fetchVars, warpVars, regVars
      <4>4. CASE Memory
        BY <4>4 DEF Memory, AnswerLoad, AnswerStore, AnswerFetch, Arrives, fetchVars, warpVars, regVars
      <4>5. CASE UNCHANGED vars
        BY <4>5 DEF vars, fetchVars, warpVars, regVars
      <4>6. QED
        BY <2>4, <4>1, <4>2, <4>3, <4>4, <4>5
    <3>2. QED
      BY <1>1, <1>3, <3>1 DEF Idle
  <2>5. QED
    BY <2>1, <2>2, <2>3, <2>4 DEF Next, Cycle
<1>4. QED
  BY <1>3 DEF Reclaimed, Idle

-----------------------------------------------------------------------------
(* Every step keeps the inductive invariant.                               *)

\* The accesses, and the counters that follow them.
AccessInv == LsuTypes /\ PwTypes /\ PendingSum /\ OneLoad /\ FreshAccess /\ StoresExact

\* Accesses are only moved: those coming stay as many.
LEMMA MovedAccesses ==
  ASSUME AccessInv, setup' = setup, pw' = pw, LsuTypes', StoresExact', loads' \subseteq loads,
         disp' = disp, left' = left,
         \A w \in Warps : \A pcs \in SUBSET Loads : Coming(w, pcs)' = Coming(w, pcs)
  PROVE  AccessInv'
<1>1. LsuTypes /\ PwTypes /\ PendingSum /\ OneLoad /\ FreshAccess /\ left \in Nat
  BY DEF AccessInv, LsuTypes
<1>2. PendingSum' /\ PwTypes'
  BY <1>1, SamePending
<1>3. OneLoad'
  <2>1. PICK x : x = None
    OBVIOUS
  <2>2. \A w \in Warps : \A pcs \in SUBSET Loads :
          Coming(w, pcs)' = Coming(w, pcs) \/ Coming(w, pcs)' = Coming(w, pcs) - At(x, w, pcs)
    OBVIOUS
  <2>3. \A w \in Warps : \A pcs, one \in SUBSET Loads :
            (Coming(w, pcs)' = Coming(w, pcs) /\ Coming(w, one)' = Coming(w, one))
            \/ (Coming(w, pcs)' = Coming(w, pcs) - At(x, w, pcs) /\ Coming(w, one)' = Coming(w, one) - At(x, w, one))
    OBVIOUS
  <2>4. QED
    BY <1>1, <2>2, <2>3, OneLoadLess
<1>4. FreshAccess'
  <2>1. left' \in Nat /\ left' <= left
    BY <1>1
  <2>2. QED
    BY <1>1, <2>1, FreshKept
<1>5. QED
  BY <1>2, <1>3, <1>4 DEF AccessInv

\* A step of the load/store unit keeps them.
LEMMA LsuAccesses ==
  ASSUME CountInv, LsuWriteback \/ LsuResponse \/ LsuDispatch \/ LsuIssue
  PROVE  AccessInv'
<1>1. /\ setup \in Setups /\ AluTypes /\ AccessInv /\ arb \in 0..4 /\ CountTypes /\ OwnedOnce
      /\ LsuTypes /\ PwTypes /\ PendingSum /\ OneLoad /\ FreshAccess /\ StoresExact
  BY DEF CountInv, PipeInv, FrontTypes, AccessInv, OtherTypes
<1>2. CASE LsuWriteback
  <2>1. UNCHANGED <<setup, stores, acks, respq, disp, left, loads>>
    BY <1>2 DEF LsuWriteback, memVars
  <2>2. LsuTypes' /\ PendingSum' /\ PwTypes' /\ OneLoad'
    BY <1>1, <1>2, WritebackLsu, WritebackPending, WritebackOneLoad
  <2>3. FreshAccess' /\ StoresExact'
    <3>1. left' \in Nat /\ left' <= left /\ loads' \subseteq loads /\ disp' = disp
      BY <1>1, <2>1 DEF LsuTypes
    <3>2. QED
      BY <1>1, <2>1, <3>1, FreshKept, SameStores
  <2>4. QED
    BY <2>2, <2>3 DEF AccessInv
<1>3. CASE LsuResponse
  <2>1. UNCHANGED <<setup, pw, disp, left, loads>>
    BY <1>3 DEF LsuResponse, lsuVars, memVars
  <2>2. LsuTypes' /\ StoresExact'
    BY <1>1, <1>3, ResponseLsu, ResponseStores
  <2>3. \A w \in Warps : \A pcs \in SUBSET Loads : Coming(w, pcs)' = Coming(w, pcs)
    BY <1>1, <1>3, ResponseComing
  <2>4. QED
    BY <1>1, <2>1, <2>2, <2>3, MovedAccesses
<1>4. CASE LsuDispatch
  BY <1>1, <1>4, DispatchLsu, DispatchPending, DispatchOneLoad, DispatchFresh, DispatchStores DEF AccessInv
<1>5. CASE LsuIssue
  <2>1. UNCHANGED <<setup, stores, acks, respq>>
    BY <1>5 DEF LsuIssue, memVars, wbVars
  <2>2. QED
    BY <1>1, <1>5, <2>1, LsuIssueLsu, LsuIssuePending, LsuIssueOneLoad, LsuIssueFresh, SameStores DEF AccessInv
<1>6. QED
  BY <1>2, <1>3, <1>4, <1>5

\* And every other step.
LEMMA StepAccesses ==
  ASSUME CountInv, [Next]_vars
  PROVE  AccessInv'
<1>1. /\ setup \in Setups /\ AccessInv
      /\ LsuTypes /\ PwTypes /\ PendingSum /\ OneLoad /\ FreshAccess /\ StoresExact
  BY DEF CountInv, PipeInv, FrontTypes, AccessInv
<1>2. CASE LsuWriteback \/ LsuResponse \/ LsuDispatch \/ LsuIssue
  BY <1>2, LsuAccesses
<1>3. CASE Memory
  <2>1. UNCHANGED <<setup, pw, disp, left>> /\ loads' \subseteq loads
    BY <1>3 DEF Memory, AnswerLoad, AnswerStore, AnswerFetch, Arrives, lsuVars, memVars
  <2>2. LsuTypes' /\ StoresExact'
    BY <1>1, <1>3, AnswerLsu, AnswerStores
  <2>3. \A w \in Warps : \A pcs \in SUBSET Loads : Coming(w, pcs)' = Coming(w, pcs)
    BY <1>1, <1>3, AnswerComing
  <2>4. QED
    BY <1>1, <2>1, <2>2, <2>3, MovedAccesses
<1>4. CASE ShaderWriteback \/ ExecuteAlu("sp") \/ ExecuteAlu("sfu") \/ CollectorStep \/ Schedule \/ Decode \/ Fetch
           \/ UNCHANGED vars
  <2>1. UNCHANGED lsuTypeVars /\ pw' = pw /\ stores' = stores
    <3>1. CASE ShaderWriteback
      BY <3>1 DEF ShaderWriteback, lsuTypeVars, lsuVars, wbVars, memVars
    <3>2. CASE ExecuteAlu("sp") \/ ExecuteAlu("sfu")
      BY <3>2 DEF ExecuteAlu, lsuTypeVars, lsuVars, wbVars, memVars
    <3>3. CASE CollectorStep
      BY <3>3 DEF CollectorStep, lsuTypeVars, lsuVars, wbVars, memVars
    <3>4. CASE Schedule
      BY <3>4 DEF Schedule, lsuTypeVars, lsuVars, wbVars, memVars
    <3>5. CASE Decode
      BY <3>5 DEF Decode, lsuTypeVars, lsuVars, wbVars, memVars
    <3>6. CASE Fetch
      BY <3>6 DEF Fetch, lsuTypeVars, lsuVars, wbVars, memVars
    <3>7. CASE UNCHANGED vars
      BY <3>7 DEF vars, lsuTypeVars, lsuVars, wbVars, memVars
    <3>8. QED
      BY <1>4, <3>1, <3>2, <3>3, <3>4, <3>5, <3>6, <3>7
  <2>2. QED
    BY <1>1, <2>1, SameAccesses DEF AccessInv
<1>5. QED
  BY <1>2, <1>3, <1>4 DEF Next, Cycle

\* The instruction buffers.
LEMMA StepBuffers ==
  ASSUME CountInv, [Next]_vars
  PROVE  BufferSound'
<1>1. FrontTypes /\ BufferSound
  BY DEF CountInv, PipeInv
<1>2. CASE Schedule
  BY <1>1, <1>2, ScheduleBuffer
<1>3. CASE Decode
  BY <1>1, <1>3, DecodeBuffer
<1>4. CASE Fetch
  BY <1>1, <1>4, FetchBuffer
<1>5. CASE ShaderWriteback \/ ExecuteAlu("sp") \/ ExecuteAlu("sfu") \/ LsuWriteback \/ CollectorStep
  <2>1. UNCHANGED <<ibuf, nxt, next_pc, done, atBar, fbuf>>
    <3>1. CASE ShaderWriteback
      BY <3>1 DEF ShaderWriteback, fetchVars
    <3>2. CASE ExecuteAlu("sp") \/ ExecuteAlu("sfu")
      BY <3>2 DEF ExecuteAlu, warpVars, fetchVars
    <3>3. CASE LsuWriteback
      BY <3>3 DEF LsuWriteback, warpVars, fetchVars
    <3>4. CASE CollectorStep
      BY <3>4 DEF CollectorStep, warpVars, fetchVars
    <3>5. QED
      BY <1>5, <3>1, <3>2, <3>3, <3>4
  <2>2. QED
    BY <1>1, <2>1, SameBuffer
<1>6. CASE LsuResponse \/ LsuDispatch \/ LsuIssue \/ Memory \/ UNCHANGED vars
  <2>1. CASE LsuResponse \/ LsuDispatch \/ LsuIssue
    BY <1>1, <2>1, SameBuffer DEF LsuResponse, LsuDispatch, LsuIssue, warpVars, fetchVars
  <2>2. CASE Memory
    BY <1>1, <2>2, SameBuffer DEF Memory, AnswerLoad, AnswerStore, AnswerFetch, Arrives, warpVars, fetchVars
  <2>3. CASE UNCHANGED vars
    BY <1>1, <2>3, SameBuffer DEF vars, warpVars, fetchVars
  <2>4. QED
    BY <1>6, <2>1, <2>2, <2>3
<1>7. QED
  BY <1>2, <1>3, <1>4, <1>5, <1>6 DEF Next, Cycle

\* The counters and the scoreboard.
LEMMA StepCounts ==
  ASSUME CountInv, [Next]_vars
  PROVE  CountTypes' /\ CountExact' /\ OwnedOnce'
<1>1. /\ setup \in Setups /\ FrontTypes /\ AluTypes /\ PipeInv /\ LsuTypes /\ arb \in 0..4 /\ CountTypes /\ PwTypes
      /\ PendingSum /\ OneLoad /\ FreshAccess /\ BufferSound /\ CountExact /\ OwnedOnce /\ StoresExact
  BY DEF CountInv, PipeInv, FrontTypes, OtherTypes
<1>2. CASE ShaderWriteback
  BY <1>1, <1>2, WritebackCounts, WritebackOwned
<1>3. ASSUME NEW k \in Alu, ExecuteAlu(k) PROVE CountTypes' /\ CountExact' /\ OwnedOnce'
  <2>1. CountTypes' /\ CountExact'
    BY <1>1, <1>3, AluCounts
  <2>2. UNCHANGED <<setup, nextWb, pw, disp, left, reserved>>
    BY <1>3 DEF ExecuteAlu, lsuVars, wbVars, regVars
  <2>3. \A F \in SUBSET Running : Inside(F)' = Inside(F)
    BY <1>1, <1>3, AluMoves
  <2>4. QED
    BY <1>1, <2>1, <2>2, <2>3, SameOwned
<1>4. CASE LsuWriteback
  BY <1>1, <1>4, LsuWritebackCounts, LsuWritebackOwned
<1>5. CASE LsuDispatch
  BY <1>1, <1>5, DispatchCounts, DispatchOwned
<1>6. CASE Schedule
  BY <1>1, <1>6, ScheduleCounts, ScheduleOwned
<1>7. CASE Decode
  <2>1. CountTypes' /\ CountExact'
    BY <1>1, <1>7, DecodeCounts
  <2>2. UNCHANGED <<setup, nextWb, pw, disp, left, reserved>> /\ UNCHANGED <<idoc, cu, ocex, unit, exwb, disp, shpipe>>
    BY <1>7 DEF Decode, lsuVars, wbVars, regVars, ocVars, aluVars
  <2>3. QED
    BY <1>1, <2>1, <2>2, NothingMoves, SameOwned
<1>8. CASE CollectorStep \/ LsuResponse \/ LsuIssue \/ Fetch \/ Memory
  <2>1. CountTypes' /\ CountExact'
    BY <1>1, <1>8, StageCounts
  <2>2. CASE CollectorStep
    <3>1. UNCHANGED <<setup, nextWb, pw, disp, left, reserved>>
      BY <2>2 DEF CollectorStep, lsuVars, wbVars, regVars
    <3>2. QED
      BY <1>1, <2>1, <2>2, <3>1, CollectorMoves, SameOwned
  <2>3. CASE LsuResponse
    <3>1. UNCHANGED <<setup, nextWb, pw, disp, left, reserved>>
      BY <2>3 DEF LsuResponse, lsuVars, regVars
    <3>2. QED
      BY <1>1, <2>1, <2>3, <3>1, ResponseMoves, SameOwned
  <2>4. CASE LsuIssue
    BY <1>1, <2>1, <2>4, LsuIssueOwned
  <2>5. CASE Fetch
    <3>1. UNCHANGED <<setup, nextWb, pw, disp, left, reserved>> /\ UNCHANGED <<idoc, cu, ocex, unit, exwb, disp, shpipe>>
      BY <2>5 DEF Fetch, lsuVars, wbVars, regVars, ocVars, aluVars
    <3>2. QED
      BY <1>1, <2>1, <3>1, NothingMoves, SameOwned
  <2>6. CASE Memory
    <3>1. UNCHANGED <<setup, nextWb, pw, disp, left, reserved>> /\ UNCHANGED <<idoc, cu, ocex, unit, exwb, disp, shpipe>>
      BY <2>6 DEF Memory, AnswerLoad, AnswerStore, AnswerFetch, Arrives, lsuVars, wbVars, regVars, ocVars, aluVars
    <3>2. QED
      BY <1>1, <2>1, <3>1, NothingMoves, SameOwned
  <2>7. QED
    BY <1>8, <2>2, <2>3, <2>4, <2>5, <2>6
<1>9. CASE UNCHANGED vars
  <2>1. /\ UNCHANGED <<setup, nextWb, pw, disp, left, reserved>> /\ UNCHANGED <<idoc, cu, ocex, unit, exwb, disp, shpipe>>
        /\ UNCHANGED <<ibuf, inPipe, nInst, longop>> /\ stores' = stores
    BY <1>9 DEF vars, lsuVars, wbVars, regVars, ocVars, aluVars, warpVars
  <2>2. \A F \in SUBSET Running : Inside(F)' = Inside(F)
    BY <2>1, NothingMoves
  <2>3. stores' \in [Warps -> Int]
    BY <1>1, <2>1 DEF CountTypes
  <2>4. QED
    BY <1>1, <2>1, <2>2, <2>3, MovesCount, SameOwned
<1>10. QED
  BY <1>2, <1>3, <1>4, <1>5, <1>6, <1>7, <1>8, <1>9 DEF Next, Cycle, Alu

\* The rest of the types.
LEMMA StepOther ==
  ASSUME CountInv, [Next]_vars
  PROVE  OtherTypes'
<1>1. OtherTypes /\ PipeInv /\ FrontTypes /\ LsuTypes
  BY DEF CountInv, PipeInv
<1>2. CASE ExecuteAlu("sp") \/ ExecuteAlu("sfu") \/ LsuDispatch \/ LsuIssue \/ Decode \/ Fetch
  BY <1>1, <1>2, QuietOther
<1>3. CASE ShaderWriteback \/ LsuWriteback \/ CollectorStep \/ LsuResponse
  BY <1>1, <1>3, CollectorOther
<1>4. CASE Memory
  BY <1>1, <1>4, AnswerOther
<1>5. CASE Schedule
  BY <1>1, <1>5, ScheduleOther
<1>6. CASE UNCHANGED vars
  BY <1>1, <1>6 DEF OtherTypes, vars, warpVars, ocVars, wbVars
<1>7. QED
  BY <1>2, <1>3, <1>4, <1>5, <1>6 DEF Next, Cycle

\* Together.
LEMMA StepCount ==
  ASSUME CountInv, [Next]_vars
  PROVE  CountInv'
<1>1. PipeInv'
  BY StepPipe DEF CountInv
<1>2. QED
  BY <1>1, StepAccesses, StepBuffers, StepCounts, StepOther, ReclaimedStep DEF CountInv, AccessInv

\* The inductive invariant holds when the core starts.
LEMMA InitCount == Init => CountInv
<1> SUFFICES ASSUME Init PROVE CountInv
  OBVIOUS
<1>1. PipeInv
  BY InitPipe
<1>2. setup \in Setups /\ None \notin Running
  BY NoneNotRunning DEF Init
<1>3. /\ disp = None /\ left = 0 /\ nextWb = None /\ nextGlobal = None /\ l1ready = <<>> /\ respq = <<>> /\ loads = {}
      /\ acks = [w \in Warps |-> 0] /\ pw = [w \in Warps |-> [r \in Regs |-> 0]] /\ shpipe = [s \in 0..2 |-> None]
      /\ phase = "writeback" /\ turn = 0 /\ exwb = <<>> /\ fbuf = None /\ atBar = {}
  BY DEF Init
<1>4. /\ ibuf = [w \in Warps |-> <<0, 0>>] /\ nxt = [w \in Warps |-> 1] /\ inPipe = [w \in Warps |-> 0]
      /\ stores = [w \in Warps |-> 0] /\ nInst = [w \in Warps |-> 0] /\ reserved = [w \in Warps |-> {}]
      /\ longop = [w \in Warps |-> {}] /\ done = [w \in Warps |-> FALSE] /\ exited = [w \in Warps |-> FALSE]
      /\ trips = [w \in Warps |-> 0] /\ written = {} /\ pri = 0 /\ arb = 0
      /\ idoc = [k \in Kinds |-> None] /\ cu = [k \in Kinds |-> None] /\ ocex = [k \in Kinds |-> None]
  BY DEF Init
<1>5. LsuTypes
  <2>1. IsFiniteSet({})
    BY FS_EmptySet
  <2>2. None \in Of("mem")
    BY OfIsInst
  <2>3. shpipe \in [0..2 -> SharedLoads \cup {None}] /\ l1ready \in Seq(SentLoads)
        /\ respq \in Seq([w : Warps, pc : Loads \cup StorePcs, k : Nat]) /\ acks \in [Warps -> Nat]
        /\ \A w \in Warps : acks[w] = 0
    BY <1>3
  <2>4. QED
    BY <1>3, <2>1, <2>2, <2>3 DEF LsuTypes
<1>6. OtherTypes
  <2>1. MaxTrips \in Nat /\ Responses \in Nat
    BY CoreConstants
  <2>2. Square \in Nat \ {0}
    BY CoreConstants DEF Square
  <2>3. QED
    BY <1>3, <1>4, <2>1, <2>2 DEF OtherTypes
<1>7. CountTypes /\ PwTypes
  BY <1>3, <1>4 DEF CountTypes, PwTypes
<1>8. \A w \in Warps : \A pcs : Coming(w, pcs) = 0
  <2>1. ASSUME NEW w \in Warps, NEW pcs PROVE Coming(w, pcs) = 0
    <3>1. ToSend(disp, left, w, pcs) = 0 /\ At(nextGlobal, w, pcs) = 0 /\ At(nextWb, w, pcs) = 0
      BY <1>3, AtNone
    <3>2. From(respq, w, pcs) = 0 /\ From(l1ready, w, pcs) = 0
      <4>1. \A q : q = <<>> => {i \in DOMAIN q : q[i].w = w /\ q[i].pc \in pcs} = {}
        OBVIOUS
      <4>2. QED
        BY <1>3, <4>1, FS_EmptySet DEF From
    <3>3. InMemory(loads, w, pcs) = 0
      <4>1. {a \in loads : a.w = w /\ a.pc \in pcs} = {}
        BY <1>3
      <4>2. QED
        BY <4>1, FS_EmptySet DEF InMemory
    <3>4. QED
      BY <3>1, <3>2, <3>3 DEF Coming
  <2>2. QED
    BY <2>1
<1>9. PendingSum /\ OneLoad /\ FreshAccess
  BY <1>3, <1>8 DEF PendingSum, OneLoad, FreshAccess
<1>10. BufferSound
  BY <1>3, <1>4 DEF BufferSound, Head1, Buffered
<1>11. \A F \in SUBSET Running : Inside(F) = 0
  <2>1. ASSUME NEW F \in SUBSET Running PROVE Inside(F) = 0
    <3>1. In(None, F) = 0
      BY <1>2, InValue
    <3>2. \A k \in Kinds : AtPort(k, F) = 0
      BY <1>4, <3>1 DEF AtPort
    <3>3. InLsu(F) = 0 /\ InExWb(F) = 0
      BY <1>3, <3>1 DEF InLsu, InExWb
    <3>4. ASSUME NEW k \in Alu PROVE UnitHas(unit[k], k, F) = 0
      <4>1. unit = [a \in Alu |-> [disp |-> None, delay |-> 0, occupied |-> {},
                            stage |-> [s \in 0..(Depth[a] - 1) |-> None]]]
        BY DEF Init
      <4>2. PICK st : st = [s \in 0..(Depth[k] - 1) |-> None]
        OBVIOUS
      <4>3. unit[k] = [disp |-> None, delay |-> 0, occupied |-> {}, stage |-> st]
        BY <4>1, <4>2
      <4>4. unit[k].disp = None /\ unit[k].stage = st
        BY <4>3
      <4>5. {s \in 0..(Depth[k] - 1) : st[s] \in F} = {}
        BY <1>2, <4>2
      <4>6. Stages(st, k, F) = 0
        BY <4>5, FS_EmptySet DEF Stages
      <4>7. QED
        BY <3>1, <4>4, <4>6 DEF UnitHas
    <3>5. AtPort("sp", F) = 0 /\ AtPort("sfu", F) = 0 /\ AtPort("mem", F) = 0
          /\ UnitHas(unit["sp"], "sp", F) = 0 /\ UnitHas(unit["sfu"], "sfu", F) = 0
      BY <3>2, <3>4 DEF Kinds, Alu
    <3>6. QED
      BY <3>3, <3>5 DEF Inside
  <2>2. QED
    BY <2>1
<1>12. CountExact
  <2>1. ASSUME NEW w \in Warps PROVE inPipe[w] = Cardinality(Buffered(w)) + Inside(OfWarp(w))
    <3>1. Buffered(w) = {}
      BY <1>4, NoneBuffered
    <3>2. Cardinality(Buffered(w)) = 0
      BY <3>1, FS_EmptySet
    <3>3. Inside(OfWarp(w)) = 0
      BY <1>11 DEF OfWarp
    <3>4. QED
      BY <1>4, <3>2, <3>3
  <2>2. QED
    BY <2>1 DEF CountExact
<1>13. OwnedOnce
  <2>1. ASSUME NEW w \in Warps, NEW r \in Regs PROVE Owners(w, r) = IF r \in reserved[w] THEN 1 ELSE 0
    <3>1. Inside(Writers(w, r)) = 0 /\ nextWb \notin Writers(w, r)
      BY <1>2, <1>3, <1>11 DEF Writers, OfWarp
    <3>2. pw[w][r] = 0 /\ r \notin reserved[w]
      BY <1>3, <1>4
    <3>3. QED
      BY <3>1, <3>2 DEF Owners
  <2>2. QED
    BY <2>1 DEF OwnedOnce
<1>14. StoresExact
  <2>1. ASSUME NEW w \in Warps PROVE stores[w] = acks[w] + From(respq, w, StorePcs)
    <3>1. \A q : q = <<>> => {i \in DOMAIN q : q[i].w = w /\ q[i].pc \in StorePcs} = {}
      OBVIOUS
    <3>2. From(respq, w, StorePcs) = 0
      BY <1>3, <3>1, FS_EmptySet DEF From
    <3>3. QED
      BY <1>3, <1>4, <3>2
  <2>2. QED
    BY <2>1 DEF StoresExact
<1>15. Reclaimed
  BY <1>4 DEF Reclaimed
<1>16. QED
  BY <1>1, <1>5, <1>6, <1>7, <1>9, <1>10, <1>12, <1>13, <1>14, <1>15 DEF CountInv

\* So it holds at all times.
LEMMA CountAlways == Spec => []CountInv
BY InitCount, StepCount, PTL DEF Spec

-----------------------------------------------------------------------------
(* The places of the pipeline, counted.                                    *)

\* Places of one structure, named n, that hold an instruction of F.
Group(n, S, F) == {p \in {<<n, s>> : s \in S} : Content(p) \in F}

\* They are as many as the indices whose instruction is in F.
LEMMA GroupCount ==
  ASSUME NEW n, NEW S, NEW f, NEW F, NEW H, H = {s \in S : f[s] \in F}, IsFiniteSet(H),
         \A s \in S : Content(<<n, s>>) = f[s]
  PROVE  /\ IsFiniteSet(Group(n, S, F)) /\ Cardinality(Group(n, S, F)) = Cardinality(H)
         /\ \A p \in Group(n, S, F) : p[1] = n
<1>1. PICK g : g = [s \in H |-> <<n, s>>]
  OBVIOUS
<1>2. PICK U : U = Group(n, S, F)
  OBVIOUS
<1>3. \A p : p \in U <=> \E s \in S : p = <<n, s>> /\ f[s] \in F
  <2>1. \A p : p \in U <=> \E s \in S : p = <<n, s>> /\ Content(p) \in F
    BY <1>2 DEF Group
  <2>2. QED
    BY <2>1
<1>4. g \in [H -> U]
  BY <1>1, <1>3
<1>5. \A x, y \in H : g[x] = g[y] => x = y
  BY <1>1
<1>6. \A u \in U : \E x \in H : g[x] = u
  BY <1>1, <1>3
<1>7. IsFiniteSet(U) /\ Cardinality(U) = Cardinality(H)
  BY <1>4, <1>5, <1>6, SameSize
<1>8. \A p \in U : p[1] = n
  BY <1>3
<1>9. QED
  BY <1>2, <1>7, <1>8

\* One index more.
LEMMA OneMore ==
  ASSUME NEW H, IsFiniteSet(H), NEW a, a \notin H, NEW y, NEW F, NEW J, y \in F => J = H \cup {a}, y \notin F => J = H
  PROVE  IsFiniteSet(J) /\ Cardinality(J) = Cardinality(H) + In(y, F)
<1>1. Cardinality(H) \in Nat
  BY FS_CardinalityType
<1>2. CASE y \in F
  <2>1. J = H \cup {a} /\ In(y, F) = 1
    BY <1>2 DEF In
  <2>2. IsFiniteSet(J) /\ Cardinality(J) = Cardinality(H) + 1
    BY <2>1, FS_AddElement
  <2>3. QED
    BY <2>1, <2>2
<1>3. CASE y \notin F
  BY <1>1, <1>3 DEF In
<1>4. QED
  BY <1>2, <1>3

\* H is the indices among three whose instruction is in F.
Three(H, a, b, c, f, F) ==
  /\ a # b /\ a # c /\ b # c /\ H \subseteq {a, b, c}
  /\ a \in H <=> f[a] \in F
  /\ b \in H <=> f[b] \in F
  /\ c \in H <=> f[c] \in F

\* Their number.
LEMMA ThreeCount ==
  ASSUME NEW H, NEW a, NEW b, NEW c, NEW f, NEW F, Three(H, a, b, c, f, F)
  PROVE  IsFiniteSet(H) /\ Cardinality(H) = In(f[a], F) + In(f[b], F) + In(f[c], F)
<1>0. /\ a # b /\ a # c /\ b # c /\ H \subseteq {a, b, c}
      /\ a \in H <=> f[a] \in F
      /\ b \in H <=> f[b] \in F
      /\ c \in H <=> f[c] \in F
  BY DEF Three
<1>1. PICK A : A = {s \in {a} : f[s] \in F}
  OBVIOUS
<1>2. PICK B : B = {s \in {a, b} : f[s] \in F}
  OBVIOUS
<1>3. PICK x, y, z : x = f[a] /\ y = f[b] /\ z = f[c]
  OBVIOUS
<1>4. IsFiniteSet({}) /\ Cardinality({}) = 0
  BY FS_EmptySet
<1>5. IsFiniteSet(A) /\ Cardinality(A) = 0 + In(x, F)
  <2>1. PICK E : E = {}
    OBVIOUS
  <2>2. (x \in F => A = E \cup {a}) /\ (x \notin F => A = E) /\ a \notin E
    BY <1>1, <1>3, <2>1
  <2>3. IsFiniteSet(A) /\ Cardinality(A) = Cardinality(E) + In(x, F)
    BY <1>4, <2>1, <2>2, OneMore
  <2>4. QED
    BY <1>4, <2>1, <2>3
<1>6. IsFiniteSet(B) /\ Cardinality(B) = Cardinality(A) + In(y, F)
  <2>1. (y \in F => B = A \cup {b}) /\ (y \notin F => B = A) /\ b \notin A
    BY <1>0, <1>1, <1>2, <1>3
  <2>2. QED
    BY <1>5, <2>1, OneMore
<1>7. IsFiniteSet(H) /\ Cardinality(H) = Cardinality(B) + In(z, F)
  <2>1. (z \in F => H = B \cup {c}) /\ (z \notin F => H = B) /\ c \notin B
    BY <1>0, <1>2, <1>3
  <2>2. QED
    BY <1>6, <2>1, OneMore
<1>8. In(x, F) \in Nat /\ In(y, F) \in Nat /\ In(z, F) \in Nat
  BY InValue
<1>9. QED
  BY <1>3, <1>5, <1>6, <1>7, <1>8

\* Finitely many places, of the structures N.
Named(A, N) == IsFiniteSet(A) /\ \A p \in A : p[1] \in N

\* Places of different structures are different.
LEMMA GroupsJoin ==
  ASSUME NEW A, NEW N, Named(A, N), NEW B, NEW n, Named(B, {n}), n \notin N, NEW C, C = A \cup B
  PROVE  Named(C, N \cup {n}) /\ Cardinality(C) = Cardinality(A) + Cardinality(B)
<1>1. IsFiniteSet(A) /\ IsFiniteSet(B) /\ (\A p \in A : p[1] \in N) /\ (\A p \in B : p[1] = n)
  BY DEF Named
<1>2. A \cap B = {}
  BY <1>1
<1>3. IsFiniteSet(C) /\ Cardinality(C) = Cardinality(A) + Cardinality(B) - Cardinality(A \cap B)
  BY <1>1, FS_Union
<1>4. Cardinality(A \cap B) = 0
  BY <1>2, FS_EmptySet
<1>5. Cardinality(A) \in Nat /\ Cardinality(B) \in Nat
  BY <1>1, FS_CardinalityType
<1>6. Cardinality(C) = Cardinality(A) + Cardinality(B)
  BY <1>3, <1>4, <1>5
<1>7. \A p \in C : p[1] \in N \cup {n}
  BY <1>1
<1>8. QED
  BY <1>3, <1>6, <1>7 DEF Named

\* What a place holds.
LEMMA ContentOf ==
  ASSUME NEW p
  PROVE  /\ p[1] = "id_oc" => Content(p) = idoc[p[2]]
         /\ p[1] = "cu" => Content(p) = cu[p[2]]
         /\ p[1] = "oc_ex" => Content(p) = ocex[p[2]]
         /\ p[1] = "dispatch" => Content(p) = IF p[2] = "mem" THEN disp ELSE unit[p[2]].disp
         /\ p[1] = "sp" => Content(p) = unit["sp"].stage[p[2]]
         /\ p[1] = "sfu" => Content(p) = unit["sfu"].stage[p[2]]
         /\ p[1] = "shared" => Content(p) = shpipe[p[2]]
         /\ p[1] = "ex_wb" => Content(p) = exwb[p[2]]
<1>1. p[1] = "id_oc" => Content(p) = idoc[p[2]]
  BY DEF Content, Alu
<1>2. p[1] = "cu" => Content(p) = cu[p[2]]
  BY DEF Content, Alu
<1>3. p[1] = "oc_ex" => Content(p) = ocex[p[2]]
  BY DEF Content, Alu
<1>4. p[1] = "dispatch" => Content(p) = IF p[2] = "mem" THEN disp ELSE unit[p[2]].disp
  BY DEF Content, Alu
<1>5. p[1] = "sp" => Content(p) = unit["sp"].stage[p[2]]
  BY DEF Content, Alu
<1>6. p[1] = "sfu" => Content(p) = unit["sfu"].stage[p[2]]
  BY DEF Content, Alu
<1>7. p[1] = "shared" => Content(p) = shpipe[p[2]]
  BY DEF Content, Alu
<1>8. p[1] = "ex_wb" => Content(p) = exwb[p[2]]
  BY DEF Content, Alu
<1>9. QED
  BY <1>1, <1>2, <1>3, <1>4, <1>5, <1>6, <1>7, <1>8

\* The same by structure and index.
LEMMA ContentAt ==
  ASSUME NEW s
  PROVE  /\ Content(<<"id_oc", s>>) = idoc[s] /\ Content(<<"cu", s>>) = cu[s]
         /\ Content(<<"oc_ex", s>>) = ocex[s]
         /\ Content(<<"dispatch", s>>) = IF s = "mem" THEN disp ELSE unit[s].disp
         /\ Content(<<"sp", s>>) = unit["sp"].stage[s] /\ Content(<<"sfu", s>>) = unit["sfu"].stage[s]
         /\ Content(<<"shared", s>>) = shpipe[s] /\ Content(<<"ex_wb", s>>) = exwb[s]
<1>1. ASSUME NEW n, NEW p, p = <<n, s>> PROVE p[1] = n /\ p[2] = s
  BY <1>1
<1>2. QED
  BY <1>1, ContentOf

\* The places of each structure.
LEMMA PortGroups ==
  ASSUME NEW F
  PROVE  /\ \A n \in {"id_oc", "cu", "oc_ex", "dispatch"} :
              IsFiniteSet(Group(n, Kinds, F)) /\ \A p \in Group(n, Kinds, F) : p[1] = n
         /\ Cardinality(Group("id_oc", Kinds, F)) = In(idoc["sp"], F) + In(idoc["sfu"], F) + In(idoc["mem"], F)
         /\ Cardinality(Group("cu", Kinds, F)) = In(cu["sp"], F) + In(cu["sfu"], F) + In(cu["mem"], F)
         /\ Cardinality(Group("oc_ex", Kinds, F)) = In(ocex["sp"], F) + In(ocex["sfu"], F) + In(ocex["mem"], F)
         /\ Cardinality(Group("dispatch", Kinds, F)) =
              In(unit["sp"].disp, F) + In(unit["sfu"].disp, F) + In(disp, F)
<1>1. Kinds = {"sp", "sfu", "mem"}
  BY DEF Kinds
<1>2. ASSUME NEW n, NEW f, \A s \in Kinds : Content(<<n, s>>) = f[s]
      PROVE  /\ IsFiniteSet(Group(n, Kinds, F)) /\ \A p \in Group(n, Kinds, F) : p[1] = n
             /\ Cardinality(Group(n, Kinds, F)) = In(f["sp"], F) + In(f["sfu"], F) + In(f["mem"], F)
  <2>1. PICK H : H = {s \in Kinds : f[s] \in F}
    OBVIOUS
  <2>2. IsFiniteSet(H) /\ Cardinality(H) = In(f["sp"], F) + In(f["sfu"], F) + In(f["mem"], F)
    <3>1. "sp" # "sfu" /\ "sp" # "mem" /\ "sfu" # "mem"
      OBVIOUS
    <3>2. PICK a, b, c : a = "sp" /\ b = "sfu" /\ c = "mem"
      OBVIOUS
    <3>3. Three(H, a, b, c, f, F)
      BY <1>1, <2>1, <3>1, <3>2 DEF Three
    <3>4. IsFiniteSet(H) /\ Cardinality(H) = In(f[a], F) + In(f[b], F) + In(f[c], F)
      BY <3>3, ThreeCount
    <3>5. QED
      BY <3>2, <3>4
  <2>3. QED
    BY <1>2, <2>1, <2>2, GroupCount
<1>3. /\ \A s \in Kinds : Content(<<"id_oc", s>>) = idoc[s]
      /\ \A s \in Kinds : Content(<<"cu", s>>) = cu[s]
      /\ \A s \in Kinds : Content(<<"oc_ex", s>>) = ocex[s]
      /\ \A s \in Kinds : Content(<<"dispatch", s>>) = IF s = "mem" THEN disp ELSE unit[s].disp
  <2>1. ASSUME NEW s \in Kinds
        PROVE  /\ Content(<<"id_oc", s>>) = idoc[s] /\ Content(<<"cu", s>>) = cu[s]
               /\ Content(<<"oc_ex", s>>) = ocex[s]
               /\ Content(<<"dispatch", s>>) = IF s = "mem" THEN disp ELSE unit[s].disp
    BY ContentAt
  <2>2. QED
    BY <2>1
<1>4. PICK d : d = [s \in Kinds |-> IF s = "mem" THEN disp ELSE unit[s].disp]
  OBVIOUS
<1>5. d["sp"] = unit["sp"].disp /\ d["sfu"] = unit["sfu"].disp /\ d["mem"] = disp
      /\ \A s \in Kinds : Content(<<"dispatch", s>>) = d[s]
  BY <1>1, <1>3, <1>4
<1>6. /\ IsFiniteSet(Group("dispatch", Kinds, F)) /\ \A p \in Group("dispatch", Kinds, F) : p[1] = "dispatch"
      /\ Cardinality(Group("dispatch", Kinds, F)) =
           In(unit["sp"].disp, F) + In(unit["sfu"].disp, F) + In(disp, F)
  BY <1>2, <1>5
<1>7. QED
  BY <1>2, <1>3, <1>6

\* The stages of a unit.
LEMMA UnitGroups ==
  ASSUME NEW k \in Alu, NEW F
  PROVE  /\ IsFiniteSet(Group(k, 0..(Depth[k] - 1), F)) /\ \A p \in Group(k, 0..(Depth[k] - 1), F) : p[1] = k
         /\ Cardinality(Group(k, 0..(Depth[k] - 1), F)) = Stages(unit[k].stage, k, F)
<1>1. PICK S, f, H : S = 0..(Depth[k] - 1) /\ f = unit[k].stage /\ H = {s \in S : f[s] \in F}
  OBVIOUS
<1>2. IsFiniteSet(H) /\ Cardinality(H) = Stages(f, k, F)
  BY <1>1, StagesFinite DEF Stages
<1>3. ASSUME NEW s \in S PROVE Content(<<k, s>>) = f[s]
  <2>1. k = "sp" \/ k = "sfu"
    BY DEF Alu
  <2>2. QED
    BY <1>1, <2>1, ContentAt
<1>4. /\ IsFiniteSet(Group(k, S, F)) /\ Cardinality(Group(k, S, F)) = Cardinality(H)
      /\ \A p \in Group(k, S, F) : p[1] = k
  <2>1. H = {s \in S : f[s] \in F} /\ IsFiniteSet(H) /\ \A s \in S : Content(<<k, s>>) = f[s]
    BY <1>1, <1>2, <1>3
  <2>2. QED
    BY ONLY <2>1, GroupCount
<1>5. QED
  BY <1>1, <1>2, <1>4

\* The shared memory pipeline.
LEMMA SharedGroup ==
  ASSUME NEW F
  PROVE  /\ IsFiniteSet(Group("shared", 0..2, F)) /\ \A p \in Group("shared", 0..2, F) : p[1] = "shared"
         /\ Cardinality(Group("shared", 0..2, F)) = In(shpipe[0], F) + In(shpipe[1], F) + In(shpipe[2], F)
<1>1. PICK S, H, f : S = 0..2 /\ f = shpipe /\ H = {s \in S : f[s] \in F}
  OBVIOUS
<1>2. Three(H, 0, 1, 2, f, F)
  BY <1>1 DEF Three
<1>3. IsFiniteSet(H) /\ Cardinality(H) = In(f[0], F) + In(f[1], F) + In(f[2], F)
  BY <1>2, ThreeCount
<1>4. ASSUME NEW s \in S PROVE Content(<<"shared", s>>) = f[s]
  BY <1>1, ContentAt
<1>5. /\ IsFiniteSet(Group("shared", S, F)) /\ Cardinality(Group("shared", S, F)) = Cardinality(H)
      /\ \A p \in Group("shared", S, F) : p[1] = "shared"
  BY <1>1, <1>3, <1>4, GroupCount
<1>6. QED
  BY <1>1, <1>3, <1>5

\* EX_WB, which holds one instruction at most.
LEMMA ExWbGroup ==
  ASSUME exwb \in Seq(Running), Len(exwb) <= 1, NEW F
  PROVE  /\ IsFiniteSet(Group("ex_wb", DOMAIN exwb, F)) /\ \A p \in Group("ex_wb", DOMAIN exwb, F) : p[1] = "ex_wb"
         /\ Cardinality(Group("ex_wb", DOMAIN exwb, F)) = InExWb(F)
<1>1. PICK S, H, f : S = DOMAIN exwb /\ f = exwb /\ H = {s \in S : f[s] \in F}
  OBVIOUS
<1>2. IsFiniteSet(H) /\ Cardinality(H) = InExWb(F)
  <2>1. IsFiniteSet({}) /\ Cardinality({}) = 0
    BY FS_EmptySet
  <2>2. CASE exwb = <<>>
    <3>1. H = {}
      BY <1>1, <2>2
    <3>2. QED
      BY <2>1, <2>2, <3>1 DEF InExWb
  <2>3. CASE exwb # <<>>
    <3>1. S = {1}
      <4>1. Len(exwb) \in Nat \ {0} /\ DOMAIN exwb = 1..Len(exwb)
        BY <2>3
      <4>2. Len(exwb) = 1
        BY <4>1
      <4>3. QED
        BY <1>1, <4>1, <4>2
    <3>2. PICK E : E = {}
      OBVIOUS
    <3>3. (f[1] \in F => H = E \cup {1}) /\ (f[1] \notin F => H = E) /\ 1 \notin E
      BY <1>1, <3>1, <3>2
    <3>4. PICK y : y = f[1]
      OBVIOUS
    <3>5. IsFiniteSet(H) /\ Cardinality(H) = Cardinality(E) + In(y, F)
      <4>1. IsFiniteSet(E) /\ 1 \notin E /\ (y \in F => H = E \cup {1}) /\ (y \notin F => H = E)
        BY <2>1, <3>2, <3>3, <3>4
      <4>2. QED
        BY <4>1, OneMore
    <3>6. InExWb(F) = In(y, F) /\ In(y, F) \in Nat
      BY <1>1, <2>3, <3>4, InValue DEF InExWb
    <3>7. QED
      BY <2>1, <3>2, <3>5, <3>6
  <2>4. QED
    BY <2>2, <2>3
<1>3. ASSUME NEW s \in S PROVE Content(<<"ex_wb", s>>) = f[s]
  BY <1>1, ContentAt
<1>4. /\ IsFiniteSet(Group("ex_wb", S, F)) /\ Cardinality(Group("ex_wb", S, F)) = Cardinality(H)
      /\ \A p \in Group("ex_wb", S, F) : p[1] = "ex_wb"
  BY <1>1, <1>2, <1>3, GroupCount
<1>5. QED
  BY <1>1, <1>2, <1>4

\* The places, one structure at a time.
LEMMA PlacesAre ==
  ASSUME NEW p
  PROVE  p \in Places <=> \/ \E k \in Kinds : p = <<"id_oc", k>> \/ p = <<"cu", k>> \/ p = <<"oc_ex", k>>
                          \/ \E k \in Kinds : p = <<"dispatch", k>>
                          \/ \E s \in 0..(Depth["sp"] - 1) : p = <<"sp", s>>
                          \/ \E s \in 0..(Depth["sfu"] - 1) : p = <<"sfu", s>>
                          \/ \E s \in 0..2 : p = <<"shared", s>>
                          \/ \E i \in DOMAIN exwb : p = <<"ex_wb", i>>
<1>1. PICK a : a = {"id_oc", "cu", "oc_ex"}
  OBVIOUS
<1>2. Places = a \X Kinds \cup {<<"dispatch", k>> : k \in Kinds}
               \cup (UNION {{<<k, s>> : s \in 0..(Depth[k] - 1)} : k \in Alu})
               \cup {<<"shared", s>> : s \in 0..2} \cup {<<"ex_wb", i>> : i \in DOMAIN exwb}
  BY <1>1, SMT DEF Places
<1>3. p \in a \X Kinds <=> \E k \in Kinds : p = <<"id_oc", k>> \/ p = <<"cu", k>> \/ p = <<"oc_ex", k>>
  BY <1>1, SMT
<1>4. p \in (UNION {{<<k, s>> : s \in 0..(Depth[k] - 1)} : k \in Alu})
        <=> \E k \in Alu : \E s \in 0..(Depth[k] - 1) : p = <<k, s>>
  BY SMT
<1>5. (\E k \in Alu : \E s \in 0..(Depth[k] - 1) : p = <<k, s>>)
        <=> (\E s \in 0..(Depth["sp"] - 1) : p = <<"sp", s>>) \/ (\E s \in 0..(Depth["sfu"] - 1) : p = <<"sfu", s>>)
  <2>1. PICK m, n : m = "sp" /\ n = "sfu" /\ Alu = {m, n}
    BY DEF Alu
  <2>2. QED
    BY <2>1, Zenon
<1>6. p \in Places <=> \/ p \in a \X Kinds \/ p \in {<<"dispatch", k>> : k \in Kinds}
                       \/ p \in (UNION {{<<k, s>> : s \in 0..(Depth[k] - 1)} : k \in Alu})
                       \/ p \in {<<"shared", s>> : s \in 0..2} \/ p \in {<<"ex_wb", i>> : i \in DOMAIN exwb}
  <2>. DEFINE A == a \X Kinds
              B == {<<"dispatch", k>> : k \in Kinds}
              C == (UNION {{<<k, s>> : s \in 0..(Depth[k] - 1)} : k \in Alu})
              D == {<<"shared", s>> : s \in 0..2}
              E == {<<"ex_wb", i>> : i \in DOMAIN exwb}
  <2>1. Places = A \cup B \cup C \cup D \cup E
    BY <1>2, Zenon
  <2>. HIDE DEF A, B, C, D, E
  <2>2. p \in Places <=> p \in A \/ p \in B \/ p \in C \/ p \in D \/ p \in E
    BY <2>1
  <2>3. QED
    BY <2>2 DEF A, B, C, D, E
<1>7. /\ p \in {<<"dispatch", k>> : k \in Kinds} <=> \E k \in Kinds : p = <<"dispatch", k>>
      /\ p \in {<<"shared", s>> : s \in 0..2} <=> \E s \in 0..2 : p = <<"shared", s>>
      /\ p \in {<<"ex_wb", i>> : i \in DOMAIN exwb} <=> \E i \in DOMAIN exwb : p = <<"ex_wb", i>>
  BY SMT
<1>8. QED
  BY <1>3, <1>4, <1>5, <1>6, <1>7, Zenon

\* The places that hold an instruction of F are as many as the instructions of F inside.
LEMMA PlacesCount ==
  ASSUME exwb \in Seq(Running), Len(exwb) <= 1, NEW F, NEW H, H = {p \in Places : Content(p) \in F}
  PROVE  IsFiniteSet(H) /\ Cardinality(H) = Inside(F)
<1>1. PICK a, b, c, d, e, f, g, h :
        /\ a = Group("id_oc", Kinds, F) /\ b = Group("cu", Kinds, F) /\ c = Group("oc_ex", Kinds, F)
        /\ d = Group("dispatch", Kinds, F) /\ e = Group("sp", 0..(Depth["sp"] - 1), F)
        /\ f = Group("sfu", 0..(Depth["sfu"] - 1), F) /\ g = Group("shared", 0..2, F)
        /\ h = Group("ex_wb", DOMAIN exwb, F)
  OBVIOUS
<1>2. Named(a, {"id_oc"}) /\ Named(b, {"cu"}) /\ Named(c, {"oc_ex"}) /\ Named(d, {"dispatch"})
  BY <1>1, PortGroups DEF Named
<1>3. /\ Named(e, {"sp"}) /\ Named(f, {"sfu"})
      /\ Cardinality(e) = Stages(unit["sp"].stage, "sp", F) /\ Cardinality(f) = Stages(unit["sfu"].stage, "sfu", F)
  BY <1>1, UnitGroups DEF Alu, Named
<1>4. Named(g, {"shared"}) /\ Named(h, {"ex_wb"})
  BY <1>1, SharedGroup, ExWbGroup DEF Named
<1>5. PICK b2, c2, d2, e2, f2, g2, h2 :
        /\ b2 = a \cup b /\ c2 = b2 \cup c /\ d2 = c2 \cup d /\ e2 = d2 \cup e /\ f2 = e2 \cup f
        /\ g2 = f2 \cup g /\ h2 = g2 \cup h
  OBVIOUS
<1>6. Named(b2, {"id_oc", "cu"}) /\ Cardinality(b2) = Cardinality(a) + Cardinality(b)
  <2>1. PICK N, n : N = {"id_oc"} /\ n = "cu"
    OBVIOUS
  <2>2. n \notin N /\ Named(a, N) /\ Named(b, {n}) /\ b2 = a \cup b
    BY <1>2, <1>3, <1>4, <1>5, <2>1
  <2>3. Named(b2, N \cup {n}) /\ Cardinality(b2) = Cardinality(a) + Cardinality(b)
    BY <2>2, GroupsJoin
  <2>4. N \cup {n} = {"id_oc", "cu"}
    BY <2>1
  <2>5. QED
    BY <2>3, <2>4
<1>7. Named(c2, {"id_oc", "cu", "oc_ex"}) /\ Cardinality(c2) = Cardinality(b2) + Cardinality(c)
  <2>1. PICK N, n : N = {"id_oc", "cu"} /\ n = "oc_ex"
    OBVIOUS
  <2>2. n \notin N /\ Named(b2, N) /\ Named(c, {n}) /\ c2 = b2 \cup c
    BY <1>6, <1>2, <1>3, <1>4, <1>5, <2>1
  <2>3. Named(c2, N \cup {n}) /\ Cardinality(c2) = Cardinality(b2) + Cardinality(c)
    BY <2>2, GroupsJoin
  <2>4. N \cup {n} = {"id_oc", "cu", "oc_ex"}
    BY <2>1
  <2>5. QED
    BY <2>3, <2>4
<1>8. Named(d2, {"id_oc", "cu", "oc_ex", "dispatch"}) /\ Cardinality(d2) = Cardinality(c2) + Cardinality(d)
  <2>1. PICK N, n : N = {"id_oc", "cu", "oc_ex"} /\ n = "dispatch"
    OBVIOUS
  <2>2. n \notin N /\ Named(c2, N) /\ Named(d, {n}) /\ d2 = c2 \cup d
    BY <1>7, <1>2, <1>3, <1>4, <1>5, <2>1
  <2>3. Named(d2, N \cup {n}) /\ Cardinality(d2) = Cardinality(c2) + Cardinality(d)
    BY <2>2, GroupsJoin
  <2>4. N \cup {n} = {"id_oc", "cu", "oc_ex", "dispatch"}
    BY <2>1
  <2>5. QED
    BY <2>3, <2>4
<1>9. Named(e2, {"id_oc", "cu", "oc_ex", "dispatch", "sp"}) /\ Cardinality(e2) = Cardinality(d2) + Cardinality(e)
  <2>1. PICK N, n : N = {"id_oc", "cu", "oc_ex", "dispatch"} /\ n = "sp"
    OBVIOUS
  <2>2. n \notin N /\ Named(d2, N) /\ Named(e, {n}) /\ e2 = d2 \cup e
    BY <1>8, <1>2, <1>3, <1>4, <1>5, <2>1
  <2>3. Named(e2, N \cup {n}) /\ Cardinality(e2) = Cardinality(d2) + Cardinality(e)
    BY <2>2, GroupsJoin
  <2>4. N \cup {n} = {"id_oc", "cu", "oc_ex", "dispatch", "sp"}
    BY <2>1
  <2>5. QED
    BY <2>3, <2>4
<1>10. Named(f2, {"id_oc", "cu", "oc_ex", "dispatch", "sp", "sfu"}) /\ Cardinality(f2) = Cardinality(e2) + Cardinality(f)
  <2>1. PICK N, n : N = {"id_oc", "cu", "oc_ex", "dispatch", "sp"} /\ n = "sfu"
    OBVIOUS
  <2>2. n \notin N /\ Named(e2, N) /\ Named(f, {n}) /\ f2 = e2 \cup f
    BY <1>9, <1>2, <1>3, <1>4, <1>5, <2>1
  <2>3. Named(f2, N \cup {n}) /\ Cardinality(f2) = Cardinality(e2) + Cardinality(f)
    BY <2>2, GroupsJoin
  <2>4. N \cup {n} = {"id_oc", "cu", "oc_ex", "dispatch", "sp", "sfu"}
    BY <2>1
  <2>5. QED
    BY <2>3, <2>4
<1>11. Named(g2, {"id_oc", "cu", "oc_ex", "dispatch", "sp", "sfu", "shared"}) /\ Cardinality(g2) = Cardinality(f2) + Cardinality(g)
  <2>1. PICK N, n : N = {"id_oc", "cu", "oc_ex", "dispatch", "sp", "sfu"} /\ n = "shared"
    OBVIOUS
  <2>2. n \notin N /\ Named(f2, N) /\ Named(g, {n}) /\ g2 = f2 \cup g
    BY <1>10, <1>2, <1>3, <1>4, <1>5, <2>1
  <2>3. Named(g2, N \cup {n}) /\ Cardinality(g2) = Cardinality(f2) + Cardinality(g)
    BY <2>2, GroupsJoin
  <2>4. N \cup {n} = {"id_oc", "cu", "oc_ex", "dispatch", "sp", "sfu", "shared"}
    BY <2>1
  <2>5. QED
    BY <2>3, <2>4
<1>12. Named(h2, {"id_oc", "cu", "oc_ex", "dispatch", "sp", "sfu", "shared", "ex_wb"}) /\ Cardinality(h2) = Cardinality(g2) + Cardinality(h)
  <2>1. PICK N, n : N = {"id_oc", "cu", "oc_ex", "dispatch", "sp", "sfu", "shared"} /\ n = "ex_wb"
    OBVIOUS
  <2>2. n \notin N /\ Named(g2, N) /\ Named(h, {n}) /\ h2 = g2 \cup h
    BY <1>11, <1>2, <1>3, <1>4, <1>5, <2>1
  <2>3. Named(h2, N \cup {n}) /\ Cardinality(h2) = Cardinality(g2) + Cardinality(h)
    BY <2>2, GroupsJoin
  <2>4. N \cup {n} = {"id_oc", "cu", "oc_ex", "dispatch", "sp", "sfu", "shared", "ex_wb"}
    BY <2>1
  <2>5. QED
    BY <2>3, <2>4
<1>13. H = h2
  <2>1. \A p : p \in h2 <=> p \in a \/ p \in b \/ p \in c \/ p \in d \/ p \in e \/ p \in f \/ p \in g \/ p \in h
    BY <1>5
  <2>2. PICK S, T, U, V : S = 0..(Depth["sp"] - 1) /\ T = 0..(Depth["sfu"] - 1) /\ U = 0..2 /\ V = DOMAIN exwb
    OBVIOUS
  <2>3. \A p : p \in Places <=> \/ \E k \in Kinds : p = <<"id_oc", k>> \/ p = <<"cu", k>> \/ p = <<"oc_ex", k>>
                                \/ \E k \in Kinds : p = <<"dispatch", k>>
                                \/ \E s \in S : p = <<"sp", s>>
                                \/ \E s \in T : p = <<"sfu", s>>
                                \/ \E s \in U : p = <<"shared", s>>
                                \/ \E i \in V : p = <<"ex_wb", i>>
    BY <2>2, PlacesAre
  <2>4. ASSUME NEW n, NEW W, NEW G, G = Group(n, W, F), NEW p
        PROVE  p \in G <=> Content(p) \in F /\ \E s \in W : p = <<n, s>>
    BY <2>4 DEF Group
  <2>5. /\ \A p : p \in a <=> Content(p) \in F /\ \E s \in Kinds : p = <<"id_oc", s>>
        /\ \A p : p \in b <=> Content(p) \in F /\ \E s \in Kinds : p = <<"cu", s>>
        /\ \A p : p \in c <=> Content(p) \in F /\ \E s \in Kinds : p = <<"oc_ex", s>>
        /\ \A p : p \in d <=> Content(p) \in F /\ \E s \in Kinds : p = <<"dispatch", s>>
        /\ \A p : p \in e <=> Content(p) \in F /\ \E s \in S : p = <<"sp", s>>
        /\ \A p : p \in f <=> Content(p) \in F /\ \E s \in T : p = <<"sfu", s>>
        /\ \A p : p \in g <=> Content(p) \in F /\ \E s \in U : p = <<"shared", s>>
        /\ \A p : p \in h <=> Content(p) \in F /\ \E s \in V : p = <<"ex_wb", s>>
    <3>1. ASSUME NEW p PROVE p \in a <=> Content(p) \in F /\ \E s \in Kinds : p = <<"id_oc", s>>
      BY <1>1, <2>2, <2>4
    <3>2. ASSUME NEW p PROVE p \in b <=> Content(p) \in F /\ \E s \in Kinds : p = <<"cu", s>>
      BY <1>1, <2>2, <2>4
    <3>3. ASSUME NEW p PROVE p \in c <=> Content(p) \in F /\ \E s \in Kinds : p = <<"oc_ex", s>>
      BY <1>1, <2>2, <2>4
    <3>4. ASSUME NEW p PROVE p \in d <=> Content(p) \in F /\ \E s \in Kinds : p = <<"dispatch", s>>
      <4>1. PICK n, W : n = "dispatch" /\ W = Kinds
        OBVIOUS
      <4>2. d = Group(n, W, F)
        BY <1>1, <2>2, <4>1
      <4>3. p \in d <=> Content(p) \in F /\ \E s \in W : p = <<n, s>>
        BY <2>4, <4>2
      <4>4. QED
        BY <4>1, <4>3
    <3>5. ASSUME NEW p PROVE p \in e <=> Content(p) \in F /\ \E s \in S : p = <<"sp", s>>
      <4>1. PICK n, W : n = "sp" /\ W = S
        OBVIOUS
      <4>2. e = Group(n, W, F)
        BY <1>1, <2>2, <4>1
      <4>3. p \in e <=> Content(p) \in F /\ \E s \in W : p = <<n, s>>
        BY <2>4, <4>2
      <4>4. \A s : <<n, s>> = <<"sp", s>>
        BY <4>1
      <4>5. QED
        BY <4>1, <4>3, <4>4
    <3>6. ASSUME NEW p PROVE p \in f <=> Content(p) \in F /\ \E s \in T : p = <<"sfu", s>>
      <4>1. PICK n, W : n = "sfu" /\ W = T
        OBVIOUS
      <4>2. f = Group(n, W, F)
        BY <1>1, <2>2, <4>1
      <4>3. p \in f <=> Content(p) \in F /\ \E s \in W : p = <<n, s>>
        BY <2>4, <4>2
      <4>4. \A s : <<n, s>> = <<"sfu", s>>
        BY <4>1
      <4>5. QED
        BY <4>1, <4>3, <4>4
    <3>7. ASSUME NEW p PROVE p \in g <=> Content(p) \in F /\ \E s \in U : p = <<"shared", s>>
      BY <1>1, <2>2, <2>4
    <3>8. ASSUME NEW p PROVE p \in h <=> Content(p) \in F /\ \E s \in V : p = <<"ex_wb", s>>
      BY <1>1, <2>2, <2>4
    <3>9. QED
      BY <3>1, <3>2, <3>3, <3>4, <3>5, <3>6, <3>7, <3>8
  <2>6. \A p : p \in H <=> p \in Places /\ Content(p) \in F
    OBVIOUS
  <2>7. ASSUME NEW p PROVE p \in H <=> p \in h2
    <3>1. CASE Content(p) \in F
      <4>1. p \in H <=> p \in Places
        BY <2>6, <3>1
      <4>2. p \in a \/ p \in b \/ p \in c <=>
              \E k \in Kinds : p = <<"id_oc", k>> \/ p = <<"cu", k>> \/ p = <<"oc_ex", k>>
        <5>1. p \in a <=> \E k \in Kinds : p = <<"id_oc", k>>
          BY <2>5, <3>1, Zenon
        <5>2. p \in b <=> \E k \in Kinds : p = <<"cu", k>>
          BY <2>5, <3>1, Zenon
        <5>3. p \in c <=> \E k \in Kinds : p = <<"oc_ex", k>>
          BY <2>5, <3>1, Zenon
        <5>4. QED
          BY <5>1, <5>2, <5>3, Zenon
      <4>3. /\ p \in d <=> \E k \in Kinds : p = <<"dispatch", k>>
            /\ p \in e <=> \E s \in S : p = <<"sp", s>>
            /\ p \in f <=> \E s \in T : p = <<"sfu", s>>
            /\ p \in g <=> \E s \in U : p = <<"shared", s>>
            /\ p \in h <=> \E i \in V : p = <<"ex_wb", i>>
        BY <2>5, <3>1, Zenon
      <4>4. p \in Places <=> p \in a \/ p \in b \/ p \in c \/ p \in d \/ p \in e \/ p \in f \/ p \in g \/ p \in h
        BY <2>3, <4>2, <4>3, Zenon
      <4>5. QED
        BY <2>1, <4>1, <4>4
    <3>2. CASE Content(p) \notin F
      BY <2>1, <2>5, <2>6, <3>2, Zenon
    <3>3. QED
      BY <3>1, <3>2
  <2>8. QED
    BY <2>7
<1>14. Cardinality(h2) = Inside(F)
  <2>1. /\ Cardinality(a) = In(idoc["sp"], F) + In(idoc["sfu"], F) + In(idoc["mem"], F)
        /\ Cardinality(b) = In(cu["sp"], F) + In(cu["sfu"], F) + In(cu["mem"], F)
        /\ Cardinality(c) = In(ocex["sp"], F) + In(ocex["sfu"], F) + In(ocex["mem"], F)
        /\ Cardinality(d) = In(unit["sp"].disp, F) + In(unit["sfu"].disp, F) + In(disp, F)
    BY <1>1, PortGroups
  <2>2. Cardinality(g) = In(shpipe[0], F) + In(shpipe[1], F) + In(shpipe[2], F)
    BY <1>1, SharedGroup
  <2>3. Cardinality(h) = InExWb(F)
    BY <1>1, ExWbGroup
  <2>4. \A x : In(x, F) \in Nat
    BY InValue
  <2>5. Cardinality(e) \in Nat /\ Cardinality(f) \in Nat /\ Cardinality(h) \in Nat
    BY <1>3, <1>4, FS_CardinalityType DEF Named
  <2>6. Cardinality(h2) = Cardinality(a) + Cardinality(b) + Cardinality(c) + Cardinality(d)
                          + Cardinality(e) + Cardinality(f) + Cardinality(g) + Cardinality(h)
    BY <1>6, <1>7, <1>8, <1>9, <1>10, <1>11, <1>12
  <2>7. Inside(F) = (In(idoc["sp"], F) + In(cu["sp"], F) + In(ocex["sp"], F))
                    + (In(idoc["sfu"], F) + In(cu["sfu"], F) + In(ocex["sfu"], F))
                    + (In(idoc["mem"], F) + In(cu["mem"], F) + In(ocex["mem"], F))
                    + (In(unit["sp"].disp, F) + Cardinality(e)) + (In(unit["sfu"].disp, F) + Cardinality(f))
                    + (In(disp, F) + In(shpipe[0], F) + In(shpipe[1], F) + In(shpipe[2], F)) + Cardinality(h)
    BY <1>3, <2>3 DEF Inside, AtPort, UnitHas, InLsu
  <2>8. QED
    BY ONLY <2>1, <2>2, <2>4, <2>5, <2>6, <2>7
<1>15. QED
  BY <1>12, <1>13, <1>14 DEF Named

\* A place holds an instruction or nothing.
LEMMA PlaceHolds ==
  ASSUME PipeInv, LsuTypes, NEW p \in Places
  PROVE  Content(p) \in {None} \cup Running
<1>1. \A k \in Kinds : idoc[k] \in {None} \cup Running /\ cu[k] \in {None} \cup Running /\ ocex[k] \in {None} \cup Running
  BY DEF PipeInv, AluTypes, Of
<1>2. \A k \in Alu : unit[k].disp \in {None} \cup Running
                     /\ \A s \in 0..(Depth[k] - 1) : unit[k].stage[s] \in {None} \cup Running
  <2> TAKE k \in Alu
  <2>1. unit[k] \in UnitOf(k) /\ Of(k) \subseteq {None} \cup Running
    BY DEF PipeInv, AluTypes, Of
  <2>2. unit[k].disp \in Of(k) /\ unit[k].stage \in [0..(Depth[k] - 1) -> Of(k)]
    BY <2>1 DEF UnitOf
  <2>3. QED
    BY <2>1, <2>2
<1>3. disp \in {None} \cup Running /\ \A s \in 0..2 : shpipe[s] \in {None} \cup Running
  BY DEF LsuTypes, Of, SharedLoads
<1>4. \A i \in DOMAIN exwb : exwb[i] \in Running
  BY DEF PipeInv, AluTypes
<1>5. \/ \E k \in Kinds : p = <<"id_oc", k>> \/ p = <<"cu", k>> \/ p = <<"oc_ex", k>>
      \/ \E k \in Kinds : p = <<"dispatch", k>>
      \/ \E s \in 0..(Depth["sp"] - 1) : p = <<"sp", s>>
      \/ \E s \in 0..(Depth["sfu"] - 1) : p = <<"sfu", s>>
      \/ \E s \in 0..2 : p = <<"shared", s>>
      \/ \E i \in DOMAIN exwb : p = <<"ex_wb", i>>
  BY PlacesAre
<1>6. ASSUME NEW k \in Kinds, p = <<"id_oc", k>> \/ p = <<"cu", k>> \/ p = <<"oc_ex", k>>
      PROVE  Content(p) \in {None} \cup Running
  <2>1. CASE p = <<"id_oc", k>>
    BY <1>1, <2>1, ContentAt
  <2>2. CASE p = <<"cu", k>>
    BY <1>1, <2>2, ContentAt
  <2>3. CASE p = <<"oc_ex", k>>
    BY <1>1, <2>3, ContentAt
  <2>4. QED
    BY <1>6, <2>1, <2>2, <2>3
<1>7. ASSUME NEW k \in Kinds, p = <<"dispatch", k>> PROVE Content(p) \in {None} \cup Running
  <2>1. Content(p) = IF k = "mem" THEN disp ELSE unit[k].disp
    BY <1>7, ContentAt
  <2>2. k = "mem" \/ k \in Alu
    BY DEF Kinds, Alu
  <2>3. QED
    BY <1>2, <1>3, <2>1, <2>2
<1>8. ASSUME NEW s \in 0..(Depth["sp"] - 1), p = <<"sp", s>> PROVE Content(p) \in {None} \cup Running
  <2>1. Content(p) = unit["sp"].stage[s] /\ "sp" \in Alu
    BY <1>8, ContentAt DEF Alu
  <2>2. QED
    BY <1>2, <2>1
<1>9. ASSUME NEW s \in 0..(Depth["sfu"] - 1), p = <<"sfu", s>> PROVE Content(p) \in {None} \cup Running
  <2>1. Content(p) = unit["sfu"].stage[s] /\ "sfu" \in Alu
    BY <1>9, ContentAt DEF Alu
  <2>2. QED
    BY <1>2, <2>1
<1>10. ASSUME NEW s \in 0..2, p = <<"shared", s>> PROVE Content(p) \in {None} \cup Running
  BY <1>3, <1>10, ContentAt
<1>11. ASSUME NEW i \in DOMAIN exwb, p = <<"ex_wb", i>> PROVE Content(p) \in {None} \cup Running
  BY <1>4, <1>11, ContentAt
<1>12. QED
  BY <1>5, <1>6, <1>7, <1>8, <1>9, <1>10, <1>11

\* A warp's instructions in flight, those of them in F.
LEMMA FlightCount ==
  ASSUME PipeInv, LsuTypes, NEW w \in Warps, NEW F, F \subseteq OfWarp(w), NEW H,
         H = {p \in InFlight(w) : Content(p) \in F}
  PROVE  IsFiniteSet(H) /\ Cardinality(H) = Inside(F)
<1>1. exwb \in Seq(Running) /\ Len(exwb) <= 1
  BY DEF PipeInv, AluTypes, BusSound
<1>2. \A x \in F : x.w = w
  BY DEF OfWarp
<1>3. H = {p \in Places : Content(p) \in F}
  BY <1>2 DEF InFlight
<1>4. QED
  BY <1>1, <1>3, PlacesCount

\* All of them are instructions of the warp.
LEMMA FlightOf ==
  ASSUME PipeInv, LsuTypes, NEW w \in Warps
  PROVE  /\ \A p \in InFlight(w) : Content(p) \in OfWarp(w)
         /\ IsFiniteSet(InFlight(w)) /\ Cardinality(InFlight(w)) = Inside(OfWarp(w))
<1>1. None.w # w
  BY DEF None, Warps
<1>2. ASSUME NEW p \in InFlight(w) PROVE Content(p) \in OfWarp(w)
  <2>1. p \in Places /\ Content(p).w = w
    BY DEF InFlight
  <2>2. Content(p) \in {None} \cup Running
    BY <2>1, PlaceHolds
  <2>3. QED
    BY <1>1, <2>1, <2>2 DEF OfWarp
<1>3. PICK F, H : F = OfWarp(w) /\ H = {p \in InFlight(w) : Content(p) \in F}
  OBVIOUS
<1>4. IsFiniteSet(H) /\ Cardinality(H) = Inside(F)
  BY <1>3, FlightCount
<1>5. H = InFlight(w)
  BY <1>2, <1>3
<1>6. QED
  BY <1>2, <1>3, <1>4, <1>5

\* There is one that writes r just when the count of its writers is not 0.
LEMMA FlightWrites ==
  ASSUME PipeInv, LsuTypes, NEW w \in Warps, NEW r
  PROVE  Inside(Writers(w, r)) \in Nat
         /\ (Inside(Writers(w, r)) > 0 <=> \E p \in InFlight(w) : r \in Range(P(Content(p)).out))
<1>1. PICK F, H : F = Writers(w, r) /\ H = {p \in InFlight(w) : Content(p) \in F}
  OBVIOUS
<1>2. F \subseteq OfWarp(w)
  BY <1>1 DEF Writers
<1>3. IsFiniteSet(H) /\ Cardinality(H) = Inside(F)
  BY <1>1, <1>2, FlightCount
<1>4. H = {} <=> Cardinality(H) = 0
  BY <1>3, FS_EmptySet
<1>5. Cardinality(H) \in Nat
  BY <1>3, FS_CardinalityType
<1>6. \A p : p \in H <=> p \in InFlight(w) /\ r \in Range(P(Content(p)).out)
  <2>1. \A p \in InFlight(w) : Content(p) \in OfWarp(w)
    BY FlightOf
  <2>2. \A x : x \in F <=> x \in OfWarp(w) /\ r \in Range(P(x).out)
    BY <1>1 DEF Writers
  <2>3. QED
    BY <1>1, <2>1, <2>2
<1>7. Inside(F) > 0 <=> H # {}
  BY <1>3, <1>4, <1>5
<1>8. QED
  BY <1>1, <1>3, <1>5, <1>6, <1>7

\* m_inst_in_pipeline, as the run states it.
LEMMA InPipeCounted == CountInv => InPipeExact
<1> SUFFICES ASSUME CountInv, NEW w \in Warps
             PROVE  inPipe[w] = Cardinality(Buffered(w)) + Cardinality(InFlight(w))
  BY DEF InPipeExact
<1>1. Cardinality(InFlight(w)) = Inside(OfWarp(w))
  BY FlightOf DEF CountInv
<1>2. QED
  BY <1>1 DEF CountInv, CountExact

\* m_pending_writes, as the run states it.
LEMMA PendingCounted == CountInv => PendingExact
<1> SUFFICES ASSUME CountInv, NEW w \in Warps, NEW r \in Regs
             PROVE  pw[w][r] = At(disp, w, Into(r)) * left + Outstanding(w, Into(r))
  BY DEF PendingExact
<1>1. PICK S : S = Into(r)
  OBVIOUS
<1>2. LsuTypes /\ pw[w][r] = Coming(w, S)
  BY <1>1 DEF CountInv, PendingSum
<1>3. At(disp, w, S) * left + Outstanding(w, S) = Coming(w, S)
  BY <1>2, ComingParts
<1>4. QED
  BY <1>1, <1>2, <1>3

\* The scoreboard, as the run states it.
LEMMA ReservedOwned == CountInv => ReservedExact
<1> SUFFICES ASSUME CountInv, NEW w \in Warps
             PROVE  reserved[w] = (UNION {Range(P(Content(p)).out) : p \in InFlight(w)})
                                  \cup {r \in Regs : pw[w][r] > 0}
                                  \cup (IF nextWb.w = w /\ Shared(nextWb) THEN Range(P(nextWb).out) ELSE {})
  BY DEF ReservedExact
<1>1. PipeInv /\ LsuTypes /\ PwTypes /\ OwnedOnce /\ reserved[w] \subseteq Regs /\ setup \in Setups
  BY DEF CountInv, CountTypes, PipeInv, FrontTypes
<1> DEFINE U == UNION {Range(P(Content(p)).out) : p \in InFlight(w)}
           V == {r \in Regs : pw[w][r] > 0}
           X == IF nextWb.w = w /\ Shared(nextWb) THEN Range(P(nextWb).out) ELSE {}
<1>2. \A r : r \in U <=> \E p \in InFlight(w) : r \in Range(P(Content(p)).out)
  OBVIOUS
<1>3. \A r : r \in V <=> r \in Regs /\ pw[w][r] > 0
  OBVIOUS
<1>4. \A r : r \in X <=> nextWb \in Writers(w, r) /\ Shared(nextWb)
  <2>1. nextWb.w = w => nextWb \in Running
    <3>1. None.w # w
      BY DEF None, Warps
    <3>2. nextWb \in SharedLoads \cup SentLoads \cup {None}
      BY <1>1 DEF LsuTypes
    <3>3. QED
      BY <3>1, <3>2 DEF SharedLoads, SentLoads
  <2>2. ASSUME NEW r PROVE nextWb \in Writers(w, r) <=> nextWb.w = w /\ r \in Range(P(nextWb).out)
    BY <2>1 DEF Writers, OfWarp
  <2>3. QED
    BY <2>2
<1>5. ASSUME NEW r, r \in U \/ r \in X PROVE r \in Regs
  <2>1. \A x \in OfWarp(w) : x.pc \in DOMAIN Program /\ P(x) = Program[x.pc]
    BY DEF OfWarp, Running, P
  <2>2. PICK x \in OfWarp(w) : r \in Range(P(x).out)
    BY <1>1, <1>2, <1>4, <1>5, FlightOf DEF Writers
  <2>3. Range(Program[x.pc].out) \subseteq Regs
    BY <1>1, <2>1, ProgramFacts
  <2>4. QED
    BY <2>1, <2>2, <2>3
<1> HIDE DEF U, V, X
<1>6. ASSUME NEW r \in Regs PROVE r \in reserved[w] <=> r \in U \/ r \in V \/ r \in X
  <2>1. PICK a, b, c, n : /\ a = (nextWb \in Writers(w, r) /\ Shared(nextWb))
                          /\ b = (pw[w][r] > 0 /\ ~Sends(w, r)) /\ n = Inside(Writers(w, r))
                          /\ c = (r \in reserved[w])
    OBVIOUS
  <2>2. n + (IF a THEN 1 ELSE 0) + (IF b THEN 1 ELSE 0) = (IF c THEN 1 ELSE 0)
    BY <1>1, <2>1 DEF OwnedOnce, Owners
  <2>3. n \in Nat /\ (n > 0 <=> r \in U)
    BY <1>1, <1>2, <2>1, FlightWrites
  <2>4. Sends(w, r) => n > 0
    <3>1. Sends(w, r) => disp \in Writers(w, r)
      BY DEF Sends
    <3>2. disp \in Writers(w, r) => Inside(Writers(w, r)) >= 1
      BY InsideHas
    <3>3. QED
      BY <2>1, <2>3, <3>1, <3>2
  <2>5. c <=> n > 0 \/ a \/ b
    BY <2>2, <2>3
  <2>6. pw[w][r] > 0 => n > 0 \/ b
    BY <2>1, <2>4
  <2>7. b => pw[w][r] > 0
    BY <2>1
  <2>8. (r \in V <=> pw[w][r] > 0) /\ (r \in X <=> a)
    BY <1>3, <1>4, <2>1
  <2>9. r \in reserved[w] <=> c
    BY <2>1
  <2>10. QED
    BY <2>3, <2>5, <2>6, <2>7, <2>8, <2>9
<1>7. \A r : r \in reserved[w] <=> r \in U \/ r \in V \/ r \in X
  BY <1>1, <1>3, <1>5, <1>6
<1>8. reserved[w] = U \cup V \cup X
  BY <1>7
<1>9. QED
  BY <1>8 DEF U, V, X

\* None of a sequence's elements counts.
LEMMA FromNothing ==
  ASSUME NEW S, NEW q \in Seq(S), NEW w, NEW pcs
  PROVE  From(q, w, pcs) = 0 <=> \A i \in 1..Len(q) : ~(q[i].w = w /\ q[i].pc \in pcs)
<1>1. PICK A : A = {i \in 1..Len(q) : q[i].w = w /\ q[i].pc \in pcs}
  OBVIOUS
<1>2. IsFiniteSet(A) /\ From(q, w, pcs) = Cardinality(A)
  BY <1>1, FromFinite
<1>3. A = {} <=> Cardinality(A) = 0
  BY <1>2, FS_EmptySet
<1>4. QED
  BY <1>1, <1>2, <1>3

\* No access of any of the loads: no access at all.
LEMMA ComingNone ==
  ASSUME LsuTypes, NEW w \in Warps, NEW pcs, \A c \in pcs : Coming(w, {c}) = 0
  PROVE  Coming(w, pcs) = 0
<1>1. /\ l1ready \in Seq(SentLoads) /\ IsFiniteSet(loads)
      /\ respq \in Seq([w : Warps, pc : Loads \cup StorePcs, k : Nat])
  BY DEF LsuTypes
<1>2. ASSUME NEW c \in pcs, NEW one, one = {c}
      PROVE  /\ ToSend(disp, left, w, one) = 0 /\ InMemory(loads, w, one) = 0 /\ From(respq, w, one) = 0
             /\ From(l1ready, w, one) = 0 /\ At(nextGlobal, w, one) = 0 /\ At(nextWb, w, one) = 0
  <2>1. Coming(w, one) = 0
    BY <1>2
  <2>2. /\ ToSend(disp, left, w, one) \in Nat /\ InMemory(loads, w, one) \in Nat /\ From(respq, w, one) \in Nat
        /\ From(l1ready, w, one) \in Nat /\ At(nextGlobal, w, one) \in Nat /\ At(nextWb, w, one) \in Nat
        /\ Coming(w, one) = ToSend(disp, left, w, one) + InMemory(loads, w, one) + From(respq, w, one)
                            + From(l1ready, w, one) + At(nextGlobal, w, one) + At(nextWb, w, one)
    BY ComingParts
  <2>3. PICK m, a, b, d, e, f, g :
          /\ m = Coming(w, one) /\ a = ToSend(disp, left, w, one) /\ b = InMemory(loads, w, one)
          /\ d = From(respq, w, one) /\ e = From(l1ready, w, one)
          /\ f = At(nextGlobal, w, one) /\ g = At(nextWb, w, one)
    OBVIOUS
  <2>4. a \in Nat /\ b \in Nat /\ d \in Nat /\ e \in Nat /\ f \in Nat /\ g \in Nat
    BY <2>2, <2>3
  <2>5. m = 0 /\ m = a + b + d + e + f + g
    BY <2>1, <2>2, <2>3
  <2>6. a = 0 /\ b = 0 /\ d = 0 /\ e = 0 /\ f = 0 /\ g = 0
    BY ONLY <2>4, <2>5
  <2>7. QED
    BY <2>3, <2>6
<1>3. ToSend(disp, left, w, pcs) = 0
  <2>1. CASE disp.w = w /\ disp.pc \in pcs
    <3>1. PICK c, one : c = disp.pc /\ one = {c}
      OBVIOUS
    <3>2. ToSend(disp, left, w, one) = 0
      BY <1>2, <2>1, <3>1
    <3>3. left = 0
      BY <2>1, <3>1, <3>2 DEF ToSend
    <3>4. QED
      BY <3>3 DEF ToSend
  <2>2. QED
    BY <2>1 DEF ToSend
<1>4. ASSUME NEW x, \A c \in pcs : \A one : one = {c} => At(x, w, one) = 0 PROVE At(x, w, pcs) = 0
  <2>1. CASE x.w = w /\ x.pc \in pcs
    <3>1. PICK c, one : c = x.pc /\ one = {c}
      OBVIOUS
    <3>2. At(x, w, one) = 0
      BY <1>4, <2>1, <3>1
    <3>3. QED
      BY <2>1, <3>1, <3>2 DEF At
  <2>2. QED
    BY <2>1 DEF At
<1>5. ASSUME NEW S, NEW q \in Seq(S), \A c \in pcs : \A one : one = {c} => From(q, w, one) = 0
      PROVE  From(q, w, pcs) = 0
  <2>1. ASSUME NEW i \in 1..Len(q), q[i].w = w, q[i].pc \in pcs PROVE FALSE
    <3>1. PICK c, one : c = q[i].pc /\ one = {c}
      OBVIOUS
    <3>2. From(q, w, one) = 0
      BY <1>5, <2>1, <3>1
    <3>3. \A j \in 1..Len(q) : ~(q[j].w = w /\ q[j].pc \in one)
      BY <3>2, FromNothing
    <3>4. QED
      BY <2>1, <3>1, <3>3
  <2>2. QED
    BY <2>1, FromNothing
<1>6. InMemory(loads, w, pcs) = 0
  <2>1. ASSUME NEW a \in loads, a.w = w, a.pc \in pcs PROVE FALSE
    <3>1. PICK c : c = a.pc
      OBVIOUS
    <3>2. \A b \in loads : ~(b.w = w /\ b.pc \in {c})
      BY <2>1, <3>1, NothingComing
    <3>3. QED
      BY <2>1, <3>1, <3>2
  <2>2. {a \in loads : a.w = w /\ a.pc \in pcs} = {}
    BY <2>1
  <2>3. QED
    BY <2>2, FS_EmptySet DEF InMemory
<1>7. From(respq, w, pcs) = 0 /\ From(l1ready, w, pcs) = 0
  BY <1>1, <1>2, <1>5
<1>8. At(nextGlobal, w, pcs) = 0 /\ At(nextWb, w, pcs) = 0
  BY <1>2, <1>4
<1>9. QED
  BY <1>3, <1>6, <1>7, <1>8 DEF Coming

\* The types, as the run states them.
LEMMA CountedTypes == CountInv => TypeOK
<1> SUFFICES ASSUME CountInv PROVE TypeOK
  OBVIOUS
<1>1. PipeInv /\ FrontTypes /\ AluTypes /\ LsuTypes /\ OtherTypes /\ CountTypes /\ PwTypes /\ setup \in Setups
  BY DEF CountInv, PipeInv, FrontTypes
<1>2. ASSUME NEW w \in Warps
      PROVE  /\ next_pc[w] \in 1..(Len(Program) + 1) /\ top[w] \in 1..(Len(Program) + 1)
             /\ trips[w] \in 0..MaxTrips /\ nxt[w] \in {1, 2}
             /\ \A s \in {1, 2} : ibuf[w][s] \in {0} \cup DOMAIN Program
             /\ {inPipe[w], stores[w], acks[w]} \subseteq Nat
             /\ \A r \in Regs : pw[w][r] \in Nat
             /\ reserved[w] \subseteq Regs /\ longop[w] \subseteq Regs
  <2>1. next_pc[w] \in 1..(Len(Program) + 1) /\ top[w] \in 1..(Len(Program) + 1) /\ nxt[w] \in {1, 2}
    BY <1>1 DEF FrontTypes
  <2>2. \A s \in {1, 2} : ibuf[w][s] \in {0} \cup DOMAIN Program
    <3>1. ibuf \in [Warps -> [{1, 2} -> {0} \cup DOMAIN Program]]
      BY <1>1 DEF FrontTypes
    <3>2. QED
      BY <3>1
  <2>3. trips[w] \in 0..MaxTrips
    BY <1>1 DEF OtherTypes
  <2>4. inPipe[w] \in Nat
    <3>1. inPipe[w] = Cardinality(Buffered(w)) + Inside(OfWarp(w))
      BY DEF CountInv, CountExact
    <3>2. Cardinality(Buffered(w)) \in Nat
      BY BufferedNow DEF Slot
    <3>3. Inside(OfWarp(w)) \in Nat
      BY InsideNat
    <3>4. QED
      BY <3>1, <3>2, <3>3
  <2>5. stores[w] \in Nat /\ acks[w] \in Nat
    <3>1. stores[w] = acks[w] + From(respq, w, StorePcs)
      BY DEF CountInv, StoresExact
    <3>2. acks[w] \in Nat /\ respq \in Seq([w : Warps, pc : Loads \cup StorePcs, k : Nat])
      BY <1>1 DEF LsuTypes
    <3>3. From(respq, w, StorePcs) \in Nat
      BY <3>2, FromFinite
    <3>4. QED
      BY <3>1, <3>2, <3>3
  <2>6. \A r \in Regs : pw[w][r] \in Nat
    BY <1>1, ComingParts DEF CountInv, PendingSum
  <2>7. reserved[w] \subseteq Regs /\ longop[w] \subseteq Regs
    BY <1>1 DEF CountTypes
  <2>8. QED
    BY <2>1, <2>2, <2>3, <2>4, <2>5, <2>6, <2>7
<1>3. \A p \in Places : Content(p) \in Inst
  BY <1>1, PlaceHolds DEF Inst, Running
<1>4. {fbuf, nextWb, nextGlobal} \subseteq Inst
  <2>1. fbuf \in Inst
    BY <1>1 DEF FrontTypes
  <2>2. nextWb \in SharedLoads \cup SentLoads \cup {None} /\ nextGlobal \in SentLoads \cup {None}
    BY <1>1 DEF LsuTypes
  <2>3. SharedLoads \subseteq Inst /\ SentLoads \subseteq Inst /\ None \in Inst
    BY DEF SharedLoads, SentLoads, Running, Inst
  <2>4. QED
    BY <2>1, <2>2, <2>3
<1>5. /\ phase \in {"writeback", "sp", "sfu", "lsu", "collect", "response", "dispatch", "oc_ex", "issue", "decode", "fetch"}
      /\ turn \in Scheds /\ (turn > 0 => phase = "issue")
      /\ written \subseteq Banks /\ pri \in 0..(Square - 1) /\ arb \in 0..4
      /\ Len(respq) <= Responses
  BY <1>1 DEF OtherTypes, FrontTypes
<1>6. QED
  BY <1>2, <1>3, <1>4, <1>5 DEF TypeOK

\* Nothing of a warp that has been reclaimed is left.
LEMMA ReclaimedEmpty == CountInv => ReclaimClean
<1> SUFFICES ASSUME CountInv, NEW w \in Warps, exited[w]
             PROVE  /\ done[w] /\ InFlight(w) = {} /\ reserved[w] = {} /\ w \notin atBar
                    /\ Outstanding(w, Loads) = 0
                    /\ stores[w] = 0 /\ acks[w] = 0
  BY DEF ReclaimClean
<1>1. PipeInv /\ LsuTypes /\ PwTypes /\ PendingSum /\ OwnedOnce /\ setup \in Setups
  BY DEF CountInv, PipeInv, FrontTypes
<1>2. done[w] /\ inPipe[w] = 0 /\ reserved[w] = {} /\ stores[w] = 0
  BY DEF CountInv, Reclaimed
<1>3. Idle(w)
  BY <1>2 DEF Idle
<1>4. Inside(OfWarp(w)) = 0 /\ acks[w] = 0 /\ (disp # None => disp.w # w)
  BY <1>3, NothingLeft
<1>5. w \notin atBar
  BY <1>2 DEF CountInv, BufferSound
<1>6. InFlight(w) = {}
  <2>1. IsFiniteSet(InFlight(w)) /\ Cardinality(InFlight(w)) = 0
    BY <1>1, <1>4, FlightOf
  <2>2. QED
    BY <2>1, FS_EmptySet
<1>7. \A r \in Regs : Coming(w, Into(r)) = 0
  <2> SUFFICES ASSUME NEW r \in Regs PROVE Coming(w, Into(r)) = 0
    OBVIOUS
  <2>1. ~Sends(w, r)
    BY <1>4, NoneNotRunning DEF Sends, Writers, OfWarp
  <2>2. Owners(w, r) = 0
    BY <1>1, <1>2 DEF OwnedOnce
  <2>3. Inside(Writers(w, r)) \in Nat
    BY InsideNat
  <2>4. PICK n, m : n = Inside(Writers(w, r)) /\ m = (IF nextWb \in Writers(w, r) /\ Shared(nextWb) THEN 1 ELSE 0)
    OBVIOUS
  <2>5. n \in Nat /\ m \in Nat
    BY <2>3, <2>4
  <2>6. n + m + (IF pw[w][r] > 0 /\ ~Sends(w, r) THEN 1 ELSE 0) = 0
    BY <2>2, <2>4 DEF Owners
  <2>7. ~(pw[w][r] > 0)
    <3>1. ~(pw[w][r] > 0 /\ ~Sends(w, r))
      BY <2>5, <2>6
    <3>2. QED
      BY <2>1, <3>1
  <2>8. pw[w][r] = Coming(w, Into(r)) /\ Coming(w, Into(r)) \in Nat
    BY <1>1, ComingParts DEF PendingSum
  <2>9. QED
    BY <2>7, <2>8
<1>8. Coming(w, Loads) = 0
  <2>1. \A c \in Loads : Coming(w, {c}) = 0
    <3> SUFFICES ASSUME NEW c \in Loads PROVE Coming(w, {c}) = 0
      OBVIOUS
    <3>1. c \in DOMAIN Program /\ Program[c].op = "load"
      BY DEF Loads
    <3>2. Program[c].out # <<>> /\ Program[c].out \in Seq(Nat) /\ Range(Program[c].out) \subseteq Regs
      BY <1>1, <3>1, ProgramFacts DEF Instruction
    <3>3. PICK r : r \in Range(Program[c].out)
      <4>1. PICK s : s = Program[c].out
        OBVIOUS
      <4>2. s \in Seq(Nat) /\ s # <<>>
        BY <3>2, <4>1
      <4>3. 1 \in DOMAIN s
        BY <4>2
      <4>4. s[1] \in Range(s)
        BY <4>3 DEF Range
      <4>5. QED
        BY <4>1, <4>4
    <3>4. r \in Regs /\ c \in Into(r)
      BY <3>2, <3>3 DEF Into
    <3>5. Coming(w, Into(r)) = 0
      BY <1>7, <3>4
    <3>6. QED
      BY <1>1, <3>4, <3>5, NothingComing
  <2>2. QED
    BY <1>1, <2>1, ComingNone
<1>9. Outstanding(w, Loads) = 0
  <2>1. PICK S : S = Loads
    OBVIOUS
  <2>2. /\ ToSend(disp, left, w, S) \in Nat /\ Coming(w, S) = 0
        /\ At(disp, w, S) * left + Outstanding(w, S) = Coming(w, S)
    BY <1>1, <1>8, <2>1, ComingParts
  <2>3. At(disp, w, S) = 0
    <3>1. disp = None \/ disp.w # w
      BY <1>4
    <3>2. None.w # w
      BY DEF None, Warps
    <3>3. QED
      BY <3>1, <3>2 DEF At
  <2>4. Outstanding(w, S) \in Nat /\ left \in Nat
    <3>1. /\ InMemory(loads, w, S) \in Nat /\ From(respq, w, S) \in Nat
          /\ From(l1ready, w, S) \in Nat /\ At(nextGlobal, w, S) \in Nat /\ At(nextWb, w, S) \in Nat
      BY <1>1, ComingParts
    <3>2. QED
      BY <1>1, <3>1 DEF Outstanding, InMemory, LsuTypes
  <2>5. QED
    BY <2>1, <2>2, <2>3, <2>4
<1>10. QED
  BY <1>2, <1>4, <1>5, <1>6, <1>9

-----------------------------------------------------------------------------
(* CPL's count.                                                            *)

\* The instructions that tw_warp_complete() will be told of.
ArithCounted == \A w \in Warps : Arithmetic(w) = Inside(ArithOf(w))

\* They are counted by place.
LEMMA ArithmeticCounted == CountInv => ArithCounted
<1> SUFFICES ASSUME CountInv, NEW w \in Warps PROVE Arithmetic(w) = Inside(ArithOf(w))
  BY DEF ArithCounted
<1>1. PICK F, H : F = ArithOf(w) /\ H = {p \in InFlight(w) : Content(p) \in F}
  OBVIOUS
<1>2. F \subseteq OfWarp(w) /\ PipeInv /\ LsuTypes
  BY <1>1 DEF ArithOf, CountInv
<1>3. Cardinality(H) = Inside(F)
  BY <1>1, <1>2, FlightCount
<1>4. \A p \in InFlight(w) : Content(p) \in OfWarp(w)
  BY <1>2, FlightOf
<1>5. \A p \in InFlight(w) : Content(p) \in F <=> KindOf(P(Content(p)).op) # "mem"
  BY <1>1, <1>4 DEF ArithOf
<1>6. H = {p \in InFlight(w) : KindOf(P(Content(p)).op) # "mem"}
  BY <1>1, <1>5
<1>7. QED
  BY <1>1, <1>3, <1>6 DEF Arithmetic

\* What a step adds to CPL's account for good: a memory instruction of w issued.
Charged(w) == IF idoc'["mem"].w = w /\ idoc["mem"] = None THEN 1 ELSE 0
Account(w) == nInst'[w] + top'[w] - Arithmetic(w)' = nInst[w] + top[w] - Arithmetic(w) + Charged(w)
Accounted == \A w \in Warps : \A F \in SUBSET Running :
  F = ArithOf(w) => nInst'[w] + top'[w] - Inside(F)' = nInst[w] + top[w] - Inside(F) + Charged(w)

\* A step that issues nothing and leaves the arithmetic pipelines as full as they were.
LEMMA AccountSame ==
  ASSUME PipeInv, CountTypes, nInst' = nInst, top' = top, idoc'["mem"] \in {idoc["mem"], None},
         \A w \in Warps : \A F \in SUBSET Running : F = ArithOf(w) => Inside(F)' = Inside(F)
  PROVE  Accounted
<1> SUFFICES ASSUME NEW w \in Warps, NEW F \in SUBSET Running, F = ArithOf(w)
             PROVE  nInst'[w] + top'[w] - Inside(F)' = nInst[w] + top[w] - Inside(F) + Charged(w)
  BY DEF Accounted
<1>1. nInst[w] \in Int /\ top[w] \in Int
  BY DEF CountTypes, PipeInv, FrontTypes
<1>2. Inside(F) \in Nat
  BY InsideNat
<1>3. Charged(w) = 0
  <2>1. None.w # w
    BY DEF None, Warps
  <2>2. QED
    BY <2>1 DEF Charged
<1>4. QED
  BY <1>1, <1>2, <1>3

\* Memory instructions are not in the arithmetic pipelines.
LEMMA NotArith ==
  ASSUME setup \in Setups, LsuTypes
  PROVE  /\ \A w, F : F = ArithOf(w) => F \in SUBSET Running
         /\ disp # None => \A w : In(disp, ArithOf(w)) = 0
         /\ \A x \in SharedLoads : \A w : In(x, ArithOf(w)) = 0
<1>1. \A w : ArithOf(w) \subseteq Running
  BY DEF ArithOf, OfWarp
<1>2. \A x : KindOf(P(x).op) = "mem" => \A w : In(x, ArithOf(w)) = 0
  BY DEF In, ArithOf
<1>3. disp # None => KindOf(P(disp).op) = "mem"
  BY DEF LsuTypes, Of
<1>4. \A x \in SharedLoads : KindOf(P(x).op) = "mem"
  BY LoadsRun DEF KindOf
<1>5. QED
  BY <1>1, <1>2, <1>3, <1>4

\* The stages that issue and complete nothing.
LEMMA StageAccount ==
  ASSUME PipeInv, LsuTypes, CountTypes,
         \/ ExecuteAlu("sp") \/ ExecuteAlu("sfu") \/ CollectorStep \/ LsuResponse \/ LsuIssue
         \/ Decode \/ Fetch \/ Memory
  PROVE  Accounted
<1>1. setup \in Setups /\ AluTypes
  BY DEF PipeInv, FrontTypes
<1>2. ASSUME NEW k \in Alu, ExecuteAlu(k) PROVE Accounted
  <2>1. nInst' = nInst /\ top' = top /\ idoc' = idoc
    BY <1>2 DEF ExecuteAlu, warpVars
  <2>2. QED
    BY <1>1, <1>2, <2>1, AluMoves, AccountSame
<1>3. CASE CollectorStep
  <2>1. nInst' = nInst /\ top' = top /\ idoc'["mem"] \in {idoc["mem"], None}
    BY <1>3 DEF CollectorStep, warpVars, Kinds
  <2>2. QED
    BY <1>1, <1>3, <2>1, CollectorMoves, AccountSame
<1>4. CASE LsuResponse
  <2>1. nInst' = nInst /\ top' = top /\ idoc' = idoc
    BY <1>4 DEF LsuResponse, warpVars
  <2>2. QED
    BY <1>1, <1>4, <2>1, ResponseMoves, AccountSame
<1>5. CASE LsuIssue
  <2>1. nInst' = nInst /\ top' = top /\ idoc' = idoc
    BY <1>5 DEF LsuIssue, warpVars
  <2>2. QED
    BY <1>1, <1>5, <2>1, LsuIssueMoves, AccountSame
<1>6. CASE Decode
  <2>1. nInst' = nInst /\ top' = top /\ idoc' = idoc /\ UNCHANGED <<idoc, cu, ocex, unit, exwb, disp, shpipe>>
    BY <1>6 DEF Decode, ocVars, aluVars, lsuVars, wbVars
  <2>2. QED
    BY <1>1, <2>1, NothingMoves, AccountSame
<1>7. CASE Fetch
  <2>1. nInst' = nInst /\ top' = top /\ idoc' = idoc /\ UNCHANGED <<idoc, cu, ocex, unit, exwb, disp, shpipe>>
    BY <1>7 DEF Fetch, warpVars, ocVars, aluVars, lsuVars, wbVars
  <2>2. QED
    BY <1>1, <2>1, NothingMoves, AccountSame
<1>8. CASE Memory
  <2>1. nInst' = nInst /\ top' = top /\ idoc' = idoc /\ UNCHANGED <<idoc, cu, ocex, unit, exwb, disp, shpipe>>
    BY <1>8 DEF Memory, AnswerLoad, AnswerStore, AnswerFetch, Arrives, warpVars, ocVars, aluVars, lsuVars, wbVars
  <2>2. QED
    BY <1>1, <2>1, NothingMoves, AccountSame
<1>9. "sp" \in Alu /\ "sfu" \in Alu
  BY DEF Alu
<1>10. QED
  BY <1>2, <1>3, <1>4, <1>5, <1>6, <1>7, <1>8, <1>9

\* Memory instructions leave the load/store unit without a word to CPL.
LEMMA LsuAccount ==
  ASSUME PipeInv, LsuTypes, arb \in 0..4, CountTypes, LsuWriteback \/ LsuDispatch
  PROVE  Accounted
<1>1. setup \in Setups
  BY DEF PipeInv, FrontTypes
<1>2. nInst' = nInst /\ top' = top /\ idoc' = idoc
  <2>1. CASE LsuWriteback
    BY <2>1 DEF LsuWriteback, warpVars
  <2>2. CASE LsuDispatch
    BY <2>2, DispatchCases DEF warpVars
  <2>3. QED
    BY <2>1, <2>2
<1>3. \/ \A F \in SUBSET Running : Inside(F)' = Inside(F)
      \/ \E x : /\ \A w : In(x, ArithOf(w)) = 0
                /\ \A F \in SUBSET Running : Inside(F)' = Inside(F) - In(x, F)
  <2>1. CASE LsuWriteback
    <3>1. CASE nextWb' \in SharedLoads /\ \A F \in SUBSET Running : Inside(F)' = Inside(F) - In(nextWb', F)
      <4>1. PICK x : x = nextWb'
        OBVIOUS
      <4>2. x \in SharedLoads /\ \A F \in SUBSET Running : Inside(F)' = Inside(F) - In(x, F)
        BY <3>1, <4>1
      <4>3. \A w : In(x, ArithOf(w)) = 0
        BY <1>1, <4>2, NotArith
      <4>4. QED
        BY <4>2, <4>3
    <3>2. QED
      BY <1>1, <2>1, <3>1, LsuWritebackLeaves
  <2>2. CASE LsuDispatch
    <3>1. CASE disp \in Running /\ \A F \in SUBSET Running : Inside(F)' = Inside(F) - In(disp, F)
      <4>1. PICK x : x = disp
        OBVIOUS
      <4>2. x # None /\ \A F \in SUBSET Running : Inside(F)' = Inside(F) - In(x, F)
        BY <3>1, <4>1, NoneNotRunning
      <4>3. \A w : In(x, ArithOf(w)) = 0
        BY <1>1, <4>1, <4>2, NotArith
      <4>4. QED
        BY <4>2, <4>3
    <3>2. QED
      BY <1>1, <2>2, <3>1, DispatchMoves
  <2>3. QED
    BY <2>1, <2>2
<1>4. ASSUME NEW w \in Warps, NEW F \in SUBSET Running, F = ArithOf(w) PROVE Inside(F)' = Inside(F)
  <2>1. CASE \A G \in SUBSET Running : Inside(G)' = Inside(G)
    BY <2>1
  <2>2. ASSUME NEW x, \A v : In(x, ArithOf(v)) = 0, \A G \in SUBSET Running : Inside(G)' = Inside(G) - In(x, G)
        PROVE  Inside(F)' = Inside(F)
    <3>1. In(x, F) = 0 /\ Inside(F) \in Nat
      BY <1>4, <2>2, InsideNat
    <3>2. QED
      BY <2>2, <3>1
  <2>3. QED
    BY <1>3, <2>1, <2>2
<1>5. QED
  BY <1>2, <1>4, AccountSame

\* tw_warp_complete() is told of what writeback() takes out.
LEMMA WritebackAccount ==
  ASSUME PipeInv, LsuTypes, CountTypes, ShaderWriteback
  PROVE  Accounted
<1>1. setup \in Setups /\ top' = top /\ idoc' = idoc /\ nInst \in [Warps -> Int] /\ top \in [Warps -> Int]
  BY DEF PipeInv, FrontTypes, ShaderWriteback, CountTypes
<1>2. CASE exwb = <<>>
  <2>1. nInst' = nInst
    BY <1>2 DEF ShaderWriteback
  <2>2. QED
    BY <1>1, <1>2, <2>1, WritebackMoves, AccountSame
<1>3. CASE exwb # <<>>
  <2>1. PICK x : x = exwb[1]
    OBVIOUS
  <2>2. x \in Running /\ x.w \in Warps /\ \A F \in SUBSET Running : Inside(F)' = Inside(F) - In(x, F)
    BY <1>3, <2>1, WritebackMoves DEF Running
  <2>3. nInst' = [nInst EXCEPT ![x.w] = @ - 1]
    BY <1>3, <2>1 DEF ShaderWriteback
  <2>4. KindOf(P(x).op) # "mem"
    <3>1. exwb \in Seq(Running)
      BY DEF PipeInv, AluTypes
    <3>2. 1 \in DOMAIN exwb
      BY <1>3, <3>1
    <3>3. QED
      BY <2>1, <3>2 DEF CountTypes
  <2>5. ASSUME NEW w \in Warps, NEW F \in SUBSET Running, F = ArithOf(w)
        PROVE  nInst'[w] + top'[w] - Inside(F)' = nInst[w] + top[w] - Inside(F) + Charged(w)
    <3>1. Charged(w) = 0
      <4>1. None.w # w
        BY DEF None, Warps
      <4>2. QED
        BY <1>1, <4>1 DEF Charged
    <3>2. In(x, F) = IF x.w = w THEN 1 ELSE 0
      BY <2>2, <2>4, <2>5 DEF ArithOf, OfWarp, In
    <3>3. nInst'[w] = nInst[w] - In(x, F)
      BY <1>1, <2>2, <2>3, <3>2
    <3>4. Inside(F) \in Nat /\ Inside(F)' = Inside(F) - In(x, F) /\ In(x, F) \in Nat /\ nInst[w] \in Int /\ top[w] \in Int
      BY <1>1, <2>2, <3>2, InsideNat
    <3>5. QED
      BY <1>1, <3>1, <3>3, <3>4
  <2>6. QED
    BY <2>5 DEF Accounted
<1>4. QED
  BY <1>2, <1>3

\* An instruction issued: CPL's count moves with the warp, and by one.
LEMMA ScheduleAccount ==
  ASSUME PipeInv, LsuTypes, BufferSound, CountTypes, Schedule
  PROVE  Accounted
<1>0. FrontTypes
  BY DEF PipeInv
<1>1. FrontTypes /\ AluTypes /\ setup \in Setups /\ nInst \in [Warps -> Int] /\ top \in [Warps -> Int]
  BY DEF PipeInv, FrontTypes, CountTypes
<1>2. PICK F \in SUBSET Warps : /\ \A v \in F : Hazard(v)
                                /\ Flushes(F) \/ \E w \in Warps : \E npc : IssuesTo(w, npc, F)
  BY <1>1, ScheduleCases
<1>3. CASE Flushes(F)
  <2>1. nInst' = nInst /\ top' = top /\ UNCHANGED <<idoc, cu, ocex, unit, exwb, disp, shpipe>>
    BY <1>1, <1>3, ScheduleCases DEF Flushes, ocVars, aluVars, lsuVars, wbVars
  <2>2. QED
    BY <2>1, NothingMoves, AccountSame
<1>4. ASSUME NEW w \in Warps, NEW npc, IssuesTo(w, npc, F) PROVE Accounted
  <2>1. PICK i, cur : cur = top[w] /\ i = Program[cur]
    OBVIOUS
  <2>2. PICK x, k : x = [w |-> w, pc |-> top[w]] /\ k = KindOf(P(x).op)
    OBVIOUS
  <2>3. /\ x \in Running /\ P(x) = i /\ k \in Kinds /\ idoc[k] = None /\ idoc' = [idoc EXCEPT ![k] = x]
        /\ \A G \in SUBSET Running : Inside(G)' = Inside(G) + In(x, G)
    BY <1>1, <1>4, <2>1, <2>2, IssueEnters
  <2>4. /\ cur \in DOMAIN Program /\ Head1(w) = cur /\ top'[w] = npc
        /\ \A v \in Warps : v # w => top'[v] = top[v] /\ nInst'[v] = nInst[v]
    <3>1. Head1(w) = top[w] /\ top[w] \in DOMAIN Program /\ top'[w] = npc
      <4>1. Head1(w) = top[w] /\ top[w] \in DOMAIN Program
        BY <1>0, <1>4, IssueLeaves
      <4>2. top'[w] = npc
        BY <1>0, <1>4, IssueLeaves
      <4>3. QED
        BY <4>1, <4>2
    <3>2. \A v \in Warps :
              /\ v \in F => ibuf'[v] = <<0, 0>> /\ next_pc'[v] = top[v]
              /\ v # w /\ v \notin F => ibuf'[v] = ibuf[v] /\ next_pc'[v] = next_pc[v]
              /\ v # w => nxt'[v] = nxt[v] /\ done'[v] = done[v] /\ top'[v] = top[v] /\ nInst'[v] = nInst[v]
                          /\ trips'[v] = trips[v] /\ reserved'[v] = reserved[v]
              /\ v \in atBar' => v \in atBar \/ v = w
      BY <1>0, <1>4, IssueLeaves
    <3>3. QED
      BY <2>1, <3>1, <3>2
  <2>5. cur \in Int /\ npc \in Int /\ next_pc[w] = cur /\ (i.op = "exit" => npc = cur + 1)
    <3>1. Program[cur].op = "bra" => Program[cur].target \in DOMAIN Program
      BY <1>1, <2>4, ProgramFacts
    <3>2. DOMAIN Program = 1..Len(Program) /\ Len(Program) \in Nat
      BY <1>1, SetupFacts
    <3>3. npc = cur + 1 \/ (npc \in DOMAIN Program /\ i.op = "bra")
      BY <1>4, <2>1, <3>1 DEF IssuesTo
    <3>4. cur # 0
      BY <2>4, <3>2
    <3>5. next_pc[w] = cur
      BY <2>4, <3>4 DEF BufferSound
    <3>6. QED
      BY <2>4, <3>2, <3>3, <3>5
  <2>6. nInst' = IF i.op = "exit" THEN nInst
                 ELSE [nInst EXCEPT ![w] = tw_warp_issue(@, next_pc[w], tw_find_next_pc(next_pc[w], {npc}))]
    BY <1>4, <2>1 DEF IssuesTo, IssueWarp
  <2>7. PICK n : n = tw_warp_issue(nInst[w], cur, tw_find_next_pc(cur, {npc}))
    OBVIOUS
  <2>8. n = nInst[w] + (cur - npc) + 1
    BY <2>5, <2>7, CplIssue
  <2>9. nInst'[w] + npc = nInst[w] + cur + 1
    <3>1. nInst'[w] = IF i.op = "exit" THEN nInst[w] ELSE n
      BY <1>1, <2>5, <2>6, <2>7
    <3>2. nInst[w] \in Int
      BY <1>1
    <3>3. QED
      BY <2>5, <2>8, <3>1, <3>2
  <2>10. ASSUME NEW v \in Warps, NEW G \in SUBSET Running, G = ArithOf(v)
         PROVE  nInst'[v] + top'[v] - Inside(G)' = nInst[v] + top[v] - Inside(G) + Charged(v)
    <3>1. x.w = w /\ "mem" \in Kinds /\ None.w # v
      BY <2>2 DEF None, Warps, Kinds
    <3>2. In(x, G) = IF v = w /\ k # "mem" THEN 1 ELSE 0
      BY <2>2, <2>3, <2>10, <3>1 DEF ArithOf, OfWarp, In
    <3>3. Charged(v) = IF v = w /\ k = "mem" THEN 1 ELSE 0
      <4>1. idoc \in [Kinds -> Inst]
        BY <1>1 DEF AluTypes
      <4>2. CASE k = "mem"
        <5>1. idoc'["mem"] = x /\ idoc["mem"] = None
          BY <2>3, <3>1, <4>1, <4>2
        <5>2. QED
          BY <3>1, <4>2, <5>1 DEF Charged
      <4>3. CASE k # "mem"
        <5>1. idoc'["mem"] = idoc["mem"]
          BY <2>3, <3>1, <4>1, <4>3
        <5>2. QED
          BY <3>1, <4>3, <5>1 DEF Charged
      <4>4. QED
        BY <4>2, <4>3
    <3>4. Inside(G) \in Nat /\ Inside(G)' = Inside(G) + In(x, G) /\ nInst[v] \in Int /\ top[v] \in Int
      BY <1>1, <2>3, InsideNat
    <3>5. PICK b, m : b = Inside(G)' /\ m = Inside(G)
      OBVIOUS
    <3>6. CASE v = w
      <4>1. nInst'[v] + npc = nInst[v] + cur + 1 /\ top'[v] = npc /\ top[v] = cur
        BY <2>1, <2>4, <2>9, <3>6
      <4>2. CASE k = "mem"
        BY <2>5, <2>8, <2>6, <2>7, <3>2, <3>3, <3>4, <3>6, <4>1, <4>2
      <4>3. CASE k # "mem"
        BY <2>5, <2>8, <2>6, <2>7, <3>2, <3>3, <3>4, <3>6, <4>1, <4>3
      <4>4. QED
        BY <4>2, <4>3
    <3>7. CASE v # w
      BY <2>4, <3>2, <3>3, <3>4, <3>7
    <3>8. QED
      BY <3>6, <3>7
  <2>11. QED
    BY <2>10 DEF Accounted
<1>5. QED
  BY <1>2, <1>3, <1>4

\* The setup never changes.
LEMMA StepSetup == ASSUME FrontTypes, Next PROVE setup' = setup
<1>1. CASE Schedule
  BY <1>1, ScheduleCases
<1>2. CASE ShaderWriteback
  BY <1>2 DEF ShaderWriteback
<1>3. CASE ExecuteAlu("sp") \/ ExecuteAlu("sfu")
  BY <1>3 DEF ExecuteAlu
<1>4. CASE CollectorStep
  BY <1>4 DEF CollectorStep
<1>5. CASE LsuWriteback \/ LsuResponse \/ LsuIssue
  BY <1>5 DEF LsuWriteback, LsuResponse, LsuIssue
<1>6. CASE LsuDispatch
  BY <1>6 DEF LsuDispatch
<1>7. CASE Decode \/ Fetch
  BY <1>7 DEF Decode, Fetch
<1>8. CASE Memory
  BY <1>8 DEF Memory, AnswerLoad, AnswerStore, AnswerFetch, Arrives
<1>9. QED
  BY <1>1, <1>2, <1>3, <1>4, <1>5, <1>6, <1>7, <1>8 DEF Next, Cycle

\* No step moves CPL's account in another way.
LEMMA StepAccount ==
  ASSUME CountInv, ArithCounted, ArithCounted', [Next]_vars
  PROVE  [\A w \in Warps : Account(w)]_vars
<1> SUFFICES ASSUME Next PROVE \A w \in Warps : Account(w)
  OBVIOUS
<1>1. PipeInv /\ LsuTypes /\ arb \in 0..4 /\ CountTypes /\ BufferSound
  BY DEF CountInv, OtherTypes
<1>2. Accounted
  <2>1. CASE ShaderWriteback
    BY <1>1, <2>1, WritebackAccount
  <2>2. CASE Schedule
    BY <1>1, <2>2, ScheduleAccount
  <2>3. CASE LsuWriteback \/ LsuDispatch
    BY <1>1, <2>3, LsuAccount
  <2>4. CASE \/ ExecuteAlu("sp") \/ ExecuteAlu("sfu") \/ CollectorStep \/ LsuResponse \/ LsuIssue
             \/ Decode \/ Fetch \/ Memory
    BY <1>1, <2>4, StageAccount
  <2>5. QED
    BY <2>1, <2>2, <2>3, <2>4 DEF Next, Cycle
<1>3. setup' = setup
  BY <1>1, StepSetup DEF PipeInv
<1>4. ASSUME NEW w \in Warps PROVE Account(w)
  <2>1. PICK F \in SUBSET Running : F = ArithOf(w)
    BY DEF ArithOf, OfWarp
  <2>2. nInst'[w] + top'[w] - Inside(F)' = nInst[w] + top[w] - Inside(F) + Charged(w)
    BY <1>2, <2>1 DEF Accounted
  <2>3. Arithmetic(w) = Inside(F)
    BY <2>1 DEF ArithCounted
  <2>4. Arithmetic(w)' = Inside(F)'
    <3>1. ArithOf(w)' = F
      BY <1>3, <2>1, SameKernel
    <3>2. Arithmetic(w)' = Inside(ArithOf(w))'
      BY DEF ArithCounted
    <3>3. QED
      BY <3>1, <3>2 DEF Inside, AtPort, InLsu, InExWb, UnitHas, Stages, In
  <2>5. QED
    BY <2>2, <2>3, <2>4 DEF Account
<1>5. QED
  BY <1>4

-----------------------------------------------------------------------------
(* The theorems.                                                           *)

\* Types; m_inst_in_pipeline counts every instruction of a warp, in its buffer or
\* in the core; two_level_active keeps every warp in one of its lists.
THEOREM PipelineSoundHolds == Spec => []PipelineSound
<1>1. CountInv => TypeOK /\ InPipeExact
  BY CountedTypes, InPipeCounted
<1>2. QED
  BY <1>1, CountAlways, EveryWarpListedHolds, PTL DEF PipelineSound

\* The scoreboard reserves what instructions and accesses under way will write;
\* m_pending_writes counts the accesses of the load that writes each register.
THEOREM RegistersExactHolds == Spec => []RegistersExact
<1>1. CountInv => RegistersExact
  BY ReservedOwned, PendingCounted DEF RegistersExact
<1>2. QED
  BY <1>1, CountAlways, PTL

\* A warp is reclaimed when nothing of it is left in the core or in memory.
THEOREM ReclaimCleanHolds == Spec => []ReclaimClean
BY ReclaimedEmpty, CountAlways, PTL

\* CPL's count is the distance from the start, plus the instructions in the
\* arithmetic pipelines and every memory instruction ever issued.
THEOREM CriticalityExactHolds == Spec => CriticalityExact
<1>1. Spec => [](CountInv /\ ArithCounted)
  BY CountAlways, ArithmeticCounted, PTL
<1>2. CountInv /\ ArithCounted /\ (CountInv /\ ArithCounted)' /\ [Next]_vars
        => [\A w \in Warps : nInst'[w] + top'[w] - Arithmetic(w)' =
                               nInst[w] + top[w] - Arithmetic(w)
                               + (IF idoc'["mem"].w = w /\ idoc["mem"] = None THEN 1 ELSE 0)]_vars
  BY StepAccount DEF Account, Charged
<1>3. QED
  BY <1>1, <1>2, PTL DEF Spec, CriticalityExact
=============================================================================
