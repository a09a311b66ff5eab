------------------------ MODULE KernelDispatchProofs ------------------------
(* Proofs about KernelDispatch, for every number of kernels, slots,        *)
(* clusters, cores and threads, and every grid and block size.             *)
EXTENDS KernelDispatch, FiniteSetTheorems, SequenceTheorems, TLAPS

-----------------------------------------------------------------------------
(* Arithmetic of CTA slots, warps and threads.                             *)

\* Division of naturals, as the provers know it.
LEMMA DivFacts ==
  ASSUME NEW a \in Nat, NEW b \in Nat \ {0}
  PROVE  /\ a \div b \in Nat
         /\ (a \div b) * b <= a
         /\ \A q \in Nat : q * b <= a => q <= a \div b
<1>1. a \div b \in Nat /\ (a \div b) * b <= a /\ a < (a \div b) * b + b
  OBVIOUS
<1> DEFINE d == a \div b
<1> HIDE DEF d
<1>2. ASSUME NEW q \in Nat, q * b <= a PROVE q <= d
  <2>1. d \in Nat /\ a < d * b + b
    BY <1>1 DEF d
  <2>2. SUFFICES ASSUME q >= d + 1 PROVE FALSE
    BY <2>1
  <2>3. q * b >= (d + 1) * b
    BY <2>1, <2>2
  <2> QED
    BY <2>1, <2>3, <1>2
<1> QED
  BY <1>1, <1>2 DEF d

\* A CTA takes at least one warp, and its threads fit its warps.
LEMMA WarpsPerCtaFacts ==
  ASSUME NEW k \in Kernels
  PROVE  /\ WarpsPerCta(k) \in Nat \ {0}
         /\ Block[k] \in Nat \ {0} /\ Grid[k] \in Nat \ {0}
<1>1. Block[k] \in Nat \ {0} /\ WarpSize \in Nat \ {0} /\ Grid[k] \in Nat \ {0}
  BY DispatchConstants
<1>2. Block[k] + WarpSize - 1 \in Nat /\ 1 * WarpSize <= Block[k] + WarpSize - 1
  BY <1>1
<1>3. (Block[k] + WarpSize - 1) \div WarpSize \in Nat
      /\ 1 <= (Block[k] + WarpSize - 1) \div WarpSize
  BY <1>1, <1>2, DivFacts
<1> QED
  BY <1>1, <1>3 DEF WarpsPerCta

\* max_cta() CTAs fit the warps of a core.
LEMMA MaxCtaFits ==
  ASSUME NEW k \in Kernels
  PROVE  /\ MaxCta(k) \in Nat \ {0}
         /\ MaxCta(k) * WarpsPerCta(k) <= Threads \div WarpSize
         /\ MaxCta(k) <= Threads
<1> DEFINE p == WarpsPerCta(k)
           r == Threads \div (p * WarpSize)
<1>1. p \in Nat \ {0} /\ Threads \in Nat \ {0} /\ WarpSize \in Nat \ {0}
      /\ MaxCta(k) \in Nat \ {0} /\ CtaLimit[k] \in Nat \ {0} /\ Grid[k] \in Nat \ {0}
      /\ Clusters \in Nat \ {0} /\ PerCluster \in Nat \ {0}
  BY WarpsPerCtaFacts, DispatchConstants
<1> HIDE DEF p
<1>2. p * WarpSize \in Nat \ {0}
  BY <1>1
<1>3. r \in Nat /\ r * (p * WarpSize) <= Threads
  BY <1>1, <1>2, DivFacts
<1>4. NumShader \in Nat \ {0}
  BY <1>1 DEF NumShader
<1>5. ResourceLimit(k) \in Nat /\ ResourceLimit(k) <= r
  BY <1>1, <1>3 DEF ResourceLimit, p
<1>6. MaxCta(k) <= ResourceLimit(k)
  <2>1. CASE Grid[k] < ResourceLimit(k) * NumShader
    <3> DEFINE g == Grid[k] + NumShader - 1
               l == ResourceLimit(k)
               n == NumShader
    <3>1. g \in Nat /\ MaxCta(k) = g \div n /\ g < l * n + n
      BY <1>1, <1>4, <1>5, <2>1 DEF MaxCta
    <3>2. g \div n \in Nat /\ (g \div n) * n <= g
      BY <3>1, <1>4, DivFacts
    <3> DEFINE d == g \div n
    <3>3. n \in Nat \ {0} /\ l \in Nat /\ d \in Nat /\ d * n < l * n + n
      BY <3>1, <3>2, <1>4, <1>5
    <3> HIDE DEF d, l, n
    <3>4. SUFFICES ASSUME d >= l + 1 PROVE FALSE
      BY <3>1, <3>3 DEF d, l, n
    <3>5. d * n >= (l + 1) * n
      BY <3>3, <3>4
    <3> QED
      BY <3>3, <3>5
  <2>2. CASE ~(Grid[k] < ResourceLimit(k) * NumShader)
    BY <2>2, <1>5 DEF MaxCta
  <2> QED
    BY <2>1, <2>2
<1> HIDE DEF r
<1>7. MaxCta(k) <= r
  BY <1>1, <1>3, <1>5, <1>6
<1> DEFINE m == MaxCta(k)
<1>8. m \in Nat /\ r \in Nat /\ m <= r
  BY <1>7, <1>1, <1>3
<1> HIDE DEF m
<1>9. m * (p * WarpSize) <= r * (p * WarpSize)
  BY <1>8, <1>2
<1>10. (m * p) * WarpSize <= Threads /\ m * p \in Nat
  BY <1>9, <1>3, <1>8, <1>1
<1>11. m * p <= Threads \div WarpSize
  BY <1>10, <1>1, DivFacts
<1>12. m <= Threads
  <2>1. m * 1 <= m * (p * WarpSize)
    BY <1>8, <1>2
  <2> QED
    BY <2>1, <1>9, <1>3, <1>8, <1>1
<1> QED
  BY <1>1, <1>11, <1>12 DEF m, p

-----------------------------------------------------------------------------
(* CTA slots.                                                              *)

\* The warps of different CTA slots are different.
LEMMA CtaWarpsDisjoint ==
  ASSUME NEW k \in Kernels, NEW i \in Nat, NEW j \in Nat,
         NEW w, w \in CtaWarps(k, i), w \in CtaWarps(k, j)
  PROVE  i = j
<1> DEFINE p == WarpsPerCta(k)
<1>1. p \in Nat \ {0}
  BY WarpsPerCtaFacts
<1>2. w \in Int /\ i * p <= w /\ w < (i + 1) * p /\ j * p <= w /\ w < (j + 1) * p
  <2>1. i * p \in Int /\ (i + 1) * p \in Int /\ j * p \in Int /\ (j + 1) * p \in Int
    BY <1>1
  <2> QED
    BY <2>1 DEF CtaWarps
<1> HIDE DEF p
<1>3. ASSUME NEW a \in Nat, NEW b \in Nat, a < b PROVE (a + 1) * p <= b * p
  BY <1>1, <1>3
<1>4. CASE i < j
  <2>1. (i + 1) * p <= j * p /\ (i + 1) * p \in Int /\ j * p \in Int
    BY <1>3, <1>4, <1>1
  <2> QED
    BY <2>1, <1>2
<1>5. CASE j < i
  <2>1. (j + 1) * p <= i * p /\ (j + 1) * p \in Int /\ i * p \in Int
    BY <1>3, <1>5, <1>1
  <2> QED
    BY <2>1, <1>2
<1> QED
  BY <1>4, <1>5

\* CtaOf() finds the CTA slot of a warp.
LEMMA CtaOfFacts ==
  ASSUME NEW k \in Kernels, NEW i \in CtaIds, NEW w \in CtaWarps(k, i)
  PROVE  CtaOf(k, w) = i
<1>1. CtaIds \subseteq Nat
  BY DEF CtaIds
<1>2. \A j \in CtaIds : w \in CtaWarps(k, j) => j = i
  BY <1>1, CtaWarpsDisjoint
<1> QED
  BY <1>2 DEF CtaOf

\* A CTA slot below max_cta(): its warps exist, each has a thread.
LEMMA CtaFacts ==
  ASSUME NEW k \in Kernels, NEW i \in 0..MaxCta(k)-1
  PROVE  /\ i \in CtaIds
         /\ CtaWarps(k, i) \subseteq Warps
         /\ CtaThreads(k, i) \subseteq Warps \X Lanes
         /\ \A t \in CtaThreads(k, i) : t[1] \in CtaWarps(k, i) /\ CtaOf(k, t[1]) = i
         /\ \A w \in CtaWarps(k, i) : \E t \in CtaThreads(k, i) : t[1] = w
         /\ CtaWarps(k, i) # {}
<1> DEFINE p == WarpsPerCta(k)
           m == MaxCta(k)
           q == Threads \div WarpSize
<1>1. p \in Nat \ {0} /\ m \in Nat \ {0} /\ m * p <= q /\ m <= Threads
      /\ Block[k] \in Nat \ {0} /\ WarpSize \in Nat \ {0} /\ Threads \in Nat \ {0}
  BY WarpsPerCtaFacts, MaxCtaFits, DispatchConstants
<1>2. q \in Nat
  BY <1>1, DivFacts
<1> HIDE DEF m, q, p
<1>3. i \in Nat /\ i + 1 <= m
  BY <1>1 DEF m
<1>4. (i + 1) * p <= m * p /\ (i + 1) * p \in Nat /\ i * p \in Nat /\ m * p \in Nat
  BY <1>1, <1>3
<1>5. i \in CtaIds
  BY <1>1, <1>3 DEF CtaIds
<1>6. CtaWarps(k, i) = i * p .. (i + 1) * p - 1
  BY DEF CtaWarps, p
<1>7. CtaWarps(k, i) \subseteq Warps
  BY <1>1, <1>2, <1>4, <1>6 DEF Warps, q
<1>8. CtaThreads(k, i) \subseteq CtaWarps(k, i) \X Lanes
  BY DEF CtaThreads
<1>9. ASSUME NEW w \in CtaWarps(k, i)
      PROVE  \E t \in CtaThreads(k, i) : t[1] = w
  <2>1. w \in Int /\ w - i * p <= p - 1
    <3>1. (i + 1) * p = i * p + p
      BY <1>1, <1>3
    <3> QED
      BY <3>1, <1>1, <1>4, <1>6
  <2>2. (p - 1) * WarpSize < Block[k]
    <3>1. p * WarpSize <= Block[k] + WarpSize - 1
      <4>1. Block[k] + WarpSize - 1 \in Nat
        BY <1>1
      <4> QED
        BY <4>1, <1>1, DivFacts DEF p, WarpsPerCta
    <3>2. (p - 1) * WarpSize = p * WarpSize - WarpSize
      BY <1>1
    <3> QED
      BY <3>1, <3>2, <1>1
  <2>3. (w - i * p) * WarpSize <= (p - 1) * WarpSize
    <3> DEFINE a == w - i * p
               b == p - 1
    <3>1. a \in Int /\ b \in Int /\ a <= b
      BY <2>1, <1>1, <1>4
    <3> HIDE DEF a, b
    <3>2. a * WarpSize <= b * WarpSize
      BY <3>1, <1>1
    <3> QED
      BY <3>2 DEF a, b
  <2>4. (w - i * p) * WarpSize + 0 < Block[k]
    <3>1. (w - i * p) * WarpSize \in Int /\ (p - 1) * WarpSize \in Int
      BY <2>1, <1>1, <1>4
    <3> QED
      BY <3>1, <2>2, <2>3, <1>1
  <2>5. <<w, 0>> \in CtaWarps(k, i) \X Lanes
    BY <1>1 DEF Lanes
  <2> QED
    BY <2>4, <2>5 DEF CtaThreads, p
<1>10. i * p \in CtaWarps(k, i)
  <2>1. i * p <= (i + 1) * p - 1
    BY <1>1, <1>3
  <2> QED
    BY <2>1, <1>4, <1>6
<1>11. \A t \in CtaThreads(k, i) : t[1] \in CtaWarps(k, i)
  BY <1>8
<1> QED
  BY <1>5, <1>7, <1>8, <1>9, <1>10, <1>11, CtaOfFacts

-----------------------------------------------------------------------------
(* The inductive invariant.                                                *)

\* Every active thread belongs to a CTA slot its kernel may use.
Placed ==
  \A c \in Cores : \A t \in active[c] :
    /\ kernel[c] \in Kernels
    /\ \E i \in 0..MaxCta(kernel[c])-1 : t \in CtaThreads(kernel[c], i)

\* Slots hold launched kernels, each in one slot; a kernel nobody launched has
\* handed out nothing.
SlotsUsed ==
  /\ \A n \in 0..Slots-1 : slots[n] # NoKernel => slots[n] \in launched
  /\ \A m, n \in 0..Slots-1 : slots[m] = slots[n] /\ slots[m] # NoKernel => m = n
  /\ \A k \in Kernels \ launched : nextCta[k] = 0 /\ Bound(k) = {}

IInv == /\ TypeOK /\ CoreAccounting /\ Placed /\ RunningCount
        /\ SlotsUsed /\ SlotsHeld /\ FinishedComplete

LEMMA ConstantFacts ==
  /\ NumKernels \in Nat \ {0} /\ Slots \in Nat \ {0} /\ Clusters \in Nat \ {0}
  /\ PerCluster \in Nat \ {0} /\ WarpSize \in Nat \ {0} /\ Threads \in Nat \ {0}
  /\ NoKernel \notin Kernels
  /\ 0 \in 0..Slots-1 /\ 0 \in 0..Clusters-1 /\ PerCluster - 1 \in 0..PerCluster-1
BY DispatchConstants DEF NoKernel, Kernels

LEMMA FiniteSets ==
  /\ IsFiniteSet(Cores) /\ IsFiniteSet(CtaIds) /\ IsFiniteSet(Warps \X Lanes)
<1>1. IsFiniteSet(0..Clusters-1) /\ IsFiniteSet(0..PerCluster-1)
  BY ConstantFacts, FS_Interval
<1>2. IsFiniteSet(CtaIds)
  BY ConstantFacts, FS_Interval DEF CtaIds
<1>3. Threads \div WarpSize \in Nat
  BY ConstantFacts, DivFacts
<1>4. IsFiniteSet(Warps) /\ IsFiniteSet(Lanes)
  BY <1>3, ConstantFacts, FS_Interval DEF Warps, Lanes
<1> QED
  BY <1>1, <1>2, <1>4, FS_Product DEF Cores

\* Subsets of a finite set have a cardinality, zero only when empty.
LEMMA CardFacts ==
  ASSUME NEW S, IsFiniteSet(S), NEW T \in SUBSET S
  PROVE  /\ IsFiniteSet(T) /\ Cardinality(T) \in Nat
         /\ Cardinality(T) = 0 <=> T = {}
         /\ Cardinality(T) <= Cardinality(S)
<1>1. IsFiniteSet(T) /\ Cardinality(T) <= Cardinality(S)
  BY FS_Subset
<1> QED
  BY <1>1, FS_CardinalityType, FS_EmptySet

LEMMA InitInv == Init => IInv
<1> SUFFICES ASSUME Init PROVE IInv
  OBVIOUS
<1> USE DEF Init
<1>1. TypeOK
  BY ConstantFacts DEF TypeOK, Warps
<1>2. \A c \in Cores : active[c] = {} /\ kernel[c] = NoKernel /\ nActive[c] = 0
                       /\ notCompleted[c] = 0 /\ \A i \in CtaIds : status[c][i] = 0
  OBVIOUS
<1>3. CoreAccounting
  <2> SUFFICES ASSUME NEW c \in Cores
               PROVE  /\ notCompleted[c] = Cardinality(active[c])
                      /\ nActive[c] = Cardinality(UsedCtas(c))
                      /\ (kernel[c] = NoKernel) <=> (nActive[c] = 0)
                      /\ \A i \in CtaIds : status[c][i] = Cardinality(CtaActive(c, i))
                      /\ \A w \in Warps : (warp[c][w] = "exited") <=>
                                          (\A t \in active[c] : t[1] # w)
    BY DEF CoreAccounting
  <2>1. UsedCtas(c) = {}
    BY <1>2 DEF UsedCtas
  <2>2. \A i \in CtaIds : CtaActive(c, i) = {}
    BY <1>2 DEF CtaActive
  <2>3. Cardinality({}) = 0
    BY FS_EmptySet
  <2> QED
    BY <1>2, <2>1, <2>2, <2>3
<1>4. Placed
  BY <1>2 DEF Placed
<1>5. \A k \in Kernels : Bound(k) = {}
  BY <1>2, ConstantFacts DEF Bound
<1>6. RunningCount
  BY <1>5, FS_EmptySet DEF RunningCount
<1>7. SlotsUsed
  BY <1>5 DEF SlotsUsed
<1>8. SlotsHeld /\ FinishedComplete
  BY <1>2 DEF SlotsHeld, FinishedComplete
<1> QED
  BY <1>1, <1>3, <1>4, <1>6, <1>7, <1>8 DEF IInv

-----------------------------------------------------------------------------
(* Room for a CTA.                                                         *)

\* No more than max_cta() CTA slots can be passed over.
LEMMA RoomFacts ==
  ASSUME IInv, NEW c \in Cores, NEW k \in Kernels, nActive[c] < MaxCta(k)
  PROVE  /\ \E i \in 0..MaxCta(k)-1 : status[c][i] = 0
         /\ \A i \in CtaIds : FreeCta(c, i) => i \in 0..MaxCta(k)-1
<1> DEFINE m == MaxCta(k)
           used == UsedCtas(c)
<1>1. m \in Nat \ {0} /\ m <= Threads /\ Threads \in Nat
  BY MaxCtaFits, ConstantFacts
<1>2. IsFiniteSet(used) /\ Cardinality(used) = nActive[c] /\ nActive[c] \in Nat
  BY FiniteSets, CardFacts DEF IInv, CoreAccounting, TypeOK, UsedCtas
<1> HIDE DEF m
<1>0. used = {n \in CtaIds : status[c][n] # 0}
  BY DEF UsedCtas
<1> HIDE DEF used
<1>3. ASSUME 0..m-1 \subseteq used PROVE FALSE
  <2>1. Cardinality(0..m-1) = m
    BY <1>1, FS_Interval
  <2>2. Cardinality(0..m-1) <= Cardinality(used)
    BY <1>2, <1>3, FS_Subset
  <2> QED
    BY <2>1, <2>2, <1>1, <1>2 DEF m
<1>4. 0..m-1 \subseteq CtaIds
  BY <1>1 DEF CtaIds
<1>5. PICK j \in 0..m-1 : status[c][j] = 0
  BY <1>0, <1>3, <1>4
<1>6. ASSUME NEW i \in CtaIds, FreeCta(c, i) PROVE i \in 0..m-1
  <2>1. i \in Nat /\ \A n \in 0..i-1 : status[c][n] # 0
    BY <1>6 DEF FreeCta, CtaIds
  <2>2. ~(i > j)
    BY <2>1, <1>5, <1>1
  <2> QED
    BY <2>1, <2>2, <1>1, <1>5
<1> QED
  BY <1>5, <1>6 DEF m

\* A free CTA slot has no active thread, and its warps have exited.
LEMMA FreeFacts ==
  ASSUME IInv, NEW c \in Cores, NEW k \in Kernels, NEW i \in 0..MaxCta(k)-1,
         kernel[c] = k, status[c][i] = 0
  PROVE  \A t \in active[c] : t[1] \notin CtaWarps(k, i)
<1> SUFFICES ASSUME NEW t \in active[c], t[1] \in CtaWarps(k, i) PROVE FALSE
  OBVIOUS
<1>0. i \in CtaIds
  BY CtaFacts
<1>1. CtaOf(k, t[1]) = i
  BY <1>0, CtaOfFacts
<1>2. Cardinality(CtaActive(c, i)) = 0
  BY <1>0 DEF IInv, CoreAccounting
<1>3. CtaActive(c, i) \in SUBSET (Warps \X Lanes)
  BY DEF IInv, TypeOK, CtaActive
<1>4. CtaActive(c, i) = {}
  BY <1>2, <1>3, FiniteSets, CardFacts
<1> QED
  BY <1>1, <1>4 DEF CtaActive

LEMMA RoomInv == IInv => RoomIsReal
<1> SUFFICES ASSUME IInv, NEW c \in Cores, NEW k \in Kernels, kernel[c] = k, Room(c)
             PROVE  /\ \E i \in 0..MaxCta(k)-1 : status[c][i] = 0
                    /\ \A i \in 0..MaxCta(k)-1 : status[c][i] = 0 =>
                         /\ CtaWarps(k, i) \subseteq Warps
                         /\ active[c] \cap CtaThreads(k, i) = {}
  BY DEF RoomIsReal
<1>1. \E i \in 0..MaxCta(k)-1 : status[c][i] = 0
  BY RoomFacts DEF Room
<1>2. ASSUME NEW i \in 0..MaxCta(k)-1, status[c][i] = 0
      PROVE  CtaWarps(k, i) \subseteq Warps /\ active[c] \cap CtaThreads(k, i) = {}
  BY <1>2, CtaFacts, FreeFacts
<1> QED
  BY <1>1, <1>2

-----------------------------------------------------------------------------
(* A CTA is issued.                                                        *)

\* What IssueCluster does: core c, idle or running k, gets CTA slot i.
Issues(c, k, i) ==
  /\ InSlots(k) /\ ~NoMoreCtas(k)
  /\ kernel[c] \in {k, NoKernel}
  /\ status[c][i] = 0
  /\ IssueCta(c, k, i) /\ Bind(c, k)
  /\ UNCHANGED <<slots, finished, launched, base>>

LEMMA IssueEffects ==
  ASSUME IInv, IssueCluster
  PROVE  /\ \E c \in Cores, k \in Kernels : \E i \in 0..MaxCta(k)-1 : Issues(c, k, i)
         /\ lastKernel' \in 0..Slots-1
         /\ nextCore' \in [0..Clusters-1 -> 0..PerCluster-1]
         /\ lastCluster' \in 0..Clusters-1
         /\ pos' \in 0..Clusters
<1> DEFINE cl == (pos + base + 1) % Clusters
<1>1. TypeOK
  BY DEF IInv
<1>2. cl \in 0..Clusters-1
  <2>1. pos + base + 1 \in Nat /\ Clusters \in Nat \ {0}
    BY <1>1, ConstantFacts DEF TypeOK
  <2> QED
    BY <2>1
<1>3. pos' \in 0..Clusters
  <2>1. pos \in 0..Clusters /\ pos # Clusters /\ pos' = pos + 1
    BY <1>1 DEF TypeOK, IssueCluster, Between
  <2> QED
    BY <2>1, ConstantFacts
<1> HIDE DEF cl
<1>4. PICK j \in 0..PerCluster-1 :
        /\ NextInTurn(cl, j)
        /\ \/ /\ kernel[<<cl, j>>] # NoKernel
              /\ \E i \in CtaIds : /\ FreeCta(<<cl, j>>, i)
                                   /\ IssueCta(<<cl, j>>, kernel[<<cl, j>>], i)
              /\ Bind(<<cl, j>>, kernel[<<cl, j>>])
              /\ UNCHANGED lastKernel
           \/ /\ kernel[<<cl, j>>] = NoKernel
              /\ \E n \in 0..Slots-1 :
                   /\ Selected(n)
                   /\ lastKernel' = n
                   /\ Bind(<<cl, j>>, slots[n])
                   /\ \E i \in CtaIds : /\ FreeCta(<<cl, j>>, i)
                                        /\ IssueCta(<<cl, j>>, slots[n], i)
        /\ nextCore' = [nextCore EXCEPT ![cl] = j]
  BY DEF IssueCluster, cl
<1>5. lastCluster' = cl /\ UNCHANGED <<slots, finished, launched, base>>
  BY DEF IssueCluster, cl
<1> DEFINE c == <<cl, j>>
<1>6. c \in Cores
  BY <1>2 DEF Cores
<1> HIDE DEF c
<1>7. CASE kernel[c] # NoKernel
  <2> DEFINE k == kernel[c]
  <2>1. k \in Kernels /\ k # NoKernel
    BY <1>1, <1>6, <1>7 DEF TypeOK
  <2>2. PICK i \in CtaIds : FreeCta(c, i) /\ IssueCta(c, k, i)
    BY <1>4, <1>7 DEF c
  <2>3. Bind(c, k) /\ lastKernel' = lastKernel /\ ~NoMoreCtas(k) /\ nActive[c] < MaxCta(k)
    BY <1>4, <1>7 DEF c, NextInTurn, CanIssue, Idle, Room
  <2>4. InSlots(k)
    BY <1>6, <2>1 DEF IInv, SlotsHeld
  <2>5. i \in 0..MaxCta(k)-1 /\ status[c][i] = 0
    BY <2>1, <2>2, <2>3, <1>6, RoomFacts DEF FreeCta
  <2>6. Issues(c, k, i)
    BY <2>2, <2>3, <2>4, <2>5, <1>5 DEF Issues
  <2> QED
    BY <1>1, <1>2, <1>3, <1>4, <1>5, <1>6, <2>1, <2>3, <2>5, <2>6 DEF TypeOK
<1>8. CASE kernel[c] = NoKernel
  <2>1. PICK n \in 0..Slots-1 :
          /\ Selected(n) /\ lastKernel' = n /\ Bind(c, slots[n])
          /\ \E i \in CtaIds : FreeCta(c, i) /\ IssueCta(c, slots[n], i)
    BY <1>4, <1>8 DEF c
  <2> DEFINE k == slots[n]
  <2>2. PICK i \in CtaIds : FreeCta(c, i) /\ IssueCta(c, k, i)
    BY <2>1
  <2>3. k \in Kernels /\ ~NoMoreCtas(k) /\ InSlots(k)
    BY <1>1, <2>1 DEF TypeOK, Selected, HasCtas, InSlots
  <2>4. nActive[c] = 0 /\ MaxCta(k) \in Nat \ {0}
    BY <1>6, <1>8, <2>3, MaxCtaFits DEF IInv, CoreAccounting
  <2>5. i \in 0..MaxCta(k)-1 /\ status[c][i] = 0
    BY <2>2, <2>3, <2>4, <1>6, RoomFacts DEF FreeCta
  <2>6. Issues(c, k, i)
    BY <2>1, <2>2, <2>3, <2>5, <1>5, <1>8 DEF Issues
  <2> QED
    BY <1>2, <1>1, <1>3, <1>4, <1>5, <1>6, <2>1, <2>3, <2>5, <2>6 DEF TypeOK
<1> QED
  BY <1>7, <1>8

\* The CTA's threads were not active: the core is idle, or FreeFacts.
LEMMA IssueFresh ==
  ASSUME IInv, NEW c \in Cores, NEW k \in Kernels, NEW i \in 0..MaxCta(k)-1,
         Issues(c, k, i)
  PROVE  /\ \A t \in active[c] : t[1] \notin CtaWarps(k, i)
         /\ kernel[c] = NoKernel => active[c] = {} /\ nActive[c] = 0
         /\ active[c] # {} => kernel[c] = k
<1>1. CASE kernel[c] = k
  <2>1. k # NoKernel /\ status[c][i] = 0
    BY ConstantFacts DEF Issues
  <2> QED
    BY <1>1, <2>1, FreeFacts
<1>2. CASE kernel[c] = NoKernel
  <2>1. active[c] = {}
    BY <1>2, ConstantFacts DEF IInv, Placed
  <2> QED
    BY <1>2, <2>1 DEF IInv, CoreAccounting
<1> QED
  BY <1>1, <1>2 DEF Issues

\* The threads of the new CTA.
LEMMA NewThreads ==
  ASSUME NEW k \in Kernels, NEW i \in 0..MaxCta(k)-1
  PROVE  /\ IsFiniteSet(CtaThreads(k, i))
         /\ Cardinality(CtaThreads(k, i)) \in Nat \ {0}
<1>1. CtaThreads(k, i) \in SUBSET (Warps \X Lanes) /\ CtaThreads(k, i) # {}
  BY CtaFacts
<1> QED
  BY <1>1, FiniteSets, CardFacts

LEMMA IssueType ==
  ASSUME IInv, IssueCluster
  PROVE  TypeOK'
<1>1. PICK c \in Cores, k \in Kernels : \E i \in 0..MaxCta(k)-1 : Issues(c, k, i)
  BY IssueEffects
<1>2. PICK i \in 0..MaxCta(k)-1 : Issues(c, k, i)
  BY <1>1
<1>3. TypeOK /\ i \in CtaIds /\ CtaThreads(k, i) \subseteq Warps \X Lanes
      /\ Cardinality(CtaThreads(k, i)) \in Nat
  BY CtaFacts, NewThreads DEF IInv
<1>4. /\ slots' \in [0..Slots-1 -> Kernels \cup {NoKernel}] /\ finished' \in Seq(Kernels)
      /\ launched' \in SUBSET Kernels
      /\ base' \in 0..Clusters-1 /\ coresRunning' \in [Kernels -> Nat]
  <2>1. coresRunning' = coresRunning \/ coresRunning' = [coresRunning EXCEPT ![k] = @ + 1]
    BY <1>2 DEF Issues, Bind
  <2>2. UNCHANGED <<slots, finished, launched, base>>
    BY <1>2 DEF Issues
  <2>3. coresRunning' \in [Kernels -> Nat]
    <3>1. coresRunning \in [Kernels -> Nat]
      BY <1>3 DEF TypeOK
    <3> QED
      BY <2>1, <3>1
  <2> QED
    BY <2>2, <2>3, <1>3 DEF TypeOK
<1>5. /\ nextCta' \in [Kernels -> Nat] /\ kernel' \in [Cores -> Kernels \cup {NoKernel}]
      /\ nActive' \in [Cores -> Nat]
  <2>1. /\ nextCta' = [nextCta EXCEPT ![k] = @ + 1] /\ kernel' = [kernel EXCEPT ![c] = k]
        /\ nActive' = [nActive EXCEPT ![c] = @ + 1]
    BY <1>2 DEF Issues, IssueCta
  <2>2. nextCta \in [Kernels -> Nat] /\ kernel \in [Cores -> Kernels \cup {NoKernel}] /\ nActive \in [Cores -> Nat]
    BY <1>3 DEF TypeOK
  <2>3. nextCta' \in [Kernels -> Nat]
    BY <2>1, <2>2
  <2>4. kernel' \in [Cores -> Kernels \cup {NoKernel}]
    BY <2>1, <2>2
  <2>5. nActive' \in [Cores -> Nat]
    BY <2>1, <2>2
  <2> QED
    BY <2>3, <2>4, <2>5
<1>6. active' \in [Cores -> SUBSET (Warps \X Lanes)]
  BY <1>2, <1>3 DEF TypeOK, Issues, IssueCta
<1>7. status' \in [Cores -> [CtaIds -> Nat]]
  BY <1>2, <1>3 DEF TypeOK, Issues, IssueCta
<1>8. notCompleted' \in [Cores -> Nat]
  BY <1>2, <1>3 DEF TypeOK, Issues, IssueCta
<1>9. warp' \in [Cores -> [Warps -> {"exited", "running", "done"}]]
      /\ counted' \in [Cores -> SUBSET Warps]
  BY <1>2, <1>3 DEF TypeOK, Issues, IssueCta
<1> QED
  BY <1>4, <1>5, <1>6, <1>7, <1>8, <1>9, IssueEffects DEF TypeOK

\* What a CTA adds to its core's counts.
LEMMA IssueCounts ==
  ASSUME IInv, NEW c \in Cores, NEW k \in Kernels, NEW i \in 0..MaxCta(k)-1,
         Issues(c, k, i)
  PROVE  /\ active'[c] = active[c] \cup CtaThreads(k, i) /\ kernel'[c] = k
         /\ notCompleted'[c] = Cardinality(active'[c])
         /\ nActive'[c] = Cardinality(UsedCtas(c)') /\ nActive'[c] # 0
         /\ \A j \in CtaIds : status'[c][j] = Cardinality(CtaActive(c, j)')
<1> DEFINE new == CtaThreads(k, i)
<1>1. TypeOK /\ i \in CtaIds /\ IsFiniteSet(new) /\ Cardinality(new) \in Nat \ {0}
      /\ \A t \in new : CtaOf(k, t[1]) = i /\ t[1] \in CtaWarps(k, i)
  BY CtaFacts, NewThreads DEF IInv
<1>2. /\ \A t \in active[c] : t[1] \notin CtaWarps(k, i)
      /\ kernel[c] = NoKernel => active[c] = {} /\ nActive[c] = 0
      /\ active[c] # {} => kernel[c] = k
  BY IssueFresh
<1>3. /\ active'[c] = active[c] \cup new /\ kernel'[c] = k
      /\ notCompleted'[c] = notCompleted[c] + Cardinality(new)
      /\ nActive'[c] = nActive[c] + 1
      /\ \A j \in CtaIds : status'[c][j] = IF j = i THEN Cardinality(new) ELSE status[c][j]
  BY <1>1 DEF Issues, IssueCta, TypeOK
<1>4. status[c][i] = 0
  BY DEF Issues
<1> HIDE DEF new
<1>5. notCompleted'[c] = Cardinality(active'[c])
  <2>1. IsFiniteSet(active[c]) /\ Cardinality(active[c]) = notCompleted[c]
        /\ notCompleted[c] \in Nat
    BY FiniteSets, CardFacts, <1>1 DEF TypeOK, IInv, CoreAccounting
  <2>2. active[c] \cap new = {}
    BY <1>1, <1>2
  <2>3. Cardinality(active[c] \cup new) =
          Cardinality(active[c]) + Cardinality(new) - Cardinality({})
    BY <2>1, <2>2, <1>1, FS_Union
  <2> QED
    BY <2>1, <2>3, <1>1, <1>3, FS_EmptySet
<1>6. nActive'[c] = Cardinality(UsedCtas(c)') /\ nActive'[c] # 0
  <2>1. UsedCtas(c)' = UsedCtas(c) \cup {i} /\ i \notin UsedCtas(c)
    BY <1>1, <1>3, <1>4 DEF UsedCtas
  <2>2. IsFiniteSet(UsedCtas(c)) /\ Cardinality(UsedCtas(c)) = nActive[c] /\ nActive[c] \in Nat
    BY FiniteSets, CardFacts, <1>1 DEF TypeOK, IInv, CoreAccounting, UsedCtas
  <2>3. Cardinality(UsedCtas(c) \cup {i}) = nActive[c] + 1
    BY <2>1, <2>2, FS_AddElement
  <2> QED
    BY <2>1, <2>2, <2>3, <1>3
<1>7. ASSUME NEW j \in CtaIds PROVE status'[c][j] = Cardinality(CtaActive(c, j)')
  <2>1. CtaActive(c, j)' = {t \in active[c] \cup new : CtaOf(k, t[1]) = j}
    BY <1>3 DEF CtaActive
  <2>2. CASE j = i
    <3>1. {t \in active[c] : CtaOf(k, t[1]) = i} = {}
      <4>1. CASE active[c] = {}
        BY <4>1
      <4>2. CASE active[c] # {}
        <5>1. Cardinality(CtaActive(c, i)) = 0 /\ kernel[c] = k
          BY <1>1, <1>2, <1>4, <4>2 DEF IInv, CoreAccounting
        <5>2. CtaActive(c, i) \in SUBSET (Warps \X Lanes)
          BY <1>1 DEF TypeOK, CtaActive
        <5>3. CtaActive(c, i) = {}
          BY <5>1, <5>2, FiniteSets, CardFacts
        <5> QED
          BY <5>1, <5>3 DEF CtaActive
      <4> QED
        BY <4>1, <4>2
    <3>2. CtaActive(c, j)' = new
      BY <2>1, <2>2, <3>1, <1>1
    <3> QED
      BY <3>2, <2>2, <1>3
  <2>3. CASE j # i
    <3>1. CtaActive(c, j)' = {t \in active[c] : CtaOf(k, t[1]) = j}
      BY <2>1, <2>3, <1>1
    <3>2. CtaActive(c, j)' = CtaActive(c, j)
      BY <3>1, <1>2 DEF CtaActive
    <3>3. status[c][j] = Cardinality(CtaActive(c, j))
      BY DEF IInv, CoreAccounting
    <3> QED
      BY <3>2, <3>3, <2>3, <1>3
  <2> QED
    BY <2>2, <2>3
<1> QED
  BY <1>3, <1>5, <1>6, <1>7 DEF new

\* A core whose state a step leaves alone keeps its counts.
LEMMA SameCore ==
  ASSUME IInv, NEW d \in Cores,
         active'[d] = active[d], kernel'[d] = kernel[d], status'[d] = status[d],
         nActive'[d] = nActive[d], notCompleted'[d] = notCompleted[d]
  PROVE  /\ notCompleted'[d] = Cardinality(active'[d])
         /\ nActive'[d] = Cardinality(UsedCtas(d)')
         /\ (kernel'[d] = NoKernel) <=> (nActive'[d] = 0)
         /\ \A j \in CtaIds : status'[d][j] = Cardinality(CtaActive(d, j)')
<1>1. UsedCtas(d)' = UsedCtas(d)
  BY DEF UsedCtas
<1>2. \A j \in CtaIds : CtaActive(d, j)' = CtaActive(d, j)
  BY DEF CtaActive
<1> QED
  BY <1>1, <1>2 DEF IInv, CoreAccounting

LEMMA IssueAccounting ==
  ASSUME IInv, NEW c \in Cores, NEW k \in Kernels, NEW i \in 0..MaxCta(k)-1,
         Issues(c, k, i)
  PROVE  CoreAccounting' /\ Placed'
<1>1. /\ TypeOK /\ i \in CtaIds /\ CtaWarps(k, i) \subseteq Warps
      /\ \A t \in CtaThreads(k, i) : t[1] \in CtaWarps(k, i)
      /\ \A w \in CtaWarps(k, i) : \E t \in CtaThreads(k, i) : t[1] = w
  BY CtaFacts DEF IInv
<1>2. \A d \in Cores : d # c =>
        /\ active'[d] = active[d] /\ kernel'[d] = kernel[d] /\ status'[d] = status[d]
        /\ nActive'[d] = nActive[d] /\ notCompleted'[d] = notCompleted[d]
        /\ warp'[d] = warp[d]
  BY <1>1 DEF TypeOK, Issues, IssueCta
<1>3. active'[c] = active[c] \cup CtaThreads(k, i) /\ kernel'[c] = k
  BY IssueCounts
<1>4. \A w \in Warps : warp'[c][w] = IF w \in CtaWarps(k, i) THEN "running" ELSE warp[c][w]
  BY <1>1 DEF TypeOK, Issues, IssueCta
<1>5. ASSUME NEW d \in Cores
      PROVE  /\ notCompleted'[d] = Cardinality(active'[d])
             /\ nActive'[d] = Cardinality(UsedCtas(d)')
             /\ (kernel'[d] = NoKernel) <=> (nActive'[d] = 0)
             /\ \A j \in CtaIds : status'[d][j] = Cardinality(CtaActive(d, j)')
  <2>1. CASE d = c
    BY <2>1, IssueCounts, ConstantFacts
  <2>2. CASE d # c
    BY <2>2, <1>2, SameCore
  <2> QED
    BY <2>1, <2>2
<1>6. ASSUME NEW d \in Cores, NEW w \in Warps
      PROVE  (warp'[d][w] = "exited") <=> (\A t \in active'[d] : t[1] # w)
  <2>0. (warp[d][w] = "exited") <=> (\A t \in active[d] : t[1] # w)
    BY DEF IInv, CoreAccounting
  <2>1. CASE d # c
    BY <2>0, <2>1, <1>2
  <2>2. CASE d = c /\ w \in CtaWarps(k, i)
    <3>1. PICK t \in CtaThreads(k, i) : t[1] = w
      BY <2>2, <1>1
    <3>2. t \in active'[d] /\ warp'[d][w] = "running"
      BY <2>2, <3>1, <1>3, <1>4
    <3> QED
      BY <3>1, <3>2
  <2>3. CASE d = c /\ w \notin CtaWarps(k, i)
    BY <2>0, <2>3, <1>1, <1>3, <1>4
  <2> QED
    BY <2>1, <2>2, <2>3
<1>7. CoreAccounting'
  BY <1>5, <1>6 DEF CoreAccounting
<1>8. ASSUME NEW d \in Cores, NEW t \in active'[d]
      PROVE  /\ kernel'[d] \in Kernels
             /\ \E j \in 0..MaxCta(kernel'[d])-1 : t \in CtaThreads(kernel'[d], j)
  <2>1. CASE t \in active[d] /\ (d = c => kernel[d] = k)
    <3>1. kernel'[d] = kernel[d]
      BY <2>1, <1>2, <1>3
    <3> QED
      BY <2>1, <3>1 DEF IInv, Placed
  <2>2. CASE d = c /\ t \in CtaThreads(k, i)
    BY <2>2, <1>3
  <2>3. d = c /\ active[d] # {} => kernel[d] = k
    BY IssueFresh
  <2> QED
    BY <2>1, <2>2, <2>3, <1>2, <1>3
<1>9. Placed'
  BY <1>8 DEF Placed
<1> QED
  BY <1>7, <1>9

LEMMA IssueSlots ==
  ASSUME IInv, NEW c \in Cores, NEW k \in Kernels, NEW i \in 0..MaxCta(k)-1,
         Issues(c, k, i)
  PROVE  RunningCount' /\ SlotsUsed' /\ SlotsHeld' /\ FinishedComplete'
<1>1. TypeOK /\ k # NoKernel
  BY ConstantFacts DEF IInv
<1>2. kernel' = [kernel EXCEPT ![c] = k] /\ nextCta' = [nextCta EXCEPT ![k] = @ + 1]
      /\ slots' = slots /\ finished' = finished /\ launched' = launched
  BY DEF Issues, IssueCta
<1>3. \A l \in Kernels : l # k => Bound(l)' = Bound(l)
  BY <1>1, <1>2, ConstantFacts DEF Bound, TypeOK, Issues
<1>4. Bound(k)' = Bound(k) \cup {c}
  BY <1>1, <1>2 DEF Bound, TypeOK
<1>5. k \in launched
  BY <1>1 DEF IInv, SlotsUsed, InSlots, Issues
<1>6. IsFiniteSet(Bound(k)) /\ coresRunning[k] = Cardinality(Bound(k))
      /\ coresRunning[k] \in Nat
  BY <1>1, FiniteSets, CardFacts DEF Bound, IInv, RunningCount, TypeOK
<1>7. coresRunning'[k] = Cardinality(Bound(k)') /\ coresRunning'[k] # 0
      /\ \A l \in Kernels : l # k => coresRunning'[l] = coresRunning[l]
  <2>0. Cardinality(Bound(k) \cup {c}) =
          IF c \in Bound(k) THEN Cardinality(Bound(k)) ELSE Cardinality(Bound(k)) + 1
    BY <1>6, FS_AddElement
  <2>1. CASE kernel[c] = k
    <3>1. c \in Bound(k) /\ coresRunning' = coresRunning
      BY <1>1, <2>1 DEF Issues, Bind, Bound
    <3>2. Cardinality(Bound(k)) # 0
      BY <3>1, FiniteSets, CardFacts DEF Bound
    <3> QED
      BY <2>0, <3>1, <3>2, <1>4, <1>6
  <2>2. CASE kernel[c] = NoKernel
    <3>1. c \notin Bound(k) /\ coresRunning' = [coresRunning EXCEPT ![k] = @ + 1]
      BY <1>1, <2>2 DEF Issues, Bind, Bound
    <3> QED
      BY <2>0, <3>1, <1>1, <1>4, <1>6 DEF TypeOK
  <2> QED
    BY <2>1, <2>2 DEF Issues
<1>8. RunningCount'
  BY <1>3, <1>7 DEF RunningCount, IInv
<1>9. \A l \in Kernels : InSlots(l)' <=> InSlots(l)
  BY <1>2 DEF InSlots
<1>10. SlotsUsed'
  BY <1>1, <1>2, <1>3, <1>5 DEF SlotsUsed, IInv, TypeOK
<1>11. SlotsHeld'
  <2>1. ASSUME NEW d \in Cores, kernel'[d] # NoKernel PROVE InSlots(kernel[d])'
    <3>1. CASE d = c
      BY <3>1, <1>1, <1>2 DEF Issues, TypeOK, InSlots
    <3>2. CASE d # c
      <4>1. kernel'[d] = kernel[d] /\ kernel[d] \in Kernels
        BY <3>2, <2>1, <1>1, <1>2 DEF TypeOK
      <4> QED
        BY <4>1, <2>1, <1>2 DEF IInv, SlotsHeld, InSlots
    <3> QED
      BY <3>1, <3>2
  <2>2. ASSUME NEW n \in 0..Slots-1, slots'[n] # NoKernel PROVE ~Done(slots[n])'
    <3>1. slots'[n] = slots[n] /\ slots[n] \in Kernels
      BY <2>2, <1>1, <1>2 DEF TypeOK
    <3>2. CASE slots[n] = k
      BY <3>1, <3>2, <1>2, <1>7 DEF Done
    <3>3. CASE slots[n] # k
      <4>1. ~Done(slots[n])
        BY <3>1, <2>2 DEF IInv, SlotsHeld
      <4>2. nextCta'[slots[n]] = nextCta[slots[n]]
        BY <3>1, <3>3, <1>1, <1>2 DEF TypeOK
      <4> QED
        BY <4>1, <4>2, <3>1, <3>3, <1>2, <1>7 DEF Done, NoMoreCtas
    <3> QED
      BY <3>2, <3>3
  <2>3. slots' = slots
    BY <1>2
  <2> QED
    BY <2>1, <2>2, <2>3 DEF SlotsHeld
<1>12. FinishedComplete'
  <2>1. InSlots(k)
    BY DEF Issues
  <2>2. \A l \in Kernels : l # k => nextCta'[l] = nextCta[l]
    BY <1>1, <1>2 DEF TypeOK
  <2>3. ASSUME NEW l \in launched', ~InSlots(l)'
        PROVE  NoMoreCtas(l)' /\ Bound(l)' = {}
    <3>1. l \in Kernels /\ l \in launched /\ ~InSlots(l) /\ l # k
      BY <2>1, <2>3, <1>1, <1>2, <1>9 DEF TypeOK
    <3> QED
      BY <3>1, <2>2, <1>3 DEF IInv, FinishedComplete, NoMoreCtas
  <2>4. ASSUME NEW n \in DOMAIN finished'
        PROVE  finished'[n] \in launched' /\ ~InSlots(finished[n])'
    <3>1. n \in DOMAIN finished /\ finished[n] \in Kernels
      BY <2>4, <1>1, <1>2 DEF TypeOK
    <3> QED
      BY <3>1, <1>2, <1>9 DEF IInv, FinishedComplete
  <2> QED
    BY <2>3, <2>4, <1>2 DEF IInv, FinishedComplete
<1> QED
  BY <1>8, <1>10, <1>11, <1>12

LEMMA IssueStep == IInv /\ IssueCluster => IInv'
<1> SUFFICES ASSUME IInv, IssueCluster PROVE IInv'
  OBVIOUS
<1>1. PICK c \in Cores, k \in Kernels : \E i \in 0..MaxCta(k)-1 : Issues(c, k, i)
  BY IssueEffects
<1>2. PICK i \in 0..MaxCta(k)-1 : Issues(c, k, i)
  BY <1>1
<1> QED
  BY <1>2, IssueType, IssueAccounting, IssueSlots DEF IInv

-----------------------------------------------------------------------------
(* A warp is reclaimed.                                                    *)

\* The threads that exit belong to one CTA of the core's kernel.
LEMMA ExitingFacts ==
  ASSUME IInv, NEW c \in Cores, NEW w \in Warps, warp[c][w] = "done"
  PROVE  /\ kernel[c] \in Kernels /\ CtaOf(kernel[c], w) \in CtaIds
         /\ Exiting(c, w) \subseteq CtaActive(c, CtaOf(kernel[c], w))
         /\ CtaActive(c, CtaOf(kernel[c], w)) \subseteq active[c]
         /\ IsFiniteSet(active[c]) /\ IsFiniteSet(Exiting(c, w))
         /\ Cardinality(Exiting(c, w)) \in Nat \ {0}
         /\ Cardinality(Exiting(c, w)) <= status[c][CtaOf(kernel[c], w)]
<1> DEFINE k == kernel[c]
<1>1. TypeOK
  BY DEF IInv
<1>2. ~(\A t \in active[c] : t[1] # w)
  BY DEF IInv, CoreAccounting
<1>3. PICK t \in active[c] : t[1] = w
  BY <1>2
<1>4. k \in Kernels /\ \E i \in 0..MaxCta(k)-1 : t \in CtaThreads(k, i)
  BY DEF IInv, Placed
<1>5. PICK i \in 0..MaxCta(k)-1 : t \in CtaThreads(k, i)
  BY <1>4
<1>6. i \in CtaIds /\ CtaOf(k, w) = i
  BY <1>3, <1>4, <1>5, CtaFacts
<1>7. Exiting(c, w) \subseteq CtaActive(c, i) /\ t \in Exiting(c, w)
  BY <1>3, <1>6 DEF Exiting, CtaActive
<1>8. CtaActive(c, i) \subseteq active[c] /\ active[c] \in SUBSET (Warps \X Lanes)
  BY <1>1 DEF TypeOK, CtaActive
<1>9. IsFiniteSet(active[c]) /\ IsFiniteSet(CtaActive(c, i))
  BY <1>8, FiniteSets, FS_Subset
<1>10. IsFiniteSet(Exiting(c, w)) /\ Cardinality(Exiting(c, w)) \in Nat \ {0}
       /\ Cardinality(Exiting(c, w)) <= Cardinality(CtaActive(c, i))
  BY <1>7, <1>9, CardFacts
<1>11. status[c][i] = Cardinality(CtaActive(c, i))
  BY <1>6 DEF IInv, CoreAccounting
<1> QED
  BY <1>4, <1>6, <1>7, <1>8, <1>9, <1>10, <1>11

\* A subset taken away takes its cardinality away.
LEMMA CardMinus ==
  ASSUME NEW S, IsFiniteSet(S), NEW T \in SUBSET S
  PROVE  Cardinality(S \ T) = Cardinality(S) - Cardinality(T)
<1>1. S \cap T = T
  OBVIOUS
<1> QED
  BY <1>1, FS_Difference

\* The core's own variables after a step of Reclaim.
LEMMA ReclaimCore ==
  ASSUME IInv, NEW c \in Cores, NEW w \in Warps, Reclaim(c, w)
  PROVE  LET k == kernel[c]
             i == CtaOf(k, w)
             n == Cardinality(Exiting(c, w))
         IN
         /\ k \in Kernels /\ i \in CtaIds
         /\ active' = [active EXCEPT ![c] = @ \ Exiting(c, w)]
         /\ warp' = [warp EXCEPT ![c][w] = "exited"]
         /\ notCompleted' = [notCompleted EXCEPT ![c] = @ - n]
         /\ status' = [status EXCEPT ![c][i] = @ - n]
         /\ nextCta' = nextCta /\ launched' = launched
         /\ \/ /\ status[c][i] = n /\ nActive[c] = 1
               /\ nActive' = [nActive EXCEPT ![c] = 0]
               /\ kernel' = [kernel EXCEPT ![c] = NoKernel]
               /\ coresRunning' = [coresRunning EXCEPT ![k] = @ - 1]
               /\ IF KernelOver(k) THEN SetDone(k) ELSE UNCHANGED <<finished, slots>>
            \/ /\ status[c][i] = n /\ nActive[c] # 1
               /\ nActive' = [nActive EXCEPT ![c] = @ - 1]
               /\ UNCHANGED <<coresRunning, kernel, finished, slots>>
            \/ /\ status[c][i] # n
               /\ UNCHANGED <<nActive, coresRunning, kernel, finished, slots>>
<1>1. warp[c][w] = "done" /\ nActive \in [Cores -> Nat]
  BY DEF Reclaim, IInv, TypeOK
<1>2. kernel[c] \in Kernels /\ CtaOf(kernel[c], w) \in CtaIds
  BY <1>1, ExitingFacts
<1>3. nActive[c] = 1 => [nActive EXCEPT ![c] = @ - 1] = [nActive EXCEPT ![c] = 0]
  BY <1>1
<1> QED
  BY <1>2, <1>3 DEF Reclaim, LastThreadExits, CoreEmpty

\* What the exit takes from the core's counts.
LEMMA ReclaimCounts ==
  ASSUME IInv, NEW c \in Cores, NEW w \in Warps, Reclaim(c, w)
  PROVE  /\ active'[c] = active[c] \ Exiting(c, w)
         /\ notCompleted'[c] = Cardinality(active'[c])
         /\ nActive'[c] = Cardinality(UsedCtas(c)')
         /\ (kernel'[c] = NoKernel) <=> (nActive'[c] = 0)
         /\ \A j \in CtaIds : status'[c][j] = Cardinality(CtaActive(c, j)')
         /\ kernel'[c] = kernel[c] \/ active'[c] = {}
         /\ nActive'[c] \in Nat /\ notCompleted'[c] \in Nat
         /\ \A j \in CtaIds : status'[c][j] \in Nat
<1> DEFINE k == kernel[c]
           i == CtaOf(k, w)
           out == Exiting(c, w)
           n == Cardinality(out)
<1>1. /\ TypeOK /\ k \in Kernels /\ i \in CtaIds /\ out \subseteq CtaActive(c, i)
      /\ CtaActive(c, i) \subseteq active[c] /\ IsFiniteSet(active[c]) /\ IsFiniteSet(out)
      /\ n \in Nat \ {0} /\ n <= status[c][i]
  <2>1. warp[c][w] = "done"
    BY DEF Reclaim
  <2> QED
    BY <2>1, ExitingFacts DEF IInv
<1>2. /\ active'[c] = active[c] \ out
      /\ notCompleted'[c] = notCompleted[c] - n
      /\ \A j \in CtaIds : status'[c][j] = IF j = i THEN status[c][i] - n ELSE status[c][j]
  BY <1>1, ReclaimCore DEF TypeOK
<1>3. \/ /\ status[c][i] = n /\ nActive[c] = 1 /\ nActive'[c] = 0 /\ kernel'[c] = NoKernel
      \/ /\ status[c][i] = n /\ nActive[c] # 1 /\ nActive'[c] = nActive[c] - 1
         /\ kernel'[c] = kernel[c]
      \/ /\ status[c][i] # n /\ nActive'[c] = nActive[c] /\ kernel'[c] = kernel[c]
  BY <1>1, ReclaimCore DEF TypeOK
<1>4. /\ notCompleted[c] = Cardinality(active[c])
      /\ nActive[c] = Cardinality(UsedCtas(c)) /\ nActive[c] \in Nat
      /\ nActive[c] # 0
      /\ \A j \in CtaIds : status[c][j] = Cardinality(CtaActive(c, j)) /\ status[c][j] \in Nat
  BY <1>1, ConstantFacts DEF IInv, CoreAccounting, TypeOK
<1> HIDE DEF i, out, n, k
<1>5. notCompleted'[c] = Cardinality(active'[c]) /\ notCompleted'[c] \in Nat
  <2>1. Cardinality(active[c] \ out) = Cardinality(active[c]) - n
    <3>1. out \in SUBSET active[c]
      BY <1>1
    <3> QED
      BY <3>1, <1>1, CardMinus DEF n
  <2>2. Cardinality(active[c] \ out) \in Nat
    <3>1. active[c] \ out \in SUBSET active[c]
      OBVIOUS
    <3> QED
      BY <3>1, <1>1, CardFacts
  <2> QED
    BY <2>1, <2>2, <1>2, <1>4
<1>6. \A j \in CtaIds : status'[c][j] \in Nat
  BY <1>1, <1>2, <1>4
<1>7. IsFiniteSet(UsedCtas(c)) /\ UsedCtas(c) \in SUBSET CtaIds /\ i \in UsedCtas(c)
  <2>1. i \in UsedCtas(c)
    BY <1>1, <1>4 DEF UsedCtas
  <2> QED
    BY <2>1, FiniteSets, FS_Subset DEF UsedCtas
<1>8. status[c][i] = n => UsedCtas(c)' = UsedCtas(c) \ {i}
  BY <1>1, <1>2, <1>4 DEF UsedCtas
<1>9. status[c][i] # n => UsedCtas(c)' = UsedCtas(c)
  BY <1>1, <1>2, <1>4 DEF UsedCtas
<1>10. nActive'[c] = Cardinality(UsedCtas(c)') /\ nActive'[c] \in Nat
  <2> DEFINE used == UsedCtas(c)
  <2>0. used = UsedCtas(c) /\ IsFiniteSet(used) /\ i \in used
        /\ Cardinality(used) = nActive[c]
    BY <1>4, <1>7
  <2> HIDE DEF used
  <2>1. Cardinality(used \ {i}) = Cardinality(used) - 1
    <3>1. IsFiniteSet(used) /\ i \in used
      BY <2>0
    <3>2. Cardinality(used \ {i}) =
            IF i \in used THEN Cardinality(used) - 1 ELSE Cardinality(used)
      BY <3>1, FS_RemoveElement
    <3> QED
      BY <3>1, <3>2
  <2>2. nActive[c] - 1 \in Nat
    BY <1>4
  <2>3. CASE status[c][i] = n
    <3>1. nActive'[c] = nActive[c] - 1
      BY <2>3, <1>3, <1>4
    <3>2. UsedCtas(c)' = used \ {i}
      BY <2>3, <1>8, <2>0
    <3> QED
      BY <3>1, <3>2, <2>0, <2>1, <2>2
  <2>4. CASE status[c][i] # n
    BY <2>4, <1>3, <1>4, <1>9
  <2> QED
    BY <2>3, <2>4
<1>11. (kernel'[c] = NoKernel) <=> (nActive'[c] = 0)
  BY <1>1, <1>3, <1>4, ConstantFacts DEF k
<1>12. CASE kernel'[c] = kernel[c]
  <2>1. ASSUME NEW j \in CtaIds PROVE status'[c][j] = Cardinality(CtaActive(c, j)')
    <3>1. CtaActive(c, j)' = CtaActive(c, j) \ out
      BY <1>2, <1>12 DEF CtaActive
    <3>2. CASE j = i
      <4>1. IsFiniteSet(CtaActive(c, i)) /\ out \in SUBSET CtaActive(c, i)
        BY <1>1, FS_Subset
      <4>2. Cardinality(CtaActive(c, i) \ out) = Cardinality(CtaActive(c, i)) - n
        BY <4>1, CardMinus DEF n
      <4> QED
        BY <4>2, <3>1, <3>2, <1>1, <1>2, <1>4
    <3>3. CASE j # i
      <4>1. CtaActive(c, j) \cap CtaActive(c, i) = {}
        BY <3>3 DEF CtaActive
      <4>2. CtaActive(c, j)' = CtaActive(c, j)
        BY <4>1, <3>1, <1>1
      <4> QED
        BY <4>2, <3>3, <1>2, <1>4
    <3> QED
      BY <3>2, <3>3
  <2> QED
    BY <2>1, <1>2, <1>5, <1>6, <1>10, <1>11, <1>12 DEF out
<1>13. CASE kernel'[c] # kernel[c]
  <2>1. status[c][i] = n /\ nActive'[c] = 0
    BY <1>3, <1>13
  <2>2. UsedCtas(c)' = {}
    <3>1. UsedCtas(c) \ {i} \in SUBSET CtaIds
      BY <1>7
    <3>2. Cardinality(UsedCtas(c) \ {i}) = 0
      BY <2>1, <1>8, <1>10
    <3>3. UsedCtas(c) \ {i} = {}
      BY <3>1, <3>2, FiniteSets, CardFacts
    <3> QED
      BY <3>3, <2>1, <1>8
  <2>3. \A j \in CtaIds : status'[c][j] = 0
    BY <2>2 DEF UsedCtas
  <2>4. active'[c] = {}
    <3> SUFFICES ASSUME NEW t \in active'[c] PROVE FALSE
      OBVIOUS
    <3>1. t \in active[c] /\ t \notin out
      BY <1>2
    <3>2. PICK j \in 0..MaxCta(k)-1 : t \in CtaThreads(k, j)
      BY <3>1 DEF IInv, Placed, k
    <3>3. j \in CtaIds /\ CtaOf(k, t[1]) = j
      BY <3>2, <1>1, CtaFacts
    <3>4. t \in CtaActive(c, j)
      BY <3>1, <3>3 DEF CtaActive, k
    <3>5. CtaActive(c, j) \in SUBSET active[c]
      BY DEF CtaActive
    <3>6. CASE j # i
      <4>1. Cardinality(CtaActive(c, j)) = 0
        BY <3>3, <3>6, <2>3, <1>2, <1>4
      <4> QED
        BY <4>1, <3>4, <3>5, <1>1, CardFacts
    <3>7. CASE j = i
      <4>1. IsFiniteSet(CtaActive(c, i)) /\ out \in SUBSET CtaActive(c, i)
        BY <1>1, FS_Subset
      <4>2. Cardinality(CtaActive(c, i) \ out) = Cardinality(CtaActive(c, i)) - n
        BY <4>1, CardMinus DEF n
      <4>3. Cardinality(CtaActive(c, i) \ out) = 0
        BY <4>2, <2>1, <1>1, <1>4
      <4>4. CtaActive(c, i) \ out \in SUBSET active[c]
        BY <1>1
      <4>5. CtaActive(c, i) \ out = {}
        BY <4>3, <4>4, <1>1, CardFacts
      <4> QED
        BY <4>5, <3>1, <3>4, <3>7
    <3> QED
      BY <3>6, <3>7
  <2>5. \A j \in CtaIds : CtaActive(c, j)' = {}
    BY <2>4 DEF CtaActive
  <2>6. \A j \in CtaIds : status'[c][j] = Cardinality(CtaActive(c, j)')
    BY <2>3, <2>5, FS_EmptySet
  <2> QED
    BY <2>4, <2>6, <1>2, <1>5, <1>6, <1>10, <1>11 DEF out
<1> QED
  BY <1>12, <1>13

\* Steps that leave the kernels and their slots alone.
LEMMA SameSlots ==
  ASSUME IInv, UNCHANGED <<slots, nextCta, coresRunning, finished, launched, kernel>>
  PROVE  RunningCount' /\ SlotsUsed' /\ SlotsHeld' /\ FinishedComplete'
<1>1. /\ \A k \in Kernels : Bound(k)' = Bound(k)
      /\ \A k : InSlots(k)' <=> InSlots(k)
      /\ \A k : (NoMoreCtas(k)' <=> NoMoreCtas(k)) /\ (Done(k)' <=> Done(k))
  BY DEF Bound, InSlots, NoMoreCtas, Done
<1>2. RunningCount'
  BY <1>1 DEF IInv, RunningCount
<1>3. SlotsUsed'
  BY <1>1 DEF IInv, SlotsUsed
<1>4. SlotsHeld'
  <2>1. ASSUME NEW d \in Cores, kernel'[d] # NoKernel PROVE InSlots(kernel[d])'
    BY <2>1 DEF IInv, SlotsHeld, InSlots
  <2>2. ASSUME NEW n \in 0..Slots-1, slots'[n] # NoKernel PROVE ~Done(slots[n])'
    BY <2>2 DEF IInv, SlotsHeld, Done, NoMoreCtas
  <2> QED
    BY <2>1, <2>2 DEF SlotsHeld
<1>5. FinishedComplete'
  <2>1. launched \subseteq Kernels
    BY DEF IInv, TypeOK
  <2>2. \A k \in launched' : ~InSlots(k)' => NoMoreCtas(k)' /\ Bound(k)' = {}
    BY <1>1, <2>1 DEF IInv, FinishedComplete
  <2>3. \A n \in DOMAIN finished' : finished'[n] \in launched' /\ ~InSlots(finished[n])'
    BY DEF IInv, FinishedComplete, InSlots
  <2> QED
    BY <2>2, <2>3 DEF IInv, FinishedComplete
<1> QED
  BY <1>2, <1>3, <1>4, <1>5

\* Steps that leave the cores' counts alone and reclaim no warp.
LEMMA SameCores ==
  ASSUME IInv, UNCHANGED <<kernel, active, status, nActive, notCompleted>>,
         \A c \in Cores, w \in Warps : (warp'[c][w] = "exited") <=> (warp[c][w] = "exited")
  PROVE  CoreAccounting' /\ Placed'
<1>1. Placed'
  BY DEF IInv, Placed
<1>2. ASSUME NEW d \in Cores
      PROVE  /\ notCompleted'[d] = Cardinality(active'[d])
             /\ nActive'[d] = Cardinality(UsedCtas(d)')
             /\ (kernel'[d] = NoKernel) <=> (nActive'[d] = 0)
             /\ \A j \in CtaIds : status'[d][j] = Cardinality(CtaActive(d, j)')
  BY SameCore
<1>3. ASSUME NEW d \in Cores, NEW w \in Warps
      PROVE  (warp'[d][w] = "exited") <=> (\A t \in active'[d] : t[1] # w)
  BY DEF IInv, CoreAccounting
<1>4. CoreAccounting'
  BY <1>2, <1>3 DEF CoreAccounting
<1> QED
  BY <1>1, <1>4

LEMMA AppendFacts ==
  ASSUME NEW S, NEW s \in Seq(S), NEW x \in S
  PROVE  /\ Append(s, x) \in Seq(S) /\ Len(s) \in Nat
         /\ DOMAIN s = 1..Len(s) /\ DOMAIN Append(s, x) = 1..Len(s) + 1
         /\ \A i \in 1..Len(s) : Append(s, x)[i] = s[i]
         /\ Append(s, x)[Len(s) + 1] = x
BY AppendProperties

LEMMA ReclaimType ==
  ASSUME IInv, NEW c \in Cores, NEW w \in Warps, Reclaim(c, w)
  PROVE  TypeOK'
<1> DEFINE k == kernel[c]
           i == CtaOf(k, w)
           n == Cardinality(Exiting(c, w))
<1>1. TypeOK
  BY DEF IInv
<1>2. /\ k \in Kernels /\ i \in CtaIds
      /\ active' = [active EXCEPT ![c] = @ \ Exiting(c, w)]
      /\ warp' = [warp EXCEPT ![c][w] = "exited"]
      /\ notCompleted' = [notCompleted EXCEPT ![c] = @ - n]
      /\ status' = [status EXCEPT ![c][i] = @ - n]
  BY ReclaimCore
<1>3. nActive'[c] \in Nat /\ notCompleted'[c] \in Nat
      /\ \A j \in CtaIds : status'[c][j] \in Nat
  BY ReclaimCounts
<1> HIDE DEF i, n
<1>4. active' \in [Cores -> SUBSET (Warps \X Lanes)]
  BY <1>1, <1>2 DEF TypeOK
<1>5. warp' \in [Cores -> [Warps -> {"exited", "running", "done"}]]
  BY <1>1, <1>2 DEF TypeOK
<1>6. notCompleted' \in [Cores -> Nat]
  BY <1>1, <1>2, <1>3 DEF TypeOK
<1>7. status' \in [Cores -> [CtaIds -> Nat]]
  <2>1. status'[c] = [status[c] EXCEPT ![i] = @ - n]
    BY <1>1, <1>2 DEF TypeOK
  <2>2. status'[c] \in [CtaIds -> Nat]
    BY <2>1, <1>1, <1>3 DEF TypeOK
  <2> QED
    BY <2>2, <1>1, <1>2 DEF TypeOK
<1>8. coresRunning[k] \in Nat \ {0}
  <2>1. Bound(k) \in SUBSET Cores /\ c \in Bound(k)
    BY DEF Bound
  <2> QED
    BY <2>1, <1>2, FiniteSets, CardFacts DEF IInv, RunningCount
<1>9. /\ nActive' \in [Cores -> Nat] /\ coresRunning' \in [Kernels -> Nat]
      /\ kernel' \in [Cores -> Kernels \cup {NoKernel}]
  <2>1. \/ nActive' = nActive
        \/ nActive' = [nActive EXCEPT ![c] = nActive'[c]]
    BY <1>1, ReclaimCore DEF TypeOK
  <2>2. \/ coresRunning' = coresRunning
        \/ coresRunning' = [coresRunning EXCEPT ![k] = @ - 1]
    BY ReclaimCore
  <2>3. kernel' = kernel \/ kernel' = [kernel EXCEPT ![c] = NoKernel]
    BY ReclaimCore
  <2>4. /\ nActive \in [Cores -> Nat] /\ coresRunning \in [Kernels -> Nat]
        /\ kernel \in [Cores -> Kernels \cup {NoKernel}]
    BY <1>1 DEF TypeOK
  <2>5. nActive' \in [Cores -> Nat]
    BY <2>1, <2>4, <1>3
  <2>6. coresRunning' \in [Kernels -> Nat]
    BY <2>2, <2>4, <1>2, <1>8
  <2>7. kernel' \in [Cores -> Kernels \cup {NoKernel}]
    BY <2>3, <2>4
  <2> QED
    BY <2>5, <2>6, <2>7
<1>10. finished' \in Seq(Kernels) /\ slots' \in [0..Slots-1 -> Kernels \cup {NoKernel}]
  <2>1. SetDone(k) \/ UNCHANGED <<finished, slots>>
    BY ReclaimCore
  <2>2. CASE SetDone(k)
    BY <2>2, <1>1, <1>2, AppendFacts DEF TypeOK, SetDone
  <2>3. CASE UNCHANGED <<finished, slots>>
    BY <2>3, <1>1 DEF TypeOK
  <2> QED
    BY <2>1, <2>2, <2>3
<1>11. UNCHANGED <<lastKernel, nextCta, launched, counted, issueVars>>
  BY DEF Reclaim
<1> QED
  BY <1>1, <1>4, <1>5, <1>6, <1>7, <1>9, <1>10, <1>11 DEF TypeOK, issueVars

LEMMA ReclaimAccounting ==
  ASSUME IInv, NEW c \in Cores, NEW w \in Warps, Reclaim(c, w)
  PROVE  CoreAccounting' /\ Placed'
<1>1. TypeOK
  BY DEF IInv
<1>2. \A d \in Cores : d # c =>
        /\ active'[d] = active[d] /\ kernel'[d] = kernel[d] /\ status'[d] = status[d]
        /\ nActive'[d] = nActive[d] /\ notCompleted'[d] = notCompleted[d]
        /\ warp'[d] = warp[d]
  <2> DEFINE i == CtaOf(kernel[c], w)
             n == Cardinality(Exiting(c, w))
  <2>1. /\ active' = [active EXCEPT ![c] = @ \ Exiting(c, w)]
        /\ warp' = [warp EXCEPT ![c][w] = "exited"]
        /\ notCompleted' = [notCompleted EXCEPT ![c] = @ - n]
        /\ status' = [status EXCEPT ![c][i] = @ - n]
        /\ kernel' = kernel \/ kernel' = [kernel EXCEPT ![c] = NoKernel]
        /\ \/ nActive' = nActive
           \/ nActive' = [nActive EXCEPT ![c] = 0]
           \/ nActive' = [nActive EXCEPT ![c] = @ - 1]
    BY ReclaimCore
  <2> HIDE DEF i, n
  <2> QED
    BY <2>1, <1>1 DEF TypeOK
<1>3. active'[c] = active[c] \ Exiting(c, w) /\ (kernel'[c] = kernel[c] \/ active'[c] = {})
  BY ReclaimCounts
<1>4. \A v \in Warps : warp'[c][v] = IF v = w THEN "exited" ELSE warp[c][v]
  BY <1>1 DEF TypeOK, Reclaim
<1>5. ASSUME NEW d \in Cores
      PROVE  /\ notCompleted'[d] = Cardinality(active'[d])
             /\ nActive'[d] = Cardinality(UsedCtas(d)')
             /\ (kernel'[d] = NoKernel) <=> (nActive'[d] = 0)
             /\ \A j \in CtaIds : status'[d][j] = Cardinality(CtaActive(d, j)')
  <2>1. CASE d = c
    BY <2>1, ReclaimCounts
  <2>2. CASE d # c
    BY <2>2, <1>2, SameCore
  <2> QED
    BY <2>1, <2>2
<1>6. ASSUME NEW d \in Cores, NEW v \in Warps
      PROVE  (warp'[d][v] = "exited") <=> (\A t \in active'[d] : t[1] # v)
  <2>0. (warp[d][v] = "exited") <=> (\A t \in active[d] : t[1] # v)
    BY DEF IInv, CoreAccounting
  <2>1. CASE d # c
    BY <2>0, <2>1, <1>2
  <2>2. CASE d = c /\ v = w
    <3>1. \A t \in active'[c] : t[1] # w
      BY <1>3 DEF Exiting
    <3> QED
      BY <2>2, <3>1, <1>4
  <2>3. CASE d = c /\ v # w
    <3>1. \A t \in active[c] : t[1] = v => t \in active'[c]
      BY <1>3, <2>3 DEF Exiting
    <3> QED
      BY <2>0, <2>3, <3>1, <1>3, <1>4
  <2> QED
    BY <2>1, <2>2, <2>3
<1>7. CoreAccounting'
  BY <1>5, <1>6 DEF CoreAccounting
<1>8. ASSUME NEW d \in Cores, NEW t \in active'[d]
      PROVE  /\ kernel'[d] \in Kernels
             /\ \E j \in 0..MaxCta(kernel'[d])-1 : t \in CtaThreads(kernel'[d], j)
  <2>1. t \in active[d] /\ kernel'[d] = kernel[d]
    BY <1>2, <1>3
  <2> QED
    BY <2>1 DEF IInv, Placed
<1>9. Placed'
  BY <1>8 DEF Placed
<1> QED
  BY <1>7, <1>9

LEMMA ReclaimSlots ==
  ASSUME IInv, NEW c \in Cores, NEW w \in Warps, Reclaim(c, w)
  PROVE  RunningCount' /\ SlotsUsed' /\ SlotsHeld' /\ FinishedComplete'
<1>0. PICK k : k = kernel[c]
  OBVIOUS
<1>1. TypeOK /\ k \in Kernels /\ k # NoKernel /\ nextCta' = nextCta /\ launched' = launched
  BY <1>0, ReclaimCore, ConstantFacts DEF IInv
<1>2. CASE UNCHANGED <<coresRunning, kernel, finished, slots>>
  BY <1>1, <1>2, SameSlots
<1>3. CASE /\ kernel' = [kernel EXCEPT ![c] = NoKernel]
           /\ coresRunning' = [coresRunning EXCEPT ![k] = @ - 1]
           /\ IF KernelOver(k) THEN SetDone(k) ELSE UNCHANGED <<finished, slots>>
  <2>1. /\ \A l \in Kernels : l # k => Bound(l)' = Bound(l)
        /\ Bound(k)' = Bound(k) \ {c} /\ c \in Bound(k)
    BY <1>0, <1>1, <1>3, ConstantFacts DEF Bound, TypeOK
  <2>2. IsFiniteSet(Bound(k)) /\ coresRunning[k] = Cardinality(Bound(k))
        /\ coresRunning[k] \in Nat
    BY <1>1, FiniteSets, CardFacts DEF Bound, IInv, RunningCount, TypeOK
  <2>3. Cardinality(Bound(k) \ {c}) = coresRunning[k] - 1
    <3>1. c \in Bound(k) /\ IsFiniteSet(Bound(k))
      BY <2>1, <2>2
    <3>2. Cardinality(Bound(k) \ {c}) =
            IF c \in Bound(k) THEN Cardinality(Bound(k)) - 1 ELSE Cardinality(Bound(k))
      BY <3>1, FS_RemoveElement
    <3> QED
      BY <3>1, <3>2, <2>2
  <2>4. /\ coresRunning'[k] = coresRunning[k] - 1
        /\ \A l \in Kernels : l # k => coresRunning'[l] = coresRunning[l]
    BY <1>1, <1>3 DEF TypeOK
  <2>5. RunningCount'
    BY <2>1, <2>3, <2>4 DEF IInv, RunningCount
  <2>6. InSlots(k) /\ k \in launched /\ coresRunning[k] # 0
    <3>1. InSlots(k)
      BY <1>0, <1>1 DEF IInv, SlotsHeld
    <3>2. Bound(k) # {} /\ Bound(k) \in SUBSET Cores
      BY <2>1 DEF Bound
    <3> QED
      BY <3>1, <3>2, <2>2, <1>1, FiniteSets, CardFacts DEF IInv, SlotsUsed, InSlots
  <2>7. \A l \in Kernels : Bound(l)' \subseteq Bound(l)
    BY <2>1
  <2>8. \A d \in Cores : kernel'[d] # NoKernel => d # c /\ kernel'[d] = kernel[d]
                                                  /\ kernel[d] \in Kernels
    BY <1>1, <1>3 DEF TypeOK
  <2>9. CASE ~KernelOver(k)
    <3>1. slots' = slots /\ finished' = finished
      BY <1>3, <2>9
    <3>2. SlotsUsed'
      BY <3>1, <1>1, <2>7 DEF IInv, SlotsUsed
    <3>3. SlotsHeld'
      <4>1. ASSUME NEW d \in Cores, kernel'[d] # NoKernel PROVE InSlots(kernel[d])'
        BY <4>1, <2>8, <3>1 DEF IInv, SlotsHeld, InSlots
      <4>2. ASSUME NEW n \in 0..Slots-1, slots'[n] # NoKernel PROVE ~Done(slots[n])'
        <5>1. slots'[n] = slots[n] /\ slots[n] \in Kernels /\ ~Done(slots[n])
          BY <4>2, <3>1, <1>1 DEF TypeOK, IInv, SlotsHeld
        <5>2. CASE slots[n] = k
          BY <5>1, <5>2, <2>2, <2>4, <2>6, <2>9, <1>1
             DEF Done, NoMoreCtas, KernelOver
        <5>3. CASE slots[n] # k
          BY <5>1, <5>3, <2>4, <1>1 DEF Done, NoMoreCtas
        <5> QED
          BY <5>2, <5>3
      <4> QED
        BY <4>1, <4>2 DEF SlotsHeld
    <3>4. FinishedComplete'
      <4>1. ASSUME NEW l \in launched', ~InSlots(l)'
            PROVE  NoMoreCtas(l)' /\ Bound(l)' = {}
        <5>1. l \in launched /\ l \in Kernels /\ ~InSlots(l)
          BY <4>1, <3>1, <1>1 DEF InSlots, TypeOK
        <5> QED
          BY <5>1, <1>1, <2>7 DEF IInv, FinishedComplete, NoMoreCtas
      <4>2. \A n \in DOMAIN finished' : finished'[n] \in launched' /\ ~InSlots(finished[n])'
        BY <3>1, <1>1 DEF IInv, FinishedComplete, InSlots
      <4> QED
        BY <3>1, <4>1, <4>2 DEF IInv, FinishedComplete
    <3> QED
      BY <2>5, <3>2, <3>3, <3>4
  <2>10. CASE KernelOver(k)
    <3>1. PICK n \in 0..Slots-1 : slots[n] = k /\ slots' = [slots EXCEPT ![n] = NoKernel]
      BY <1>3, <2>10 DEF SetDone
    <3>2. finished' = Append(finished, k) /\ NoMoreCtas(k) /\ coresRunning[k] = 1
      BY <1>3, <2>10 DEF SetDone, KernelOver
    <3>3. Bound(k)' = {}
      <4>1. Bound(k) \ {c} \in SUBSET Cores /\ Cardinality(Bound(k) \ {c}) = 0
        BY <2>3, <3>2 DEF Bound
      <4> QED
        BY <4>1, <2>1, FiniteSets, CardFacts
    <3>4. /\ \A m \in 0..Slots-1 : slots'[m] = IF m = n THEN NoKernel ELSE slots[m]
          /\ \A m \in 0..Slots-1 : slots[m] = k => m = n
          /\ \A m \in 0..Slots-1 : slots[m] \in Kernels \cup {NoKernel}
      BY <3>1, <1>1 DEF TypeOK, IInv, SlotsUsed
    <3>5. ~InSlots(k)' /\ \A l : l # k /\ l # NoKernel => (InSlots(l)' <=> InSlots(l))
      <4>1. ~InSlots(k)'
        BY <3>1, <3>4, <1>1 DEF InSlots
      <4>2. ASSUME NEW l, l # k, l # NoKernel PROVE InSlots(l)' <=> InSlots(l)
        BY <4>2, <3>1, <3>4 DEF InSlots
      <4> QED
        BY <4>1, <4>2
    <3>6. SlotsUsed'
      <4>1. \A m \in 0..Slots-1 : slots'[m] # NoKernel => slots'[m] \in launched'
        BY <3>4, <1>1 DEF IInv, SlotsUsed
      <4>2. \A m, j \in 0..Slots-1 : slots'[m] = slots'[j] /\ slots'[m] # NoKernel => m = j
        BY <3>4 DEF IInv, SlotsUsed
      <4>3. \A l \in Kernels \ launched' : nextCta'[l] = 0 /\ Bound(l)' = {}
        BY <2>7, <1>1 DEF IInv, SlotsUsed
      <4> QED
        BY <4>1, <4>2, <4>3 DEF SlotsUsed
    <3>7. SlotsHeld'
      <4>1. ASSUME NEW d \in Cores, kernel'[d] # NoKernel PROVE InSlots(kernel[d])'
        <5>1. kernel[d] # k
          BY <4>1, <2>8, <3>3 DEF Bound
        <5>2. InSlots(kernel[d]) /\ kernel[d] # NoKernel /\ kernel'[d] = kernel[d]
          BY <4>1, <2>8 DEF IInv, SlotsHeld
        <5>3. PICK m \in 0..Slots-1 : slots[m] = kernel[d]
          BY <5>2 DEF InSlots
        <5>4. slots'[m] = kernel'[d]
          BY <5>1, <5>2, <5>3, <3>1, <3>4
        <5> QED
          BY <5>4 DEF InSlots
      <4>2. ASSUME NEW m \in 0..Slots-1, slots'[m] # NoKernel PROVE ~Done(slots[m])'
        <5>1. slots'[m] = slots[m] /\ slots[m] \in Kernels /\ slots[m] # k
          BY <4>2, <3>4, <3>1
        <5>2. ~Done(slots[m])
          BY <5>1, <4>2 DEF IInv, SlotsHeld
        <5> QED
          BY <5>1, <5>2, <2>4, <1>1 DEF Done, NoMoreCtas
      <4> QED
        BY <4>1, <4>2 DEF SlotsHeld
    <3>8. FinishedComplete'
      <4>1. ASSUME NEW l \in launched', ~InSlots(l)'
            PROVE  NoMoreCtas(l)' /\ Bound(l)' = {}
        <5>1. l \in launched /\ l \in Kernels
          BY <1>1 DEF TypeOK
        <5>2. CASE l = k
          BY <5>2, <3>2, <3>3, <1>1 DEF NoMoreCtas
        <5>3. CASE l # k
          BY <5>1, <5>3, <4>1, <3>5, <2>7, <1>1, ConstantFacts
             DEF IInv, FinishedComplete, NoMoreCtas
        <5> QED
          BY <5>2, <5>3
      <4> DEFINE len == Len(finished)
      <4>2. /\ len \in Nat /\ DOMAIN finished = 1..len /\ DOMAIN finished' = 1..len + 1
            /\ \A m \in 1..len : finished'[m] = finished[m] /\ finished[m] \in Kernels
            /\ finished'[len + 1] = k
        BY <3>2, <1>1, AppendFacts DEF TypeOK
      <4> HIDE DEF len
      <4>3. \A m \in 1..len : /\ finished[m] \in launched /\ ~InSlots(finished[m])
                              /\ finished[m] # k
        BY <4>2, <2>6 DEF IInv, FinishedComplete
      <4>4. \A m \in 1..len + 1 : m \in 1..len \/ m = len + 1
        BY <4>2
      <4>5. \A m, j \in DOMAIN finished' : finished'[m] = finished'[j] => m = j
        <5>1. \A m, j \in 1..len : finished[m] = finished[j] => m = j
          BY <4>2 DEF IInv, FinishedComplete
        <5> QED
          BY <5>1, <4>2, <4>3, <4>4
      <4>6. ASSUME NEW m \in DOMAIN finished'
            PROVE  finished'[m] \in launched' /\ ~InSlots(finished[m])'
        <5>1. CASE m \in 1..len
          <6>1. finished'[m] = finished[m] /\ finished[m] # k /\ finished[m] # NoKernel
                /\ ~InSlots(finished[m]) /\ finished[m] \in launched
            BY <5>1, <4>2, <4>3, ConstantFacts
          <6>2. ~(\E l \in 0..Slots-1 : slots'[l] = finished[m])
            BY <6>1, <3>4 DEF InSlots
          <6> QED
            BY <6>1, <6>2, <1>1 DEF InSlots
        <5>2. CASE m = len + 1
          BY <5>2, <4>2, <3>5, <2>6, <1>1 DEF InSlots
        <5> QED
          BY <5>1, <5>2, <4>2, <4>4
      <4> QED
        BY <4>1, <4>5, <4>6 DEF FinishedComplete
    <3> QED
      BY <2>5, <3>6, <3>7, <3>8
  <2> QED
    BY <2>9, <2>10
<1> QED
  BY <1>0, <1>2, <1>3, ReclaimCore

LEMMA ReclaimStep ==
  ASSUME IInv, NEW c \in Cores, NEW w \in Warps, Reclaim(c, w)
  PROVE  IInv'
BY ReclaimType, ReclaimAccounting, ReclaimSlots DEF IInv

-----------------------------------------------------------------------------
(* The other steps.                                                        *)

LEMMA WarpDoneStep ==
  ASSUME IInv, NEW c \in Cores, NEW w \in Warps, WarpDone(c, w)
  PROVE  IInv'
<1>1. TypeOK
  BY DEF IInv
<1>2. TypeOK'
  BY <1>1 DEF TypeOK, WarpDone, kernelVars, issueVars
<1>3. \A d \in Cores, v \in Warps : (warp'[d][v] = "exited") <=> (warp[d][v] = "exited")
  BY <1>1 DEF TypeOK, WarpDone
<1>4. UNCHANGED <<kernel, active, status, nActive, notCompleted>>
      /\ UNCHANGED <<slots, nextCta, coresRunning, finished, launched, kernel>>
  BY DEF WarpDone, kernelVars
<1> QED
  BY <1>2, <1>3, <1>4, SameCores, SameSlots DEF IInv

LEMMA IssueLoopStep ==
  ASSUME IInv, StartIssue \/ SkipCluster
  PROVE  IInv'
<1>1. TypeOK
  BY DEF IInv
<1>2. UNCHANGED <<kernelVars, coreVars>>
  BY DEF StartIssue, SkipCluster
<1>3. /\ pos' \in 0..Clusters /\ base' \in 0..Clusters-1 /\ lastCluster' = lastCluster
      /\ nextCore' = nextCore
  <2>1. CASE StartIssue
    BY <2>1, <1>1, ConstantFacts DEF StartIssue, TypeOK
  <2>2. CASE SkipCluster
    <3>1. pos' = pos + 1 /\ pos # Clusters /\ base' = base
      BY <2>2 DEF SkipCluster, Between
    <3>2. lastCluster' = lastCluster /\ nextCore' = nextCore
      BY <2>2 DEF SkipCluster
    <3>3. pos + 1 \in 0..Clusters
      BY <3>1, <1>1, ConstantFacts DEF TypeOK
    <3> QED
      BY <3>1, <3>2, <3>3, <1>1 DEF TypeOK
  <2> QED
    BY <2>1, <2>2
<1>4. TypeOK'
  BY <1>1, <1>2, <1>3 DEF TypeOK, kernelVars, coreVars
<1>5. UNCHANGED <<kernel, active, status, nActive, notCompleted, warp>>
      /\ UNCHANGED <<slots, nextCta, coresRunning, finished, launched, kernel>>
  BY <1>2 DEF kernelVars, coreVars
<1> QED
  BY <1>4, <1>5, SameCores, SameSlots DEF IInv

LEMMA LaunchStep ==
  ASSUME IInv, NEW k \in Kernels, Launch(k)
  PROVE  IInv'
<1>1. TypeOK /\ k # NoKernel /\ k \notin launched
  BY ConstantFacts DEF IInv, Launch
<1>2. PICK n \in 0..Slots-1 : SlotFor(n) /\ slots' = [slots EXCEPT ![n] = k]
  BY DEF Launch
<1>3. /\ launched' = launched \cup {k}
      /\ UNCHANGED <<lastKernel, nextCta, coresRunning, finished, coreVars, issueVars>>
  BY DEF Launch
<1>4. slots[n] = NoKernel
  BY <1>2 DEF SlotFor, FreeSlot, IInv, SlotsHeld
<1>5. /\ \A m \in 0..Slots-1 : slots'[m] = IF m = n THEN k ELSE slots[m]
      /\ \A m \in 0..Slots-1 : slots[m] # k
      /\ \A m \in 0..Slots-1 : slots[m] \in Kernels \cup {NoKernel}
  BY <1>1, <1>2 DEF TypeOK, IInv, SlotsUsed
<1>6. TypeOK'
  <2>1. slots' \in [0..Slots-1 -> Kernels \cup {NoKernel}] /\ launched' \in SUBSET Kernels
       
    BY <1>1, <1>2, <1>3 DEF TypeOK
  <2> QED
    BY <2>1, <1>1, <1>3 DEF TypeOK, coreVars, issueVars
<1>7. CoreAccounting' /\ Placed'
  BY <1>3, SameCores DEF coreVars
<1>8. \A l : Bound(l)' = Bound(l) /\ (NoMoreCtas(l)' <=> NoMoreCtas(l))
             /\ (Done(l)' <=> Done(l))
  BY <1>3 DEF Bound, NoMoreCtas, Done, coreVars
<1>9. \A l : InSlots(l)' <=> l = k \/ (l # NoKernel /\ InSlots(l)) \/ (l = NoKernel /\ InSlots(l)')
  BY <1>2, <1>4, <1>5 DEF InSlots
<1>10. RunningCount'
  BY <1>3, <1>8 DEF IInv, RunningCount
<1>11. SlotsUsed'
  <2>1. \A m \in 0..Slots-1 : slots'[m] # NoKernel => slots'[m] \in launched'
    BY <1>3, <1>5 DEF IInv, SlotsUsed
  <2>2. \A m, j \in 0..Slots-1 : slots'[m] = slots'[j] /\ slots'[m] # NoKernel => m = j
    BY <1>5 DEF IInv, SlotsUsed
  <2>3. \A l \in Kernels \ launched' : nextCta'[l] = 0 /\ Bound(l)' = {}
    BY <1>3, <1>8 DEF IInv, SlotsUsed
  <2> QED
    BY <2>1, <2>2, <2>3 DEF SlotsUsed
<1>12. SlotsHeld'
  <2>1. ASSUME NEW d \in Cores, kernel'[d] # NoKernel PROVE InSlots(kernel[d])'
    <3>1. kernel'[d] = kernel[d] /\ InSlots(kernel[d]) /\ kernel[d] # NoKernel
      BY <2>1, <1>3 DEF IInv, SlotsHeld, coreVars
    <3>2. PICK m \in 0..Slots-1 : slots[m] = kernel[d]
      BY <3>1 DEF InSlots
    <3>3. slots'[m] = kernel'[d]
      BY <3>1, <3>2, <1>4, <1>5
    <3> QED
      BY <3>3 DEF InSlots
  <2>2. ASSUME NEW m \in 0..Slots-1, slots'[m] # NoKernel PROVE ~Done(slots[m])'
    <3>1. CASE m = n
      <4>1. slots'[m] = k
        BY <3>1, <1>5
      <4>2. nextCta'[k] = 0 /\ Grid[k] \in Nat \ {0}
        BY <1>1, <1>3, WarpsPerCtaFacts DEF IInv, SlotsUsed
      <4> QED
        BY <4>1, <4>2 DEF Done, NoMoreCtas
    <3>2. CASE m # n
      <4>1. slots'[m] = slots[m] /\ ~Done(slots[m])
        BY <3>2, <2>2, <1>5 DEF IInv, SlotsHeld
      <4> QED
        BY <4>1, <1>3 DEF Done, NoMoreCtas
    <3> QED
      BY <3>1, <3>2
  <2> QED
    BY <2>1, <2>2 DEF SlotsHeld
<1>13. FinishedComplete'
  <2>1. ASSUME NEW l \in launched', ~InSlots(l)' PROVE NoMoreCtas(l)' /\ Bound(l)' = {}
    <3>1. l \in launched /\ l \in Kernels /\ l # NoKernel /\ ~InSlots(l)
      BY <2>1, <1>1, <1>3, <1>9, ConstantFacts DEF TypeOK
    <3> QED
      BY <3>1, <1>8 DEF IInv, FinishedComplete
  <2>2. ASSUME NEW m \in DOMAIN finished'
        PROVE  finished'[m] \in launched' /\ ~InSlots(finished[m])'
    <3>1. finished' = finished /\ finished[m] \in Kernels /\ finished[m] \in launched
          /\ ~InSlots(finished[m]) /\ finished[m] # k
      BY <2>2, <1>1, <1>3 DEF IInv, FinishedComplete, TypeOK
    <3>2. ~(\E j \in 0..Slots-1 : slots'[j] = finished'[m])
      BY <3>1, <1>5 DEF InSlots
    <3> QED
      BY <3>1, <3>2, <1>3 DEF InSlots
  <2> QED
    BY <2>1, <2>2, <1>3 DEF IInv, FinishedComplete
<1> QED
  BY <1>6, <1>7, <1>10, <1>11, <1>12, <1>13 DEF IInv

LEMMA FinishedStep == IInv /\ FinishedKernel => IInv'
<1> SUFFICES ASSUME IInv, FinishedKernel PROVE IInv'
  OBVIOUS
<1>1. TypeOK /\ finished # <<>> /\ finished' = Tail(finished)
      /\ UNCHANGED <<slots, lastKernel, nextCta, coresRunning, launched,
                     coreVars, issueVars>>
  BY DEF IInv, FinishedKernel
<1>2. /\ Tail(finished) \in Seq(Kernels)
      /\ \A m \in DOMAIN finished' : /\ m \in Nat /\ m + 1 \in DOMAIN finished
                                     /\ finished'[m] = finished[m + 1]
  <2>1. finished \in Seq(Kernels) /\ finished # <<>> /\ finished' = Tail(finished)
    BY <1>1 DEF TypeOK
  <2>2. /\ Tail(finished) \in Seq(Kernels) /\ Len(Tail(finished)) = Len(finished) - 1
        /\ \A m \in 1..Len(Tail(finished)) : Tail(finished)[m] = finished[m + 1]
    BY ONLY <2>1, HeadTailProperties
  <2>3. Len(finished) \in Nat /\ DOMAIN finished = 1..Len(finished) /\ DOMAIN finished' = 1..Len(finished')
    BY ONLY <2>1, <2>2
  <2> QED
    BY ONLY <2>1, <2>2, <2>3
<1>3. TypeOK'
  BY <1>1, <1>2 DEF TypeOK, coreVars, issueVars
<1>4. CoreAccounting' /\ Placed'
  BY <1>1, SameCores DEF coreVars
<1>5. \A l : /\ Bound(l)' = Bound(l) /\ (InSlots(l)' <=> InSlots(l))
             /\ (NoMoreCtas(l)' <=> NoMoreCtas(l)) /\ (Done(l)' <=> Done(l))
  BY <1>1 DEF Bound, NoMoreCtas, Done, InSlots, coreVars
<1>6. RunningCount'
  BY <1>1, <1>5 DEF IInv, RunningCount
<1>7. SlotsUsed'
  BY <1>1, <1>5 DEF IInv, SlotsUsed
<1>8. SlotsHeld'
  <2>1. ASSUME NEW d \in Cores, kernel'[d] # NoKernel PROVE InSlots(kernel[d])'
    BY <2>1, <1>1 DEF IInv, SlotsHeld, InSlots, coreVars
  <2>2. ASSUME NEW m \in 0..Slots-1, slots'[m] # NoKernel PROVE ~Done(slots[m])'
    BY <2>2, <1>1 DEF IInv, SlotsHeld, Done, NoMoreCtas
  <2> QED
    BY <2>1, <2>2 DEF SlotsHeld
<1>9. FinishedComplete'
  <2>1. \A l \in launched' : ~InSlots(l)' => NoMoreCtas(l)' /\ Bound(l)' = {}
    BY <1>1, <1>5 DEF IInv, FinishedComplete
  <2>2. \A m, j \in DOMAIN finished' : finished'[m] = finished'[j] => m = j
    <3> SUFFICES ASSUME NEW m \in DOMAIN finished', NEW j \in DOMAIN finished',
                        finished'[m] = finished'[j]
                 PROVE  m = j
      OBVIOUS
    <3>1. m + 1 = j + 1
      BY <1>2 DEF IInv, FinishedComplete
    <3> QED
      BY <3>1, <1>2
  <2>3. ASSUME NEW m \in DOMAIN finished'
        PROVE  finished'[m] \in launched' /\ ~InSlots(finished[m])'
    <3>1. finished'[m] \in launched /\ ~InSlots(finished'[m])
      BY <1>2 DEF IInv, FinishedComplete
    <3> QED
      BY <3>1, <1>1 DEF InSlots
  <2> QED
    BY <2>1, <2>2, <2>3 DEF FinishedComplete
<1> QED
  BY <1>3, <1>4, <1>6, <1>7, <1>8, <1>9 DEF IInv

-----------------------------------------------------------------------------
(* The theorems.                                                           *)

\* The invariant holds in every reachable state.
THEOREM Inductive == Spec => []IInv
<1>1. IInv /\ [Next]_vars => IInv'
  <2> SUFFICES ASSUME IInv, [Next]_vars PROVE IInv'
    OBVIOUS
  <2>1. CASE \E k \in Kernels : Launch(k)
    BY <2>1, LaunchStep
  <2>2. CASE FinishedKernel
    BY <2>2, FinishedStep
  <2>3. CASE \E c \in Cores, w \in Warps : WarpDone(c, w) \/ Reclaim(c, w)
    BY <2>3, WarpDoneStep, ReclaimStep
  <2>4. CASE StartIssue \/ SkipCluster
    BY <2>4, IssueLoopStep
  <2>5. CASE IssueCluster
    BY <2>5, IssueStep
  <2>6. CASE UNCHANGED vars
    <3>1. UNCHANGED <<kernelVars, coreVars, issueVars>>
      BY <2>6 DEF vars
    <3>2. TypeOK'
      BY <3>1 DEF IInv, TypeOK, kernelVars, coreVars, issueVars
    <3>3. CoreAccounting' /\ Placed'
      BY <3>1, SameCores DEF coreVars
    <3>4. RunningCount' /\ SlotsUsed' /\ SlotsHeld' /\ FinishedComplete'
      BY <3>1, SameSlots DEF kernelVars, coreVars
    <3> QED
      BY <3>2, <3>3, <3>4 DEF IInv
  <2> QED
    BY <2>1, <2>2, <2>3, <2>4, <2>5, <2>6 DEF Next
<1> QED
  BY <1>1, InitInv, PTL DEF Spec

\* The counters never go below zero: the types, for every configuration.
THEOREM TypeCorrect == Spec => []TypeOK
BY Inductive, PTL DEF IInv

\* inc_running() and dec_running() always count the cores bound to a kernel.
THEOREM RunningCountCorrect == Spec => []RunningCount
BY Inductive, PTL DEF IInv

\* A core's counts of its threads, CTA slots and warps agree with its threads.
THEOREM AccountingCorrect == Spec => []CoreAccounting
BY Inductive, PTL DEF IInv

\* The CTA slot that issue_block2core() asserts is there whenever max_cta()
\* admits a CTA, and none of its threads is active.
THEOREM RoomCorrect == Spec => []RoomIsReal
BY Inductive, RoomInv, PTL

\* A kernel a core runs holds a slot, and no slot holds a done() kernel.
THEOREM SlotsHeldCorrect == Spec => []SlotsHeld
BY Inductive, PTL DEF IInv

\* A kernel that left its slot ran all its CTAs, and its end is reported once.
THEOREM FinishedCompleteCorrect == Spec => []FinishedComplete
BY Inductive, PTL DEF IInv

\* The counts of kernels, cores, CTAs and threads are exact (CountsSound).
THEOREM CountsAreSound == Spec => []CountsSound
<1>1. TypeOK /\ CoreAccounting /\ RunningCount => CountsSound
  BY DEF CountsSound
<1> QED BY <1>1, TypeCorrect, AccountingCorrect, RunningCountCorrect, PTL

\* The slots hold exactly the kernels that are not over (SlotsSound).
THEOREM SlotsAreSound == Spec => []SlotsSound
<1>1. SlotsHeld /\ FinishedComplete => SlotsSound
  BY DEF SlotsSound
<1> QED BY <1>1, SlotsHeldCorrect, FinishedCompleteCorrect, PTL

-----------------------------------------------------------------------------
(* The dispatcher implements KernelWork.                                   *)

\* No kernel hands out more CTAs than its grid has.
WithinGrid == \A k \in Kernels : nextCta[k] <= Grid[k]

\* Only an issued CTA advances m_next_cta, and only below num_blocks().
LEMMA GridStep ==
  ASSUME IInv, WithinGrid, [Next]_vars
  PROVE  WithinGrid'
<1>1. nextCta \in [Kernels -> Nat] /\ Grid \in [Kernels -> Nat \ {0}]
  BY DispatchConstants DEF IInv, TypeOK
<1>2. CASE IssueCluster
  <2>1. PICK c \in Cores, k \in Kernels : \E i \in 0..MaxCta(k)-1 : Issues(c, k, i)
    BY <1>2, IssueEffects
  <2>2. nextCta' = [nextCta EXCEPT ![k] = @ + 1] /\ nextCta[k] < Grid[k]
    BY <2>1, <1>1 DEF Issues, IssueCta, NoMoreCtas
  <2> QED
    BY <1>1, <2>2 DEF WithinGrid
<1>3. CASE nextCta' = nextCta
  BY <1>3 DEF WithinGrid
<1>4. ASSUME NEW c \in Cores, NEW w \in Warps, Reclaim(c, w) PROVE nextCta' = nextCta
  BY <1>4 DEF Reclaim
<1>5. ASSUME NEW c \in Cores, NEW w \in Warps, WarpDone(c, w) PROVE nextCta' = nextCta
  BY <1>5 DEF WarpDone, kernelVars
<1> QED
  BY <1>2, <1>3, <1>4, <1>5
     DEF Next, Launch, FinishedKernel, StartIssue, SkipCluster, kernelVars, vars

\* The CTAs that run: those of a core are its CTA slots in use.
LEMMA LiveFacts ==
  ASSUME IInv, NEW k \in Kernels
  PROVE  /\ Live(k) \subseteq Cores \X CtaIds
         /\ IsFiniteSet(Live(k)) /\ Cardinality(Live(k)) \in Nat
         /\ \A c \in Cores : kernel[c] = k => \E i \in CtaIds : <<c, i>> \in Live(k)
<1>1. Live(k) \in SUBSET (Cores \X CtaIds) /\ IsFiniteSet(Cores \X CtaIds)
  BY FiniteSets, FS_Product DEF Live
<1>2. ASSUME NEW c \in Cores, kernel[c] = k PROVE \E i \in CtaIds : <<c, i>> \in Live(k)
  <2>1. UsedCtas(c) \in SUBSET CtaIds /\ nActive[c] = Cardinality(UsedCtas(c))
        /\ nActive[c] # 0
    BY <1>2, ConstantFacts DEF IInv, CoreAccounting, UsedCtas
  <2>2. PICK i \in CtaIds : status[c][i] # 0
    BY <2>1, FS_EmptySet DEF UsedCtas
  <2> QED
    BY <2>2, <1>2 DEF Live
<1> QED
  BY <1>1, <1>2, CardFacts

\* A step that leaves kernels, CTA slots and counts of CTAs alone is no work.
LEMMA NoWork ==
  ASSUME UNCHANGED <<kernel, status, nextCta, slots, launched>>
  PROVE  UNCHANGED Work!vars
BY DEF Work!vars, Live, InSlots

\* launch(): the kernel starts.
LEMMA LaunchWork ==
  ASSUME IInv, NEW k \in Kernels, Launch(k)
  PROVE  Work!Launch(k)
<1>1. PICK n \in 0..Slots-1 : SlotFor(n) /\ slots' = [slots EXCEPT ![n] = k]
  BY DEF Launch
<1>2. k \notin launched /\ launched' = launched \cup {k}
      /\ UNCHANGED <<kernel, status, nextCta>>
  BY DEF Launch, coreVars
<1>3. slots[n] = NoKernel /\ k # NoKernel
  BY <1>1, ConstantFacts DEF SlotFor, FreeSlot, IInv, SlotsHeld
<1>4. /\ \A m \in 0..Slots-1 : slots'[m] = IF m = n THEN k ELSE slots[m]
      /\ \A m \in 0..Slots-1 : slots[m] # k
  BY <1>1, <1>2, <1>3 DEF IInv, TypeOK, SlotsUsed
<1>5. \A l \in Kernels : InSlots(l)' <=> InSlots(l) \/ l = k
  BY <1>1, <1>3, <1>4, ConstantFacts DEF InSlots
<1>6. launched \subseteq Kernels /\ ~InSlots(k)
  BY <1>4 DEF IInv, TypeOK, InSlots
<1> DEFINE running == {l \in Kernels : InSlots(l)}
           over == {l \in launched : ~InSlots(l)}
<1>7. k \notin running \cup over /\ running' = running \cup {k} /\ over' = over
  <2>1. over' = {l \in launched \cup {k} : ~InSlots(l)'}
    BY <1>2
  <2> QED
    BY <2>1, <1>2, <1>5, <1>6
<1>8. \A l : Live(l)' = Live(l)
  BY <1>2 DEF Live
<1> QED
  BY <1>2, <1>7, <1>8 DEF Work!Launch

\* issue_block2core(): a CTA of the kernel is handed out.
LEMMA IssueWork ==
  ASSUME IInv, IssueCluster
  PROVE  \E k \in Kernels : Work!HandOut(k)
<1>1. PICK c \in Cores, k \in Kernels : \E i \in 0..MaxCta(k)-1 : Issues(c, k, i)
  BY IssueEffects
<1>2. PICK i \in 0..MaxCta(k)-1 : Issues(c, k, i)
  BY <1>1
<1>3. /\ InSlots(k) /\ nextCta[k] < Grid[k] /\ kernel[c] \in {k, NoKernel}
      /\ status[c][i] = 0
      /\ nextCta' = [nextCta EXCEPT ![k] = @ + 1]
      /\ kernel' = [kernel EXCEPT ![c] = k]
      /\ status' = [status EXCEPT ![c][i] = Cardinality(CtaThreads(k, i))]
      /\ slots' = slots /\ launched' = launched
  <2>1. nextCta[k] \in Nat /\ Grid[k] \in Nat
    BY DispatchConstants DEF IInv, TypeOK
  <2>2. nextCta[k] < Grid[k]
    BY <2>1, <1>2 DEF Issues, NoMoreCtas
  <2> QED
    BY <2>2, <1>2 DEF Issues, IssueCta
<1>4. /\ i \in CtaIds /\ k # NoKernel
      /\ nextCta \in [Kernels -> Nat] /\ Grid \in [Kernels -> Nat \ {0}]
      /\ kernel \in [Cores -> Kernels \cup {NoKernel}]
      /\ status \in [Cores -> [CtaIds -> Nat]]
  BY CtaFacts, ConstantFacts, DispatchConstants DEF IInv, TypeOK
<1>5. Cardinality(CtaThreads(k, i)) # 0
  <2>1. CtaThreads(k, i) \in SUBSET (Warps \X Lanes) /\ CtaThreads(k, i) # {}
    BY CtaFacts
  <2> QED
    BY <2>1, FiniteSets, CardFacts
<1>6. kernel[c] = NoKernel => \A j \in CtaIds : status[c][j] = 0
  <2>1. kernel[c] = NoKernel => UsedCtas(c) = {}
    <3>1. UsedCtas(c) \in SUBSET CtaIds
      BY DEF UsedCtas
    <3> QED
      BY <3>1, FiniteSets, CardFacts DEF IInv, CoreAccounting
  <2> QED
    BY <2>1 DEF UsedCtas
<1>7. /\ \A d \in Cores : kernel'[d] = IF d = c THEN k ELSE kernel[d]
      /\ \A d \in Cores, j \in CtaIds :
           status'[d][j] = IF d = c /\ j = i THEN Cardinality(CtaThreads(k, i))
                           ELSE status[d][j]
  BY <1>3, <1>4
<1>8. Live(k)' = Live(k) \cup {<<c, i>>} /\ <<c, i>> \notin Live(k)
  <2>1. ASSUME NEW p \in Cores \X CtaIds
        PROVE  p \in Live(k)' <=> p \in Live(k) \/ p = <<c, i>>
    <3>1. PICK d \in Cores, j \in CtaIds : p = <<d, j>>
      OBVIOUS
    <3> QED
      BY <3>1, <1>3, <1>4, <1>5, <1>6, <1>7 DEF Live
  <2>2. Live(k)' \subseteq Cores \X CtaIds /\ Live(k) \subseteq Cores \X CtaIds
    BY DEF Live
  <2>3. <<c, i>> \notin Live(k)
    BY <1>3 DEF Live
  <2> QED
    BY <2>1, <2>2, <2>3, <1>4
<1>9. ASSUME NEW l \in Kernels, l # k PROVE Live(l)' = Live(l)
  <2>1. ASSUME NEW p \in Cores \X CtaIds PROVE p \in Live(l)' <=> p \in Live(l)
    <3>1. PICK d \in Cores, j \in CtaIds : p = <<d, j>>
      OBVIOUS
    <3>2. l # NoKernel
      BY ConstantFacts
    <3> QED
      BY <3>1, <3>2, <1>9, <1>3, <1>7 DEF Live
  <2>2. Live(l)' \subseteq Cores \X CtaIds /\ Live(l) \subseteq Cores \X CtaIds
    BY DEF Live
  <2> QED
    BY <2>1, <2>2
<1>10. Cardinality(Live(k)') = Cardinality(Live(k)) + 1
  BY <1>8, LiveFacts, FS_AddElement
<1> DEFINE left == [l \in Kernels |-> Grid[l] - nextCta[l]]
           live == [l \in Kernels |-> Cardinality(Live(l))]
<1>11. left[k] > 0 /\ left' = [left EXCEPT ![k] = @ - 1]
  <2>1. \A l \in Kernels :
          Grid[l] - nextCta'[l] = IF l = k THEN (Grid[l] - nextCta[l]) - 1
                                  ELSE Grid[l] - nextCta[l]
    BY <1>3, <1>4
  <2>2. left' = [l \in Kernels |-> Grid[l] - nextCta'[l]]
    OBVIOUS
  <2>3. [left EXCEPT ![k] = @ - 1] =
          [l \in Kernels |-> IF l = k THEN (Grid[l] - nextCta[l]) - 1
                             ELSE Grid[l] - nextCta[l]]
    OBVIOUS
  <2>4. Grid[k] - nextCta[k] > 0
    BY <1>3, <1>4
  <2> QED
    BY <2>1, <2>2, <2>3, <2>4
<1>12. live' = [live EXCEPT ![k] = @ + 1]
  BY <1>9, <1>10
<1>13. \A l : InSlots(l)' <=> InSlots(l)
  BY <1>3 DEF InSlots
<1>14. Work!HandOut(k)
  BY <1>3, <1>11, <1>12, <1>13 DEF Work!HandOut
<1> QED
  BY <1>14

\* No CTA of kernel k that runs on core c ends, or one does.
CtaMayEnd(c, k) ==
  \/ /\ \A l \in Kernels : Live(l)' = Live(l)
     /\ UNCHANGED <<slots, launched, nextCta>>
  \/ /\ nActive'[c] # nActive[c]
     /\ \E i \in CtaIds :
          /\ <<c, i>> \in Live(k)
          /\ \A l \in Kernels : Live(l)' = Live(l) \ {<<c, i>>}
          /\ \A l \in Kernels : l # k => Live(l)' = Live(l)
          /\ nActive[c] = 1 => \A j \in CtaIds : <<c, j>> \in Live(k) => j = i
          /\ nActive[c] # 1 => \E j \in CtaIds : j # i /\ <<c, j>> \in Live(k)

\* What a reclaimed warp does to the CTAs that run: nothing, or the CTA of the
\* warp is over.
LEMMA ReclaimLive ==
  ASSUME IInv, NEW c \in Cores, NEW w \in Warps, NEW k \in Kernels, k = kernel[c],
         Reclaim(c, w)
  PROVE  CtaMayEnd(c, k)
<1> USE DEF CtaMayEnd
<1>1. PICK i, n : k = kernel[c] /\ i = CtaOf(k, w) /\ n = Cardinality(Exiting(c, w))
  OBVIOUS
<1>2. /\ k \in Kernels /\ k # NoKernel /\ i \in CtaIds
      /\ status' = [status EXCEPT ![c][i] = @ - n]
      /\ nextCta' = nextCta /\ launched' = launched
      /\ \/ /\ status[c][i] = n /\ nActive[c] = 1
            /\ nActive' = [nActive EXCEPT ![c] = 0]
            /\ kernel' = [kernel EXCEPT ![c] = NoKernel]
         \/ /\ status[c][i] = n /\ nActive[c] # 1
            /\ nActive' = [nActive EXCEPT ![c] = @ - 1] /\ kernel' = kernel
         \/ status[c][i] # n /\ kernel' = kernel /\ slots' = slots
  BY <1>1, ReclaimCore, ConstantFacts
<1>3. /\ kernel \in [Cores -> Kernels \cup {NoKernel}]
      /\ status \in [Cores -> [CtaIds -> Nat]] /\ nActive \in [Cores -> Nat]
  BY DEF IInv, TypeOK
<1>4. n \in Nat \ {0} /\ n <= status[c][i]
  <2>1. warp[c][w] = "done"
    BY DEF Reclaim
  <2> QED
    BY <2>1, <1>1, ExitingFacts
<1>5. \A d \in Cores, j \in CtaIds :
        status'[d][j] = IF d = c /\ j = i THEN status[c][i] - n ELSE status[d][j]
  BY <1>2, <1>3
<1>6. \A l : /\ Live(l) \subseteq Cores \X CtaIds /\ Live(l)' \subseteq Cores \X CtaIds
             /\ \A d \in Cores, j \in CtaIds :
                  /\ <<d, j>> \in Live(l) <=> kernel[d] = l /\ status[d][j] # 0
                  /\ <<d, j>> \in Live(l)' <=> kernel'[d] = l /\ status'[d][j] # 0
  BY DEF Live
<1>7. CASE status[c][i] # n
  <2>1. kernel' = kernel /\ slots' = slots
    BY <1>2, <1>7
  <2>2. ASSUME NEW d \in Cores, NEW j \in CtaIds
        PROVE  (status'[d][j] # 0) <=> (status[d][j] # 0)
    <3>0. status[c][i] \in Nat
      BY <1>2, <1>3
    <3>1. status[c][i] - n # 0 /\ status[c][i] # 0
      BY <3>0, <1>4, <1>7
    <3> QED
      BY <3>1, <1>5
  <2>3. \A l \in Kernels : Live(l)' = Live(l)
    BY <2>1, <2>2 DEF Live
  <2> QED
    BY <1>2, <2>1, <2>3
<1>8. CASE status[c][i] = n
  <2>1. <<c, i>> \in Live(k)
    BY <1>1, <1>2, <1>4, <1>6, <1>8
  <2>2. UsedCtas(c) = {j \in CtaIds : status[c][j] # 0} /\ i \in UsedCtas(c)
        /\ IsFiniteSet(UsedCtas(c)) /\ Cardinality(UsedCtas(c)) = nActive[c]
    <3>1. UsedCtas(c) \in SUBSET CtaIds
      BY DEF UsedCtas
    <3> QED
      BY <3>1, <1>2, <1>4, <1>8, FiniteSets, CardFacts
         DEF UsedCtas, IInv, CoreAccounting
  <2>3. Cardinality(UsedCtas(c) \ {i}) = nActive[c] - 1 /\ IsFiniteSet(UsedCtas(c) \ {i})
    BY <2>2, FS_RemoveElement
  <2>4. (nActive[c] = 1) <=> (UsedCtas(c) \ {i} = {})
    <3>1. (nActive[c] = 1) <=> (Cardinality(UsedCtas(c) \ {i}) = 0)
      BY <2>3, <1>3
    <3> QED
      BY <3>1, <2>3, FS_EmptySet
  <2>5. nActive[c] = 1 => \A j \in CtaIds : <<c, j>> \in Live(k) => j = i
    BY <2>2, <2>4, <1>6
  <2>6. nActive[c] # 1 => \E j \in CtaIds : j # i /\ <<c, j>> \in Live(k)
    BY <2>2, <2>4, <1>1, <1>6
  <2>7. /\ \A d \in Cores : d # c => kernel'[d] = kernel[d]
        /\ kernel'[c] = k \/ (kernel'[c] = NoKernel /\ nActive[c] = 1)
        /\ nActive'[c] # nActive[c]
    BY <1>1, <1>2, <1>3, <1>8
  <2>8. ASSUME NEW l \in Kernels, NEW d \in Cores, NEW j \in CtaIds
        PROVE  <<d, j>> \in Live(l)' <=> <<d, j>> \in Live(l) /\ <<d, j>> # <<c, i>>
    <3>1. l # NoKernel
      BY ConstantFacts
    <3>2. CASE d # c
      BY <3>2, <2>7, <1>5, <1>6
    <3>3. CASE d = c /\ j = i
      BY <3>3, <1>3, <1>5, <1>6, <1>8
    <3>4. CASE d = c /\ j # i
      <4>1. status'[d][j] = status[d][j]
        BY <3>4, <1>5
      <4>2. CASE l = k
        BY <4>1, <4>2, <3>1, <3>4, <2>5, <2>7, <1>1, <1>6
      <4>3. CASE l # k
        BY <4>1, <4>3, <3>1, <3>4, <2>7, <1>1, <1>6
      <4> QED
        BY <4>2, <4>3
    <3> QED
      BY <3>2, <3>3, <3>4
  <2>9. ASSUME NEW l \in Kernels PROVE Live(l)' = Live(l) \ {<<c, i>>}
    BY <2>8, <1>6
  <2>10. \A l \in Kernels : l # k => <<c, i>> \notin Live(l)
    BY <1>1, <1>2, <1>6
  <2>11. \A l \in Kernels : l # k => Live(l)' = Live(l)
    BY <2>9, <2>10
  <2> QED
    BY <2>1, <2>5, <2>6, <2>7, <2>9, <2>11, <1>1, <1>2
<1> QED
  BY <1>7, <1>8

\* Which kernels are running and over after a warp is reclaimed.
LEMMA ReclaimOver ==
  ASSUME IInv, NEW c \in Cores, NEW w \in Warps, Reclaim(c, w)
  PROVE  LET k == kernel[c] IN
         /\ k \in Kernels /\ InSlots(k) /\ k \in launched
         /\ launched' = launched /\ nextCta' = nextCta
         /\ \/ /\ nActive[c] = 1 /\ KernelOver(k)
               /\ \A l \in Kernels : InSlots(l)' <=> InSlots(l) /\ l # k
            \/ /\ nActive[c] # 1 \/ ~KernelOver(k)
               /\ slots' = slots
            \/ UNCHANGED <<slots, nActive>>
<1>1. PICK k : k = kernel[c]
  OBVIOUS
<1>2. /\ k \in Kernels /\ k # NoKernel /\ launched' = launched /\ nextCta' = nextCta
      /\ \/ /\ nActive[c] = 1
            /\ IF KernelOver(k) THEN SetDone(k) ELSE UNCHANGED <<finished, slots>>
         \/ nActive[c] # 1 /\ slots' = slots
         \/ UNCHANGED <<slots, nActive>>
  BY <1>1, ReclaimCore, ConstantFacts
<1>3. InSlots(k) /\ k \in launched
  BY <1>1, <1>2 DEF IInv, SlotsHeld, SlotsUsed, InSlots
<1>4. ASSUME SetDone(k) PROVE \A l \in Kernels : InSlots(l)' <=> InSlots(l) /\ l # k
  <2>1. PICK n \in 0..Slots-1 : slots[n] = k /\ slots' = [slots EXCEPT ![n] = NoKernel]
    BY <1>4 DEF SetDone
  <2>2. /\ \A m \in 0..Slots-1 : slots'[m] = IF m = n THEN NoKernel ELSE slots[m]
        /\ \A m \in 0..Slots-1 : slots[m] = k => m = n
    BY <1>2, <2>1 DEF IInv, TypeOK, SlotsUsed
  <2>3. ASSUME NEW l \in Kernels PROVE InSlots(l)' <=> InSlots(l) /\ l # k
    BY <2>1, <2>2, ConstantFacts DEF InSlots
  <2> QED
    BY <2>3
<1> QED
  BY <1>1, <1>2, <1>3, <1>4

\* A core that is not the kernel's last has company: more than one CTA is left
\* or live.
LEMMA MoreToCome ==
  ASSUME IInv, NEW c \in Cores, NEW i \in CtaIds, NEW k \in Kernels,
         kernel[c] = k, <<c, i>> \in Live(k), NoMoreCtas(k),
         \/ coresRunning[k] # 1
         \/ \E j \in CtaIds : j # i /\ <<c, j>> \in Live(k)
  PROVE  Cardinality(Live(k)) > 1
<1>1. PICK p \in Live(k) : p # <<c, i>>
  <2>1. CASE \E j \in CtaIds : j # i /\ <<c, j>> \in Live(k)
    BY <2>1
  <2>2. CASE coresRunning[k] # 1
    <3>1. c \in Bound(k) /\ IsFiniteSet(Bound(k)) /\ Cardinality(Bound(k)) # 1
      BY <2>2, FiniteSets, CardFacts DEF Bound, IInv, RunningCount
    <3>2. Bound(k) # {c}
      BY <3>1, FS_Singleton
    <3>3. PICK d \in Cores : d # c /\ kernel[d] = k
      BY <3>1, <3>2 DEF Bound
    <3> QED
      BY <3>3, LiveFacts
  <2> QED
    BY <2>1, <2>2
<1>2. {p, <<c, i>>} \subseteq Live(k) /\ Cardinality({p, <<c, i>>}) = 2
  <2>1. Cardinality({<<c, i>>}) = 1 /\ IsFiniteSet({<<c, i>>})
    BY FS_Singleton
  <2>2. Cardinality({<<c, i>>} \cup {p}) = 2
    <3>1. p \notin {<<c, i>>}
      BY <1>1
    <3>2. Cardinality({<<c, i>>} \cup {p}) = Cardinality({<<c, i>>}) + 1
      BY <2>1, <3>1, FS_AddElement
    <3> QED
      BY <3>2, <2>1
  <2>3. {<<c, i>>} \cup {p} = {p, <<c, i>>}
    OBVIOUS
  <2> QED
    BY <1>1, <2>2, <2>3
<1>3. Cardinality({p, <<c, i>>}) <= Cardinality(Live(k))
  BY <1>2, LiveFacts, FS_Subset
<1> QED
  BY <1>2, <1>3, LiveFacts

\* register_cta_thread_exit(): a CTA completes, the last one with its kernel.
LEMMA ReclaimWork ==
  ASSUME IInv, WithinGrid, NEW c \in Cores, NEW w \in Warps, Reclaim(c, w)
  PROVE  \/ UNCHANGED Work!vars
         \/ \E k \in Kernels : Work!CompleteOne(k) \/ Work!CompleteLast(k)
<1>1. PICK k : k = kernel[c]
  OBVIOUS
<1>2. /\ k \in Kernels /\ InSlots(k) /\ k \in launched
      /\ launched' = launched /\ nextCta' = nextCta
      /\ \/ /\ nActive[c] = 1 /\ KernelOver(k)
            /\ \A l \in Kernels : InSlots(l)' <=> InSlots(l) /\ l # k
         \/ /\ nActive[c] # 1 \/ ~KernelOver(k)
            /\ slots' = slots
         \/ UNCHANGED <<slots, nActive>>
  BY <1>1, ReclaimOver
<1>3. /\ nextCta \in [Kernels -> Nat] /\ Grid \in [Kernels -> Nat \ {0}]
      /\ launched \subseteq Kernels /\ nextCta[k] <= Grid[k]
  BY <1>2, DispatchConstants DEF IInv, TypeOK, WithinGrid
<1> DEFINE left == [l \in Kernels |-> Grid[l] - nextCta[l]]
           live == [l \in Kernels |-> Cardinality(Live(l))]
           running == {l \in Kernels : InSlots(l)}
           over == {l \in launched : ~InSlots(l)}
<1>4. left' = left
  BY <1>2
<1>5. slots' = slots => running' = running /\ over' = over
  BY <1>2 DEF InSlots
<1>6. CASE /\ \A l \in Kernels : Live(l)' = Live(l)
           /\ UNCHANGED <<slots, launched, nextCta>>
  <2>1. live' = live
    BY <1>6
  <2> QED
    BY <2>1, <1>4, <1>5, <1>6 DEF Work!vars
<1>7. CASE /\ nActive'[c] # nActive[c]
           /\ \E i \in CtaIds :
                /\ <<c, i>> \in Live(k)
                /\ \A l \in Kernels : Live(l)' = Live(l) \ {<<c, i>>}
                /\ \A l \in Kernels : l # k => Live(l)' = Live(l)
                /\ nActive[c] = 1 => \A j \in CtaIds : <<c, j>> \in Live(k) => j = i
                /\ nActive[c] # 1 => \E j \in CtaIds : j # i /\ <<c, j>> \in Live(k)
  <2>1. PICK i \in CtaIds :
             /\ <<c, i>> \in Live(k)
             /\ Live(k)' = Live(k) \ {<<c, i>>}
             /\ \A l \in Kernels : l # k => Live(l)' = Live(l)
             /\ nActive[c] = 1 => \A j \in CtaIds : <<c, j>> \in Live(k) => j = i
             /\ nActive[c] # 1 => \E j \in CtaIds : j # i /\ <<c, j>> \in Live(k)
    BY <1>2, <1>7
  <2>2. /\ IsFiniteSet(Live(k)) /\ Cardinality(Live(k)) \in Nat \ {0}
        /\ Cardinality(Live(k) \ {<<c, i>>}) = Cardinality(Live(k)) - 1
    BY <1>2, <2>1, LiveFacts, FS_RemoveElement, FS_EmptySet
  <2>3. live' = [live EXCEPT ![k] = @ - 1] /\ live[k] \in Nat \ {0}
    BY <1>2, <2>1, <2>2
  <2>4. CASE /\ nActive[c] = 1 /\ KernelOver(k)
             /\ \A l \in Kernels : InSlots(l)' <=> InSlots(l) /\ l # k
    <3>1. coresRunning[k] = 1 /\ left[k] = 0
      BY <2>4, <1>2, <1>3 DEF KernelOver, NoMoreCtas
    <3>2. Bound(k) = {c}
      <4>1. c \in Bound(k) /\ IsFiniteSet(Bound(k)) /\ Cardinality(Bound(k)) = 1
        BY <3>1, <1>1, <1>2, FiniteSets, CardFacts DEF Bound, IInv, RunningCount
      <4>2. Cardinality(Bound(k) \ {c}) = 0 /\ IsFiniteSet(Bound(k) \ {c})
        BY <4>1, FS_RemoveElement
      <4> QED
        BY <4>1, <4>2, FS_EmptySet
    <3>3. Live(k) = {<<c, i>>}
      <4>1. ASSUME NEW p \in Live(k) PROVE p = <<c, i>>
        <5>1. PICK d \in Cores, j \in CtaIds : p = <<d, j>> /\ kernel[d] = k
          BY DEF Live
        <5>2. d = c
          BY <5>1, <3>2 DEF Bound
        <5> QED
          BY <5>1, <5>2, <2>1, <2>4
      <4> QED
        BY <4>1, <2>1
    <3>4. live[k] = 1 /\ live' = [live EXCEPT ![k] = 0]
      <4>1. Cardinality(Live(k)) = 1
        BY <3>3, FS_Singleton
      <4> QED
        BY <4>1, <2>3, <1>2
    <3>5. running' = running \ {k} /\ over' = over \cup {k}
      <4>1. running' = running \ {k}
        BY <2>4
      <4>2. over' = over \cup {k}
        BY <2>4, <1>2, <1>3
      <4> QED
        BY <4>1, <4>2
    <3>6. Work!CompleteLast(k)
      BY <3>1, <3>4, <3>5, <1>4 DEF Work!CompleteLast
    <3> QED
      BY <3>6, <1>2
  <2>5. CASE /\ nActive[c] # 1 \/ ~KernelOver(k)
             /\ slots' = slots
    <3>1. left[k] + live[k] > 1
      <4>1. CASE NoMoreCtas(k)
        <5>1. Cardinality(Live(k)) > 1
          BY <4>1, <2>1, <2>5, <1>1, <1>2, MoreToCome DEF KernelOver
        <5>2. left[k] \in Nat
          BY <1>2, <1>3
        <5> QED
          BY <5>1, <5>2, <2>2, <1>2
      <4>2. CASE ~NoMoreCtas(k)
        <5>1. left[k] \in Nat /\ left[k] > 0
          BY <4>2, <1>2, <1>3 DEF NoMoreCtas
        <5> QED
          BY <5>1, <2>3
      <4> QED
        BY <4>1, <4>2
    <3>2. Work!CompleteOne(k)
      BY <3>1, <2>3, <2>5, <1>4, <1>5 DEF Work!CompleteOne
    <3> QED
      BY <3>2, <1>2
  <2>6. CASE UNCHANGED <<slots, nActive>>
    BY <2>6, <1>7
  <2> QED
    BY <2>4, <2>5, <2>6, <1>2
<1> QED
  <2>1. CtaMayEnd(c, k)
    <3>1. /\ IInv /\ c \in Cores /\ w \in Warps
          /\ k \in Kernels /\ k = kernel[c] /\ Reclaim(c, w)
      BY <1>1, <1>2
    <3> HIDE DEF left, live, running, over
    <3> QED
      BY ONLY <3>1, ReclaimLive
  <2> QED
    BY <2>1, <1>6, <1>7 DEF CtaMayEnd

\* The dispatcher implements KernelWork: every CTA of a grid is handed out once
\* and the kernel is over at the moment the last of them completes, for every
\* grid, block, core and cluster size (set_kernel_done() in
\* register_cta_thread_exit()).
THEOREM RefinesWork == Spec => ImplementsWork
<1>1. Init => Work!Init
  <2> SUFFICES ASSUME Init PROVE Work!Init
    OBVIOUS
  <2>1. \A k \in Kernels : Live(k) = {}
    BY DEF Init, Live
  <2>2. \A k \in Kernels : ~InSlots(k) /\ Grid[k] - nextCta[k] = Grid[k]
    BY DispatchConstants, ConstantFacts DEF Init, InSlots
  <2>3. Grid = [k \in Kernels |-> Grid[k]]
    BY DispatchConstants
  <2> QED
    BY <2>1, <2>2, <2>3, FS_EmptySet DEF Work!Init, Init
<1>2. Init => WithinGrid
  BY DispatchConstants DEF Init, WithinGrid
<1>3. IInv /\ WithinGrid /\ [Next]_vars => WithinGrid'
  BY GridStep
<1>4. IInv /\ WithinGrid /\ [Next]_vars => [Work!Next]_(Work!vars)
  <2> SUFFICES ASSUME IInv, WithinGrid, [Next]_vars PROVE Work!Next \/ UNCHANGED Work!vars
    OBVIOUS
  <2>1. ASSUME NEW k \in Kernels, Launch(k) PROVE Work!Next
    BY <2>1, LaunchWork DEF Work!Next
  <2>2. CASE FinishedKernel \/ StartIssue \/ SkipCluster \/ UNCHANGED vars
    BY <2>2, NoWork
       DEF FinishedKernel, StartIssue, SkipCluster, vars, kernelVars, coreVars
  <2>3. ASSUME NEW c \in Cores, NEW w \in Warps, WarpDone(c, w)
        PROVE  UNCHANGED Work!vars
    BY <2>3, NoWork DEF WarpDone, kernelVars
  <2>4. ASSUME NEW c \in Cores, NEW w \in Warps, Reclaim(c, w)
        PROVE  Work!Next \/ UNCHANGED Work!vars
    BY <2>4, ReclaimWork DEF Work!Next
  <2>5. CASE IssueCluster
    BY <2>5, IssueWork DEF Work!Next
  <2> QED
    BY <2>1, <2>2, <2>3, <2>4, <2>5 DEF Next
<1> QED
  BY <1>1, <1>2, <1>3, <1>4, Inductive, PTL DEF Spec, ImplementsWork, Work!Spec
=============================================================================
