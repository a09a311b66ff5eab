------------------------- MODULE CorePipelineProofs -------------------------
(* Theorems about CorePipeline, for any kernel, scheduler, number of warps *)
(* and latencies.                                                          *)
EXTENDS CorePipeline, FiniteSetTheorems, SequenceTheorems, NaturalsInduction, WellFoundedInduction, TLAPS

-----------------------------------------------------------------------------
(* The setup and the lists of warps.                                       *)

\* A set of naturals has a least element, which Min is.
LEMMA LeastIsMin ==
  ASSUME NEW S, S \subseteq Nat, S # {}
  PROVE  Min(S) \in S /\ \A n \in S : Min(S) <= n
<1> DEFINE R == {p \in Nat \X Nat : p[1] < p[2]}
<1>1. IsWellFoundedOn(R, Nat)
  BY NatLessThanWellFounded DEF OpToRel
<1>2. \E n \in S : \A m \in S : ~(<<m, n>> \in R)
  <2> HIDE DEF R
  <2> QED  BY <1>1, WFMin
<1>3. \A m, n \in S : ~(<<m, n>> \in R) => n <= m
  OBVIOUS
<1>4. \E n \in S : \A m \in S : n <= m
  BY <1>2, <1>3
<1>5. QED
  BY <1>4 DEF Min

\* A bijection keeps the number of elements.
LEMMA SameSize ==
  ASSUME NEW S, NEW U, IsFiniteSet(S), NEW f \in [S -> U],
         \A x, y \in S : f[x] = f[y] => x = y, \A u \in U : \E x \in S : f[x] = u
  PROVE  IsFiniteSet(U) /\ Cardinality(U) = Cardinality(S)
<1>1. f \in Bijection(S, U)
  BY DEF Bijection, Injection, Surjection, IsInjective
<1>2. QED
  BY <1>1, FS_Bijection DEF ExistsBijection

\* The image of a finite set is finite.
LEMMA ImageFinite ==
  ASSUME NEW S, NEW U, IsFiniteSet(S), NEW f \in [S -> U], \A u \in U : \E x \in S : f[x] = u
  PROVE  IsFiniteSet(U)
<1>1. f \in Surjection(S, U)
  BY DEF Surjection
<1>2. QED
  BY <1>1, FS_Surjection

\* The set of a sequence is the set of its elements.
LEMMA ToSetOf == ASSUME NEW S, NEW q \in Seq(S) PROVE \A x : x \in ToSet(q) <=> \E i \in 1..Len(q) : q[i] = x
BY DEF ToSet

\* It is finite.
LEMMA SeqFinite == ASSUME NEW S, NEW q \in Seq(S) PROVE IsFiniteSet(ToSet(q)) /\ ToSet(q) \subseteq S
<1>1. q \in [1..Len(q) -> S] /\ Len(q) \in Nat
  OBVIOUS
<1>2. IsFiniteSet(1..Len(q))
  BY <1>1, FS_Interval
<1>3. q \in [1..Len(q) -> ToSet(q)] /\ \A u \in ToSet(q) : \E i \in 1..Len(q) : q[i] = u
  BY <1>1 DEF ToSet
<1>4. QED
  BY <1>1, <1>2, <1>3, ImageFinite DEF ToSet

\* A sequence without repetition has as many members as elements.
LEMMA SeqInjective ==
  ASSUME NEW S, NEW q \in Seq(S), \A i, j \in 1..Len(q) : q[i] = q[j] => i = j
  PROVE  Cardinality(ToSet(q)) = Len(q)
<1>1. q \in [1..Len(q) -> ToSet(q)] /\ \A u \in ToSet(q) : \E i \in 1..Len(q) : q[i] = u
  BY DEF ToSet
<1>2. IsFiniteSet(1..Len(q)) /\ Cardinality(1..Len(q)) = Len(q)
  <2>1. PICK n \in Nat : n = Len(q)
    OBVIOUS
  <2>2. IsFiniteSet(1..n) /\ Cardinality(1..n) = n
    BY FS_Interval
  <2>3. QED
    BY <2>1, <2>2
<1>3. QED
  BY <1>1, <1>2, SameSize

Instruction == [op : Ops, out : Seq(Nat), src : Seq(Nat), lat : Nat, ii : Nat,
                space : Spaces, n : Nat, target : Nat]

\* What the setup is.
LEMMA SetupFacts ==
  ASSUME setup \in Setups
  PROVE  /\ policy \in Policies /\ NumScheds \in 1..NumWarps /\ NumWarps % NumScheds = 0
         /\ policy = "two_level" => MaxActive <= NumWarps \div NumScheds
         /\ Program \in Seq(Instruction) /\ Len(Program) \in Nat \ {0}
         /\ DOMAIN Program = 1..Len(Program) /\ Program[Len(Program)].op = "exit"
         /\ \A i \in DOMAIN Program : Program[i] \in Instruction
<1>1. /\ setup.policy \in Policies /\ setup.scheds \in 1..NumWarps /\ NumWarps % setup.scheds = 0
      /\ setup.policy = "two_level" => MaxActive <= NumWarps \div setup.scheds
      /\ setup.kernel \in Seq(Instruction)
      /\ setup.kernel # <<>> /\ setup.kernel[Len(setup.kernel)].op = "exit"
  BY CoreConstants DEF Instruction
<1>2. QED
  BY <1>1 DEF policy, NumScheds, Program

\* What the setup's assumptions say of the kernel and of the schedulers.
LEMMA ProgramFacts ==
  ASSUME setup \in Setups, NEW i \in DOMAIN Program
  PROVE  /\ Program[i] \in Instruction /\ Program[i].ii \in 1..Program[i].lat
         /\ KindOf(Program[i].op) \in Alu =>
              Program[i].lat - Program[i].ii < Depth[KindOf(Program[i].op)]
         /\ Program[i].op = "load" => Program[i].out # <<>>
         /\ Program[i].op \in {"store", "membar"} => Program[i].out = <<>>
         /\ Program[i].op = "bra" => Program[i].target \in DOMAIN Program
         /\ Range(Program[i].out) \subseteq Regs /\ Range(Program[i].src) \subseteq Regs
<1>1. Program[i] \in Instruction
  BY SetupFacts
<1>2. Range(Program[i].out) \subseteq Regs /\ Range(Program[i].src) \subseteq Regs
  BY DEF Regs
<1>3. QED
  BY <1>1, <1>2, CoreConstants DEF Program

\* A number is its divisor times the quotient, which is at least 1: the warps a scheduler has.
LEMMA Quotient ==
  ASSUME NEW a \in Nat \ {0}, NEW b \in 1..a, a % b = 0
  PROVE  (a \div b) \in Nat /\ a = b * (a \div b) /\ (a \div b) >= 1
<1>1. PICK q : q = (a \div b)
  OBVIOUS
<1>2. q \in Int /\ a = b * q
  BY <1>1
<1>3. CASE q <= 0
  <2>1. b * q <= 0
    BY <1>2, <1>3
  <2>2. QED
    BY <1>2, <2>1
<1>4. QED
  BY <1>1, <1>2, <1>3

\* A scheduler has a list of warps.
LEMMA SupervisedWarps ==
  ASSUME setup \in Setups, NEW i \in Scheds
  PROVE  Supervised(i) \in Seq(Warps) /\ Len(Supervised(i)) = NumWarps \div NumScheds
         /\ Len(Supervised(i)) \in Nat \ {0}
         /\ Cardinality(ToSet(Supervised(i))) = Len(Supervised(i))
         /\ \A k, l \in 1..Len(Supervised(i)) : Supervised(i)[k] = Supervised(i)[l] => k = l
<1> DEFINE N == NumWarps
           S == NumScheds
           q == NumWarps \div NumScheds
<1>1. N \in Nat \ {0} /\ S \in 1..N /\ N % S = 0 /\ i \in 0..(S - 1)
  BY SetupFacts, CoreConstants DEF Scheds
<1>2. q \in Nat /\ N = S * q /\ q >= 1
  BY <1>1, Quotient
<1>3. ASSUME NEW k \in 1..q PROVE i + (k - 1) * S \in Warps
  <2> HIDE DEF q
  <2>1. (k - 1) * S \in Nat /\ (q - k) * S \in Nat
    BY <1>1, <1>2
  <2>2. (q - k) * S = q * S - k * S /\ (k - 1) * S = k * S - S
    BY <1>1, <1>2
  <2>3. q * S = S * q /\ k * S \in Int
    BY <1>1, <1>2
  <2>4. (k - 1) * S + S <= N
    BY <1>1, <1>2, <2>1, <2>2, <2>3
  <2>5. QED
    BY <1>1, <2>1, <2>4 DEF Warps
<1>4. ASSUME NEW k \in 1..q, NEW l \in 1..q, i + (k - 1) * S = i + (l - 1) * S PROVE k = l
  <2> HIDE DEF q
  <2>1. (k - 1) * S \in Int /\ (l - 1) * S \in Int /\ (k - l) * S \in Int
    BY <1>1, <1>2
  <2>2. (k - 1) * S - (l - 1) * S = (k - l) * S
    BY <1>1, <1>2
  <2>3. (k - l) * S = 0
    BY <1>1, <1>4, <2>1, <2>2
  <2>4. QED
    BY <1>1, <1>2, <2>3
<1>5. /\ Supervised(i) \in Seq(Warps) /\ Len(Supervised(i)) = q
      /\ \A k \in 1..q : Supervised(i)[k] = i + (k - 1) * S
  <2> HIDE DEF q
  <2>1. Supervised(i) = [k \in 1..q |-> i + (k - 1) * S]
    BY DEF Supervised, q
  <2>2. QED
    BY <1>2, <1>3, <2>1
<1>6. /\ Cardinality(ToSet(Supervised(i))) = Len(Supervised(i))
      /\ \A k, l \in 1..Len(Supervised(i)) : Supervised(i)[k] = Supervised(i)[l] => k = l
  <2> HIDE DEF q
  <2>1. \A k, l \in 1..q : Supervised(i)[k] = Supervised(i)[l] => k = l
    BY <1>4, <1>5
  <2>2. Supervised(i) \in Seq(Warps) /\ \A k, l \in 1..Len(Supervised(i)) : Supervised(i)[k] = Supervised(i)[l] => k = l
    BY <1>5, <2>1
  <2>3. QED
    BY <2>2, SeqInjective
<1>7. QED
  BY <1>2, <1>5, <1>6

\* A sorted list has the elements of the set.
LEMMA SortedSeq ==
  ASSUME NEW S, IsFiniteSet(S), NEW q \in SetToSeqs(S)
  PROVE  q \in Seq(S) /\ Len(q) = Cardinality(S)
BY FS_CardinalityType DEF SetToSeqs

\* Sequences of warps that together hold each of S once.
Dealt(a, p, S, m) ==
  /\ a \in Seq(Warps) /\ p \in Seq(Warps) /\ Len(a) = m
  /\ \A i, j \in 1..Len(a) : a[i] = a[j] => i = j
  /\ \A i, j \in 1..Len(p) : p[i] = p[j] => i = j
  /\ \A i \in 1..Len(a) : \A j \in 1..Len(p) : a[i] # p[j]
  /\ ToSet(a) \cup ToSet(p) = S

ListTypes ==
  /\ list \in [Scheds -> Seq(Warps)] /\ pending \in [Scheds -> Seq(Warps)] /\ last \in [Scheds -> Nat]
  /\ \A i \in Scheds :
       /\ last[i] <= NumWarps \div NumScheds
       /\ policy \in {"gto", "swl"} => last[i] >= 1
       /\ policy = "two_level" => Dealt(list[i], pending[i], ToSet(Supervised(i)), MaxActive)

\* The sorted lists are lists of warps as long as the set they sort.
LEMMA SortedLists ==
  ASSUME NEW s \in Seq(Warps), NEW idle, NEW dy, NEW cpl,
         NEW q, q \in sort_warps_by_oldest_dynamic_id(s, idle, dy)
                  \cup sort_warps_by_criticality(s, idle, dy, cpl)
  PROVE  q \in Seq(Warps) /\ Len(q) = Cardinality(ToSet(s))
<1>1. q \in SetToSeqs(ToSet(s))
  BY DEF sort_warps_by_oldest_dynamic_id, sort_warps_by_criticality, sort_warps, Sorted
<1>2. QED
  BY <1>1, SeqFinite, SortedSeq

\* Taking an element out of a sequence leaves a sequence over the same set.
LEMMA RemovedSeq ==
  ASSUME NEW S, NEW q \in Seq(S), NEW e PROVE RemoveFirst(q, e) \in Seq(S)
<1> DEFINE I == {i \in 1..Len(q) : q[i] = e}
<1>1. CASE I = {}
  BY <1>1 DEF RemoveFirst
<1>2. CASE I # {}
  <2>1. Min(I) \in I
    BY <1>2, LeastIsMin, I \subseteq Nat
  <2>2. RemoveFirst(q, e) = SubSeq(q, 1, Min(I) - 1) \o SubSeq(q, Min(I) + 1, Len(q))
    BY <1>2 DEF RemoveFirst, RemoveAt, SelectInSeq
  <2>3. PICK m \in 1..Len(q) : RemoveFirst(q, e) = SubSeq(q, 1, m - 1) \o SubSeq(q, m + 1, Len(q))
    BY <2>1, <2>2
  <2>4. SubSeq(q, 1, m - 1) \in Seq(S) /\ SubSeq(q, m + 1, Len(q)) \in Seq(S)
    OBVIOUS
  <2>5. QED
    BY <2>3, <2>4
<1>3. QED
  BY <1>1, <1>2

\* The greedy list is a list of warps.
LEMMA GreedyLists ==
  ASSUME NEW Q, NEW n \in Nat, \A q \in Q : q \in Seq(Warps) /\ n <= Len(q), NEW w \in Warps,
         NEW L \in GreedyThen(Q, w, n)
  PROVE  L \in Seq(Warps)
<1>1. PICK q \in Q : L = <<w>> \o RemoveFirst(SubSeq(q, 1, n), w)
  BY DEF GreedyThen
<1>2. SubSeq(q, 1, n) \in Seq(Warps)
  BY <1>1
<1>3. RemoveFirst(SubSeq(q, 1, n), w) \in Seq(Warps)
  BY <1>2, RemovedSeq
<1>4. QED
  BY <1>1, <1>3

\* Positions taken around the list are distinct and inside it.
LEMMA Rotation ==
  ASSUME NEW n \in Nat \ {0}, NEW l \in Nat
  PROVE  /\ \A i \in 1..n : (l + i - 1) % n \in 0..(n - 1)
         /\ \A i, j \in 1..n : (l + i - 1) % n = (l + j - 1) % n => i = j
<1>1. ASSUME NEW i \in 1..n, NEW j \in 1..n, (l + i - 1) % n = (l + j - 1) % n PROVE i = j
  <2>1. PICK p \in Int, q \in Int, r \in 0..(n - 1) :
          l + i - 1 = n * p + r /\ l + j - 1 = n * q + r
    <3>1. /\ l + i - 1 = n * ((l + i - 1) \div n) + ((l + i - 1) % n)
          /\ l + j - 1 = n * ((l + j - 1) \div n) + ((l + j - 1) % n)
          /\ (l + i - 1) \div n \in Int /\ (l + j - 1) \div n \in Int
          /\ (l + i - 1) % n \in 0..(n - 1)
      OBVIOUS
    <3>2. QED
      BY <1>1, <3>1
  <2>2. i - j = n * (p - q)
    BY <2>1
  <2>3. CASE p - q >= 1
    <3>1. n * (p - q) >= n
      BY <2>3
    <3>2. QED
      BY <2>2, <3>1
  <2>4. CASE p - q <= -1
    <3>1. n * (p - q) <= -n
      BY <2>4
    <3>2. QED
      BY <2>2, <3>1
  <2>5. CASE p - q = 0
    BY <2>2, <2>5
  <2>6. QED
    BY <2>3, <2>4, <2>5
<1>2. QED
  BY <1>1

\* order_lrr() permutes its list: no warp is lost or tried twice.
LEMMA RoundRobin ==
  ASSUME NEW S, NEW s \in Seq(S), s # <<>>, NEW l \in Nat
  PROVE  /\ order_lrr(s, l, Len(s)) \in Seq(S) /\ Len(order_lrr(s, l, Len(s))) = Len(s)
         /\ \A i \in 1..Len(s) : \E j \in 1..Len(s) : order_lrr(s, l, Len(s))[i] = s[j]
         /\ (\A i, j \in 1..Len(s) : s[i] = s[j] => i = j) =>
              \A i, j \in 1..Len(s) : order_lrr(s, l, Len(s))[i] = order_lrr(s, l, Len(s))[j] => i = j
<1> DEFINE n == Len(s)
           q == order_lrr(s, l, n)
<1>0. n \in Nat \ {0} /\ s \in [1..n -> S]
  OBVIOUS
<1>1. \A i \in 1..n : (l + i - 1) % n \in 0..(n - 1)
  BY <1>0, Rotation
<1>2. \A i, j \in 1..n : (l + i - 1) % n = (l + j - 1) % n => i = j
  BY <1>0, Rotation
<1>3. \A i \in 1..n : ((l + i - 1) % n) + 1 \in 1..n
  BY <1>0, <1>1
<1>4. q = [i \in 1..n |-> s[((l + i - 1) % n) + 1]]
  BY DEF order_lrr
<1> HIDE DEF n, q
<1>5. q \in Seq(S) /\ Len(q) = n /\ \A i \in 1..n : \E j \in 1..n : q[i] = s[j]
  BY <1>0, <1>3, <1>4
<1>6. ASSUME \A i, j \in 1..n : s[i] = s[j] => i = j, NEW i \in 1..n, NEW j \in 1..n, q[i] = q[j]
      PROVE  i = j
  <2>1. ((l + i - 1) % n) + 1 = ((l + j - 1) % n) + 1
    BY <1>3, <1>4, <1>6
  <2>2. QED
    BY <1>0, <1>1, <1>2, <2>1
<1>7. QED
  BY <1>5, <1>6 DEF n, q

\* Rotating the active list, do_on_warp_issued() of two_level_active, keeps warps dealt.
LEMMA RotationDealt ==
  ASSUME NEW a, NEW p, NEW S, NEW m \in Nat \ {0}, Dealt(a, p, S, m), NEW l \in Nat
  PROVE  Dealt(order_lrr(a, l, Len(a)), p, S, m)
<1> DEFINE q == order_lrr(a, l, Len(a))
<1>1. /\ a \in Seq(Warps) /\ a # <<>> /\ Len(a) = m
      /\ \A i, j \in 1..m : a[i] = a[j] => i = j
  BY DEF Dealt
<1>2. /\ q \in Seq(Warps) /\ Len(q) = m
      /\ \A i \in 1..m : \E j \in 1..m : q[i] = a[j]
      /\ \A i, j \in 1..m : q[i] = q[j] => i = j
  <2>1. /\ q \in Seq(Warps) /\ Len(q) = Len(a)
        /\ \A i \in 1..Len(a) : \E j \in 1..Len(a) : q[i] = a[j]
        /\ (\A i, j \in 1..Len(a) : a[i] = a[j] => i = j) =>
             \A i, j \in 1..Len(a) : q[i] = q[j] => i = j
    <3>1. a \in Seq(Warps) /\ a # <<>> /\ l \in Nat
      BY <1>1
    <3>2. QED
      BY ONLY <3>1, RoundRobin
  <2>2. QED
    BY <1>1, <2>1
<1> HIDE DEF q
<1>3. ToSet(q) \subseteq ToSet(a) /\ IsFiniteSet(ToSet(a))
  <2>1. \A x : x \in ToSet(q) <=> \E i \in 1..Len(q) : q[i] = x
    <3>1. q \in Seq(Warps)
      BY <1>2
    <3>2. QED
      BY <3>1, ToSetOf
  <2>2. \A x : x \in ToSet(a) <=> \E i \in 1..Len(a) : a[i] = x
    BY <1>1, ToSetOf
  <2>3. QED
    BY <1>1, <1>2, <2>1, <2>2, SeqFinite
<1>4. Cardinality(ToSet(q)) = m /\ Cardinality(ToSet(a)) = m
  BY <1>1, <1>2, SeqInjective
<1>5. ToSet(q) = ToSet(a)
  <2>1. ToSet(q) \in SUBSET ToSet(a)
    BY <1>3
  <2>2. Cardinality(ToSet(a)) = Cardinality(ToSet(q)) => ToSet(a) = ToSet(q)
    BY <1>3, <2>1, FS_Subset
  <2>3. QED
    BY <1>4, <2>2
<1>6. ASSUME NEW j \in 1..Len(p), NEW i \in 1..m PROVE q[i] # p[j]
  <2>1. PICK k \in 1..m : q[i] = a[k]
    BY <1>2
  <2>2. QED
    BY <1>1, <2>1 DEF Dealt
<1>7. QED
  BY <1>1, <1>2, <1>5, <1>6 DEF Dealt, q

\* A sort of a finite set lists each of its members once.
LEMMA SortedSet ==
  ASSUME NEW S, IsFiniteSet(S), NEW q \in SetToSeqs(S)
  PROVE  /\ q \in Seq(S) /\ Len(q) = Cardinality(S) /\ ToSet(q) = S
         /\ \A i, j \in 1..Len(q) : q[i] = q[j] => i = j
<1>1. /\ q \in Seq(S) /\ Len(q) = Cardinality(S)
      /\ \A i, j \in 1..Len(q) : q[i] = q[j] => i = j
  BY FS_CardinalityType DEF SetToSeqs
<1>2. ToSet(q) \subseteq S /\ Cardinality(ToSet(q)) = Len(q)
  BY <1>1, SeqFinite, SeqInjective
<1>3. ToSet(q) \in SUBSET S
  BY <1>2
<1>4. Cardinality(S) = Cardinality(ToSet(q)) => S = ToSet(q)
  BY <1>3, FS_Subset
<1>5. QED
  BY <1>1, <1>2, <1>4

\* A list of all of them cut in two.
LEMMA Cut ==
  ASSUME NEW K \in Seq(Warps), \A i, j \in 1..Len(K) : K[i] = K[j] => i = j, NEW m \in 0..Len(K)
  PROVE  Dealt(SubSeq(K, 1, m), SubSeq(K, m + 1, Len(K)), ToSet(K), m)
<1> DEFINE a == SubSeq(K, 1, m)
           p == SubSeq(K, m + 1, Len(K))
           n == Len(K) - m
<1>1. /\ a \in Seq(Warps) /\ p \in Seq(Warps) /\ Len(a) = m /\ Len(p) = n /\ n \in Nat
      /\ \A i \in 1..m : a[i] = K[i] /\ i \in 1..Len(K)
      /\ \A i \in 1..n : p[i] = K[m + i] /\ m + i \in 1..Len(K)
  OBVIOUS
<1> HIDE DEF a, p
<1>2. \A x : /\ x \in ToSet(a) <=> \E i \in 1..m : a[i] = x
             /\ x \in ToSet(p) <=> \E i \in 1..n : p[i] = x
             /\ x \in ToSet(K) <=> \E i \in 1..Len(K) : K[i] = x
  <2>1. \A x : x \in ToSet(K) <=> \E i \in 1..Len(K) : K[i] = x
    BY ToSetOf
  <2>2. \A x : x \in ToSet(a) <=> \E i \in 1..Len(a) : a[i] = x
    BY <1>1, ToSetOf
  <2>3. \A x : x \in ToSet(p) <=> \E i \in 1..Len(p) : p[i] = x
    BY <1>1, ToSetOf
  <2>4. QED
    BY <1>1, <2>1, <2>2, <2>3
<1>3. ASSUME NEW i \in 1..Len(K) PROVE K[i] \in ToSet(a) \cup ToSet(p)
  <2>1. CASE i <= m
    BY <1>1, <1>2, <2>1
  <2>2. CASE i > m
    <3>1. i - m \in 1..n /\ m + (i - m) = i
      BY <1>1, <2>2
    <3>2. p[i - m] = K[i]
      BY <1>1, <3>1
    <3>3. QED
      BY <1>2, <3>1, <3>2
  <2>3. QED
    BY <2>1, <2>2
<1>4. ToSet(a) \cup ToSet(p) = ToSet(K)
  BY <1>1, <1>2, <1>3
<1>5. \A i, j \in 1..n : p[i] = p[j] => i = j
  BY <1>1
<1>6. \A i \in 1..m : \A j \in 1..n : a[i] # p[j]
  BY <1>1
<1>7. QED
  BY <1>1, <1>4, <1>5, <1>6 DEF Dealt, a, p

\* What is left of a sequence behind its first x elements.
LEMMA Rest ==
  ASSUME NEW S, NEW s \in Seq(S), NEW x \in 0..Len(s)
  PROVE  /\ SubSeq(s, x + 1, Len(s)) \in Seq(S) /\ Len(SubSeq(s, x + 1, Len(s))) = Len(s) - x
         /\ \A i \in 1..(Len(s) - x) : SubSeq(s, x + 1, Len(s))[i] = s[x + i]
<1>1. PICK n \in Nat : n = Len(s)
  OBVIOUS
<1>2. x \in 0..n /\ n = Len(s) /\ x \in Nat
  BY <1>1
<1>3. \A i \in (x + 1)..n : s[i] \in S
  BY <1>2
<1>4. /\ SubSeq(s, x + 1, n) \in Seq(S)
      /\ Len(SubSeq(s, x + 1, n)) = IF x + 1 <= n THEN n - (x + 1) + 1 ELSE 0
      /\ \A i \in 1..(n - (x + 1) + 1) : SubSeq(s, x + 1, n)[i] = s[(x + 1) + i - 1]
  BY <1>2, <1>3, SubSeqProperties
<1>5. n - (x + 1) + 1 = n - x /\ \A i \in 1..(n - x) : (x + 1) + i - 1 = x + i
  BY <1>2
<1>6. QED
  BY <1>2, <1>4, <1>5

\* What precedes a list cut in two.
LEMMA Shifted ==
  ASSUME NEW S, NEW k \in Seq(S), NEW r \in Seq(S), NEW m \in Nat, Len(k) <= m, m <= Len(k) + Len(r)
  PROVE  /\ k \o SubSeq(r, 1, m - Len(k)) = SubSeq(k \o r, 1, m)
         /\ SubSeq(r, m - Len(k) + 1, Len(r)) = SubSeq(k \o r, m + 1, Len(k \o r))
<1> DEFINE K == k \o r
           a == k \o SubSeq(r, 1, m - Len(k))
           b == SubSeq(K, 1, m)
           c == SubSeq(r, m - Len(k) + 1, Len(r))
           d == SubSeq(K, m + 1, Len(K))
<1>1. /\ K \in Seq(S) /\ Len(K) = Len(k) + Len(r) /\ Len(k) \in Nat /\ Len(r) \in Nat
      /\ \A i \in 1..Len(k) : K[i] = k[i]
      /\ \A i \in (Len(k) + 1)..(Len(k) + Len(r)) : K[i] = r[i - Len(k)]
  OBVIOUS
<1> HIDE DEF K
<1>2. /\ SubSeq(r, 1, m - Len(k)) \in Seq(S) /\ Len(SubSeq(r, 1, m - Len(k))) = m - Len(k)
      /\ \A i \in 1..(m - Len(k)) : SubSeq(r, 1, m - Len(k))[i] = r[i]
  BY <1>1
<1>3. /\ a \in Seq(S) /\ Len(a) = m
      /\ \A i \in 1..Len(k) : a[i] = k[i]
      /\ \A i \in (Len(k) + 1)..m : a[i] = r[i - Len(k)]
  BY <1>1, <1>2
<1>4. b \in Seq(S) /\ Len(b) = m /\ \A i \in 1..m : b[i] = K[i]
  BY <1>1
<1>5. c \in Seq(S) /\ Len(c) = Len(r) + Len(k) - m /\ \A i \in 1..Len(c) : c[i] = r[m - Len(k) + i]
  <2>1. PICK x \in 0..Len(r) : x = m - Len(k)
    BY <1>1
  <2>2. /\ SubSeq(r, x + 1, Len(r)) \in Seq(S) /\ Len(SubSeq(r, x + 1, Len(r))) = Len(r) - x
        /\ \A i \in 1..(Len(r) - x) : SubSeq(r, x + 1, Len(r))[i] = r[x + i]
    BY Rest
  <2>3. c = SubSeq(r, x + 1, Len(r)) /\ Len(r) - x = Len(r) + Len(k) - m
    BY <1>1, <2>1
  <2> HIDE DEF c
  <2>4. QED
    BY <2>1, <2>2, <2>3
<1>6. d \in Seq(S) /\ Len(d) = Len(r) + Len(k) - m /\ \A i \in 1..Len(d) : d[i] = K[m + i]
  <2>1. m \in 0..Len(K) /\ Len(K) - m = Len(r) + Len(k) - m
    BY <1>1
  <2>2. d \in Seq(S) /\ Len(d) = Len(K) - m /\ \A i \in 1..(Len(K) - m) : d[i] = K[m + i]
    BY <1>1, <2>1, Rest
  <2> HIDE DEF d
  <2>3. QED
    BY <2>1, <2>2
<1> HIDE DEF a, b, c, d
<1>7. a = b
  <2>1. ASSUME NEW i \in 1..Len(a) PROVE a[i] = b[i]
    <3>1. CASE i <= Len(k)
      <4>1. i \in 1..Len(k) /\ i \in 1..m
        BY <1>1, <1>3, <3>1
      <4>2. QED
        BY <1>1, <1>3, <1>4, <4>1
    <3>2. CASE i > Len(k)
      <4>1. i \in (Len(k) + 1)..m /\ i \in (Len(k) + 1)..(Len(k) + Len(r)) /\ i \in 1..m
        BY <1>1, <1>3, <3>2
      <4>2. QED
        BY <1>1, <1>3, <1>4, <4>1
    <3>3. QED
      BY <1>1, <3>1, <3>2
  <2>2. QED
    BY <1>3, <1>4, <2>1, SeqEqual
<1>8. c = d
  <2>1. ASSUME NEW i \in 1..Len(c) PROVE c[i] = d[i]
    <3>1. m + i \in (Len(k) + 1)..(Len(k) + Len(r)) /\ (m + i) - Len(k) = m - Len(k) + i /\ i \in 1..Len(d)
      BY <1>1, <1>5, <1>6
    <3>2. K[m + i] = r[(m + i) - Len(k)]
      BY <1>1, <3>1
    <3>3. c[i] = r[m - Len(k) + i] /\ d[i] = K[m + i]
      BY <1>5, <1>6, <3>1
    <3>4. QED
      BY <3>1, <3>2, <3>3
  <2>2. QED
    BY <1>5, <1>6, <2>1, SeqEqual
<1>9. QED
  BY <1>7, <1>8 DEF a, b, c, d, K

\* Two lists of different elements, one behind the other.
LEMMA Joined ==
  ASSUME NEW S, NEW k \in Seq(S), NEW r \in Seq(S),
         \A i, j \in 1..Len(k) : k[i] = k[j] => i = j, \A i, j \in 1..Len(r) : r[i] = r[j] => i = j,
         ToSet(k) \cap ToSet(r) = {}
  PROVE  /\ k \o r \in Seq(S) /\ Len(k \o r) = Len(k) + Len(r)
         /\ ToSet(k \o r) = ToSet(k) \cup ToSet(r)
         /\ \A i, j \in 1..Len(k \o r) : (k \o r)[i] = (k \o r)[j] => i = j
<1> DEFINE K == k \o r
           a == Len(k)
           b == Len(r)
<1>1. /\ K \in Seq(S) /\ Len(K) = a + b /\ a \in Nat /\ b \in Nat
      /\ \A i \in 1..(a + b) : K[i] = IF i <= a THEN k[i] ELSE r[i - a]
  BY ConcatProperties
<1>2. \A x : x \in ToSet(k) <=> \E i \in 1..a : k[i] = x
  BY ToSetOf
<1>3. \A x : x \in ToSet(r) <=> \E i \in 1..b : r[i] = x
  BY ToSetOf
<1>4. \A x : x \in ToSet(K) <=> \E i \in 1..(a + b) : K[i] = x
  <2>1. K \in Seq(S)
    BY <1>1
  <2> HIDE DEF K
  <2>2. \A x : x \in ToSet(K) <=> \E i \in 1..Len(K) : K[i] = x
    BY <2>1, ToSetOf
  <2>3. QED
    BY <1>1, <2>2
<1> HIDE DEF K, a, b
<1>5. ASSUME NEW i \in 1..(a + b)
      PROVE  \/ i \in 1..a /\ K[i] = k[i] /\ K[i] \in ToSet(k) /\ K[i] \notin ToSet(r)
             \/ i - a \in 1..b /\ K[i] = r[i - a] /\ K[i] \in ToSet(r) /\ K[i] \notin ToSet(k)
  <2>1. CASE i <= a
    <3>1. i \in 1..a /\ K[i] = k[i]
      BY <1>1, <2>1
    <3>2. QED
      BY <1>2, <3>1
  <2>2. CASE i > a
    <3>1. i - a \in 1..b /\ K[i] = r[i - a]
      BY <1>1, <2>2
    <3>2. QED
      BY <1>3, <3>1
  <2>3. QED
    BY <1>1, <2>1, <2>2
<1>6. ASSUME NEW i \in 1..(a + b), NEW j \in 1..(a + b), K[i] = K[j] PROVE i = j
  <2>1. CASE i \in 1..a /\ K[i] = k[i] /\ K[i] \in ToSet(k) /\ K[i] \notin ToSet(r)
    <3>1. j \in 1..a /\ K[j] = k[j]
      BY <1>5, <1>6, <2>1
    <3>2. QED
      BY <1>6, <2>1, <3>1 DEF a
  <2>2. CASE i - a \in 1..b /\ K[i] = r[i - a] /\ K[i] \in ToSet(r) /\ K[i] \notin ToSet(k)
    <3>1. j - a \in 1..b /\ K[j] = r[j - a]
      BY <1>5, <1>6, <2>2
    <3>2. i - a = j - a
      BY <1>6, <2>2, <3>1 DEF b
    <3>3. QED
      BY <1>1, <3>2
  <2>3. QED
    BY <1>5, <2>1, <2>2
<1>7. ASSUME NEW x \in ToSet(k) \cup ToSet(r) PROVE x \in ToSet(K)
  <2>1. CASE x \in ToSet(k)
    <3>1. PICK i \in 1..a : k[i] = x
      BY <1>2, <2>1
    <3>2. i \in 1..(a + b) /\ K[i] = x
      BY <1>1, <3>1
    <3>3. QED
      BY <1>4, <3>2
  <2>2. CASE x \in ToSet(r)
    <3>1. PICK i \in 1..b : r[i] = x
      BY <1>3, <2>2
    <3>2. a + i \in 1..(a + b) /\ ~(a + i <= a) /\ (a + i) - a = i
      BY <1>1
    <3>3. K[a + i] = x
      BY <1>1, <3>1, <3>2
    <3>4. QED
      BY <1>4, <3>2, <3>3
  <2>3. QED
    BY <1>7, <2>1, <2>2
<1>8. ToSet(K) = ToSet(k) \cup ToSet(r)
  BY <1>4, <1>5, <1>7
<1>9. QED
  BY <1>1, <1>6, <1>8 DEF K, a, b

\* order_warps() of two_level_active keeps every warp in one of its lists.
LEMMA DemoteDealt ==
  ASSUME NEW a, NEW p, NEW S, NEW wait, NEW m \in Nat, Dealt(a, p, S, m), NEW o \in Demote(a, p, wait, m)
  PROVE  Dealt(o.active, o.pending, S, m)
<1> DEFINE stay == {w \in ToSet(a) : ~wait[w]}
           go == {w \in ToSet(a) : wait[w]}
<1>1. PICK kept, gone :
        /\ kept \in SetToSeqs(stay) /\ gone \in SetToSeqs(go)
        /\ o = [active  |-> kept \o SubSeq(p \o gone, 1, m - Len(kept)),
                pending |-> SubSeq(p \o gone, m - Len(kept) + 1, Len(p \o gone))]
  <2> DEFINE A == Sorted(stay, LAMBDA v, w : \E i, j \in DOMAIN a : i < j /\ a[i] = v /\ a[j] = w)
             B == Sorted(go, LAMBDA v, w : \E i, j \in DOMAIN a : i < j /\ a[i] = v /\ a[j] = w)
  <2>1. A \subseteq SetToSeqs(stay) /\ B \subseteq SetToSeqs(go)
    BY DEF Sorted
  <2>2. o \in UNION {{[active  |-> kept \o SubSeq(p \o gone, 1, m - Len(kept)),
                       pending |-> SubSeq(p \o gone, m - Len(kept) + 1, Len(p \o gone))] : gone \in B} : kept \in A}
    BY Zenon DEF Demote
  <2> HIDE DEF A, B, stay, go
  <2>3. QED
    BY <2>1, <2>2
<1>2. a \in Seq(Warps) /\ p \in Seq(Warps) /\ Len(a) = m
  BY DEF Dealt
<1>3. /\ IsFiniteSet(ToSet(a)) /\ ToSet(a) \subseteq Warps /\ Cardinality(ToSet(a)) = m
  <2>1. Cardinality(ToSet(a)) = Len(a)
    BY <1>2, SeqInjective DEF Dealt
  <2>2. QED
    BY <1>2, <2>1, SeqFinite
<1>4. /\ IsFiniteSet(stay) /\ IsFiniteSet(go) /\ Cardinality(stay) + Cardinality(go) = m
  <2>1. stay \in SUBSET ToSet(a) /\ go \in SUBSET ToSet(a) /\ stay \cap go = {} /\ stay \cup go = ToSet(a)
    OBVIOUS
  <2> HIDE DEF stay, go
  <2>2. IsFiniteSet(stay) /\ IsFiniteSet(go)
    BY <1>3, <2>1, FS_Subset
  <2>3. Cardinality(stay \cup go) = Cardinality(stay) + Cardinality(go) - Cardinality(stay \cap go)
    BY <2>2, FS_Union
  <2>4. Cardinality({}) = 0
    BY FS_EmptySet
  <2>6. Cardinality(stay) \in Nat /\ Cardinality(go) \in Nat
    BY <2>2, FS_CardinalityType
  <2>5. Cardinality(stay \cap go) = 0 /\ Cardinality(stay \cup go) = m
    BY <1>3, <2>1, <2>4
  <2>7. QED
    BY <2>2, <2>3, <2>5, <2>6
<1> DEFINE K == kept \o (p \o gone)
<1> HIDE DEF stay, go
<1>5. /\ kept \in Seq(stay) /\ Len(kept) = Cardinality(stay) /\ ToSet(kept) = stay
      /\ \A i, j \in 1..Len(kept) : kept[i] = kept[j] => i = j
  BY <1>1, <1>4, SortedSet
<1>6. /\ gone \in Seq(go) /\ Len(gone) = Cardinality(go) /\ ToSet(gone) = go
      /\ \A i, j \in 1..Len(gone) : gone[i] = gone[j] => i = j
  BY <1>1, <1>4, SortedSet
<1>7. stay \subseteq ToSet(a) /\ go \subseteq ToSet(a) /\ stay \cap go = {} /\ stay \cup go = ToSet(a)
  BY DEF stay, go
<1>8. kept \in Seq(Warps) /\ gone \in Seq(Warps) /\ Len(kept) + Len(gone) = m
  <2>1. stay \subseteq Warps /\ go \subseteq Warps
    BY <1>3, <1>7
  <2>2. QED
    BY <1>4, <1>5, <1>6, <2>1
<1>9. /\ o.active = SubSeq(K, 1, m) /\ o.pending = SubSeq(K, m + 1, Len(K)) /\ m \in 0..Len(K)
      /\ K \in Seq(Warps)
  <2>1. /\ o.active = kept \o SubSeq(p \o gone, 1, m - Len(kept))
        /\ o.pending = SubSeq(p \o gone, m - Len(kept) + 1, Len(p \o gone))
    BY <1>1
  <2>2. K \in Seq(Warps) /\ Len(K) = Len(kept) + Len(p) + Len(gone)
    BY <1>2, <1>8
  <2>3. p \o gone \in Seq(Warps) /\ Len(kept) <= m /\ m <= Len(kept) + Len(p \o gone)
    BY <1>2, <1>8
  <2>4. /\ kept \o SubSeq(p \o gone, 1, m - Len(kept)) = SubSeq(K, 1, m)
        /\ SubSeq(p \o gone, m - Len(kept) + 1, Len(p \o gone)) = SubSeq(K, m + 1, Len(K))
    <3>1. kept \in Seq(Warps) /\ p \o gone \in Seq(Warps)
      BY <1>8, <2>3
    <3>2. QED
      BY <2>3, <3>1, Shifted
  <2>5. Len(kept) \in Nat /\ Len(p) \in Nat /\ Len(gone) \in Nat
    BY <1>2, <1>8
  <2> HIDE DEF K
  <2>6. m \in 0..Len(K)
    BY <1>8, <2>2, <2>5
  <2>7. QED
    BY <2>1, <2>2, <2>4, <2>6
<1>10. ToSet(p) \cap ToSet(a) = {} /\ ToSet(a) \cup ToSet(p) = S
       /\ \A i, j \in 1..Len(p) : p[i] = p[j] => i = j
  <2>1. \A x : x \in ToSet(a) <=> \E i \in 1..Len(a) : a[i] = x
    BY <1>2, ToSetOf
  <2>2. \A x : x \in ToSet(p) <=> \E i \in 1..Len(p) : p[i] = x
    BY <1>2, ToSetOf
  <2>3. QED
    BY <2>1, <2>2 DEF Dealt
<1>11. /\ p \o gone \in Seq(Warps) /\ ToSet(p \o gone) = ToSet(p) \cup go
       /\ \A i, j \in 1..Len(p \o gone) : (p \o gone)[i] = (p \o gone)[j] => i = j
  <2>1. ToSet(p) \cap ToSet(gone) = {}
    BY <1>6, <1>7, <1>10
  <2>2. /\ p \in Seq(Warps) /\ gone \in Seq(Warps)
        /\ \A i, j \in 1..Len(p) : p[i] = p[j] => i = j
        /\ \A i, j \in 1..Len(gone) : gone[i] = gone[j] => i = j
    BY <1>2, <1>6, <1>8, <1>10
  <2>3. /\ p \o gone \in Seq(Warps) /\ ToSet(p \o gone) = ToSet(p) \cup ToSet(gone)
        /\ \A i, j \in 1..Len(p \o gone) : (p \o gone)[i] = (p \o gone)[j] => i = j
    BY ONLY <2>1, <2>2, Joined
  <2>4. QED
    BY <1>6, <2>3
<1>12. /\ ToSet(K) = stay \cup (ToSet(p) \cup go)
       /\ \A i, j \in 1..Len(K) : K[i] = K[j] => i = j
  <2>1. ToSet(kept) \cap ToSet(p \o gone) = {}
    BY <1>5, <1>7, <1>10, <1>11
  <2>2. PICK g : g = p \o gone
    OBVIOUS
  <2>3. /\ kept \in Seq(Warps) /\ g \in Seq(Warps)
        /\ \A i, j \in 1..Len(kept) : kept[i] = kept[j] => i = j
        /\ \A i, j \in 1..Len(g) : g[i] = g[j] => i = j
        /\ ToSet(kept) \cap ToSet(g) = {}
    BY <1>5, <1>8, <1>11, <2>1, <2>2
  <2>4. /\ ToSet(kept \o g) = ToSet(kept) \cup ToSet(g)
        /\ \A i, j \in 1..Len(kept \o g) : (kept \o g)[i] = (kept \o g)[j] => i = j
    BY ONLY <2>3, Joined
  <2>5. ToSet(K) = ToSet(kept) \cup ToSet(p \o gone)
    BY <2>2, <2>4
  <2>6. \A i, j \in 1..Len(K) : K[i] = K[j] => i = j
    BY <2>2, <2>4
  <2>7. QED
    BY <1>5, <1>11, <2>5, <2>6
<1>13. ToSet(K) = S
  BY <1>7, <1>10, <1>12
<1> HIDE DEF K
<1>14. Dealt(SubSeq(K, 1, m), SubSeq(K, m + 1, Len(K)), ToSet(K), m)
  BY <1>9, <1>12, Cut
<1>15. QED
  BY <1>9, <1>13, <1>14

\* What order_warps() makes of the lists are lists of warps.
LEMMA OrderLists ==
  ASSUME setup \in Setups, ListTypes, NEW i \in Scheds, NEW o \in OrderWarps(i)
  PROVE  /\ o.active \in Seq(Warps) /\ o.pending \in Seq(Warps)
         /\ policy # "two_level" => o.pending = pending[i]
         /\ policy = "two_level" => Dealt(o.active, o.pending, ToSet(Supervised(i)), MaxActive)
<1> DEFINE s == Supervised(i)
           l == IF Limit < Len(s) THEN Limit ELSE Len(s)
           idle == [w \in Warps |-> exited[w] \/ Waiting(w)]
           oldest == sort_warps_by_oldest_dynamic_id(s, idle, dyn)
           critical == sort_warps_by_criticality(s, idle, dyn, nInst)
<1>0. /\ s \in Seq(Warps) /\ Len(s) \in Nat \ {0} /\ Cardinality(ToSet(s)) = Len(s)
      /\ l \in Nat /\ l <= Len(s) /\ last[i] \in 0..Len(s)
      /\ policy \in {"gto", "swl"} => last[i] >= 1
  <2>1. Limit \in Nat
    BY CoreConstants
  <2>2. last[i] \in Nat /\ last[i] <= NumWarps \div NumScheds /\ (policy \in {"gto", "swl"} => last[i] >= 1)
    BY DEF ListTypes
  <2>3. QED
    BY <2>1, <2>2, SupervisedWarps
<1>1. \A q \in oldest \cup critical : q \in Seq(Warps) /\ Len(q) = Len(s)
  BY <1>0, SortedLists
<1>2. CASE policy = "two_level"
  <2> DEFINE wait == [w \in Warps |-> Waiting(w) \/ LongOp(w)]
  <2>1. o \in Demote(list[i], pending[i], wait, MaxActive)
    BY <1>2 DEF OrderWarps
  <2>2. Dealt(list[i], pending[i], ToSet(s), MaxActive) /\ MaxActive \in Nat
    BY <1>2, CoreConstants DEF ListTypes
  <2> HIDE DEF s, wait
  <2>3. Dealt(o.active, o.pending, ToSet(s), MaxActive)
    BY <2>1, <2>2, DemoteDealt
  <2>4. QED
    BY <1>2, <2>3 DEF Dealt, s
<1>3. CASE policy # "two_level"
  <2> HIDE DEF l, idle, oldest, critical
  <2>1. PICK L \in Order(policy, s, last[i], l, idle, dyn, nInst) :
          o = [active |-> L, pending |-> pending[i]]
    BY <1>3 DEF OrderWarps, l, idle
  <2>2. pending[i] \in Seq(Warps) /\ o.active = L /\ o.pending = pending[i]
    BY <2>1 DEF ListTypes
  <2>3. CASE policy = "lrr"
    <3>1. L = order_lrr(s, last[i], Len(s))
      BY <2>1, <2>3 DEF Order
    <3>2. L \in Seq(Warps)
      BY <1>0, <3>1, RoundRobin
    <3>3. QED
      BY <1>3, <2>2, <3>2
  <2>4. ASSUME policy \in {"gto", "swl"} PROVE L \in Seq(Warps)
    <3>1. \E n \in {l, Len(s)} : L \in GreedyThen(oldest, s[last[i]], n)
      BY <2>1, <2>4 DEF Order, oldest
    <3>2. s[last[i]] \in Warps
      BY <1>0, <2>4
    <3>3. QED
      BY <1>0, <1>1, <3>1, <3>2, GreedyLists
  <2>5. ASSUME policy = "caws" PROVE L \in Seq(Warps)
    BY <1>1, <2>1, <2>5 DEF Order, critical
  <2>6. ASSUME policy = "gcaws" PROVE L \in Seq(Warps)
    <3>1. CASE last[i] = 0
      BY <1>1, <2>1, <2>6, <3>1 DEF Order, critical
    <3>2. CASE last[i] # 0
      <4>1. L \in GreedyThen(critical, s[last[i]], Len(s))
        BY <2>1, <2>6, <3>2 DEF Order, critical
      <4>2. s[last[i]] \in Warps
        BY <1>0, <3>2
      <4>3. QED
        BY <1>0, <1>1, <4>1, <4>2, GreedyLists
    <3>3. QED
      BY <3>1, <3>2
  <2>7. QED
    BY <1>3, <2>2, <2>3, <2>4, <2>5, <2>6, SetupFacts DEF Policies
<1>4. QED
  BY <1>2, <1>3

-----------------------------------------------------------------------------
(* What the variables hold.                                                *)

\* Instructions of the kernel that a warp runs, and those of one kind.
Running == [w : Warps, pc : DOMAIN Program]
Of(k)   == {None} \cup {x \in Running : KindOf(P(x).op) = k}
UnitOf(k) == [disp : Of(k), delay : Nat, occupied : SUBSET Nat, stage : [0..(Depth[k] - 1) -> Of(k)]]

FrontTypes ==
  /\ setup \in Setups /\ turn \in Scheds
  /\ next_pc \in [Warps -> 1..(Len(Program) + 1)] /\ top \in [Warps -> 1..(Len(Program) + 1)]
  /\ done \in [Warps -> BOOLEAN]
  /\ \A w \in Warps : ~done[w] => next_pc[w] \in DOMAIN Program /\ top[w] \in DOMAIN Program
  /\ ibuf \in [Warps -> [{1, 2} -> {0} \cup DOMAIN Program]] /\ nxt \in [Warps -> {1, 2}]
  /\ fbuf \in Inst /\ lastFetch \in Warps
  /\ ListTypes

AluTypes ==
  /\ idoc \in [Kinds -> Inst] /\ cu \in [Kinds -> Inst] /\ ocex \in [Kinds -> Inst]
  /\ \A k \in Kinds : idoc[k] \in Of(k) /\ cu[k] \in Of(k) /\ ocex[k] \in Of(k)
  /\ unit \in [Alu -> {unit[k] : k \in Alu}] /\ \A k \in Alu : unit[k] \in UnitOf(k)
  /\ exwb \in Seq(Running)

\* What fits a port is an instruction or nothing.
LEMMA OfIsInst == \A k : Of(k) \subseteq Inst /\ None \in Of(k)
BY DEF Of, Inst, Running

\* An empty instruction buffer has the type of a buffer.
LEMMA EmptyBuffer == \A S : <<0, 0>> \in [{1, 2} -> {0} \cup S]
OBVIOUS

\* The types hold when the core starts.
LEMMA InitTypes == Init => FrontTypes /\ AluTypes
<1> SUFFICES ASSUME Init PROVE FrontTypes /\ AluTypes
  OBVIOUS
<1>1. setup \in Setups /\ turn \in Scheds
  BY SetupFacts DEF Init, Scheds
<1>2. /\ next_pc \in [Warps -> 1..(Len(Program) + 1)] /\ top \in [Warps -> 1..(Len(Program) + 1)]
      /\ done \in [Warps -> BOOLEAN] /\ nxt \in [Warps -> {1, 2}]
      /\ \A w \in Warps : ~done[w] => next_pc[w] \in DOMAIN Program /\ top[w] \in DOMAIN Program
  BY <1>1, SetupFacts DEF Init
<1>3. ibuf \in [Warps -> [{1, 2} -> {0} \cup DOMAIN Program]]
  BY EmptyBuffer DEF Init
<1>4. fbuf \in Inst /\ lastFetch \in Warps
  BY CoreConstants DEF Init, Inst, Warps
<1>5. ListTypes
  <2>1. ASSUME NEW i \in Scheds
        PROVE  /\ list[i] \in Seq(Warps) /\ pending[i] \in Seq(Warps) /\ last[i] \in Nat
               /\ last[i] <= NumWarps \div NumScheds
               /\ policy \in {"gto", "swl"} => last[i] >= 1
               /\ policy = "two_level" => Dealt(list[i], pending[i], ToSet(Supervised(i)), MaxActive)
    <3>1. PICK K : K = Supervised(i)
      OBVIOUS
    <3>2. /\ K \in Seq(Warps) /\ Len(K) = NumWarps \div NumScheds /\ Len(K) \in Nat \ {0}
          /\ Cardinality(ToSet(K)) = Len(K)
      BY <1>1, <3>1, SupervisedWarps
    <3>3. last[i] \in {0, 1} /\ (policy \in {"gto", "swl"} => last[i] = 1)
      BY DEF Init, FirstIssued
    <3>4. \A a, b \in 1..Len(K) : K[a] = K[b] => a = b
      BY <1>1, <3>1, SupervisedWarps
    <3>5. CASE policy = "two_level"
      <4>1. list[i] = SubSeq(K, 1, MaxActive) /\ pending[i] = SubSeq(K, MaxActive + 1, Len(K))
        BY <3>1, <3>5 DEF Init
      <4>2. MaxActive \in 0..Len(K)
        BY <1>1, <3>2, <3>5, SetupFacts, CoreConstants
      <4>3. Dealt(list[i], pending[i], ToSet(K), MaxActive)
        BY <3>2, <3>4, <4>1, <4>2, Cut
      <4>4. list[i] \in Seq(Warps) /\ pending[i] \in Seq(Warps)
        BY <4>3 DEF Dealt
      <4>5. QED
        BY <3>1, <3>2, <3>3, <4>3, <4>4
    <3>6. CASE policy # "two_level"
      <4>1. list[i] = <<>> /\ pending[i] = <<>>
        BY <3>6 DEF Init
      <4>2. QED
        BY <3>2, <3>3, <3>6, <4>1
    <3>7. QED
      BY <3>5, <3>6
  <2>2. list = [i \in Scheds |-> list[i]] /\ pending = [i \in Scheds |-> pending[i]] /\ last = [i \in Scheds |-> last[i]]
    BY DEF Init
  <2>3. QED
    BY <2>1, <2>2 DEF ListTypes
<1>6. AluTypes
  <2>1. /\ idoc \in [Kinds -> Inst] /\ cu \in [Kinds -> Inst] /\ ocex \in [Kinds -> Inst]
        /\ \A k \in Kinds : idoc[k] \in Of(k) /\ cu[k] \in Of(k) /\ ocex[k] \in Of(k)
    BY OfIsInst DEF Init, Inst
  <2>2. unit \in [Alu -> {unit[k] : k \in Alu}]
    BY DEF Init
  <2>3. ASSUME NEW k \in Alu PROVE unit[k] \in UnitOf(k)
    <3>1. unit[k] = [disp |-> None, delay |-> 0, occupied |-> {}, stage |-> [s \in 0..(Depth[k] - 1) |-> None]]
      BY DEF Init
    <3>2. QED
      BY <3>1, OfIsInst DEF UnitOf
  <2>4. exwb \in Seq(Running)
    BY DEF Init
  <2>5. QED
    BY <2>1, <2>2, <2>3, <2>4 DEF AluTypes
<1>7. QED
  BY <1>1, <1>2, <1>3, <1>4, <1>5, <1>6 DEF FrontTypes

-----------------------------------------------------------------------------
(* Issue keeps the types.                                                  *)

\* What a kernel fixes stays what it is.
LEMMA SameSetup ==
  ASSUME setup' = setup
  PROVE  /\ Program' = Program /\ policy' = policy /\ NumScheds' = NumScheds /\ Scheds' = Scheds
         /\ Running' = Running /\ Inst' = Inst /\ Regs' = Regs /\ dyn' = dyn
         /\ \A i : Supervised(i)' = Supervised(i)
         /\ \A x : P(x)' = P(x)
         /\ \A k : Of(k)' = Of(k) /\ UnitOf(k)' = UnitOf(k)
BY DEF Program, policy, NumScheds, Scheds, Running, Inst, Regs, dyn, Supervised, P, Of, UnitOf

\* A warp that is flushed or issues has instructions left.
LEMMA TriedRuns ==
  ASSUME FrontTypes, NEW w \in Warps, Tried(w)
  PROVE  ~done[w] /\ top[w] \in DOMAIN Program
BY DEF FrontTypes, Tried, Waiting

\* The warps flushed on the way to the n-th of a list have instructions left.
LEMMA FlushedRun ==
  ASSUME FrontTypes, NEW L \in Seq(Warps), NEW n \in 0..Len(L), NEW v \in Flushed(L, n)
  PROVE  v \in Warps /\ ~done[v] /\ top[v] \in DOMAIN Program
<1>1. PICK j \in 1..n : v = L[j] /\ Hazard(L[j])
  BY DEF Flushed
<1>2. v \in Warps
  BY <1>1
<1>3. QED
  BY <1>1, <1>2, TriedRuns DEF Hazard

\* The next instruction of a warp that does not exit.
LEMMA NextPc ==
  ASSUME FrontTypes, NEW c \in DOMAIN Program
  PROVE  /\ c \in 1..(Len(Program) + 1) /\ c + 1 \in 1..(Len(Program) + 1)
         /\ Program[c].op # "exit" => c + 1 \in DOMAIN Program
<1>1. /\ Len(Program) \in Nat \ {0} /\ DOMAIN Program = 1..Len(Program)
      /\ Program[Len(Program)].op = "exit"
  BY SetupFacts DEF FrontTypes
<1>2. QED
  BY <1>1

\* Every instruction goes to one of the three ports.
LEMMA KindOfOp == \A op : KindOf(op) \in Kinds /\ KindOf(op) \in {"sp", "sfu", "mem"}
BY DEF KindOf, Kinds

\* The lists after a scheduler has tried its warps.
LEMMA ListsKept ==
  ASSUME FrontTypes, setup' = setup, NEW o \in OrderWarps(turn), NEW L \in Seq(Warps),
         policy = "two_level" => Dealt(L, o.pending, ToSet(Supervised(turn)), MaxActive),
         list' = [list EXCEPT ![turn] = Kept(@, L)], pending' = [pending EXCEPT ![turn] = o.pending],
         \/ last' = last
         \/ \E p \in DOMAIN Supervised(turn) : last' = [last EXCEPT ![turn] = p]
  PROVE  ListTypes'
<1>1. turn \in Scheds /\ setup \in Setups /\ ListTypes
  BY DEF FrontTypes
<1>2. /\ o.pending \in Seq(Warps)
      /\ policy # "two_level" => o.pending = pending[turn]
  BY <1>1, OrderLists
<1>3. list' \in [Scheds -> Seq(Warps)] /\ pending' \in [Scheds -> Seq(Warps)]
  <2>1. list \in [Scheds -> Seq(Warps)] /\ pending \in [Scheds -> Seq(Warps)]
    BY <1>1 DEF ListTypes
  <2>2. Kept(list[turn], L) \in Seq(Warps)
    BY <1>1, <2>1 DEF Kept
  <2>3. QED
    BY <1>1, <1>2, <2>1, <2>2
<1>4. /\ last' \in [Scheds -> Nat]
      /\ \A i \in Scheds : last'[i] <= NumWarps \div NumScheds
      /\ \A i \in Scheds : policy \in {"gto", "swl"} => last'[i] >= 1
  <2>1. CASE last' = last
    BY <1>1, <2>1 DEF ListTypes
  <2>2. ASSUME NEW p \in DOMAIN Supervised(turn), last' = [last EXCEPT ![turn] = p]
        PROVE  /\ last' \in [Scheds -> Nat]
               /\ \A i \in Scheds : last'[i] <= NumWarps \div NumScheds
               /\ \A i \in Scheds : policy \in {"gto", "swl"} => last'[i] >= 1
    <3>1. /\ Supervised(turn) \in Seq(Warps) /\ Len(Supervised(turn)) = NumWarps \div NumScheds
          /\ Len(Supervised(turn)) \in Nat \ {0}
      BY <1>1, SupervisedWarps
    <3>2. PICK n \in Nat : n = NumWarps \div NumScheds /\ p \in 1..n
      BY <3>1
    <3>3. last \in [Scheds -> Nat] /\ \A i \in Scheds : last[i] <= n /\ (policy \in {"gto", "swl"} => last[i] >= 1)
      BY <1>1, <3>2 DEF ListTypes
    <3>4. last' \in [Scheds -> Nat] /\ \A i \in Scheds : last'[i] = IF i = turn THEN p ELSE last[i]
      BY <1>1, <2>2, <3>2, <3>3
    <3>5. QED
      BY <3>2, <3>3, <3>4
  <2>3. QED
    BY <2>1, <2>2
<1>5. ASSUME NEW i \in Scheds, policy = "two_level"
      PROVE  Dealt(list'[i], pending'[i], ToSet(Supervised(i)), MaxActive)
  <2>1. CASE i = turn
    <3>1. list'[i] = L /\ pending'[i] = o.pending
      BY <1>1, <1>5, <2>1 DEF ListTypes, Kept
    <3>2. QED
      BY <1>5, <2>1, <3>1
  <2>2. CASE i # turn
    <3>1. list'[i] = list[i] /\ pending'[i] = pending[i]
      BY <1>1, <2>2 DEF ListTypes
    <3>2. QED
      BY <1>1, <1>5, <3>1 DEF ListTypes
  <2>3. QED
    BY <2>1, <2>2
<1>6. \A i \in Scheds : policy' = "two_level" =>
          Dealt(list'[i], pending'[i], ToSet(Supervised(i)'), MaxActive)
  BY <1>5, SameSetup
<1>7. NumScheds' = NumScheds /\ Scheds' = Scheds /\ policy' = policy
  BY SameSetup
<1>8. /\ list' \in [Scheds' -> Seq(Warps)] /\ pending' \in [Scheds' -> Seq(Warps)] /\ last' \in [Scheds' -> Nat]
      /\ \A i \in Scheds' :
           /\ last'[i] <= NumWarps \div NumScheds'
           /\ policy' \in {"gto", "swl"} => last'[i] >= 1
           /\ policy' = "two_level" => Dealt(list'[i], pending'[i], ToSet(Supervised(i)'), MaxActive)
  <2>1. ASSUME NEW i \in Scheds'
        PROVE  /\ last'[i] <= NumWarps \div NumScheds'
               /\ policy' \in {"gto", "swl"} => last'[i] >= 1
               /\ policy' = "two_level" => Dealt(list'[i], pending'[i], ToSet(Supervised(i)'), MaxActive)
    <3>1. i \in Scheds
      BY <1>7
    <3>2. /\ last'[i] <= NumWarps \div NumScheds
          /\ policy \in {"gto", "swl"} => last'[i] >= 1
          /\ policy' = "two_level" => Dealt(list'[i], pending'[i], ToSet(Supervised(i)'), MaxActive)
      BY <1>4, <1>6, <3>1
    <3>3. QED
      BY <1>7, <3>2
  <2>2. QED
    BY <1>3, <1>4, <1>7, <2>1
<1>9. QED
  BY <1>8, Zenon DEF ListTypes

\* What one warp's step leaves behind: shared by the warps that are flushed and the one that issues.
FrontStep ==
  /\ next_pc' \in [Warps -> 1..(Len(Program) + 1)] /\ top' \in [Warps -> 1..(Len(Program) + 1)]
  /\ done' \in [Warps -> BOOLEAN]
  /\ \A w \in Warps : ~done'[w] => next_pc'[w] \in DOMAIN Program /\ top'[w] \in DOMAIN Program
  /\ ibuf' \in [Warps -> [{1, 2} -> {0} \cup DOMAIN Program]] /\ nxt' \in [Warps -> {1, 2}]
  /\ idoc' \in [Kinds -> Inst] /\ \A k \in Kinds : idoc'[k] \in Of(k)

\* The types hold after a scheduler in whose list no warp issues.
LEMMA NoIssueTypes ==
  ASSUME FrontTypes, AluTypes, NEW L \in Seq(Warps), NoIssue(L)
  PROVE  FrontStep
<1> DEFINE all == Flushed(L, Len(L))
<1>1. /\ next_pc' = [w \in Warps |-> IF w \in all THEN top[w] ELSE next_pc[w]]
      /\ ibuf' = [w \in Warps |-> IF w \in all THEN <<0, 0>> ELSE ibuf[w]]
      /\ top' = top /\ done' = done /\ nxt' = nxt /\ idoc' = idoc
  BY DEF NoIssue
<1>2. \A v \in all : v \in Warps /\ ~done[v] /\ top[v] \in DOMAIN Program
  BY FlushedRun
<1> HIDE DEF all
<1>3. /\ next_pc \in [Warps -> 1..(Len(Program) + 1)] /\ top \in [Warps -> 1..(Len(Program) + 1)]
      /\ done \in [Warps -> BOOLEAN]
      /\ \A w \in Warps : ~done[w] => next_pc[w] \in DOMAIN Program /\ top[w] \in DOMAIN Program
      /\ ibuf \in [Warps -> [{1, 2} -> {0} \cup DOMAIN Program]] /\ nxt \in [Warps -> {1, 2}]
      /\ idoc \in [Kinds -> Inst] /\ \A k \in Kinds : idoc[k] \in Of(k)
  BY DEF FrontTypes, AluTypes
<1>4. next_pc' \in [Warps -> 1..(Len(Program) + 1)]
  BY <1>1, <1>3
<1>5. ibuf' \in [Warps -> [{1, 2} -> {0} \cup DOMAIN Program]]
  BY <1>1, <1>3, EmptyBuffer
<1>6. \A w \in Warps : ~done'[w] => next_pc'[w] \in DOMAIN Program /\ top'[w] \in DOMAIN Program
  BY <1>1, <1>2, <1>3
<1>7. QED
  BY <1>1, <1>3, <1>4, <1>5, <1>6 DEF FrontStep

\* The types hold after a scheduler whose k-th warp issues.
LEMMA IssueTypes ==
  ASSUME FrontTypes, AluTypes, NEW L \in Seq(Warps), NEW k \in DOMAIN L, IssueFrom(L, k)
  PROVE  FrontStep
<1> DEFINE w == L[k]
           cur == top[w]
           F == Flushed(L, k)
<1>1. k \in 1..Len(L) /\ w \in Warps
  OBVIOUS
<1>2. Issues(w)
  BY DEF IssueFrom
<1>3. ~done[w] /\ cur \in DOMAIN Program
  BY <1>1, <1>2, TriedRuns DEF Issues
<1>4. PICK npc : /\ npc = cur + 1 \/ (Program[cur].op = "bra" /\ npc = Program[cur].target)
                 /\ IssueWarp(w, npc, F)
  BY DEF IssueFrom
<1>5. \A v \in F : v \in Warps /\ ~done[v] /\ top[v] \in DOMAIN Program
  BY <1>1, FlushedRun
<1> DEFINE exit == Program[cur].op = "exit"
<1>6. /\ idoc' = [idoc EXCEPT ![KindOf(Program[cur].op)] = [w |-> w, pc |-> cur]]
      /\ next_pc' = [v \in Warps |-> IF v \in F THEN top[v] ELSE IF v = w THEN cur + 1 ELSE next_pc[v]]
      /\ top' = [top EXCEPT ![w] = npc]
      /\ ibuf' = [v \in Warps |-> IF v \in F \/ (v = w /\ exit) THEN <<0, 0>>
                                  ELSE IF v = w THEN [ibuf[v] EXCEPT ![nxt[v]] = 0] ELSE ibuf[v]]
      /\ nxt' = [nxt EXCEPT ![w] = 3 - @]
      /\ done' = [done EXCEPT ![w] = exit]
  BY <1>4 DEF IssueWarp
<1>7. /\ cur \in 1..(Len(Program) + 1) /\ cur + 1 \in 1..(Len(Program) + 1)
      /\ ~exit => cur + 1 \in DOMAIN Program
  BY <1>3, NextPc
<1>8. npc \in 1..(Len(Program) + 1) /\ (~exit => npc \in DOMAIN Program)
  <2>1. Program[cur].op = "bra" => Program[cur].target \in DOMAIN Program
    BY <1>3, ProgramFacts DEF FrontTypes
  <2>2. DOMAIN Program \subseteq 1..(Len(Program) + 1)
    BY NextPc
  <2>3. QED
    BY <1>4, <1>7, <2>1, <2>2
<1>9. /\ next_pc \in [Warps -> 1..(Len(Program) + 1)] /\ top \in [Warps -> 1..(Len(Program) + 1)]
      /\ done \in [Warps -> BOOLEAN]
      /\ \A v \in Warps : ~done[v] => next_pc[v] \in DOMAIN Program /\ top[v] \in DOMAIN Program
      /\ ibuf \in [Warps -> [{1, 2} -> {0} \cup DOMAIN Program]] /\ nxt \in [Warps -> {1, 2}]
      /\ idoc \in [Kinds -> Inst] /\ \A i \in Kinds : idoc[i] \in Of(i)
  BY DEF FrontTypes, AluTypes
<1> DEFINE x == [w |-> w, pc |-> cur]
<1>10. x \in Running /\ P(x) = Program[cur]
  BY <1>1, <1>3 DEF Running, P
<1>11. x \in Of(KindOf(Program[cur].op)) /\ x \in Inst
  BY <1>10 DEF Of, Inst, Running
<1> HIDE DEF w, cur, F, exit, x
<1>12. idoc' \in [Kinds -> Inst] /\ \A i \in Kinds : idoc'[i] \in Of(i)
  <2>1. PICK kd : kd = KindOf(Program[cur].op)
    OBVIOUS
  <2>2. kd \in Kinds /\ x \in Of(kd) /\ x \in Inst /\ idoc' = [idoc EXCEPT ![kd] = x]
    BY <1>6, <1>11, <2>1, KindOfOp DEF x
  <2>3. QED
    BY <1>9, <2>2
<1>13. next_pc' \in [Warps -> 1..(Len(Program) + 1)] /\ top' \in [Warps -> 1..(Len(Program) + 1)]
  BY <1>6, <1>7, <1>8, <1>9
<1>14. done' \in [Warps -> BOOLEAN]
  BY <1>6, <1>9 DEF exit
<1>15. nxt' \in [Warps -> {1, 2}]
  <2>1. \A v \in Warps : nxt'[v] = IF v = w THEN 3 - nxt[v] ELSE nxt[v]
    BY <1>6, <1>9
  <2>2. ASSUME NEW v \in Warps PROVE 3 - nxt[v] \in {1, 2}
    <3>1. nxt[v] = 1 \/ nxt[v] = 2
      BY <1>9
    <3>2. QED
      BY <3>1
  <2>3. QED
    BY <1>6, <1>9, <2>1, <2>2
<1>16. ibuf' \in [Warps -> [{1, 2} -> {0} \cup DOMAIN Program]]
  <2>1. \A v \in Warps : [ibuf[v] EXCEPT ![nxt[v]] = 0] \in [{1, 2} -> {0} \cup DOMAIN Program]
    BY <1>9
  <2>2. QED
    BY <1>6, <1>9, <2>1, EmptyBuffer
<1>17. ASSUME NEW v \in Warps, ~done'[v] PROVE next_pc'[v] \in DOMAIN Program /\ top'[v] \in DOMAIN Program
  <2>1. CASE v = w
    <3>1. ~exit
      BY <1>6, <1>9, <1>17, <2>1
    <3>2. next_pc'[v] \in {top[v], cur + 1} /\ top'[v] = npc
      BY <1>6, <1>9, <2>1
    <3>3. QED
      BY <1>3, <1>7, <1>8, <2>1, <3>1, <3>2 DEF cur
  <2>2. CASE v # w
    <3>1. ~done[v] /\ top'[v] = top[v] /\ next_pc'[v] \in {top[v], next_pc[v]}
      BY <1>6, <1>9, <1>17, <2>2
    <3>2. QED
      BY <1>9, <3>1
  <2>3. QED
    BY <2>1, <2>2
<1>18. QED
  BY <1>12, <1>13, <1>14, <1>15, <1>16, <1>17 DEF FrontStep

\* The types hold after a scheduler's turn.
LEMMA ScheduleTypes ==
  ASSUME FrontTypes, AluTypes, Schedule
  PROVE  FrontTypes' /\ AluTypes'
<1>1. PICK o \in OrderWarps(turn) :
        /\ NoIssue(o.active) \/ \E k \in DOMAIN o.active : IssueFrom(o.active, k)
        /\ pending' = [pending EXCEPT ![turn] = o.pending]
  BY DEF Schedule
<1> DEFINE L == o.active
<1>2. /\ L \in Seq(Warps) /\ o.pending \in Seq(Warps)
      /\ policy = "two_level" => Dealt(L, o.pending, ToSet(Supervised(turn)), MaxActive)
  BY <1>1, OrderLists DEF FrontTypes
<1>3. setup' = setup
  BY DEF Schedule
<1>4. FrontStep
  BY <1>1, <1>2, NoIssueTypes, IssueTypes
<1>5. ListTypes'
  <2>1. CASE NoIssue(L)
    <3>1. list' = [list EXCEPT ![turn] = Kept(@, L)] /\ last' = last
      BY <2>1 DEF NoIssue
    <3>2. QED
      BY <1>1, <1>2, <1>3, <3>1, ListsKept
  <2>2. ASSUME NEW k \in DOMAIN L, IssueFrom(L, k) PROVE ListTypes'
    <3>1. /\ list' = [list EXCEPT ![turn] = Kept(@, order_lrr(L, k, Len(L)))]
          /\ \E p \in DOMAIN Supervised(turn) : last' = [last EXCEPT ![turn] = p]
      BY <2>2 DEF IssueFrom
    <3>2. L # <<>> /\ k \in Nat
      BY <1>2
    <3>3. order_lrr(L, k, Len(L)) \in Seq(Warps)
      BY <1>2, <3>2, RoundRobin
    <3>4. policy = "two_level" => Dealt(order_lrr(L, k, Len(L)), o.pending, ToSet(Supervised(turn)), MaxActive)
      BY <1>2, <3>2, RotationDealt, CoreConstants
    <3>5. QED
      BY <1>1, <1>3, <3>1, <3>3, <3>4, ListsKept
  <2>3. QED
    BY <1>1, <2>1, <2>2
<1>6. turn' \in Scheds
  <2>1. NumScheds \in Nat /\ turn \in 0..(NumScheds - 1)
    BY SetupFacts, CoreConstants DEF Scheds, FrontTypes
  <2>2. turn' = 0 \/ (turn # NumScheds - 1 /\ turn' = turn + 1)
    BY DEF Schedule
  <2>3. QED
    BY <2>1, <2>2 DEF Scheds
<1>7. fbuf' = fbuf /\ lastFetch' = lastFetch
  BY DEF Schedule, fetchVars
<1>8. FrontTypes'
  BY <1>3, <1>4, <1>5, <1>6, <1>7, SameSetup DEF FrontTypes, FrontStep
<1>9. /\ cu' = cu /\ ocex' = ocex /\ unit' = unit /\ exwb' = exwb
  BY DEF Schedule, ocVars, aluVars
<1>10. QED
  BY <1>3, <1>4, <1>8, <1>9, SameSetup DEF AluTypes, FrontStep

-----------------------------------------------------------------------------
(* The other stages keep the types.                                        *)

frontVars == <<setup, turn, next_pc, top, done, ibuf, nxt, fbuf, lastFetch, schedVars>>

\* A step that leaves the schedulers' variables alone leaves their types true.
LEMMA SameLists == ASSUME ListTypes, UNCHANGED <<setup, schedVars>> PROVE ListTypes'
<1>1. list' = list /\ pending' = pending /\ last' = last /\ NumScheds' = NumScheds /\ Scheds' = Scheds /\ policy' = policy
      /\ \A i : Supervised(i)' = Supervised(i)
  BY SameSetup DEF schedVars
<1>2. /\ list' \in [Scheds' -> Seq(Warps)] /\ pending' \in [Scheds' -> Seq(Warps)] /\ last' \in [Scheds' -> Nat]
      /\ \A i \in Scheds' :
           /\ last'[i] <= NumWarps \div NumScheds'
           /\ policy' \in {"gto", "swl"} => last'[i] >= 1
           /\ policy' = "two_level" => Dealt(list'[i], pending'[i], ToSet(Supervised(i)'), MaxActive)
  BY <1>1, Zenon DEF ListTypes
<1>3. QED
  BY <1>2, Zenon DEF ListTypes

\* The same for the front end.
LEMMA SameFront == ASSUME FrontTypes, UNCHANGED frontVars PROVE FrontTypes'
<1>1. ListTypes'
  BY SameLists DEF FrontTypes, frontVars
<1>2. QED
  BY <1>1, SameSetup DEF FrontTypes, frontVars

aluTypeVars == <<setup, idoc, cu, ocex, unit, exwb>>

\* The same for the arithmetic pipelines.
LEMMA SameAlu == ASSUME AluTypes, UNCHANGED aluTypeVars PROVE AluTypes'
BY SameSetup DEF AluTypes, aluTypeVars

\* Decode keeps the types.
LEMMA DecodeTypes ==
  ASSUME FrontTypes, Decode
  PROVE  FrontTypes'
<1> DEFINE w == fbuf.w
           two == fbuf.pc < Len(Program)
<1>1. UNCHANGED <<setup, turn, next_pc, top, done, lastFetch, schedVars>> /\ fbuf' = None
  BY DEF Decode
<1>2. ibuf \in [Warps -> [{1, 2} -> {0} \cup DOMAIN Program]] /\ nxt \in [Warps -> {1, 2}]
  BY DEF FrontTypes
<1>3. ibuf' \in [Warps -> [{1, 2} -> {0} \cup DOMAIN Program]] /\ nxt' \in [Warps -> {1, 2}]
  <2>1. CASE fbuf = None
    BY <1>2, <2>1 DEF Decode
  <2>2. CASE fbuf # None
    <3>1. fbuf.w \in Warps /\ fbuf.pc \in DOMAIN Program
      BY <2>2 DEF FrontTypes, Inst
    <3>2. fbuf.pc \in 1..Len(Program) /\ DOMAIN Program = 1..Len(Program) /\ Len(Program) \in Nat
      BY <3>1, SetupFacts DEF FrontTypes
    <3>3. fbuf.pc < Len(Program) => fbuf.pc + 1 \in DOMAIN Program
      BY <3>2
    <3>4. <<fbuf.pc, IF fbuf.pc < Len(Program) THEN fbuf.pc + 1 ELSE 0>> \in [{1, 2} -> {0} \cup DOMAIN Program]
      BY <3>1, <3>3
    <3>5. /\ ibuf' = [ibuf EXCEPT ![fbuf.w] = <<fbuf.pc, IF fbuf.pc < Len(Program) THEN fbuf.pc + 1 ELSE 0>>]
          /\ nxt' = [nxt EXCEPT ![fbuf.w] = 1]
      BY <2>2 DEF Decode
    <3>6. QED
      BY <1>2, <3>1, <3>4, <3>5
  <2>3. QED
    BY <2>1, <2>2
<1>4. None \in Inst
  BY DEF Inst
<1>5. ListTypes'
  BY <1>1, SameLists DEF FrontTypes
<1>6. QED
  BY <1>1, <1>3, <1>4, <1>5, SameSetup DEF FrontTypes

\* Fetch keeps the types.
LEMMA FetchTypes ==
  ASSUME FrontTypes, Fetch
  PROVE  FrontTypes'
<1> DEFINE W == {i \in 1..NumWarps : Wants((lastFetch + i) % NumWarps)}
           f == IF W = {} THEN NumWarps ELSE CHOOSE i \in W : \A j \in W : i <= j
           w == (lastFetch + f) % NumWarps
<1>1. UNCHANGED <<setup, turn, next_pc, top, done, ibuf, nxt, schedVars>>
  BY DEF Fetch, warpVars
<1>2. /\ f \in 1..NumWarps /\ (W # {} => f \in W)
      /\ \A i \in 1..NumWarps : (lastFetch + i) % NumWarps \in Warps
  <2>1. PICK V : V = W
    OBVIOUS
  <2>2. PICK g : g = IF V = {} THEN NumWarps ELSE CHOOSE i \in V : \A j \in V : i <= j
    OBVIOUS
  <2>3. /\ g \in 1..NumWarps /\ (V # {} => g \in V)
        /\ \A i \in 1..NumWarps : (lastFetch + i) % NumWarps \in Warps
    <3>1. NumWarps \in Nat \ {0} /\ lastFetch \in 0..(NumWarps - 1)
      BY CoreConstants DEF FrontTypes, Warps
    <3>2. \A i \in 1..NumWarps : (lastFetch + i) % NumWarps \in Warps
      BY <3>1 DEF Warps
    <3>3. V \subseteq 1..NumWarps /\ V \subseteq Nat
      BY <2>1
    <3> HIDE DEF f, W
    <3>4. ASSUME V # {} PROVE g \in V
      <4>1. \E i \in V : \A j \in V : i <= j
        BY <3>3, <3>4, LeastIsMin
      <4>2. QED
        BY <2>2, <3>4, <4>1
    <3>5. g \in 1..NumWarps
      <4>1. CASE V = {}
        BY <2>2, <3>1, <4>1
      <4>2. CASE V # {}
        BY <3>3, <3>4, <4>2
      <4>3. QED
        BY <4>1, <4>2
    <3>6. QED
      BY <3>2, <3>4, <3>5
  <2>4. QED
    BY <2>1, <2>2, <2>3
<1>3. /\ fbuf' = fbuf \/ (W # {} /\ fbuf' = [w |-> w, pc |-> next_pc[w]])
      /\ lastFetch' \in {lastFetch, w}
  BY DEF Fetch
<1> HIDE DEF f
<1>4. w \in Warps /\ (W # {} => ~done[w])
  BY <1>2 DEF Wants
<1>5. lastFetch' \in Warps
  BY <1>3, <1>4 DEF FrontTypes
<1>6. fbuf' \in Inst
  <2>1. W # {} => next_pc[w] \in DOMAIN Program
    BY <1>4 DEF FrontTypes
  <2> HIDE DEF W, w
  <2>2. QED
    BY <1>3, <1>4, <2>1 DEF FrontTypes, Inst
<1>7. ListTypes'
  BY <1>1, SameLists DEF FrontTypes
<1>8. QED
  BY <1>1, <1>5, <1>6, <1>7, SameSetup DEF FrontTypes

\* The operand collector keeps the types.
LEMMA CollectorTypes ==
  ASSUME AluTypes, CollectorStep
  PROVE  AluTypes'
<1> DEFINE goes(k)  == cu[k] # None /\ missing[k] = {} /\ ocex[k] = None
           takes(k) == idoc[k] # None /\ (cu[k] = None \/ goes(k))
<1>1. /\ ocex' = [k \in Kinds |-> IF goes(k) THEN cu[k] ELSE ocex[k]]
      /\ cu' = [k \in Kinds |-> IF takes(k) THEN idoc[k] ELSE IF goes(k) THEN None ELSE cu[k]]
      /\ idoc' = [k \in Kinds |-> IF takes(k) THEN None ELSE idoc[k]]
      /\ setup' = setup /\ unit' = unit /\ exwb' = exwb
  BY DEF CollectorStep, aluVars
<1> HIDE DEF goes, takes
<1>2. \A k \in Kinds : /\ idoc[k] \in Of(k) /\ cu[k] \in Of(k) /\ ocex[k] \in Of(k)
                       /\ idoc[k] \in Inst /\ cu[k] \in Inst /\ ocex[k] \in Inst
                       /\ None \in Of(k) /\ None \in Inst
  BY OfIsInst DEF AluTypes, Inst
<1>3. /\ idoc' \in [Kinds -> Inst] /\ cu' \in [Kinds -> Inst] /\ ocex' \in [Kinds -> Inst]
      /\ \A k \in Kinds : idoc'[k] \in Of(k) /\ cu'[k] \in Of(k) /\ ocex'[k] \in Of(k)
  BY <1>1, <1>2
<1>4. QED
  BY <1>1, <1>3, SameSetup DEF AluTypes

\* The issue to the load/store unit keeps the types.
LEMMA LsuIssueTypes ==
  ASSUME AluTypes, LsuIssue
  PROVE  AluTypes'
<1>1. ocex' = ocex \/ ocex' = [ocex EXCEPT !["mem"] = None]
  BY DEF LsuIssue
<1>2. UNCHANGED <<setup, idoc, cu, unit, exwb>>
  BY DEF LsuIssue, aluVars
<1>3. ocex' \in [Kinds -> Inst] /\ \A k \in Kinds : ocex'[k] \in Of(k)
  BY <1>1, OfIsInst DEF AluTypes, Inst
<1>4. QED
  BY <1>2, <1>3, SameSetup DEF AluTypes

\* Writeback keeps the types.
LEMMA WritebackTypes ==
  ASSUME AluTypes, ShaderWriteback
  PROVE  AluTypes' /\ (exwb = <<>> => exwb' = <<>>) /\ (exwb # <<>> => exwb' = Tail(exwb))
<1>1. UNCHANGED <<setup, idoc, cu, ocex, unit>>
  BY DEF ShaderWriteback, ocVars
<1>2. (exwb = <<>> => exwb' = <<>>) /\ (exwb # <<>> => exwb' = Tail(exwb))
  BY DEF ShaderWriteback
<1>3. exwb' \in Seq(Running)
  BY <1>2 DEF AluTypes
<1>4. QED
  BY <1>1, <1>2, <1>3, SameSetup DEF AluTypes

-----------------------------------------------------------------------------
(* The result bus.                                                         *)

\* The cycles after which the instructions of a unit reach EX_WB: the one in stage s after s,
\* the one that waits in the dispatch register when it has waited and passed all its stages.
Final(u) == P(u.disp).lat - P(u.disp).ii + u.delay
Due(u, v) == \/ v \in DOMAIN u.stage /\ u.stage[v] # None
             \/ u.disp # None /\ v = Final(u)

\* An instruction that waits does not enter a stage another one is in.
Enters(u) == u.disp # None =>
  u.delay >= 1 /\ (Final(u) \in DOMAIN u.stage => u.stage[Final(u)] = None)

\* Each of them has its slot on the bus, which is its own; between the cycles of SP and SFU,
\* SFU is one cycle behind.
Behind == IF phase = "sfu" THEN 1 ELSE 0
BusSound ==
  /\ bus \subseteq Nat
  /\ \A k \in Alu : Enters(unit[k])
  /\ \A v \in Nat : Due(unit["sp"], v) => v \in bus
  /\ \A v \in Nat : Due(unit["sfu"], v + Behind) => v \in bus
  /\ \A v \in Nat : ~(Due(unit["sp"], v) /\ Due(unit["sfu"], v + Behind))
  /\ Len(exwb) <= 1 /\ (phase = "sp" => exwb = <<>>)
  /\ phase = "sfu" /\ exwb # <<>> => ~Due(unit["sfu"], 0)

\* One cycle of a unit: its instructions are due one cycle earlier.
LEMMA UnitStep ==
  ASSUME setup \in Setups, NEW k \in Alu, NEW u \in UnitOf(k), Enters(u),
         NEW c, c = UnitCycle(u, Depth[k])
  PROVE  /\ c \in UnitOf(k) /\ Enters(c)
         /\ \A v \in Nat : Due(c, v) => Due(u, v + 1)
<1> DEFINE d == Depth[k]
           S == 0..(d - 1)
           x == u.disp
           enters == x # None /\ u.delay <= 1
           m == [s \in S |-> IF s < d - 1 THEN u.stage[s + 1] ELSE None]
           at == P(x).lat - P(x).ii
<1>1. d \in Nat \ {0}
  BY CoreConstants
<1>2. /\ u.stage \in [S -> Of(k)] /\ x \in Of(k) /\ u.delay \in Nat /\ u.occupied \subseteq Nat
      /\ None \in Of(k)
  BY OfIsInst DEF UnitOf
<1>3. ASSUME x # None PROVE at \in S /\ P(x).ii \in Nat /\ P(x).lat \in Nat /\ Final(u) = at + u.delay
  <2>1. x \in Running /\ KindOf(P(x).op) = k /\ x.pc \in DOMAIN Program
    BY <1>2, <1>3 DEF Of, Running
  <2>2. /\ Program[x.pc] \in Instruction /\ Program[x.pc].ii \in 1..Program[x.pc].lat
        /\ Program[x.pc].lat - Program[x.pc].ii < Depth[k]
    BY <2>1, ProgramFacts DEF P
  <2>3. P(x).lat \in Nat /\ P(x).ii \in Nat /\ P(x).ii <= P(x).lat /\ P(x).lat - P(x).ii < d
    BY <2>2 DEF P, Instruction
  <2> HIDE DEF x, d
  <2>4. QED
    BY <1>1, <2>3 DEF Final, x, S
<1>4. m \in [S -> Of(k)] /\ \A s \in S : m[s] = IF s < d - 1 THEN u.stage[s + 1] ELSE None
  <2>1. \A s \in S : s < d - 1 => s + 1 \in S
    BY <1>1
  <2> HIDE DEF S
  <2>2. QED
    BY <1>2, <2>1
<1>5. /\ c.disp = IF enters THEN None ELSE x
      /\ c.delay = IF u.delay > 0 THEN u.delay - 1 ELSE 0
      /\ c.occupied = {o - 1 : o \in u.occupied \ {0}}
      /\ c.stage = IF enters THEN [m EXCEPT ![at] = x] ELSE m
      /\ c = [disp |-> c.disp, delay |-> c.delay, occupied |-> c.occupied, stage |-> c.stage]
  BY DEF UnitCycle
<1> HIDE DEF m, x, at, S, d
<1>6. c.occupied \subseteq Nat
  BY <1>2, <1>5
<1>7. c.delay \in Nat /\ c.disp \in Of(k)
  BY <1>2, <1>5
<1>8. c.stage \in [S -> Of(k)]
  BY <1>2, <1>4, <1>5
<1>9. c \in UnitOf(k)
  BY <1>5, <1>6, <1>7, <1>8 DEF UnitOf, S, d
<1>10. DOMAIN c.stage = S /\ DOMAIN u.stage = S
  BY <1>2, <1>8
<1>11. x # None => u.delay >= 1 /\ (Final(u) \in S => u.stage[Final(u)] = None)
  BY <1>10 DEF Enters, x
<1>12. CASE enters
  <2>1. Final(u) = at + 1 /\ at \in S /\ x # None
    BY <1>2, <1>3, <1>11, <1>12
  <2>2. ASSUME NEW v \in Nat, Due(c, v) PROVE Due(u, v + 1)
    <3>1. v \in S /\ c.stage[v] # None
      BY <1>5, <1>10, <1>12, <2>2 DEF Due
    <3>2. CASE v = at
      BY <2>1, <3>2 DEF Due, x
    <3>3. CASE v # at
      <4>1. v < d - 1 /\ u.stage[v + 1] # None
        BY <1>4, <1>5, <1>12, <3>1, <3>3
      <4>2. v + 1 \in S
        BY <1>1, <4>1 DEF S
      <4>3. QED
        BY <1>10, <4>1, <4>2 DEF Due
    <3>4. QED
      BY <3>2, <3>3
  <2>3. Enters(c)
    BY <1>5, <1>12 DEF Enters
  <2>4. QED
    BY <1>9, <2>2, <2>3
<1>13. CASE ~enters
  <2>1. c.disp = x /\ c.stage = m
    BY <1>5, <1>13
  <2>2. ASSUME x # None PROVE c.delay >= 1 /\ Final(c) + 1 = Final(u) /\ Final(c) \in Nat
    <3>1. u.delay > 1 /\ c.delay = u.delay - 1
      BY <1>2, <1>5, <1>13, <2>2
    <3>2. Final(c) = at + c.delay
      BY <2>1 DEF Final, at, x
    <3>3. at \in Nat /\ Final(u) = at + u.delay
      BY <1>1, <1>3, <2>2 DEF S
    <3>4. QED
      BY <1>2, <3>1, <3>2, <3>3
  <2>3. Enters(c)
    <3>1. SUFFICES ASSUME x # None, Final(c) \in S PROVE c.stage[Final(c)] = None
      BY <1>10, <2>1, <2>2 DEF Enters
    <3>2. PICK v \in S : v = Final(c)
      BY <3>1
    <3>3. CASE v < d - 1
      <4>1. v + 1 \in S /\ v + 1 = Final(u)
        BY <1>1, <2>2, <3>1, <3>2, <3>3 DEF S
      <4>2. u.stage[v + 1] = None
        BY <1>11, <3>1, <4>1
      <4>3. QED
        BY <1>4, <2>1, <3>2, <3>3, <4>2
    <3>4. CASE ~(v < d - 1)
      BY <1>4, <2>1, <3>2, <3>4
    <3>5. QED
      BY <3>3, <3>4
  <2>4. ASSUME NEW v \in Nat, Due(c, v) PROVE Due(u, v + 1)
    <3>1. CASE v \in S /\ c.stage[v] # None
      <4>1. v < d - 1 /\ u.stage[v + 1] # None
        BY <1>4, <2>1, <3>1
      <4>2. v + 1 \in S
        BY <1>1, <4>1 DEF S
      <4>3. QED
        BY <1>10, <4>1, <4>2 DEF Due
    <3>2. CASE x # None /\ v = Final(c)
      BY <2>2, <3>2 DEF Due, x
    <3>3. QED
      BY <1>10, <2>1, <2>4, <3>1, <3>2 DEF Due
  <2>5. QED
    BY <1>9, <2>3, <2>4
<1>14. QED
  BY <1>12, <1>13

\* An instruction that is issued takes a slot nobody has.
LEMMA UnitIssue ==
  ASSUME setup \in Setups, NEW k \in Alu, NEW c \in UnitOf(k), Enters(c), NEW b \in SUBSET Nat,
         \A v \in Nat : Due(c, v) => v \in b, NEW x \in Of(k), CanIssue(c, x, b),
         NEW e, e = [disp |-> x, delay |-> P(x).ii, occupied |-> c.occupied \cup {P(x).lat}, stage |-> c.stage]
  PROVE  /\ e \in UnitOf(k) /\ Enters(e) /\ P(x).lat \in Nat
         /\ \A v \in Nat : Due(e, v) => v \in b \cup {P(x).lat}
         /\ \A v \in Nat : Due(e, v) => Due(c, v) \/ v \notin b
<1>1. x # None /\ c.disp = None /\ P(x).lat \notin b
  BY DEF CanIssue
<1>2. P(x).lat \in Nat /\ P(x).ii \in Nat /\ P(x).ii >= 1
  <2>1. x \in Running /\ x.pc \in DOMAIN Program
    BY <1>1 DEF Of, Running
  <2>2. Program[x.pc] \in Instruction /\ Program[x.pc].ii \in 1..Program[x.pc].lat
    BY <2>1, ProgramFacts
  <2>3. QED
    BY <2>2 DEF P, Instruction
<1>3. /\ c.delay \in Nat /\ c.occupied \subseteq Nat /\ c.stage \in [0..(Depth[k] - 1) -> Of(k)]
      /\ DOMAIN c.stage \subseteq Nat
  <2>1. c.delay \in Nat /\ c.occupied \subseteq Nat /\ c.stage \in [0..(Depth[k] - 1) -> Of(k)]
    BY DEF UnitOf
  <2>2. DOMAIN c.stage = 0..(Depth[k] - 1) /\ Depth[k] \in Nat
    BY <2>1, CoreConstants
  <2>3. QED
    BY <2>1, <2>2
<1>4. e.disp = x /\ e.delay = P(x).ii /\ e.stage = c.stage
  OBVIOUS
<1>5. e \in UnitOf(k)
  <2>1. c.occupied \cup {P(x).lat} \in SUBSET Nat
    BY <1>2, <1>3
  <2>2. QED
    BY <1>2, <1>3, <2>1 DEF UnitOf
<1>6. Final(e) = P(x).lat
  BY <1>2, <1>4 DEF Final
<1>7. ASSUME NEW v \in Nat, Due(e, v) PROVE Due(c, v) \/ v = P(x).lat
  BY <1>4, <1>6, <1>7 DEF Due
<1>8. Enters(e)
  <2>1. ASSUME Final(e) \in DOMAIN e.stage, e.stage[Final(e)] # None PROVE FALSE
    <3>1. Due(c, P(x).lat)
      BY <1>4, <1>6, <2>1 DEF Due
    <3>2. QED
      BY <1>1, <1>2, <3>1
  <2>2. QED
    BY <1>2, <1>4, <2>1 DEF Enters
<1>9. QED
  BY <1>1, <1>2, <1>5, <1>7, <1>8

\* execute(): the unit's cycle, and what it issues.
LEMMA UnitExecutes ==
  ASSUME setup \in Setups, AluTypes, NEW k \in Alu, Enters(unit[k]), ExecuteAlu(k), NEW b \in SUBSET Nat,
         b = IF k = "sp" THEN {l - 1 : l \in bus \ {0}} ELSE bus,
         \A v \in Nat : Due(unit[k], v + 1) => v \in b
  PROVE  /\ AluTypes' /\ Enters(unit'[k]) /\ \A j \in Alu \ {k} : unit'[j] = unit[j]
         /\ bus' \subseteq Nat /\ b \subseteq bus'
         /\ \A v \in Nat : Due(unit'[k], v) => v \in bus'
         /\ \A v \in Nat : Due(unit'[k], v) => Due(unit[k], v + 1) \/ v \notin b
         /\ \/ exwb' = exwb
            \/ \E x \in Running : exwb' = Append(exwb, x) /\ Due(unit[k], 0)
<1> DEFINE u == unit[k]
           x == ocex[k]
           e == [UnitCycle(u, Depth[k]) EXCEPT !.disp = x, !.delay = P(x).ii, !.occupied = @ \cup {P(x).lat}]
<1>1. u \in UnitOf(k) /\ x \in Of(k) /\ k \in Kinds
  BY DEF AluTypes, Alu, Kinds
<1>2. PICK c : c = UnitCycle(u, Depth[k])
  OBVIOUS
<1>3. c \in UnitOf(k) /\ Enters(c) /\ \A v \in Nat : Due(c, v) => Due(u, v + 1)
  BY <1>1, <1>2, UnitStep
<1>4. /\ setup' = setup /\ idoc' = idoc /\ cu' = cu
      /\ exwb' = IF u.stage[0] = None THEN exwb ELSE Append(exwb, u.stage[0])
  BY DEF ExecuteAlu
<1>5. \/ CanIssue(c, x, b) /\ unit' = [unit EXCEPT ![k] = [c EXCEPT !.disp = x, !.delay = P(x).ii, !.occupied = @ \cup {P(x).lat}]]
         /\ bus' = b \cup {P(x).lat} /\ ocex' = [ocex EXCEPT ![k] = None]
      \/ unit' = [unit EXCEPT ![k] = c] /\ bus' = b /\ ocex' = ocex
  <2> HIDE DEF u, x
  <2>1. IF CanIssue(c, x, b)
        THEN /\ unit' = [unit EXCEPT ![k] = [c EXCEPT !.disp = x, !.delay = P(x).ii, !.occupied = @ \cup {P(x).lat}]]
             /\ bus' = b \cup {P(x).lat}
             /\ ocex' = [ocex EXCEPT ![k] = None]
        ELSE unit' = [unit EXCEPT ![k] = c] /\ bus' = b /\ UNCHANGED ocex
    BY <1>2, Zenon DEF ExecuteAlu, u, x
  <2>2. QED
    BY <2>1
<1>6. \A v \in Nat : Due(c, v) => v \in b
  BY <1>3
<1>7. DOMAIN unit = Alu
  BY DEF AluTypes
<1> HIDE DEF x, e
<1>8. PICK n : unit' = [unit EXCEPT ![k] = n] /\ n \in UnitOf(k) /\ Enters(n)
               /\ bus' \subseteq Nat /\ b \subseteq bus'
               /\ (\A v \in Nat : Due(n, v) => v \in bus')
               /\ (\A v \in Nat : Due(n, v) => Due(u, v + 1) \/ v \notin b)
  <2> HIDE DEF u
  <2>1. CASE CanIssue(c, x, b) /\ unit' = [unit EXCEPT ![k] = [c EXCEPT !.disp = x, !.delay = P(x).ii, !.occupied = @ \cup {P(x).lat}]]
             /\ bus' = b \cup {P(x).lat}
    <3>0. PICK n : n = [disp |-> x, delay |-> P(x).ii, occupied |-> c.occupied \cup {P(x).lat}, stage |-> c.stage]
      OBVIOUS
    <3>a. PICK z : z = [c EXCEPT !.disp = x, !.delay = P(x).ii, !.occupied = @ \cup {P(x).lat}]
      OBVIOUS
    <3>b. c \in UnitOf(k)
      BY <1>3
    <3>c. z = [disp |-> x, delay |-> P(x).ii, occupied |-> c.occupied \cup {P(x).lat}, stage |-> c.stage]
      BY <3>a, <3>b DEF UnitOf
    <3>1. n = [c EXCEPT !.disp = x, !.delay = P(x).ii, !.occupied = @ \cup {P(x).lat}]
      BY <3>0, <3>a, <3>c
    <3>d. Enters(c) /\ x \in Of(k) /\ CanIssue(c, x, b)
      BY <1>1, <1>3, <2>1
    <3>2. /\ n \in UnitOf(k) /\ Enters(n) /\ P(x).lat \in Nat
          /\ \A v \in Nat : Due(n, v) => v \in b \cup {P(x).lat}
          /\ \A v \in Nat : Due(n, v) => Due(c, v) \/ v \notin b
      BY ONLY setup \in Setups, k \in Alu, b \in SUBSET Nat, <1>6, <3>0, <3>b, <3>d, UnitIssue
    <3>3. unit' = [unit EXCEPT ![k] = n]
      BY <2>1, <3>1
    <3>4. QED
      BY <1>3, <2>1, <3>2, <3>3
  <2>2. CASE unit' = [unit EXCEPT ![k] = c] /\ bus' = b
    BY <1>3, <1>6, <2>2
  <2>3. QED
    BY <1>5, <2>1, <2>2
<1>9. unit'[k] = n /\ DOMAIN unit' = Alu /\ \A j \in Alu \ {k} : unit'[j] = unit[j]
  BY <1>7, <1>8
<1>10. \/ exwb' = exwb
       \/ \E y \in Running : exwb' = Append(exwb, y) /\ Due(u, 0)
  <2>1. 0 \in DOMAIN u.stage /\ u.stage[0] \in Of(k)
    <3>1. Depth[k] \in Nat \ {0}
      BY CoreConstants
    <3>2. 0 \in 0..(Depth[k] - 1)
      BY <3>1
    <3>3. u.stage \in [0..(Depth[k] - 1) -> Of(k)]
      BY <1>1 DEF UnitOf
    <3>4. QED
      BY <3>2, <3>3
  <2>2. u.stage[0] # None => u.stage[0] \in Running /\ Due(u, 0)
    BY <2>1 DEF Of, Due
  <2> HIDE DEF u
  <2>3. QED
    BY <1>4, <2>2
<1>11. exwb' \in Seq(Running)
  BY <1>10 DEF AluTypes
<1>12. ocex' \in [Kinds -> Inst] /\ \A j \in Kinds : ocex'[j] \in Of(j)
  <2>1. ocex' = ocex \/ ocex' = [ocex EXCEPT ![k] = None]
    BY <1>5
  <2>2. ocex \in [Kinds -> Inst] /\ (\A j \in Kinds : ocex[j] \in Of(j)) /\ None \in Inst
    BY DEF AluTypes, Inst
  <2>3. \A j \in Kinds : None \in Of(j)
    BY OfIsInst
  <2>4. QED
    BY <2>1, <2>2, <2>3
<1>13. unit' \in [Alu -> {unit'[j] : j \in Alu}] /\ \A j \in Alu : unit'[j] \in UnitOf(j)
  <2>1. \A j \in Alu : unit[j] \in UnitOf(j)
    BY DEF AluTypes
  <2>2. \A j \in Alu : unit'[j] \in UnitOf(j)
    BY <1>8, <1>9, <2>1
  <2>3. unit' = [j \in Alu |-> unit'[j]]
    BY <1>7, <1>8
  <2>4. QED
    BY <2>2, <2>3
<1>14. AluTypes'
  BY <1>4, <1>11, <1>12, <1>13, SameSetup DEF AluTypes
<1>15. QED
  BY <1>8, <1>9, <1>10, <1>14

\* Besides the unit, its bookings depend on the setup only.
LEMMA SameDue ==
  ASSUME setup' = setup
  PROVE  \A k : (Enters(unit[k])' <=> Enters(unit'[k])) /\ \A v : Due(unit[k], v)' <=> Due(unit'[k], v)
BY SameSetup DEF Enters, Due, Final

\* The result bus is sound after a step that leaves it booked for what is in the two units.
LEMMA BusOf ==
  ASSUME setup' = setup, bus' \subseteq Nat, Enters(unit'["sp"]), Enters(unit'["sfu"]),
         NEW n \in Nat, n = IF phase' = "sfu" THEN 1 ELSE 0,
         \A v \in Nat : Due(unit'["sp"], v) => v \in bus',
         \A v \in Nat : Due(unit'["sfu"], v + n) => v \in bus',
         \A v \in Nat : ~(Due(unit'["sp"], v) /\ Due(unit'["sfu"], v + n)),
         Len(exwb') <= 1, phase' = "sp" => exwb' = <<>>,
         phase' = "sfu" /\ exwb' # <<>> => ~Due(unit'["sfu"], 0)
  PROVE  BusSound'
<1>1. \A k \in Alu : Enters(unit[k])'
  BY SameDue DEF Alu
<1>2. Behind' = n
  BY DEF Behind
<1>3. \A v : Due(unit["sp"], v)' <=> Due(unit'["sp"], v)
  BY SameDue
<1>4. \A v : Due(unit["sfu"], v)' <=> Due(unit'["sfu"], v)
  BY SameDue
<1>5. \A v : Due(unit["sfu"], v + Behind)' <=> Due(unit'["sfu"], v + n)
  BY <1>2, SameDue DEF Due, Final
<1>6. QED
  BY <1>1, <1>3, <1>4, <1>5 DEF BusSound

\* A step outside the units.
LEMMA SameBus ==
  ASSUME BusSound, AluTypes, UNCHANGED <<setup, unit, bus>>, phase \notin {"sp", "sfu"}, phase' # "sfu",
         exwb' = exwb \/ (exwb # <<>> /\ exwb' = Tail(exwb)),
         phase' = "sp" => exwb' = <<>>
  PROVE  BusSound'
<1>1. /\ bus' \subseteq Nat /\ Enters(unit'["sp"]) /\ Enters(unit'["sfu"]) /\ Behind = 0
      /\ phase' # "sfu"
  BY DEF BusSound, Alu, Behind
<1>2. /\ \A v \in Nat : Due(unit'["sp"], v) => v \in bus'
      /\ \A v \in Nat : Due(unit'["sfu"], v + 0) => v \in bus'
      /\ \A v \in Nat : ~(Due(unit'["sp"], v) /\ Due(unit'["sfu"], v + 0))
  BY <1>1 DEF BusSound
<1>3. Len(exwb') <= 1
  BY DEF BusSound, AluTypes
<1>4. QED
  BY <1>1, <1>2, <1>3, BusOf

\* The SP unit keeps the result bus sound.
LEMMA ExecuteSp ==
  ASSUME setup \in Setups, AluTypes, BusSound, ExecuteAlu("sp")
  PROVE  AluTypes' /\ BusSound'
<1> DEFINE b == {l - 1 : l \in bus \ {0}}
<1>1. phase = "sp" /\ phase' = "sfu" /\ setup' = setup
  BY DEF ExecuteAlu
<1>2. /\ bus \subseteq Nat /\ Enters(unit["sp"]) /\ Enters(unit["sfu"]) /\ exwb = <<>>
      /\ \A v \in Nat : Due(unit["sp"], v) => v \in bus
      /\ \A v \in Nat : Due(unit["sfu"], v) => v \in bus
      /\ \A v \in Nat : ~(Due(unit["sp"], v) /\ Due(unit["sfu"], v))
  <2>1. Behind = 0 /\ \A v \in Nat : v + 0 = v
    BY <1>1 DEF Behind
  <2>2. QED
    BY <1>1, <2>1 DEF BusSound, Alu
<1>3. b \subseteq Nat /\ \A v \in Nat : v + 1 \in bus => v \in b
  BY <1>2
<1>4. "sp" \in Alu /\ "sfu" \in Alu \ {"sp"} /\ \A v \in Nat : v + 1 \in Nat
  BY DEF Alu
<1> HIDE DEF b
<1>5. /\ AluTypes' /\ Enters(unit'["sp"]) /\ \A j \in Alu \ {"sp"} : unit'[j] = unit[j]
      /\ bus' \subseteq Nat /\ b \subseteq bus'
      /\ \A v \in Nat : Due(unit'["sp"], v) => v \in bus'
      /\ \A v \in Nat : Due(unit'["sp"], v) => Due(unit["sp"], v + 1) \/ v \notin b
      /\ exwb' = exwb \/ \E x \in Running : exwb' = Append(exwb, x) /\ Due(unit["sp"], 0)
  <2>1. \A v \in Nat : Due(unit["sp"], v + 1) => v \in b
    BY <1>2, <1>3, <1>4
  <2>2. PICK k : k = "sp"
    OBVIOUS
  <2>3. b = IF k = "sp" THEN {l - 1 : l \in bus \ {0}} ELSE bus
    BY <2>2 DEF b
  <2>4. k \in Alu /\ Enters(unit[k]) /\ ExecuteAlu(k) /\ b \in SUBSET Nat
    BY <1>2, <1>3, <1>4, <2>2
  <2>5. \A v \in Nat : Due(unit[k], v + 1) => v \in b
    BY <2>1, <2>2
  <2>6. /\ AluTypes' /\ Enters(unit'[k]) /\ \A j \in Alu \ {k} : unit'[j] = unit[j]
        /\ bus' \subseteq Nat /\ b \subseteq bus'
        /\ \A v \in Nat : Due(unit'[k], v) => v \in bus'
        /\ \A v \in Nat : Due(unit'[k], v) => Due(unit[k], v + 1) \/ v \notin b
        /\ exwb' = exwb \/ \E x \in Running : exwb' = Append(exwb, x) /\ Due(unit[k], 0)
    BY <2>3, <2>4, <2>5, UnitExecutes
  <2>7. QED
    BY <2>2, <2>6
<1>6. unit'["sfu"] = unit["sfu"]
  BY <1>4, <1>5
<1>7. \A v \in Nat : Due(unit'["sfu"], v + 1) => v \in b /\ v \in bus'
  BY <1>2, <1>3, <1>4, <1>5, <1>6
<1>8. \A v \in Nat : ~(Due(unit'["sp"], v) /\ Due(unit'["sfu"], v + 1))
  BY <1>2, <1>4, <1>5, <1>6, <1>7
<1>9. Len(exwb') <= 1 /\ (exwb' # <<>> => ~Due(unit'["sfu"], 0))
  <2>1. CASE exwb' = exwb
    BY <1>2, <2>1
  <2>2. ASSUME NEW x, exwb' = Append(exwb, x), Due(unit["sp"], 0)
        PROVE  Len(exwb') <= 1 /\ ~Due(unit'["sfu"], 0)
    BY <1>2, <1>6, <2>2
  <2>3. QED
    BY <1>2, <1>5, <2>1, <2>2
<1>10. QED
  BY <1>1, <1>2, <1>5, <1>6, <1>7, <1>8, <1>9, BusOf

\* The SFU keeps it sound.
LEMMA ExecuteSfu ==
  ASSUME setup \in Setups, AluTypes, BusSound, ExecuteAlu("sfu")
  PROVE  AluTypes' /\ BusSound'
<1>1. phase = "sfu" /\ phase' = "lsu" /\ setup' = setup
  BY DEF ExecuteAlu
<1>2. /\ bus \subseteq Nat /\ Enters(unit["sp"]) /\ Enters(unit["sfu"]) /\ Len(exwb) <= 1
      /\ exwb # <<>> => ~Due(unit["sfu"], 0)
      /\ \A v \in Nat : Due(unit["sp"], v) => v \in bus
      /\ \A v \in Nat : Due(unit["sfu"], v + 1) => v \in bus
      /\ \A v \in Nat : ~(Due(unit["sp"], v) /\ Due(unit["sfu"], v + 1))
  <2>1. Behind = 1
    BY <1>1 DEF Behind
  <2>2. QED
    BY <1>1, <2>1 DEF BusSound, Alu
<1>3. /\ AluTypes' /\ Enters(unit'["sfu"]) /\ \A j \in Alu \ {"sfu"} : unit'[j] = unit[j]
      /\ bus' \subseteq Nat /\ bus \subseteq bus'
      /\ \A v \in Nat : Due(unit'["sfu"], v) => v \in bus'
      /\ \A v \in Nat : Due(unit'["sfu"], v) => Due(unit["sfu"], v + 1) \/ v \notin bus
      /\ exwb' = exwb \/ \E x \in Running : exwb' = Append(exwb, x) /\ Due(unit["sfu"], 0)
  <2>1. PICK k : k = "sfu"
    OBVIOUS
  <2>2. bus = IF k = "sp" THEN {l - 1 : l \in bus \ {0}} ELSE bus
    BY <2>1
  <2>3. k \in Alu /\ Enters(unit[k]) /\ ExecuteAlu(k) /\ bus \in SUBSET Nat
    BY <1>2, <2>1 DEF Alu
  <2>4. \A v \in Nat : Due(unit[k], v + 1) => v \in bus
    BY <1>2, <2>1
  <2>5. /\ AluTypes' /\ Enters(unit'[k]) /\ \A j \in Alu \ {k} : unit'[j] = unit[j]
        /\ bus' \subseteq Nat /\ bus \subseteq bus'
        /\ \A v \in Nat : Due(unit'[k], v) => v \in bus'
        /\ \A v \in Nat : Due(unit'[k], v) => Due(unit[k], v + 1) \/ v \notin bus
        /\ exwb' = exwb \/ \E x \in Running : exwb' = Append(exwb, x) /\ Due(unit[k], 0)
    BY <2>2, <2>3, <2>4, UnitExecutes
  <2>6. QED
    BY <2>1, <2>5
<1>4. unit'["sp"] = unit["sp"]
  BY <1>3 DEF Alu
<1>5. \A v \in Nat : Due(unit'["sfu"], v + 0) => v \in bus'
  BY <1>3
<1>6. \A v \in Nat : ~(Due(unit'["sp"], v) /\ Due(unit'["sfu"], v + 0))
  <2>1. ASSUME NEW v \in Nat, Due(unit'["sp"], v), Due(unit'["sfu"], v) PROVE FALSE
    BY <1>2, <1>3, <1>4, <2>1
  <2>2. \A v \in Nat : v + 0 = v
    OBVIOUS
  <2>3. QED
    BY <2>1, <2>2
<1>7. Len(exwb') <= 1
  <2>1. CASE exwb' = exwb
    BY <1>2, <2>1
  <2>2. ASSUME NEW x, exwb' = Append(exwb, x), Due(unit["sfu"], 0)
        PROVE  Len(exwb') <= 1
    BY <1>2, <2>2
  <2>3. QED
    BY <1>3, <2>1, <2>2
<1>8. \A v \in Nat : Due(unit'["sp"], v) => v \in bus'
  BY <1>2, <1>3, <1>4
<1>9. QED
  BY <1>1, <1>2, <1>3, <1>4, <1>5, <1>6, <1>7, <1>8, BusOf

PipeInv == FrontTypes /\ AluTypes /\ BusSound

\* The inductive invariant holds when the core starts.
LEMMA InitPipe == Init => PipeInv
<1> SUFFICES ASSUME Init PROVE PipeInv
  OBVIOUS
<1>1. FrontTypes /\ AluTypes
  BY InitTypes
<1>2. \A k \in Alu : unit[k] = [disp |-> None, delay |-> 0, occupied |-> {},
                               stage |-> [s \in 0..(Depth[k] - 1) |-> None]]
  BY DEF Init
<1>3. \A k \in Alu : Enters(unit[k]) /\ \A v : ~Due(unit[k], v)
  <2>1. ASSUME NEW k \in Alu PROVE Enters(unit[k]) /\ \A v : ~Due(unit[k], v)
    <3>1. unit[k].disp = None /\ \A v \in DOMAIN unit[k].stage : unit[k].stage[v] = None
      <4>1. PICK d, r : unit[k] = [disp |-> None, delay |-> 0, occupied |-> {}, stage |-> r]
                        /\ r = [s \in d |-> None]
        BY <1>2
      <4>2. unit[k].disp = None /\ unit[k].stage = r
        BY <4>1
      <4>3. QED
        BY <4>1, <4>2
    <3>2. QED
      BY <3>1 DEF Enters, Due
  <2>2. QED
    BY <2>1
<1>4. bus = {} /\ exwb = <<>> /\ phase = "writeback"
  BY DEF Init
<1>5. BusSound
  BY <1>3, <1>4 DEF BusSound, Alu
<1>6. QED
  BY <1>1, <1>5 DEF PipeInv

\* Every step keeps it.
LEMMA StepPipe ==
  ASSUME PipeInv, [Next]_vars
  PROVE  PipeInv'
<1>1. FrontTypes /\ AluTypes /\ BusSound /\ setup \in Setups
  BY DEF PipeInv, FrontTypes
<1>2. CASE ShaderWriteback
  <2>1. AluTypes' /\ (exwb = <<>> => exwb' = <<>>) /\ (exwb # <<>> => exwb' = Tail(exwb))
    BY <1>1, <1>2, WritebackTypes
  <2>2. UNCHANGED frontVars
    BY <1>2 DEF ShaderWriteback, frontVars, fetchVars
  <2>3. UNCHANGED <<setup, unit, bus>> /\ phase = "writeback" /\ phase' = "sp"
    BY <1>2 DEF ShaderWriteback
  <2>4. exwb' = <<>>
    <3>1. exwb \in Seq(Running) /\ Len(exwb) <= 1
      BY <1>1 DEF AluTypes, BusSound
    <3>2. QED
      BY <2>1, <3>1
  <2>5. BusSound'
    BY <1>1, <2>1, <2>3, <2>4, SameBus
  <2>6. QED
    BY <1>1, <2>1, <2>2, <2>5, SameFront DEF PipeInv
<1>3. CASE ExecuteAlu("sp")
  <2>1. UNCHANGED frontVars
    BY <1>3 DEF ExecuteAlu, frontVars, warpVars, fetchVars
  <2>2. QED
    BY <1>1, <1>3, <2>1, SameFront, ExecuteSp DEF PipeInv
<1>4. CASE ExecuteAlu("sfu")
  <2>1. UNCHANGED frontVars
    BY <1>4 DEF ExecuteAlu, frontVars, warpVars, fetchVars
  <2>2. QED
    BY <1>1, <1>4, <2>1, SameFront, ExecuteSfu DEF PipeInv
<1>5. CASE LsuWriteback
  <2>1. UNCHANGED frontVars /\ UNCHANGED aluTypeVars /\ UNCHANGED <<setup, unit, bus>> /\ exwb' = exwb
    BY <1>5 DEF LsuWriteback, frontVars, aluTypeVars, warpVars, fetchVars, ocVars, aluVars
  <2>2. phase = "lsu" /\ phase' = "collect"
    BY <1>5 DEF LsuWriteback
  <2>3. QED
    BY <1>1, <2>1, <2>2, SameFront, SameAlu, SameBus DEF PipeInv
<1>6. CASE CollectorStep
  <2>1. UNCHANGED frontVars /\ UNCHANGED <<setup, unit, bus>> /\ exwb' = exwb
    BY <1>6 DEF CollectorStep, frontVars, warpVars, fetchVars, aluVars
  <2>2. phase = "collect" /\ phase' = "response"
    BY <1>6 DEF CollectorStep
  <2>3. QED
    BY <1>1, <1>6, <2>1, <2>2, SameFront, CollectorTypes, SameBus DEF PipeInv
<1>7. CASE LsuResponse
  <2>1. UNCHANGED frontVars /\ UNCHANGED aluTypeVars /\ UNCHANGED <<setup, unit, bus>> /\ exwb' = exwb
    BY <1>7 DEF LsuResponse, frontVars, aluTypeVars, warpVars, fetchVars, ocVars, aluVars
  <2>2. phase = "response" /\ phase' = "dispatch"
    BY <1>7 DEF LsuResponse
  <2>3. QED
    BY <1>1, <2>1, <2>2, SameFront, SameAlu, SameBus DEF PipeInv
<1>8. CASE LsuDispatch
  <2>1. UNCHANGED frontVars /\ UNCHANGED aluTypeVars /\ UNCHANGED <<setup, unit, bus>> /\ exwb' = exwb
    BY <1>8 DEF LsuDispatch, frontVars, aluTypeVars, warpVars, fetchVars, ocVars, aluVars
  <2>2. phase = "dispatch" /\ phase' = "oc_ex"
    BY <1>8 DEF LsuDispatch
  <2>3. QED
    BY <1>1, <2>1, <2>2, SameFront, SameAlu, SameBus DEF PipeInv
<1>9. CASE LsuIssue
  <2>1. UNCHANGED frontVars /\ UNCHANGED <<setup, unit, bus>> /\ exwb' = exwb
    BY <1>9 DEF LsuIssue, frontVars, warpVars, fetchVars, aluVars
  <2>2. phase = "oc_ex" /\ phase' = "issue"
    BY <1>9 DEF LsuIssue
  <2>3. QED
    BY <1>1, <1>9, <2>1, <2>2, SameFront, LsuIssueTypes, SameBus DEF PipeInv
<1>10. CASE Schedule
  <2>1. UNCHANGED <<setup, unit, bus>> /\ exwb' = exwb
    BY <1>10 DEF Schedule, aluVars
  <2>2. phase = "issue" /\ phase' \in {"decode", "issue"}
    BY <1>10 DEF Schedule
  <2>3. QED
    BY <1>1, <1>10, <2>1, <2>2, ScheduleTypes, SameBus DEF PipeInv
<1>11. CASE Decode
  <2>1. UNCHANGED aluTypeVars /\ UNCHANGED <<setup, unit, bus>> /\ exwb' = exwb
    BY <1>11 DEF Decode, aluTypeVars, ocVars, aluVars
  <2>2. phase = "decode" /\ phase' = "fetch"
    BY <1>11 DEF Decode
  <2>3. QED
    BY <1>1, <1>11, <2>1, <2>2, DecodeTypes, SameAlu, SameBus DEF PipeInv
<1>12. CASE Fetch
  <2>1. UNCHANGED aluTypeVars /\ UNCHANGED <<setup, unit, bus>> /\ exwb' = exwb
    BY <1>12 DEF Fetch, aluTypeVars, ocVars, aluVars
  <2>2. phase = "fetch" /\ phase' = "writeback"
    BY <1>12 DEF Fetch
  <2>3. QED
    BY <1>1, <1>12, <2>1, <2>2, FetchTypes, SameAlu, SameBus DEF PipeInv
<1>13. CASE Memory
  <2>1. UNCHANGED frontVars /\ UNCHANGED aluTypeVars /\ UNCHANGED <<setup, unit, bus>> /\ exwb' = exwb
        /\ phase = "writeback" /\ phase' = phase
    <3>1. ASSUME NEW x \in loads, AnswerLoad(x)
          PROVE UNCHANGED frontVars /\ UNCHANGED aluTypeVars /\ UNCHANGED <<setup, unit, bus>>
                 /\ exwb' = exwb /\ phase = "writeback" /\ phase' = phase
      BY <3>1 DEF AnswerLoad, Arrives, frontVars, aluTypeVars, warpVars, fetchVars, ocVars, aluVars
    <3>2. ASSUME NEW w \in Warps, AnswerStore(w)
          PROVE UNCHANGED frontVars /\ UNCHANGED aluTypeVars /\ UNCHANGED <<setup, unit, bus>>
                 /\ exwb' = exwb /\ phase = "writeback" /\ phase' = phase
      BY <3>2 DEF AnswerStore, Arrives, frontVars, aluTypeVars, warpVars, fetchVars, ocVars, aluVars
    <3>3. CASE AnswerFetch
      BY <3>3 DEF AnswerFetch, frontVars, aluTypeVars, warpVars, ocVars, aluVars
    <3>4. QED
      BY <1>13, <3>1, <3>2, <3>3 DEF Memory
  <2>2. QED
    BY <1>1, <2>1, SameFront, SameAlu, SameBus DEF PipeInv
<1>14. CASE UNCHANGED vars
  <2>1. UNCHANGED frontVars /\ UNCHANGED aluTypeVars
        /\ UNCHANGED <<setup, unit, bus>> /\ exwb' = exwb /\ phase' = phase
    BY <1>14 DEF vars, frontVars, aluTypeVars, warpVars, fetchVars, ocVars, aluVars
  <2>2. BusSound'
    BY <1>1, <2>1, SameDue DEF BusSound, Behind, Due, Final
  <2>3. QED
    BY <1>1, <2>1, <2>2, SameFront, SameAlu DEF PipeInv
<1>15. QED
  BY <1>2, <1>3, <1>4, <1>5, <1>6, <1>7, <1>8, <1>9, <1>10, <1>11, <1>12, <1>13, <1>14 DEF Next, Cycle

\* Whatever the latencies and initiation intervals, at most one instruction reaches EX_WB
\* in a cycle: each of those in SP and SFU has a slot of the result bus of its own.
THEOREM OnePerCycleHolds == Spec => []OnePerCycle
<1>1. Spec => []PipeInv
  BY InitPipe, StepPipe, PTL DEF Spec
<1>2. PipeInv => OnePerCycle
  BY DEF PipeInv, BusSound, OnePerCycle
<1>3. QED
  BY <1>1, <1>2, PTL

\* two_level_active loses no warp: each one its scheduler supervises stays in one of its two lists,
\* and the active one stays full.
THEOREM EveryWarpListedHolds == Spec => []EveryWarpListed
<1>1. Spec => []PipeInv
  BY InitPipe, StepPipe, PTL DEF Spec
<1>2. PipeInv => EveryWarpListed
  <2> SUFFICES ASSUME PipeInv, policy = "two_level", NEW i \in Scheds
               PROVE  /\ Len(list[i]) = MaxActive
                      /\ Range(list[i] \o pending[i]) = Range(Supervised(i))
                      /\ Len(list[i]) + Len(pending[i]) = Len(Supervised(i))
    BY DEF EveryWarpListed
  <2>1. Dealt(list[i], pending[i], ToSet(Supervised(i)), MaxActive) /\ setup \in Setups
    BY DEF PipeInv, FrontTypes, ListTypes
  <2>2. PICK a, p, s : a = list[i] /\ p = pending[i] /\ s = Supervised(i)
    OBVIOUS
  <2>3. /\ a \in Seq(Warps) /\ p \in Seq(Warps) /\ Len(a) = MaxActive /\ ToSet(a) \cup ToSet(p) = ToSet(s)
        /\ \A j, k \in 1..Len(a) : a[j] = a[k] => j = k
        /\ \A j, k \in 1..Len(p) : p[j] = p[k] => j = k
    BY <2>1, <2>2 DEF Dealt
  <2>4. ToSet(a) \cap ToSet(p) = {}
    <3>1. \A x : x \in ToSet(a) <=> \E j \in 1..Len(a) : a[j] = x
      BY <2>3, ToSetOf
    <3>2. \A x : x \in ToSet(p) <=> \E j \in 1..Len(p) : p[j] = x
      BY <2>3, ToSetOf
    <3>3. QED
      BY <2>1, <2>2, <3>1, <3>2 DEF Dealt
  <2>5. /\ a \o p \in Seq(Warps) /\ Len(a \o p) = Len(a) + Len(p) /\ ToSet(a \o p) = ToSet(a) \cup ToSet(p)
        /\ \A j, k \in 1..Len(a \o p) : (a \o p)[j] = (a \o p)[k] => j = k
    <3>1. a \in Seq(Warps) /\ p \in Seq(Warps)
      BY <2>3
    <3>2. (\A j, k \in 1..Len(a) : a[j] = a[k] => j = k) /\ \A j, k \in 1..Len(p) : p[j] = p[k] => j = k
      BY <2>3
    <3>3. /\ a \o p \in Seq(Warps) /\ Len(a \o p) = Len(a) + Len(p)
          /\ ToSet(a \o p) = ToSet(a) \cup ToSet(p)
          /\ \A j, k \in 1..Len(a \o p) : (a \o p)[j] = (a \o p)[k] => j = k
      BY ONLY <3>1, <3>2, <2>4, Joined
    <3>4. QED
      BY <3>3
  <2>6. Cardinality(ToSet(a \o p)) = Len(a \o p)
    BY <2>5, SeqInjective
  <2>7. Cardinality(ToSet(s)) = Len(s)
    BY <2>1, <2>2, SupervisedWarps
  <2>8. Range(a \o p) = ToSet(a \o p) /\ Range(s) = ToSet(s)
    BY DEF Range, ToSet
  <2>9. QED
    BY <2>2, <2>3, <2>5, <2>6, <2>7, <2>8
<1>3. QED
  BY <1>1, <1>2, PTL
-----------------------------------------------------------------------------
(* The queues of the operand collector.                                    *)

\* Numbers up to n can be put in ascending order.
LEMMA InOrderExists ==
  ASSUME NEW n \in Nat, NEW S \in SUBSET (1..n)
  PROVE  \E s \in [1..Cardinality(S) -> S] :
           Range(s) = S /\ \A i, j \in DOMAIN s : i < j => s[i] < s[j]
<1> DEFINE Ordered(T) == \E s \in [1..Cardinality(T) -> T] :
                           Range(s) = T /\ \A i, j \in DOMAIN s : i < j => s[i] < s[j]
           Bad == {m \in Nat : \E T \in SUBSET (1..m) : ~Ordered(T)}
<1>1. SUFFICES ASSUME Bad # {} PROVE FALSE
  OBVIOUS
<1>2. PICK m \in Bad : \A l \in Bad : m <= l
  <2> HIDE DEF Ordered
  <2>1. Bad \subseteq Nat
    OBVIOUS
  <2> HIDE DEF Bad
  <2> QED
    BY <1>1, <2>1, LeastIsMin
<1>3. PICK T \in SUBSET (1..m) : ~Ordered(T)
  <2> HIDE DEF Ordered
  <2> QED OBVIOUS
<1>4. m \in Nat
  <2> HIDE DEF Ordered
  <2> QED OBVIOUS
<1>5. CASE T = {}
  <2>1. Cardinality(T) = 0
    BY <1>5, FS_EmptySet
  <2> DEFINE s == [i \in 1..Cardinality(T) |-> 0]
  <2>2. s \in [1..Cardinality(T) -> T] /\ Range(s) = T /\ DOMAIN s = {}
    BY <1>5, <2>1 DEF Range
  <2> HIDE DEF s
  <2>3. Ordered(T)
    BY <2>2
  <2> QED
    BY <1>3, <2>3
<1>6. CASE T # {}
  <2>1. m # 0
    <3> HIDE DEF Ordered
    <3>1. m = 0 => T = {}
      BY <1>3
    <3> QED BY <1>6, <3>1
  <2>2. m - 1 \in Nat /\ m - 1 \notin Bad
    <3> HIDE DEF Bad
    <3> QED BY <1>2, <1>4, <2>1
  <2>3. \A V \in SUBSET (1..(m - 1)) : Ordered(V)
    <3> HIDE DEF Ordered
    <3> QED BY <2>2
  <2>4. m \in T
    <3>1. SUFFICES ASSUME m \notin T PROVE T \in SUBSET (1..(m - 1))
      <4> HIDE DEF Ordered
      <4> QED BY <1>3, <2>3
    <3> QED BY <1>3, <1>4, <3>1
  <2> DEFINE V == T \ {m}
  <2>5. V \in SUBSET (1..(m - 1)) /\ T = V \cup {m} /\ m \notin V
    BY <1>3, <1>4, <2>4
  <2>6. IsFiniteSet(V)
    <3>1. PICK l \in Nat : l = m - 1
      BY <2>2
    <3>2. IsFiniteSet(1..l) /\ V \in SUBSET (1..l)
      BY <2>5, <3>1, FS_Interval
    <3> HIDE DEF V
    <3> QED BY <3>2, FS_Subset
  <2>7. Cardinality(V) \in Nat /\ Cardinality(T) = Cardinality(V) + 1
    BY <2>5, <2>6, FS_CardinalityType, FS_AddElement
  <2> HIDE DEF V
  <2>8. PICK c \in Nat : c = Cardinality(V)
    BY <2>7
  <2>9. PICK s \in [1..c -> V] : Range(s) = V /\ \A i, j \in DOMAIN s : i < j => s[i] < s[j]
    BY <2>3, <2>5, <2>8
  <2> DEFINE t == [i \in 1..(c + 1) |-> IF i <= c THEN s[i] ELSE m]
  <2>10. \A i \in 1..(c + 1) : i \in 1..c \/ (i = c + 1 /\ ~(i <= c))
    BY <2>8
  <2>11. t \in [1..(c + 1) -> T] /\ DOMAIN t = 1..(c + 1)
    BY <2>5, <2>9, <2>10
  <2>12. /\ \A i \in 1..c : t[i] = s[i] /\ s[i] \in V /\ i \in 1..(c + 1)
         /\ t[c + 1] = m /\ c + 1 \in 1..(c + 1)
    BY <2>8, <2>9
  <2>13. Range(t) = T
    <3>1. \A x \in V : \E i \in 1..c : s[i] = x
      BY <2>9 DEF Range
    <3> HIDE DEF t
    <3>2. \A x \in T : \E i \in 1..(c + 1) : t[i] = x
      BY <2>5, <2>12, <3>1
    <3>3. \A i \in 1..(c + 1) : t[i] \in T
      BY <2>11
    <3> QED BY <2>11, <3>2, <3>3 DEF Range
  <2>14. ASSUME NEW i \in DOMAIN t, NEW j \in DOMAIN t, i < j PROVE t[i] < t[j]
    <3> HIDE DEF t
    <3>1. i \in 1..(c + 1) /\ j \in 1..(c + 1)
      BY <2>11
    <3>2. i \in 1..c
      BY <2>8, <2>14, <3>1
    <3>3. CASE j \in 1..c
      BY <2>9, <2>12, <2>14, <3>2, <3>3
    <3>4. CASE j = c + 1
      <4>1. t[i] \in 1..(m - 1) /\ t[j] = m
        BY <2>5, <2>12, <3>2, <3>4
      <4>2. t[i] \in Int /\ t[i] <= m - 1
        BY <1>4, <4>1
      <4> QED BY <1>4, <4>1, <4>2
    <3> QED BY <2>10, <3>1, <3>3, <3>4
  <2> HIDE DEF t
  <2>15. Ordered(T)
    BY <2>7, <2>8, <2>11, <2>13, <2>14
  <2> QED BY <1>3, <2>15
<1> QED
  BY <1>5, <1>6

\* What a collector unit's new instruction has to read from a bank, each operand once.
LEMMA ReadsOnce ==
  ASSUME FrontTypes, NEW x \in Running, NEW b \in Banks
  PROVE  LET s == ReadsIn(x, b) IN
         /\ s \in Seq(DOMAIN P(x).src) /\ IsInjective(s)
         /\ Range(s) = {i \in DOMAIN P(x).src : Bank(x.w, P(x).src[i]) = b}
<1> DEFINE ops == {i \in DOMAIN P(x).src : Bank(x.w, P(x).src[i]) = b}
           s == ReadsIn(x, b)
<1>1. PICK n \in Nat : DOMAIN P(x).src = 1..n
  <2>1. P(x) \in Instruction
    BY ProgramFacts DEF FrontTypes, Running, P
  <2>2. P(x).src \in Seq(Nat)
    BY <2>1 DEF Instruction
  <2> QED BY <2>2
<1>2. ops \in SUBSET (1..n) /\ IsFiniteSet(ops) /\ Cardinality(ops) \in Nat
  <2>1. ops \in SUBSET (1..n)
    BY <1>1
  <2> HIDE DEF ops
  <2>2. IsFiniteSet(1..n)
    BY FS_Interval
  <2>3. IsFiniteSet(ops)
    BY <2>1, <2>2, FS_Subset
  <2> QED BY <2>1, <2>3, FS_CardinalityType
<1>3. s = CHOOSE t \in [1..Cardinality(ops) -> ops] :
            Range(t) = ops /\ \A i, j \in DOMAIN t : i < j => t[i] < t[j]
  BY DEF ReadsIn
<1> HIDE DEF ops, s
<1>4. s \in [1..Cardinality(ops) -> ops] /\ Range(s) = ops /\ \A i, j \in DOMAIN s : i < j => s[i] < s[j]
  BY <1>2, <1>3, InOrderExists
<1>5. PICK c \in Nat : c = Cardinality(ops)
  BY <1>2
<1>6. s \in Seq(DOMAIN P(x).src)
  <2>1. \A i \in 1..c : s[i] \in DOMAIN P(x).src
    BY <1>4, <1>5 DEF ops
  <2> QED BY <1>4, <1>5, <2>1
<1>7. IsInjective(s)
  <2> SUFFICES ASSUME NEW i \in DOMAIN s, NEW j \in DOMAIN s, s[i] = s[j] PROVE i = j
    BY DEF IsInjective
  <2>1. i \in 1..c /\ j \in 1..c
    BY <1>4, <1>5
  <2>2. s[i] \in Nat /\ s[j] \in Nat
    <3>1. s[i] \in 1..n /\ s[j] \in 1..n
      BY <1>2, <1>4
    <3> QED BY <3>1
  <2>3. (i < j => s[i] < s[j]) /\ (j < i => s[j] < s[i])
    BY <1>4
  <2> QED BY <2>1, <2>2, <2>3
<1> QED
  BY <1>4, <1>6, <1>7 DEF ops, s

\* What a bank queue holds: an operand of the instruction in a collector unit.
Entry == [cu : Kinds, op : Nat]

QueueInv == queue \in [Banks -> Seq(Entry)] /\ OperandsQueued

\* The operands of unit k that the queues hold, as OperandsQueued puts them together.
LEMMA WaitingOps ==
  ASSUME NEW q \in [Banks -> Seq(Entry)], NEW k \in Kinds
  PROVE  {e.op : e \in UNION {{f \in Range(q[b]) : f.cu = k} : b \in Banks}}
           = {i \in Nat : \E b \in Banks : [cu |-> k, op |-> i] \in Range(q[b])}
<1>1. \A b \in Banks : \A e \in Range(q[b]) : e \in Entry
  BY DEF Range
<1>2. ASSUME NEW b \in Banks, NEW e \in Range(q[b]), e.cu = k
      PROVE  e.op \in Nat /\ e = [cu |-> k, op |-> e.op]
  <2>1. e \in Entry
    BY <1>1
  <2> QED BY <1>2, <2>1 DEF Entry
<1> QED
  BY <1>2

\* The reads of a new instruction that go to a bank.
LEMMA NewEntries ==
  ASSUME FrontTypes, NEW x \in Running, NEW k \in Kinds, NEW b \in Banks
  PROVE  LET s == [n \in DOMAIN ReadsIn(x, b) |-> [cu |-> k, op |-> ReadsIn(x, b)[n]]] IN
         /\ s \in Seq(Entry) /\ IsInjective(s)
         /\ \A e : e \in Range(s) <=> /\ e \in Entry /\ e.cu = k /\ e.op \in DOMAIN P(x).src
                                      /\ Bank(x.w, P(x).src[e.op]) = b
<1> DEFINE r == ReadsIn(x, b)
           s == [n \in DOMAIN r |-> [cu |-> k, op |-> r[n]]]
           ops == DOMAIN P(x).src
<1>1. /\ r \in Seq(ops) /\ IsInjective(r)
      /\ Range(r) = {i \in ops : Bank(x.w, P(x).src[i]) = b}
  BY ReadsOnce
<1>2. ops \subseteq Nat
  <2>1. P(x) \in Instruction
    BY ProgramFacts DEF FrontTypes, Running, P
  <2>2. P(x).src \in Seq(Nat)
    BY <2>1 DEF Instruction
  <2> QED BY <2>2
<1> HIDE DEF r, ops
<1>3. PICK c \in Nat : DOMAIN r = 1..c /\ \A n \in 1..c : r[n] \in ops
  BY <1>1
<1>4. DOMAIN s = 1..c /\ \A n \in 1..c : s[n] = [cu |-> k, op |-> r[n]] /\ s[n] \in Entry
  BY <1>2, <1>3 DEF Entry
<1> HIDE DEF s
<1>5. s \in Seq(Entry)
  <2>1. s = [n \in 1..c |-> s[n]]
    BY <1>4 DEF s
  <2> QED BY <1>4, <2>1
<1>6. IsInjective(s)
  <2> SUFFICES ASSUME NEW i \in 1..c, NEW j \in 1..c, s[i] = s[j] PROVE i = j
    BY <1>4 DEF IsInjective
  <2>1. r[i] = r[j]
    <3>1. s[i].op = r[i] /\ s[j].op = r[j]
      BY <1>4
    <3> QED BY <3>1
  <2> QED BY <1>1, <1>3, <2>1 DEF IsInjective
<1>7. ASSUME NEW e
      PROVE  e \in Range(s) <=> /\ e \in Entry /\ e.cu = k /\ e.op \in ops
                                /\ Bank(x.w, P(x).src[e.op]) = b
  <2>1. e \in Range(s) <=> \E n \in 1..c : e = [cu |-> k, op |-> r[n]]
    BY <1>4 DEF Range
  <2>2. \A i : i \in ops /\ Bank(x.w, P(x).src[i]) = b <=> \E n \in 1..c : i = r[n]
    BY <1>1, <1>3 DEF Range
  <2>3. ASSUME e \in Entry, e.cu = k PROVE e = [cu |-> k, op |-> e.op]
    BY <2>3 DEF Entry
  <2>4. ASSUME NEW n \in 1..c, e = [cu |-> k, op |-> r[n]]
        PROVE  e \in Entry /\ e.cu = k /\ e.op = r[n]
    BY <1>4, <2>4
  <2> QED BY <2>1, <2>2, <2>3, <2>4
<1> QED
  BY <1>5, <1>6, <1>7 DEF s, r, ops

\* A queue of different entries without its first.
LEMMA HeadRead ==
  ASSUME NEW q \in Seq(Entry), IsInjective(q), q # <<>>
  PROVE  /\ Tail(q) \in Seq(Entry) /\ IsInjective(Tail(q))
         /\ \A e : e \in Range(Tail(q)) <=> e \in Range(q) /\ e # q[1]
<1>1. PICK n \in Nat : Len(q) = n /\ DOMAIN q = 1..n /\ n >= 1
  BY EmptySeq
<1> DEFINE t == Tail(q)
<1>2. t \in Seq(Entry) /\ DOMAIN t = 1..(n - 1) /\ \A i \in 1..(n - 1) : t[i] = q[i + 1]
  BY <1>1
<1> HIDE DEF t
<1>3. \A i \in 1..(n - 1) : i + 1 \in 1..n /\ i + 1 # 1
  BY <1>1
<1>4. IsInjective(t)
  <2> SUFFICES ASSUME NEW i \in 1..(n - 1), NEW j \in 1..(n - 1), t[i] = t[j] PROVE i = j
    BY <1>2 DEF IsInjective
  <2>1. i + 1 = j + 1
    BY <1>1, <1>2, <1>3 DEF IsInjective
  <2> QED BY <2>1
<1>5. \A i \in 1..n : i = 1 \/ (i - 1 \in 1..(n - 1) /\ (i - 1) + 1 = i)
  BY <1>1
<1>6. ASSUME NEW e PROVE e \in Range(t) <=> e \in Range(q) /\ e # q[1]
  <2>1. e \in Range(t) <=> \E i \in 1..(n - 1) : e = q[i + 1]
    BY <1>2 DEF Range
  <2>2. e \in Range(q) <=> \E i \in 1..n : e = q[i]
    BY <1>1 DEF Range
  <2>3. ASSUME NEW i \in 1..(n - 1), e = q[i + 1] PROVE e \in Range(q) /\ e # q[1]
    BY <1>1, <1>3, <2>2, <2>3 DEF IsInjective
  <2>4. ASSUME NEW i \in 1..n, e = q[i], e # q[1] PROVE \E j \in 1..(n - 1) : e = q[j + 1]
    <3>1. i - 1 \in 1..(n - 1) /\ (i - 1) + 1 = i
      BY <1>5, <2>4
    <3> QED BY <2>4, <3>1
  <2> QED BY <2>1, <2>2, <2>3, <2>4
<1> QED
  BY <1>2, <1>4, <1>6 DEF t

\* Two queues of different entries, one behind the other.
LEMMA QueuesJoined ==
  ASSUME NEW q \in Seq(Entry), NEW r \in Seq(Entry), IsInjective(q), IsInjective(r),
         \A e \in Range(q) : e \notin Range(r)
  PROVE  /\ q \o r \in Seq(Entry) /\ IsInjective(q \o r)
         /\ \A e : e \in Range(q \o r) <=> e \in Range(q) \/ e \in Range(r)
<1>1. \A i, j \in 1..Len(q) : q[i] = q[j] => i = j
  BY DEF IsInjective
<1>2. \A i, j \in 1..Len(r) : r[i] = r[j] => i = j
  BY DEF IsInjective
<1>3. Range(q) = ToSet(q) /\ Range(r) = ToSet(r)
  BY DEF Range, ToSet
<1>4. ToSet(q) \cap ToSet(r) = {}
  BY <1>3
<1>5. /\ q \o r \in Seq(Entry) /\ ToSet(q \o r) = ToSet(q) \cup ToSet(r)
      /\ \A i, j \in 1..Len(q \o r) : (q \o r)[i] = (q \o r)[j] => i = j
  BY ONLY <1>1, <1>2, <1>4, Joined, q \in Seq(Entry), r \in Seq(Entry)
<1> DEFINE s == q \o r
<1>6. s \in Seq(Entry) /\ ToSet(s) = ToSet(q) \cup ToSet(r) /\ \A i, j \in 1..Len(s) : s[i] = s[j] => i = j
  BY <1>5
<1> HIDE DEF s
<1>7. IsInjective(s) /\ Range(s) = ToSet(s)
  BY <1>6 DEF IsInjective, Range, ToSet
<1> QED
  BY <1>3, <1>6, <1>7 DEF s

\* A step of the operand collector keeps the queues and what the units wait for in step.
LEMMA CollectorQueue ==
  ASSUME FrontTypes, AluTypes, QueueInv, CollectorStep
  PROVE  QueueInv'
<1> DEFINE goes(k)   == cu[k] # None /\ missing[k] = {} /\ ocex[k] = None
           takes(k)  == idoc[k] # None /\ (cu[k] = None \/ goes(k))
           reads     == UNION {Granted(k) : k \in Kinds}
           fresh(k, b) == IF ~takes(k) THEN <<>>
                          ELSE [n \in DOMAIN ReadsIn(idoc[k], b) |-> [cu |-> k, op |-> ReadsIn(idoc[k], b)[n]]]
           rest(b)   == IF b \in reads THEN Tail(queue[b]) ELSE queue[b]
           Waits(k, i, b) == [cu |-> k, op |-> i] \in Range(queue[b])
           Asks(k, i, b) == i \in DOMAIN P(idoc[k]).src /\ Bank(idoc[k].w, P(idoc[k]).src[i]) = b
<1>1. /\ cu' = [k \in Kinds |-> IF takes(k) THEN idoc[k] ELSE IF goes(k) THEN None ELSE cu[k]]
      /\ missing' = [k \in Kinds |-> IF takes(k) THEN DOMAIN P(idoc[k]).src
                                     ELSE missing[k] \ {queue[b][1].op : b \in Granted(k)}]
      /\ queue' = [b \in Banks |-> rest(b) \o fresh("sp", b) \o fresh("sfu", b) \o fresh("mem", b)]
      /\ UNCHANGED setup
  BY DEF CollectorStep
<1>2. \A x : P(x)' = P(x)
  BY <1>1 DEF P, Program
<1>3. \A k \in Kinds : idoc[k] # None => idoc[k] \in Running
  BY DEF AluTypes, Inst, Running
<1>4. /\ queue \in [Banks -> Seq(Entry)]
      /\ \A b \in Banks : /\ IsInjective(queue[b])
                          /\ \A e \in Range(queue[b]) :
                               /\ e \in Entry /\ cu[e.cu] # None /\ e.op \in DOMAIN P(cu[e.cu]).src
                               /\ Bank(cu[e.cu].w, P(cu[e.cu]).src[e.op]) = b
      /\ \A k \in Kinds : missing[k] = {i \in Nat : \E b \in Banks : Waits(k, i, b)}
  BY WaitingOps DEF QueueInv, OperandsQueued, Range
<1>5. \A e \in Entry : e = [cu |-> e.cu, op |-> e.op] /\ e.cu \in Kinds /\ e.op \in Nat
  BY DEF Entry
<1>6. \A k \in Kinds : \A b \in Granted(k) : b \in Banks /\ queue[b] # <<>> /\ queue[b][1].cu = k
  BY DEF Granted, Requests
<1>7. \A k \in Kinds : takes(k) \/ goes(k) => \A b \in Banks : \A e \in Range(queue[b]) : e.cu # k
  <2> SUFFICES ASSUME NEW k \in Kinds, takes(k) \/ goes(k), NEW b \in Banks,
                      NEW e \in Range(queue[b]), e.cu = k
               PROVE  FALSE
    OBVIOUS
  <2>1. missing[k] = {}
    BY <1>4
  <2>2. Waits(k, e.op, b) /\ e.op \in Nat
    BY <1>4, <1>5
  <2> HIDE DEF Waits
  <2> QED BY <1>4, <2>1, <2>2
<1>8. \A k \in Kinds : takes(k) => idoc[k] \in Running
  BY <1>3
<1>9. ASSUME NEW k \in Kinds, NEW b \in Banks
      PROVE  /\ fresh(k, b) \in Seq(Entry) /\ IsInjective(fresh(k, b))
             /\ \A e : e \in Range(fresh(k, b)) <=> e \in Entry /\ e.cu = k /\ takes(k) /\ Asks(k, e.op, b)
  <2>1. CASE takes(k)
    <3>1. idoc[k] \in Running
      BY <1>8, <2>1
    <3> QED BY <2>1, <3>1, NewEntries
  <2>2. CASE ~takes(k)
    <3> HIDE DEF takes
    <3>1. fresh(k, b) = <<>>
      BY <2>2
    <3> HIDE DEF fresh
    <3> QED BY <2>2, <3>1 DEF Range, IsInjective
  <2> QED BY <2>1, <2>2
<1> HIDE DEF fresh
<1>10. ASSUME NEW b \in Banks
       PROVE  /\ rest(b) \in Seq(Entry) /\ IsInjective(rest(b))
              /\ \A e : e \in Range(rest(b)) <=> e \in Range(queue[b]) /\ ~(b \in reads /\ e = queue[b][1])
  <2>1. queue[b] \in Seq(Entry) /\ IsInjective(queue[b])
    BY <1>4
  <2>2. b \in reads => queue[b] # <<>>
    BY <1>6
  <2> HIDE DEF reads
  <2> QED BY <2>1, <2>2, HeadRead
<1> HIDE DEF rest
<1>11. ASSUME NEW b \in Banks
       PROVE  /\ queue'[b] \in Seq(Entry) /\ IsInjective(queue'[b])
              /\ \A e : e \in Range(queue'[b]) <=> \/ e \in Range(rest(b))
                                                   \/ \E k \in Kinds : e \in Range(fresh(k, b))
  <2> DEFINE r == rest(b)
             x == fresh("sp", b)
             y == fresh("sfu", b)
             z == fresh("mem", b)
  <2>1. /\ r \in Seq(Entry) /\ IsInjective(r) /\ x \in Seq(Entry) /\ IsInjective(x)
        /\ y \in Seq(Entry) /\ IsInjective(y) /\ z \in Seq(Entry) /\ IsInjective(z)
    BY <1>9, <1>10 DEF Kinds
  <2>2. /\ \A e \in Range(x) : e.cu = "sp" /\ takes("sp")
        /\ \A e \in Range(y) : e.cu = "sfu" /\ takes("sfu")
        /\ \A e \in Range(z) : e.cu = "mem" /\ takes("mem")
    BY <1>9 DEF Kinds
  <2>3. \A e \in Range(r) : \A k \in Kinds : takes(k) => e.cu # k
    BY <1>7, <1>10
  <2>4. queue'[b] = r \o x \o y \o z
    BY <1>1
  <2> HIDE DEF r, x, y, z, takes
  <2>5. /\ r \o x \in Seq(Entry) /\ IsInjective(r \o x)
        /\ \A e : e \in Range(r \o x) <=> e \in Range(r) \/ e \in Range(x)
    <3>1. \A e \in Range(r) : e \notin Range(x)
      BY <2>2, <2>3 DEF Kinds
    <3> QED BY <2>1, <3>1, QueuesJoined
  <2>6. /\ r \o x \o y \in Seq(Entry) /\ IsInjective(r \o x \o y)
        /\ \A e : e \in Range(r \o x \o y) <=> e \in Range(r) \/ e \in Range(x) \/ e \in Range(y)
    <3>1. \A e \in Range(r \o x) : e \notin Range(y)
      BY <2>2, <2>3, <2>5 DEF Kinds
    <3> QED BY <2>1, <2>5, <3>1, QueuesJoined
  <2>7. /\ r \o x \o y \o z \in Seq(Entry) /\ IsInjective(r \o x \o y \o z)
        /\ \A e : e \in Range(r \o x \o y \o z)
                    <=> e \in Range(r) \/ e \in Range(x) \/ e \in Range(y) \/ e \in Range(z)
    <3>1. \A e \in Range(r \o x \o y) : e \notin Range(z)
      BY <2>2, <2>3, <2>6 DEF Kinds
    <3> DEFINE t == r \o x \o y
    <3>2. t \in Seq(Entry) /\ IsInjective(t) /\ \A e \in Range(t) : e \notin Range(z)
      BY <2>6, <3>1
    <3>3. \A e : e \in Range(t) <=> e \in Range(r) \/ e \in Range(x) \/ e \in Range(y)
      BY <2>6
    <3> HIDE DEF t
    <3>4. /\ t \o z \in Seq(Entry) /\ IsInjective(t \o z)
          /\ \A e : e \in Range(t \o z) <=> e \in Range(t) \/ e \in Range(z)
      BY <2>1, <3>2, QueuesJoined
    <3> QED BY <3>3, <3>4 DEF t
  <2>8. \A e : (\E k \in Kinds : e \in Range(fresh(k, b))) <=> e \in Range(x) \/ e \in Range(y) \/ e \in Range(z)
    BY DEF Kinds, x, y, z
  <2> QED BY <2>4, <2>7, <2>8 DEF r
<1>12. queue' \in [Banks -> Seq(Entry)]
  <2>1. queue' = [b \in Banks |-> queue'[b]]
    BY <1>1
  <2> QED BY <1>11, <2>1
\* What is in the queues after the step.
<1>13. ASSUME NEW b \in Banks, NEW e
       PROVE  e \in Range(queue'[b]) <=>
                \/ e \in Range(queue[b]) /\ ~takes(e.cu) /\ ~goes(e.cu) /\ ~(b \in reads /\ e = queue[b][1])
                \/ e \in Entry /\ takes(e.cu) /\ Asks(e.cu, e.op, b)
  <2>1. e \in Range(queue[b]) => e.cu \in Kinds /\ ~takes(e.cu) /\ ~goes(e.cu)
    <3>1. e \in Range(queue[b]) => e.cu \in Kinds
      BY <1>4, <1>5
    <3> HIDE DEF takes, goes
    <3> QED BY <1>7, <3>1
  <2>2. e \in Entry => e.cu \in Kinds
    BY <1>5
  <2> HIDE DEF takes, goes, reads, Asks
  <2>3. (\E k \in Kinds : e \in Range(fresh(k, b))) <=> e \in Entry /\ takes(e.cu) /\ Asks(e.cu, e.op, b)
    BY <1>9, <2>2
  <2> QED BY <1>10, <1>11, <2>1, <2>3
<1>14. ASSUME NEW b \in Banks, NEW e \in Range(queue'[b])
       PROVE  /\ e \in Entry /\ cu'[e.cu] # None /\ e.op \in DOMAIN P(cu'[e.cu]).src
              /\ Bank(cu'[e.cu].w, P(cu'[e.cu]).src[e.op]) = b
  <2>1. CASE e \in Range(queue[b]) /\ ~takes(e.cu) /\ ~goes(e.cu)
    <3>1. e \in Entry /\ e.cu \in Kinds
      BY <1>4, <1>5, <2>1
    <3>2. cu'[e.cu] = cu[e.cu]
      <4> HIDE DEF takes, goes
      <4> QED BY <1>1, <2>1, <3>1
    <3> QED BY <1>4, <2>1, <3>1, <3>2
  <2>2. CASE e \in Entry /\ takes(e.cu) /\ Asks(e.cu, e.op, b)
    <3>1. e.cu \in Kinds /\ idoc[e.cu] # None
      BY <1>5, <2>2
    <3>2. cu'[e.cu] = idoc[e.cu]
      <4> HIDE DEF takes, goes
      <4> QED BY <1>1, <2>2, <3>1
    <3> QED BY <2>2, <3>1, <3>2
  <2> QED BY <1>13, <1>14, <2>1, <2>2
<1>15. ASSUME NEW k \in Kinds
       PROVE  missing'[k] = {i \in Nat : \E b \in Banks : [cu |-> k, op |-> i] \in Range(queue'[b])}
  <2> DEFINE e(i) == [cu |-> k, op |-> i]
  <2>1. \A i \in Nat : e(i) \in Entry /\ e(i).cu = k /\ e(i).op = i
    BY DEF Entry
  <2>2. CASE takes(k)
    <3>1. missing'[k] = DOMAIN P(idoc[k]).src
      <4> HIDE DEF takes
      <4> QED BY <1>1, <2>2
    <3>2. P(idoc[k]).src \in Seq(Nat) /\ idoc[k] \in Running
      <4>1. P(idoc[k]) \in Instruction /\ idoc[k] \in Running
        BY <1>8, <2>2, ProgramFacts DEF FrontTypes, Running, P
      <4> QED BY <4>1 DEF Instruction
    <3>3. ASSUME NEW i \in DOMAIN P(idoc[k]).src
          PROVE i \in Nat /\ Bank(idoc[k].w, P(idoc[k]).src[i]) \in Banks
      <4>1. i \in Nat /\ P(idoc[k]).src[i] \in Nat /\ idoc[k].w \in Nat
        BY <3>2 DEF Running, Warps
      <4>2. NumBanks \in Nat \ {0}
        BY CoreConstants
      <4> QED BY <4>1, <4>2 DEF Bank, Banks
    <3>4. ASSUME NEW i \in Nat, NEW b \in Banks
          PROVE e(i) \in Range(queue'[b]) <=> Asks(k, i, b)
      <4> HIDE DEF takes, goes, Asks, e, reads
      <4> QED BY <1>13, <2>1, <2>2
    <3> QED BY <3>1, <3>3, <3>4
  <2>3. CASE ~takes(k)
    <3>1. missing'[k] = {i \in Nat : \E b \in Banks : Waits(k, i, b)} \ {queue[b][1].op : b \in Granted(k)}
      <4> HIDE DEF takes
      <4> QED BY <1>1, <1>4, <2>3
    <3>2. ASSUME NEW i \in Nat, NEW b \in Banks
          PROVE e(i) \in Range(queue'[b]) <=> Waits(k, i, b) /\ ~(b \in reads /\ e(i) = queue[b][1])
      <4>1. Waits(k, i, b) => ~goes(k)
        BY <1>7, <2>1
      <4> HIDE DEF takes, goes, reads
      <4> QED BY <1>13, <2>1, <2>3, <4>1
    <3>3. ASSUME NEW i \in Nat, NEW b \in Banks, Waits(k, i, b), b \in reads, e(i) = queue[b][1]
          PROVE b \in Granted(k) /\ i = queue[b][1].op
      <4>1. queue[b][1].cu = k /\ queue[b][1].op = i
        BY <2>1, <3>3
      <4> QED BY <1>6, <3>3, <4>1
    <3>4. ASSUME NEW i \in Nat, NEW b \in Banks, Waits(k, i, b), NEW c \in Granted(k), i = queue[c][1].op
          PROVE b \in reads /\ e(i) = queue[b][1]
      <4>1. c \in Banks /\ queue[c] # <<>> /\ queue[c][1].cu = k /\ c \in reads
        BY <1>6
      <4>2. queue[c][1] \in Range(queue[c])
        <5>1. queue[c] \in Seq(Entry)
          BY <1>4, <4>1
        <5>2. 1 \in DOMAIN queue[c]
          BY <4>1, <5>1, EmptySeq
        <5> QED BY <5>2 DEF Range
      <4>3. queue[c][1] = e(i)
        BY <1>4, <1>5, <3>4, <4>1, <4>2
      <4>4. Bank(cu[k].w, P(cu[k]).src[i]) = c
        BY <1>4, <2>1, <4>1, <4>2, <4>3
      <4>5. Bank(cu[k].w, P(cu[k]).src[i]) = b
        BY <1>4, <2>1, <3>4
      <4> QED BY <4>1, <4>3, <4>4, <4>5
    <3> HIDE DEF Waits, e, reads
    <3>5. ASSUME NEW i \in Nat
          PROVE i \in missing'[k] <=> \E b \in Banks : e(i) \in Range(queue'[b])
      BY <3>1, <3>2, <3>3, <3>4
    <3>6. missing'[k] \subseteq Nat
      BY <3>1
    <3> QED BY <3>5, <3>6 DEF e
  <2> QED BY <2>2, <2>3
<1>16. OperandsQueued'
  <2>1. \A k \in Kinds : missing'[k] = {e.op : e \in UNION {{f \in Range(queue'[b]) : f.cu = k} : b \in Banks}}
    BY <1>12, <1>15, WaitingOps
  <2> QED BY <1>2, <1>11, <1>14, <2>1 DEF OperandsQueued
<1> QED
  BY <1>12, <1>16 DEF QueueInv

\* The collector units are empty when the core starts.
LEMMA InitQueue == Init => QueueInv
<1> SUFFICES ASSUME Init PROVE QueueInv
  OBVIOUS
<1>1. /\ queue = [b \in Banks |-> <<>>] /\ missing = [k \in Kinds |-> {}]
      /\ queue \in [Banks -> Seq(Entry)]
  BY DEF Init
<1>2. \A b \in Banks : Range(queue[b]) = {} /\ IsInjective(queue[b])
  BY <1>1 DEF Range, IsInjective
<1> QED
  BY <1>1, <1>2 DEF QueueInv, OperandsQueued

\* Only the operand collector touches its units and queues.
LEMMA StepQueue ==
  ASSUME PipeInv, QueueInv, [Next]_vars
  PROVE  QueueInv'
<1>1. CASE CollectorStep
  BY <1>1, CollectorQueue DEF PipeInv
<1>2. CASE UNCHANGED <<setup, cu, missing, queue>>
  BY <1>2 DEF QueueInv, OperandsQueued, P, Program
<1>3. ASSUME ~CollectorStep PROVE UNCHANGED <<setup, cu, missing, queue>>
  <2>1. CASE ShaderWriteback
    BY <2>1 DEF ShaderWriteback, ocVars
  <2>2. ASSUME NEW k \in Alu, ExecuteAlu(k) PROVE UNCHANGED <<setup, cu, missing, queue>>
    BY <2>2 DEF ExecuteAlu
  <2>3. CASE LsuWriteback
    BY <2>3 DEF LsuWriteback, ocVars
  <2>4. CASE LsuResponse
    BY <2>4 DEF LsuResponse, ocVars
  <2>5. CASE LsuDispatch
    BY <2>5 DEF LsuDispatch, ocVars
  <2>6. CASE LsuIssue
    BY <2>6 DEF LsuIssue
  <2>7. CASE Schedule
    BY <2>7 DEF Schedule, ocVars
  <2>8. CASE Decode \/ Fetch
    BY <2>8 DEF Decode, Fetch, ocVars
  <2>9. CASE Memory
    BY <2>9 DEF Memory, AnswerLoad, AnswerStore, AnswerFetch, Arrives, ocVars
  <2>10. CASE UNCHANGED vars
    BY <2>10 DEF vars, ocVars
  <2> QED BY <1>3, <2>1, <2>2, <2>3, <2>4, <2>5, <2>6, <2>7, <2>8, <2>9, <2>10 DEF Next, Cycle, Alu
<1> QED
  BY <1>1, <1>2, <1>3

\* A collector unit waits for exactly the operands of its instruction that are still in the bank
\* queues, each queued once and at the bank of its register, for any number of banks and operands.
THEOREM OperandsQueuedHolds == Spec => []OperandsQueued
<1>1. Spec => [](PipeInv /\ QueueInv)
  BY InitPipe, StepPipe, InitQueue, StepQueue, PTL DEF Spec
<1>2. QueueInv => OperandsQueued
  BY DEF QueueInv
<1> QED
  BY <1>1, <1>2, PTL
=============================================================================
