------------------------- MODULE MemoryOrderProofs -------------------------
(* The order of the requests of a block in MemoryPartition: no slice,      *)
(* arbitration, scheduler or latency lets one of them pass another.  The   *)
(* invariant is the one of MemoryPartitionProofs.                          *)
EXTENDS MemoryPartitionProofs

-----------------------------------------------------------------------------
(* The line of a block: its requests from a slice to the end of a transfer. *)

Cut(W) == [m \in Stages |-> IF m \in 4..9 THEN W[m] ELSE <<>>]
Numbered(W) == \A m \in Stages : DOMAIN W[m] \subseteq Nat
Once(Y, W) == \A y \in Y : ~Ahead(W, y, y)

\* The stages of a line are those of the way from the queue to DRAM to the data bus.
LEMMA CutFacts ==
  ASSUME NEW W
  PROVE  /\ \A m \in 4..9 : m \in Stages /\ Cut(W)[m] = W[m]
         /\ \A m \in Stages \ (4..9) : Cut(W)[m] = <<>> /\ \A y : ~Has(Cut(W)[m], y)
         /\ \A y : Stands(Cut(W), y) <=> \E m \in 4..9 : Has(W[m], y)
         /\ \A y, z : Ahead(Cut(W), y, z) => Ahead(W, y, z)
<1> DEFINE C == Cut(W)
<1>1. \A m \in 4..9 : m \in Stages /\ C[m] = W[m]
  BY DEF Cut, Stages
<1>2. \A m \in Stages \ (4..9) : C[m] = <<>>
  BY DEF Cut
<1> HIDE DEF C
<1>3. \A m \in Stages \ (4..9) : \A y : ~Has(C[m], y)
  BY <1>2 DEF Has
<1>4. \A m \in Stages : \A y, z : /\ Has(C[m], y) => Has(W[m], y)
                                  /\ Before(C[m], y, z) => Before(W[m], y, z)
  BY <1>1, <1>2 DEF Has, Before
<1>5. \A y : Stands(C, y) <=> \E m \in 4..9 : Has(W[m], y)
  BY <1>1, <1>3 DEF Stands
<1>6. \A y, z : Ahead(C, y, z) => Ahead(W, y, z)
  BY <1>4 DEF Ahead
<1>7. QED
  BY <1>1, <1>2, <1>3, <1>5, <1>6 DEF C

\* Of two requests that stand once on a way, one is in front.
LEMMA OneInFront ==
  ASSUME NEW Y, NEW W, Once(Y, W), Numbered(W), NEW y \in Y, NEW z \in Y
  PROVE  /\ ~(Ahead(W, y, z) /\ Ahead(W, z, y))
         /\ Stands(W, y) /\ Stands(W, z) /\ y # z => Ahead(W, y, z) \/ Ahead(W, z, y)
<1>0. ~Ahead(W, y, y) /\ ~Ahead(W, z, z)
  BY DEF Once
<1>1. \A m, n \in Stages : /\ Has(W[m], y) /\ Has(W[n], y) => m = n
                           /\ Has(W[m], z) /\ Has(W[n], z) => m = n
  <2> TAKE m, n \in Stages
  <2>1. m = n \/ m < n \/ n < m
    BY DEF Stages
  <2>2. QED
    BY <1>0, <2>1 DEF Ahead
<1>2. ASSUME NEW m \in Stages
      PROVE  \A i, j \in DOMAIN W[m] : (W[m][i] = y /\ W[m][j] = y => i = j) /\ (W[m][i] = z /\ W[m][j] = z => i = j)
  <2> TAKE i, j \in DOMAIN W[m]
  <2>1. i = j \/ i < j \/ j < i
    BY DEF Numbered
  <2>2. ~Before(W[m], y, y) /\ ~Before(W[m], z, z)
    BY <1>0 DEF Ahead
  <2>3. QED
    BY <2>1, <2>2 DEF Before
<1>3. \A m \in Stages : ~(Before(W[m], y, z) /\ Before(W[m], z, y))
  <2> SUFFICES ASSUME NEW m \in Stages, Before(W[m], y, z), Before(W[m], z, y) PROVE FALSE
    OBVIOUS
  <2>1. PICK i \in DOMAIN W[m], j \in DOMAIN W[m] : i < j /\ W[m][i] = y /\ W[m][j] = z
    BY DEF Before
  <2>2. PICK k \in DOMAIN W[m], l \in DOMAIN W[m] : k < l /\ W[m][k] = z /\ W[m][l] = y
    BY DEF Before
  <2>3. i = l /\ j = k
    BY <1>2, <2>1, <2>2
  <2>4. i \in Nat /\ j \in Nat
    BY DEF Numbered
  <2>5. QED
    BY <2>1, <2>2, <2>3, <2>4
<1>4. \A m \in Stages : Before(W[m], y, z) \/ Before(W[m], z, y) => Has(W[m], y) /\ Has(W[m], z)
  BY DEF Before, Has
<1>5. \A m, n \in Stages : ~(m < n /\ n < m) /\ ~(m < m)
  BY DEF Stages
<1>6. ~(Ahead(W, y, z) /\ Ahead(W, z, y))
  BY <1>1, <1>3, <1>4, <1>5 DEF Ahead
<1>7. ASSUME Stands(W, y), Stands(W, z), y # z PROVE Ahead(W, y, z) \/ Ahead(W, z, y)
  <2>1. PICK m \in Stages, n \in Stages : Has(W[m], y) /\ Has(W[n], z)
    BY <1>7 DEF Stands
  <2>2. m = n \/ m < n \/ n < m
    BY DEF Stages
  <2>3. CASE m = n
    <3>1. PICK i \in DOMAIN W[m], j \in DOMAIN W[m] : W[m][i] = y /\ W[m][j] = z
      BY <2>1, <2>3 DEF Has
    <3>2. i < j \/ j < i
      <4>1. i \in Nat /\ j \in Nat
        BY DEF Numbered
      <4>2. i # j
        BY <1>7, <3>1
      <4>3. QED
        BY <4>1, <4>2
    <3>3. QED
      BY <3>1, <3>2 DEF Ahead, Before
  <2>4. QED
    BY <2>1, <2>2, <2>3 DEF Ahead
<1>8. QED
  BY <1>6, <1>7

\* Requests of Y go on and nobody comes: they leave in their order, and none gets in front
\* of another.
Onward(Y, V, W) ==
  /\ \A y \in Y : Stands(W, y) => Stands(V, y)
  /\ \A y, z \in Y : /\ Ahead(W, y, z) => Ahead(V, y, z)
                     /\ Ahead(V, y, z) /\ Stands(W, y) => Ahead(W, y, z)

\* A line nothing moves in.
LEMMA StayOnward == ASSUME NEW Y, NEW V PROVE Onward(Y, V, V)
BY DEF Onward

\* Two parts of a cycle in which the requests of a line go on.
LEMMA GoOnward ==
  ASSUME NEW Y, NEW U, NEW V, NEW W, Onward(Y, U, V), Onward(Y, V, W)
  PROVE  Onward(Y, U, W)
BY DEF Onward

\* Enough for requests to go on: nobody comes or gets in front, and who is in front
\* leaves first.
LEMMA IsOnward ==
  ASSUME NEW Y, NEW V, NEW W, Once(Y, V), Numbered(V), Numbered(W),
         \A y \in Y : Stands(W, y) => Stands(V, y),
         \A y, z \in Y : Ahead(W, y, z) => Ahead(V, y, z),
         \A y, z \in Y : Ahead(V, y, z) /\ Stands(W, y) => Stands(W, z)
  PROVE  Onward(Y, V, W) /\ Once(Y, W)
<1>1. Once(Y, W)
  BY DEF Once
<1>2. ASSUME NEW y \in Y, NEW z \in Y, Ahead(V, y, z), Stands(W, y) PROVE Ahead(W, y, z)
  <2>1. Stands(W, z) /\ y # z
    BY <1>2 DEF Once
  <2>2. Ahead(W, y, z) \/ Ahead(W, z, y)
    BY <1>1, <1>2, <2>1, OneInFront
  <2>3. ~Ahead(W, z, y)
    BY <1>2, OneInFront
  <2>4. QED
    BY <2>2, <2>3
<1>3. QED
  BY <1>1, <1>2 DEF Onward

\* A line whose requests stay in their queues.
LEMMA KeptOnward ==
  ASSUME NEW Y, NEW V, NEW W, Once(Y, V), Numbered(V), Numbered(W), \A m \in Stages : Kept(Y, V[m], W[m])
  PROVE  Onward(Y, V, W) /\ Once(Y, W)
<1>1. /\ \A y \in Y : Stands(W, y) <=> Stands(V, y)
      /\ \A y, z \in Y : Ahead(W, y, z) => Ahead(V, y, z)
  BY WayKept
<1>2. \A y, z \in Y : Ahead(V, y, z) => Stands(V, z)
  BY DEF Ahead, Stands, Before, Has
<1>3. QED
  BY <1>1, <1>2, IsOnward

\* A line of which one request goes on to the next queue.
LEMMA MovedOnward ==
  ASSUME NEW Y, NEW V, NEW W, Once(Y, V), Numbered(V), Numbered(W), NEW x \in Y,
         NEW k \in Stages, NEW l \in Stages, l = k + 1,
         Left(Y, V[k], W[k], x), Joined(Y, V[l], W[l], x), \A m \in Stages \ {k, l} : Kept(Y, V[m], W[m])
  PROVE  Onward(Y, V, W) /\ Once(Y, W)
<1>1. Moved(Y, V, W, k, l, x)
  <2>1. k < l
    BY DEF Stages
  <2>2. QED
    BY <2>1, WayMoves
<1>2. \A m \in Stages : ~(k < m /\ m < l)
  BY DEF Stages
<1>3. /\ \A y \in Y : Stands(W, y) <=> Stands(V, y)
      /\ \A y, z \in Y : Ahead(W, y, z) => Ahead(V, y, z)
  BY <1>1, <1>2 DEF Moved
<1>4. \A y, z \in Y : Ahead(V, y, z) => Stands(V, z)
  BY DEF Ahead, Stands, Before, Has
<1>5. QED
  BY <1>3, <1>4, IsOnward

\* The first of all leaves.
LEMMA EndsOnward ==
  ASSUME NEW Y, NEW V, NEW W, Once(Y, V), Numbered(V), Numbered(W), NEW x \in Y, NEW k \in Stages,
         Left(Y, V[k], W[k], x), \A m \in Stages \ {k} : Kept(Y, V[m], W[m]),
         \A m \in Stages : k < m => \A y \in Y : ~Has(V[m], y)
  PROVE  Onward(Y, V, W) /\ Once(Y, W)
<1>1. Ended(Y, V, W, x)
  BY WayEnds DEF Once
<1>2. ASSUME NEW y \in Y, Stands(W, y) PROVE Ahead(V, x, y)
  <2>1. PICK m \in Stages : Has(W[m], y)
    BY <1>2 DEF Stands
  <2>2. CASE m = k
    BY <2>1, <2>2 DEF Left, Ahead
  <2>3. CASE m # k
    <3>1. Has(V[m], y)
      BY <2>1, <2>3 DEF Kept
    <3>2. m < k
      BY <2>3, <3>1 DEF Stages
    <3>3. Has(V[k], x)
      BY DEF Left
    <3>4. QED
      BY <3>1, <3>2, <3>3 DEF Ahead
  <2>4. QED
    BY <2>2, <2>3
<1>3. ASSUME NEW y \in Y, NEW z \in Y, Ahead(V, y, z), Stands(W, y) PROVE Stands(W, z)
  <2>1. Stands(V, z)
    BY <1>3 DEF Ahead, Stands, Before, Has
  <2>2. z # x
    BY <1>2, <1>3, OneInFront
  <2>3. QED
    BY <1>1, <2>1, <2>2 DEF Ended
<1>4. QED
  BY <1>1, <1>3, IsOnward DEF Ended

\* The line of a block, of the parts that make it.
LineOf(u, lat, d, b) == Cut(Way(u, lat, d, b))

\* The queues of a line, by their stages.
LEMMA LineParts ==
  ASSUME NEW u, NEW lat, NEW d, NEW b
  PROVE  LET L == LineOf(u, lat, d, b)
         IN /\ L[4] = u.todram /\ L[5] = lat /\ L[6] = MfsOf(d.mrqq) /\ L[7] = MfsOf(d.queue[BankOfBlock[b]])
            /\ L[8] = ServedBy(d, BankOfBlock[b]) /\ L[9] = OnBus(d.rwq.slots)
            /\ \A m \in Stages \ (4..9) : L[m] = <<>>
            /\ \A m \in 5..9 : L[m] = Lane(lat, d, b)[m]
<1> DEFINE W == Way(u, lat, d, b)
           A == Lane(lat, d, b)
<1>1. /\ W[4] = u.todram /\ W[5] = lat /\ W[6] = MfsOf(d.mrqq) /\ W[7] = MfsOf(d.queue[BankOfBlock[b]])
      /\ W[8] = ServedBy(d, BankOfBlock[b]) /\ W[9] = OnBus(d.rwq.slots)
  BY DEF Way
<1>2. \A m \in 5..9 : W[m] = A[m]
  BY LaneInWay
<1> HIDE DEF W, A
<1>3. /\ \A m \in 4..9 : Cut(W)[m] = W[m]
      /\ \A m \in Stages \ (4..9) : Cut(W)[m] = <<>>
  BY CutFacts
<1>4. QED
  BY <1>1, <1>2, <1>3 DEF LineOf, W, A

\* The channel has no request in the stages outside it.
LEMMA OutOfLane ==
  ASSUME NEW lat, NEW d, NEW b PROVE \A m \in Stages \ (5..10) : Lane(lat, d, b)[m] = <<>>
<1> DEFINE A == Lane(lat, d, b)
<1>1. A[1] = <<>> /\ A[2] = <<>> /\ A[3] = <<>> /\ A[4] = <<>> /\ A[11] = <<>> /\ A[12] = <<>>
  BY DEF Lane, Way, EmptySlice
<1> HIDE DEF A
<1>2. \A m \in Stages \ (5..10) : A[m] = <<>>
  BY <1>1 DEF Stages
<1>3. QED
  BY <1>2 DEF A

\* The queues of a line are indexed by numbers.
LEMMA LineNumbered ==
  ASSUME NEW s \in Subs, NEW u, NEW arr, SliceTypes(u, s, arr), NEW lat, NEW d, ChannelTypes(lat, d),
         setup \in Setups, NEW b \in Used
  PROVE  Numbered(LineOf(u, lat, d, b))
<1> DEFINE L == LineOf(u, lat, d, b)
           k == BankOfBlock[b]
<1>1. /\ L[4] = u.todram /\ L[5] = lat /\ L[6] = MfsOf(d.mrqq) /\ L[7] = MfsOf(d.queue[k])
      /\ L[8] = ServedBy(d, k) /\ L[9] = OnBus(d.rwq.slots)
      /\ \A m \in Stages \ (4..9) : L[m] = <<>>
  BY LineParts
<1>2. k \in Banks
  BY BanksOfBlocks
<1> HIDE DEF L, k
<1>3. u.todram \in Seq(Mfs) /\ lat \in Seq(Mfs) /\ d.mrqq \in Seq(DramReqs) /\ d.queue[k] \in Seq(DramReqs)
  BY <1>2, SliceSeqs DEF ChannelTypes
<1>4. DOMAIN L[4] \subseteq Nat /\ DOMAIN L[5] \subseteq Nat
  <2>1. \A q \in Seq(Mfs) : DOMAIN q \subseteq Nat
    OBVIOUS
  <2>2. QED
    BY <1>1, <1>3, <2>1
<1>5. DOMAIN L[6] \subseteq Nat /\ DOMAIN L[7] \subseteq Nat
  <2>1. \A q \in Seq(DramReqs) : DOMAIN MfsOf(q) \subseteq Nat
    BY DEF MfsOf
  <2>2. QED
    BY <1>1, <1>3, <2>1
<1>6. DOMAIN L[8] \subseteq Nat
  <2>1. L[8] = <<>> \/ L[8] = <<d.bank[k].mrq.mf>>
    BY <1>1 DEF ServedBy
  <2> DEFINE x == d.bank[k].mrq.mf
  <2> HIDE DEF x
  <2>2. L[8] = <<>> \/ L[8] = <<x>>
    BY <2>1 DEF x
  <2>3. QED
    BY <2>2
<1>7. DOMAIN L[9] \subseteq Nat
  <2>1. d.rwq.slots \in Seq(Transfers \cup {NoReq})
    BY PipeOfChannel DEF PipeOK
  <2> DEFINE q == d.rwq.slots
  <2> HIDE DEF q
  <2>2. q \in Seq(Transfers \cup {NoReq}) /\ L[9] = OnBus(q)
    BY <1>1, <2>1 DEF q
  <2>3. DOMAIN OnBus(q) = DOMAIN q
    BY DEF OnBus
  <2>4. QED
    BY <2>2, <2>3
<1>8. \A m \in Stages \ (4..9) : DOMAIN L[m] \subseteq Nat
  BY <1>1
<1>9. \A m \in 4..9 : m = 4 \/ m = 5 \/ m = 6 \/ m = 7 \/ m = 8 \/ m = 9
  OBVIOUS
<1>10. Numbered(L)
  BY <1>4, <1>5, <1>6, <1>7, <1>8, <1>9 DEF Numbered
<1>11. QED
  BY <1>10 DEF L

\* A request is at one place of its line at most.
LEMMA LineOnce ==
  ASSUME NEW s \in Subs, NEW u, NEW lat, NEW d, NEW arr, SliceOK(u, s, lat, d, arr),
         NEW b \in Used, SubOf(b) = s
  PROVE  Once(Own(b), LineOf(u, lat, d, b)) /\ Once(Own(b), Lane(lat, d, b))
<1>1. \A y \in Own(b) : ~Ahead(Way(u, lat, d, b), y, y)
  BY DEF SliceOK, Tracked
<1>2. QED
  BY <1>1, CutFacts, LaneInWay DEF Once, LineOf

\* What a part of the cycle that only carries requests on makes of the line.
LEMMA CarriesOnward ==
  ASSUME NEW s \in Subs, NEW u, NEW v, NEW lat, NEW d, NEW next, NEW e, NEW arr, SliceOK(u, s, lat, d, arr),
         SliceTypes(v, s, arr), v.todram = u.todram, ChannelTypes(lat, d), Carries(lat, d, next, e),
         setup \in Setups, NEW b \in Used, SubOf(b) = s
  PROVE  Onward(Own(b), LineOf(u, lat, d, b), LineOf(v, next, e, b))
<1> DEFINE Y == Own(b)
           V == LineOf(u, lat, d, b)
           W == LineOf(v, next, e, b)
           A == Lane(lat, d, b)
           B == Lane(next, e, b)
<1>1. Once(Y, V) /\ Once(Y, A)
  BY LineOnce
<1>2. Numbered(V) /\ Numbered(W)
  <2>1. SliceTypes(u, s, arr) /\ ChannelTypes(next, e)
    BY DEF SliceOK, Carries
  <2>2. QED
    BY <2>1, LineNumbered
<1>3. /\ W[4] = V[4]
      /\ \A m \in 5..9 : V[m] = A[m] /\ W[m] = B[m]
      /\ \A m \in Stages \ (4..9) : \A y : ~Has(V[m], y) /\ ~Has(W[m], y)
  <2>1. V[4] = u.todram /\ (\A m \in 5..9 : V[m] = A[m]) /\ \A m \in Stages \ (4..9) : V[m] = <<>>
    BY LineParts
  <2>2. W[4] = v.todram /\ (\A m \in 5..9 : W[m] = B[m]) /\ \A m \in Stages \ (4..9) : W[m] = <<>>
    BY LineParts
  <2> HIDE DEF V, W, A, B
  <2>3. QED
    BY <2>1, <2>2 DEF Has
<1>4. \A y \in Y : Stands(B, y) <=> Stands(A, y)
  BY DEF Carries
<1>5. /\ \A y \in Y : Has(A[10], y) => Has(B[10], y)
      /\ \A y, z \in Y : Ahead(B, y, z) => Ahead(A, y, z)
  BY DEF Carries, OrderKept
<1>6. \A m \in Stages \ (5..10) : \A y : ~Has(A[m], y) /\ ~Has(B[m], y)
  <2>1. \A m \in Stages \ (5..10) : A[m] = <<>>
    BY OutOfLane
  <2>2. \A m \in Stages \ (5..10) : B[m] = <<>>
    BY OutOfLane
  <2> HIDE DEF A, B
  <2>3. QED
    BY <2>1, <2>2 DEF Has
<1> HIDE DEF Y, V, W, A, B
<1>7. \A m \in 4..10 : m \in Stages
  BY DEF Stages
<1>8. ASSUME NEW y \in Y, NEW m \in 5..9, Has(B[m], y)
      PROVE  ~Has(A[10], y) /\ \E n \in 5..9 : Has(A[n], y)
  <2>1. ~Has(B[10], y)
    <3>1. Has(B[10], y) => Ahead(B, y, y)
      BY <1>7, <1>8 DEF Ahead
    <3>2. ~Ahead(B, y, y)
      BY <1>1, <1>5 DEF Once
    <3>3. QED
      BY <3>1, <3>2
  <2>2. Stands(A, y)
    BY <1>4, <1>7, <1>8 DEF Stands
  <2>3. PICK n \in Stages : Has(A[n], y)
    BY <2>2 DEF Stands
  <2>4. n \in 5..10 /\ n # 10
    BY <1>5, <1>6, <2>1, <2>3
  <2>5. QED
    BY <1>5, <2>1, <2>3, <2>4
<1>9. ASSUME NEW y \in Y, NEW z \in Y, Ahead(B, y, z), ~Has(A[10], y) PROVE Ahead(V, y, z)
  <2>1. Ahead(A, y, z)
    BY <1>5, <1>9
  <2>2. CASE \E m \in Stages : Before(A[m], y, z)
    <3>1. PICK m \in Stages : Before(A[m], y, z)
      BY <2>2
    <3>2. Has(A[m], y)
      BY <3>1 DEF Before, Has
    <3>3. m \in 5..9
      BY <1>6, <1>9, <3>2 DEF Stages
    <3>4. QED
      BY <1>3, <3>1, <3>3 DEF Ahead
  <2>3. CASE \E m, n \in Stages : m < n /\ Has(A[n], y) /\ Has(A[m], z)
    <3>1. PICK m \in Stages, n \in Stages : m < n /\ Has(A[n], y) /\ Has(A[m], z)
      BY <2>3
    <3>2. n \in 5..9
      BY <1>6, <1>9, <3>1 DEF Stages
    <3>3. m \in 5..9
      BY <1>6, <3>1, <3>2 DEF Stages
    <3>4. QED
      BY <1>3, <3>1, <3>2, <3>3 DEF Ahead
  <2>4. QED
    BY <2>1, <2>2, <2>3 DEF Ahead
<1>10. \A y \in Y : \A m \in Stages : Has(W[m], y) =>
         \/ m = 4 /\ Has(V[4], y)
         \/ m \in 5..9 /\ Has(B[m], y) /\ ~Has(A[10], y) /\ \E n \in 5..9 : Has(V[n], y)
  <2> TAKE y \in Y
  <2> TAKE m \in Stages
  <2> HAVE Has(W[m], y)
  <2>1. m = 4 \/ m \in 5..9
    BY <1>3 DEF Stages
  <2>2. QED
    BY <1>3, <1>8, <2>1
<1>11. \A y \in Y : Stands(W, y) => Stands(V, y)
  BY <1>7, <1>10 DEF Stands
<1>12. ASSUME NEW y \in Y, NEW z \in Y, Ahead(W, y, z) PROVE Ahead(V, y, z)
  <2>1. CASE \E m \in Stages : Before(W[m], y, z)
    <3>1. PICK m \in Stages : Before(W[m], y, z)
      BY <2>1
    <3>2. Has(W[m], y)
      BY <3>1 DEF Before, Has
    <3>3. CASE m = 4
      BY <1>3, <3>1, <3>3 DEF Ahead
    <3>4. CASE m # 4
      <4>1. m \in 5..9 /\ ~Has(A[10], y)
        BY <1>10, <3>2, <3>4
      <4>2. Ahead(B, y, z)
        BY <1>3, <3>1, <4>1 DEF Ahead
      <4>3. QED
        BY <1>9, <4>1, <4>2
    <3>5. QED
      BY <3>3, <3>4
  <2>2. CASE \E m, n \in Stages : m < n /\ Has(W[n], y) /\ Has(W[m], z)
    <3>1. PICK m \in Stages, n \in Stages : m < n /\ Has(W[n], y) /\ Has(W[m], z)
      BY <2>2
    <3>2. n # 4
      <4>1. m = 4 \/ m \in 5..9
        BY <1>10, <3>1
      <4>2. QED
        BY <3>1, <4>1
    <3>3. n \in 5..9 /\ Has(B[n], y) /\ ~Has(A[10], y)
      BY <1>10, <3>1, <3>2
    <3>4. CASE m = 4
      <4>1. Has(V[4], z)
        BY <1>10, <3>1, <3>4
      <4>2. PICK i \in 5..9 : Has(V[i], y)
        BY <1>10, <3>1, <3>2
      <4>3. QED
        BY <1>7, <4>1, <4>2 DEF Ahead
    <3>5. CASE m # 4
      <4>1. m \in 5..9 /\ Has(B[m], z)
        BY <1>10, <3>1, <3>5
      <4>2. Ahead(B, y, z)
        BY <3>1, <3>3, <4>1 DEF Ahead
      <4>3. QED
        BY <1>9, <3>3, <4>2
    <3>6. QED
      BY <3>4, <3>5
  <2>3. QED
    BY <1>12, <2>1, <2>2 DEF Ahead
<1>13. ASSUME NEW y \in Y, NEW z \in Y, Ahead(V, y, z), Stands(W, y) PROVE Stands(W, z)
  <2>0. ~Ahead(V, z, y)
    BY <1>1, <1>2, <1>13, OneInFront
  <2>1. PICK n \in Stages : Has(V[n], z)
    BY <1>13 DEF Ahead, Before, Has
  <2>2. n = 4 \/ n \in 5..9
    BY <1>3, <2>1 DEF Stages
  <2>3. CASE n = 4
    BY <1>3, <1>7, <2>1, <2>3 DEF Stands
  <2>4. CASE n \in 5..9
    <3>1. Has(A[n], z) /\ Stands(A, z)
      BY <1>3, <1>7, <2>1, <2>4 DEF Stands
    <3>2. Stands(B, z)
      BY <1>4, <3>1
    <3>3. PICK m \in Stages : Has(B[m], z)
      BY <3>2 DEF Stands
    <3>4. m \in 5..9 \/ m = 10
      BY <1>6, <3>3
    <3>5. CASE m \in 5..9
      BY <1>3, <1>7, <3>3, <3>5 DEF Stands
    <3>6. CASE m = 10
      <4>1. ~Has(A[10], z)
        <5>1. Has(A[10], z) => Ahead(A, z, z)
          BY <1>7, <2>4, <3>1 DEF Ahead
        <5>2. QED
          BY <1>1, <5>1 DEF Once
      <4>2. PICK i \in Stages : Has(W[i], y)
        BY <1>13 DEF Stands
      <4>3. CASE i = 4
        <5>1. Has(V[4], y)
          BY <1>3, <4>2, <4>3
        <5>2. Ahead(V, z, y)
          BY <1>7, <2>1, <2>4, <5>1 DEF Ahead
        <5>3. QED
          BY <2>0, <5>2
      <4>4. CASE i # 4
        <5>1. i \in 5..9 /\ Has(B[i], y)
          BY <1>10, <4>2, <4>4
        <5>2. Ahead(B, z, y)
          BY <1>7, <3>3, <3>6, <5>1 DEF Ahead
        <5>3. QED
          BY <1>9, <2>0, <4>1, <5>2
      <4>5. QED
        BY <4>3, <4>4
    <3>7. QED
      BY <3>4, <3>5, <3>6
  <2>5. QED
    BY <2>2, <2>3, <2>4
<1>14. Onward(Y, V, W)
  BY <1>1, <1>2, <1>11, <1>12, <1>13, IsOnward
<1>15. QED
  BY <1>14 DEF Y, V, W

\* The lines are as they were, or went on.
LinesOnward(p, e) ==
  \A b \in Used : Onward(Own(b), LineOf(p.sub[SubOf(b)], p.latency, p.dram, b),
                                 LineOf(e.sub[SubOf(b)], e.latency, e.dram, b))

\* A line depends on the queue to DRAM and the queues of the channel only.
LEMMA LineSame ==
  ASSUME NEW u, NEW v, NEW lat, NEW d, NEW e, NEW b, v.todram = u.todram, e.mrqq = d.mrqq, e.queue = d.queue,
         e.bank = d.bank, e.rwq = d.rwq
  PROVE  LineOf(v, lat, e, b) = LineOf(u, lat, d, b)
<1> DEFINE V == LineOf(u, lat, d, b)
           W == LineOf(v, lat, e, b)
           k == BankOfBlock[b]
<1>1. /\ V[4] = u.todram /\ V[5] = lat /\ V[6] = MfsOf(d.mrqq) /\ V[7] = MfsOf(d.queue[k])
      /\ V[8] = ServedBy(d, k) /\ V[9] = OnBus(d.rwq.slots) /\ \A m \in Stages \ (4..9) : V[m] = <<>>
  BY LineParts
<1>2. /\ W[4] = v.todram /\ W[5] = lat /\ W[6] = MfsOf(e.mrqq) /\ W[7] = MfsOf(e.queue[k])
      /\ W[8] = ServedBy(e, k) /\ W[9] = OnBus(e.rwq.slots) /\ \A m \in Stages \ (4..9) : W[m] = <<>>
  BY LineParts
<1>3. V = [m \in Stages |-> V[m]] /\ W = [m \in Stages |-> W[m]]
  BY DEF LineOf, Cut
<1> HIDE DEF V, W
<1>4. ServedBy(e, k) = ServedBy(d, k)
  BY DEF ServedBy
<1>5. \A m \in 4..9 : W[m] = V[m]
  <2>1. \A m \in 4..9 : m = 4 \/ m = 5 \/ m = 6 \/ m = 7 \/ m = 8 \/ m = 9
    OBVIOUS
  <2>2. QED
    BY <1>1, <1>2, <1>4, <2>1
<1>6. \A m \in Stages : W[m] = V[m]
  BY <1>1, <1>2, <1>5
<1>7. W = V
  BY <1>3, <1>6
<1>8. QED
  BY <1>7 DEF V, W

\* The return of a request from DRAM is past the line, and leaves it alone.
LEMMA ReturnOnward ==
  ASSUME NEW p, NEW arr, PartsOK(p, arr), setup \in Setups
  PROVE  LinesOnward(p, Return(p))
<1> DEFINE e == Return(p)
           d == p.dram
           x == Head(d.returnq).mf
           s == SubOf(Block(x))
           f == [d EXCEPT !.returnq = Tail(@)]
           v == [p.sub[s] EXCEPT !.fromdram = Append(@, x)]
<1>0. /\ DOMAIN p = PartFields /\ DOMAIN p.sub = Subs /\ DOMAIN d = ChannelFields
      /\ \A t \in Subs : DOMAIN p.sub[t] = Fields
  BY SliceSeqs, FieldsOfChannel DEF PartsOK, SliceOK, ChannelTypes
<1>1. CASE e = p
  BY <1>1, StayOnward DEF LinesOnward
<1>2. CASE e = [p EXCEPT !.sub[s].fromdram = Append(@, x), !.credit = ReturnCredit(@, s),
                         !.dram.returnq = Tail(@)]
  <2>1. e.sub = [p.sub EXCEPT ![s] = v] /\ e.latency = p.latency /\ e.dram = f
    BY <1>0, <1>2 DEF PartFields
  <2>2. f.mrqq = d.mrqq /\ f.queue = d.queue /\ f.bank = d.bank /\ f.rwq = d.rwq
    BY <1>0 DEF ChannelFields
  <2>3. s \in Subs => v.todram = p.sub[s].todram
    BY <1>0 DEF Fields
  <2> HIDE DEF e, f, v, s, d
  <2>4. \A t \in Subs : e.sub[t].todram = p.sub[t].todram
    <3> TAKE t \in Subs
    <3>1. e.sub[t] = IF t = s THEN v ELSE p.sub[t]
      BY <1>0, <2>1
    <3>2. QED
      BY <2>3, <3>1
  <2>5. \A b \in Used : LineOf(e.sub[SubOf(b)], e.latency, e.dram, b) = LineOf(p.sub[SubOf(b)], p.latency, d, b)
    BY <2>1, <2>2, <2>4, SliceOfUsed, LineSame
  <2>6. QED
    BY <2>5, StayOnward DEF LinesOnward, e, d
<1>3. QED
  BY <1>1, <1>2 DEF Return

\* A part of the cycle that carries requests on and leaves the queues of the slices alone.
LEMMA PartCarries ==
  ASSUME NEW p, NEW arr, PartsOK(p, arr), NEW e, PartsOK(e, arr), setup \in Setups,
         \A s \in Subs : e.sub[s].todram = p.sub[s].todram, Carries(p.latency, p.dram, e.latency, e.dram)
  PROVE  LinesOnward(p, e)
<1> SUFFICES ASSUME NEW b \in Used
             PROVE  Onward(Own(b), LineOf(p.sub[SubOf(b)], p.latency, p.dram, b),
                                   LineOf(e.sub[SubOf(b)], e.latency, e.dram, b))
  BY DEF LinesOnward
<1>1. SubOf(b) \in Subs
  BY SliceOfUsed
<1>2. /\ SliceOK(p.sub[SubOf(b)], SubOf(b), p.latency, p.dram, arr) /\ ChannelTypes(p.latency, p.dram)
      /\ SliceTypes(e.sub[SubOf(b)], SubOf(b), arr) /\ e.sub[SubOf(b)].todram = p.sub[SubOf(b)].todram
  BY <1>1 DEF PartsOK, SliceOK
<1>3. QED
  BY <1>1, <1>2, CarriesOnward

\* dram_t::cycle.
LEMMA DramOnward ==
  ASSUME NEW p, NEW arr, PartsOK(p, arr), setup \in Setups, RoomBehind(p.dram)
  PROVE  LinesOnward(p, Dram(p))
<1> DEFINE e == Dram(p)
           d == p.dram
           c == Completing(d)
           g == Transfer(d)
           f == DramCycled(d, setup.sched)
           lat == p.latency
           mid == [p EXCEPT !.sub = [s \in Subs |-> Completed(p.sub[s], c, s)], !.dram = g]
<1>0. /\ DOMAIN p = PartFields /\ DOMAIN p.sub = Subs /\ ChannelTypes(lat, d)
      /\ \A t \in Subs : SliceOK(p.sub[t], t, lat, d, arr)
      /\ DOMAIN p.credit = CreditFields /\ DOMAIN p.credit.private = Subs /\ p.credit.last \in Subs
  BY DEF PartsOK
<1>1. c # NoReq => c \in DramReqs
  BY <1>0, CompletingFacts
<1>2. /\ e.latency = lat /\ e.dram = f /\ \A s \in Subs : e.sub[s] = Completed(p.sub[s], c, s)
  BY <1>0, <1>1, DramRecord
<1>3. /\ ChannelTypes(lat, g) /\ g.mrqq = d.mrqq /\ g.queue = d.queue
      /\ c = NoReq \/ ~c.writeback => Carries(lat, d, lat, g)
      /\ c # NoReq /\ c.writeback => \A b \in Used :
           /\ \A m \in Stages \ {9} : Lane(lat, g, b)[m] = Lane(lat, d, b)[m]
           /\ IF c.mf \in Own(b) THEN Left(Own(b), Lane(lat, d, b)[9], Lane(lat, g, b)[9], c.mf)
                                 ELSE Kept(Own(b), Lane(lat, d, b)[9], Lane(lat, g, b)[9])
  BY <1>0, TransferMoves
<1>4. \A s \in Subs : SliceOK(Completed(p.sub[s], c, s), s, lat, g, arr)
  BY <1>0, TransferOK
<1>5. RoomBehind(g)
  BY <1>3 DEF RoomBehind, DramFull, Pending
<1>6. f = LET h == Schedule(g, setup.sched) IN Tick(Issue(h, Command(h)))
  BY DEF DramCycled
<1>7. PartsOK(e, arr)
  BY DramOK
<1>8. /\ mid.latency = lat /\ mid.dram = g /\ \A s \in Subs : mid.sub[s] = Completed(p.sub[s], c, s)
      /\ DOMAIN mid = PartFields /\ mid.credit = p.credit /\ DOMAIN mid.sub = Subs
  BY <1>0 DEF PartFields
<1>9. \A s \in Subs : Completed(p.sub[s], c, s).todram = p.sub[s].todram
  <2>1. \A s \in Subs : DOMAIN p.sub[s] = Fields
    BY <1>0, SliceSeqs DEF SliceOK
  <2> HIDE DEF c
  <2>2. QED
    BY <2>1 DEF Completed, Fields
<1> HIDE DEF e, c, g, f, mid
<1>10. Carries(lat, g, lat, f)
  BY <1>3, <1>5, <1>6, CommandsCarry
<1>11. PartsOK(mid, arr)
  <2>1. \A s \in Subs : SliceOK(mid.sub[s], s, lat, g, arr)
    BY <1>4, <1>8
  <2>2. QED
    BY <1>0, <1>3, <1>8, <2>1 DEF PartsOK
<1>12. LinesOnward(mid, e)
  <2>1. \A s \in Subs : e.sub[s].todram = mid.sub[s].todram
    BY <1>2, <1>8
  <2>2. Carries(mid.latency, mid.dram, e.latency, e.dram)
    BY <1>2, <1>8, <1>10
  <2>3. QED
    BY <1>7, <1>11, <2>1, <2>2, PartCarries
<1>13. LinesOnward(p, mid)
  <2>0. \A s \in Subs : mid.sub[s].todram = p.sub[s].todram
    BY <1>8, <1>9
  <2>1. CASE c = NoReq \/ ~c.writeback
    <3>1. Carries(p.latency, p.dram, mid.latency, mid.dram)
      BY <1>3, <1>8, <2>1
    <3>2. QED
      BY <1>11, <2>0, <3>1, PartCarries
  <2>2. CASE c # NoReq /\ c.writeback
    <3> SUFFICES ASSUME NEW b \in Used
                 PROVE  Onward(Own(b), LineOf(p.sub[SubOf(b)], p.latency, p.dram, b),
                                       LineOf(mid.sub[SubOf(b)], mid.latency, mid.dram, b))
      BY DEF LinesOnward
    <3> DEFINE u == p.sub[SubOf(b)]
               v == mid.sub[SubOf(b)]
               V == LineOf(u, lat, d, b)
               W == LineOf(v, lat, g, b)
    <3>1. SubOf(b) \in Subs
      BY SliceOfUsed
    <3>2. /\ SliceOK(u, SubOf(b), lat, d, arr) /\ SliceTypes(u, SubOf(b), arr) /\ SliceTypes(v, SubOf(b), arr)
          /\ v.todram = u.todram
      BY <1>0, <1>8, <1>11, <2>0, <3>1 DEF PartsOK, SliceOK
    <3>3. Once(Own(b), V) /\ Numbered(V) /\ Numbered(W)
      <4> HIDE DEF u, v, lat, d
      <4>1. Once(Own(b), V)
        BY <3>1, <3>2, LineOnce
      <4>2. Numbered(V) /\ Numbered(W)
        BY <1>0, <1>3, <3>1, <3>2, LineNumbered
      <4>3. QED
        BY <4>1, <4>2
    <3>4. V[4] = u.todram /\ (\A m \in 5..9 : V[m] = Lane(lat, d, b)[m]) /\ \A m \in Stages \ (4..9) : V[m] = <<>>
      BY LineParts
    <3>5. W[4] = v.todram /\ (\A m \in 5..9 : W[m] = Lane(lat, g, b)[m]) /\ \A m \in Stages \ (4..9) : W[m] = <<>>
      BY LineParts
    <3> HIDE DEF V, W, u, v
    <3>6. \A m \in Stages \ {9} : W[m] = V[m]
      <4>1. \A m \in 5..8 : W[m] = V[m]
        BY <1>3, <2>2, <3>4, <3>5 DEF Stages
      <4>2. QED
        BY <3>2, <3>4, <3>5, <4>1 DEF Stages
    <3>7. IF c.mf \in Own(b) THEN Left(Own(b), V[9], W[9], c.mf) ELSE Kept(Own(b), V[9], W[9])
      BY <1>3, <2>2, <3>4, <3>5
    <3>8. \A m \in Stages \ {9} : Kept(Own(b), V[m], W[m])
      BY <3>6, NothingMoves
    <3>9. 9 \in Stages /\ \A m \in Stages : 9 < m => \A y \in Own(b) : ~Has(V[m], y)
      BY <3>4 DEF Stages, Has
    <3>10. Onward(Own(b), V, W)
      <4>1. CASE c.mf \in Own(b)
        BY <3>3, <3>7, <3>8, <3>9, <4>1, EndsOnward
      <4>2. CASE c.mf \notin Own(b)
        <5>1. \A m \in Stages : Kept(Own(b), V[m], W[m])
          BY <3>7, <3>8, <4>2
        <5>2. QED
          BY <3>3, <5>1, KeptOnward
      <4>3. QED
        BY <4>1, <4>2
    <3>11. QED
      BY <1>8, <3>10 DEF V, W, u, v
  <2>3. QED
    BY <2>1, <2>2
<1>14. LinesOnward(p, e)
  BY <1>12, <1>13, GoOnward DEF LinesOnward
<1>15. QED
  BY <1>14 DEF e

\* The arbitration takes the first of a queue to DRAM to the end of the latency queue.
LEMMA ArbitrateOnward ==
  ASSUME NEW p, NEW arr, PartsOK(p, arr), setup \in Setups
  PROVE  LinesOnward(p, Arbitrate(p))
<1> DEFINE e == Arbitrate(p)
           d == p.dram
           lat == p.latency
<1>0. /\ DOMAIN p = PartFields /\ DOMAIN p.sub = Subs /\ ChannelTypes(lat, d)
      /\ \A t \in Subs : SliceOK(p.sub[t], t, lat, d, arr)
      /\ DOMAIN p.credit = CreditFields /\ DOMAIN p.credit.private = Subs /\ p.credit.last \in Subs
  BY DEF PartsOK
<1>1. \/ e = p
      \/ \E s \in Subs : p.sub[s].todram # <<>> /\ HasCredits(p.credit, s) /\ e = Sent(p, s)
  BY <1>0, ArbitrateCases
<1>2. CASE e = p
  BY <1>2, StayOnward DEF LinesOnward
<1>3. ASSUME NEW s \in Subs, p.sub[s].todram # <<>>, e = Sent(p, s) PROVE LinesOnward(p, e)
  <2> DEFINE u == p.sub[s]
             x == Head(u.todram)
             v == [u EXCEPT !.todram = Tail(@)]
             next == Append(lat, x)
  <2>1. e.sub = [p.sub EXCEPT ![s] = v] /\ e.latency = next /\ e.dram = d
    BY <1>0, <1>3 DEF PartFields, Sent
  <2>2. PartsOK(e, arr)
    BY ArbitrateOK
  <2>3. u.todram \in Seq(Mfs) /\ DOMAIN u = Fields /\ lat \in Seq(Mfs)
    BY <1>0, SliceSeqs DEF SliceOK, ChannelTypes
  <2>4. x \in Mfs /\ SubOf(Block(x)) = s
    BY <1>0, <1>3, SliceSends
  <2>5. v.todram = Tail(u.todram)
    BY <2>3 DEF Fields
  <2> HIDE DEF e, x, v
  <2>6. e.sub[s] = v /\ \A t \in Subs \ {s} : e.sub[t] = p.sub[t]
    BY <1>0, <2>1
  <2>7. ASSUME NEW b \in Used
        PROVE  Onward(Own(b), LineOf(p.sub[SubOf(b)], lat, d, b), LineOf(e.sub[SubOf(b)], next, d, b))
    <3> DEFINE k == SubOf(b)
               Y == Own(b)
               A == p.sub[k]
               B == e.sub[k]
               V == LineOf(A, lat, d, b)
               W == LineOf(B, next, d, b)
    <3>1. k \in Subs
      BY SliceOfUsed
    <3>2. /\ SliceOK(A, k, lat, d, arr) /\ SliceTypes(A, k, arr) /\ SliceTypes(B, k, arr) /\ ChannelTypes(next, d)
      BY <1>0, <2>1, <2>2, <3>1 DEF PartsOK, SliceOK
    <3>3. Once(Y, V) /\ Numbered(V) /\ Numbered(W)
      <4> HIDE DEF A, B, k, lat, d, next
      <4>0. k = SubOf(b)
        BY DEF k
      <4>1. Once(Y, LineOf(A, lat, d, b))
        BY <3>1, <3>2, <4>0, LineOnce
      <4>2. Numbered(LineOf(A, lat, d, b)) /\ Numbered(LineOf(B, next, d, b))
        BY <1>0, <3>1, <3>2, LineNumbered
      <4>3. QED
        BY <4>1, <4>2 DEF A, B
    <3>4. /\ V[4] = A.todram /\ V[5] = lat /\ V[6] = MfsOf(d.mrqq) /\ V[7] = MfsOf(d.queue[BankOfBlock[b]])
          /\ V[8] = ServedBy(d, BankOfBlock[b]) /\ V[9] = OnBus(d.rwq.slots)
          /\ \A m \in Stages \ (4..9) : V[m] = <<>>
      BY LineParts
    <3>5. /\ W[4] = B.todram /\ W[5] = next /\ W[6] = MfsOf(d.mrqq) /\ W[7] = MfsOf(d.queue[BankOfBlock[b]])
          /\ W[8] = ServedBy(d, BankOfBlock[b]) /\ W[9] = OnBus(d.rwq.slots)
          /\ \A m \in Stages \ (4..9) : W[m] = <<>>
      <4> HIDE DEF next, lat, d, k, B
      <4> QED  BY LineParts
    <3>6. IF x \in Y THEN Joined(Y, lat, next, x) ELSE Kept(Y, lat, next)
      BY <2>3, <2>4, TailJoins
    <3>7. k # s => B = A /\ x \notin Y
      BY <2>4, <2>6, <3>1 DEF Own
    <3>8. k = s => B.todram = Tail(A.todram) /\ A.todram # <<>> /\ Head(A.todram) = x /\ A.todram \in Seq(Mfs)
      BY <1>3, <2>3, <2>5, <2>6 DEF x
    <3> HIDE DEF V, W, A, B, k, lat, next, d, Y
    <3>9. \A m \in Stages \ {4, 5} : W[m] = V[m]
      <4>1. W[6] = V[6] /\ W[7] = V[7] /\ W[8] = V[8] /\ W[9] = V[9]
        BY <3>4, <3>5
      <4>2. \A m \in Stages \ (4..9) : W[m] = V[m]
        BY <3>4, <3>5
      <4>3. \A m \in Stages \ {4, 5} : m \in Stages \ (4..9) \/ m = 6 \/ m = 7 \/ m = 8 \/ m = 9
        BY DEF Stages
      <4>4. QED
        BY <4>1, <4>2, <4>3
    <3>10. \A m \in Stages \ {4, 5} : Kept(Y, V[m], W[m])
      BY <3>9, NothingMoves
    <3>11. 4 \in Stages /\ 5 \in Stages /\ 5 = 4 + 1
      BY DEF Stages
    <3>12. CASE k = s
      <4>1. IF x \in Y THEN Left(Y, A.todram, B.todram, x) ELSE Kept(Y, A.todram, B.todram)
        BY <3>8, <3>12, HeadLeaves
      <4>2. CASE x \in Y
        <5>1. Left(Y, V[4], W[4], x) /\ Joined(Y, V[5], W[5], x)
          BY <3>4, <3>5, <3>6, <4>1, <4>2
        <5>2. QED
          BY <3>3, <3>10, <3>11, <4>2, <5>1, MovedOnward DEF V, W, Y, A, B, k
      <4>3. CASE x \notin Y
        <5>1. Kept(Y, V[4], W[4]) /\ Kept(Y, V[5], W[5])
          BY <3>4, <3>5, <3>6, <4>1, <4>3
        <5>2. \A m \in Stages : Kept(Y, V[m], W[m])
          BY <3>10, <5>1
        <5>3. QED
          BY <3>3, <5>2, KeptOnward DEF V, W, Y, A, B, k
      <4>4. QED
        BY <4>2, <4>3
    <3>13. CASE k # s
      <4>1. Kept(Y, V[4], W[4]) /\ Kept(Y, V[5], W[5])
        BY <3>4, <3>5, <3>6, <3>7, <3>13, NothingMoves
      <4>2. \A m \in Stages : Kept(Y, V[m], W[m])
        BY <3>10, <4>1
      <4>3. QED
        BY <3>3, <4>2, KeptOnward DEF V, W, Y, A, B, k
    <3>14. QED
      BY <3>12, <3>13
  <2>8. QED
    BY <2>1, <2>7 DEF LinesOnward
<1>4. QED
  BY <1>1, <1>2, <1>3

\* A request whose latency is over goes on to the channel.
LEMMA LeaveLatencyOnward ==
  ASSUME NEW p, NEW arr, PartsOK(p, arr), setup \in Setups, NEW ripe,
         setup.sched = "frfcfs" => Len(p.dram.mrqq) < MrqqSize
  PROVE  LinesOnward(p, LeaveLatency(p, ripe))
<1> DEFINE e == LeaveLatency(p, ripe)
           d == p.dram
           lat == p.latency
           f == DramPush(d, DramReq(Head(lat)))
<1>0. DOMAIN p = PartFields /\ ChannelTypes(lat, d)
  BY DEF PartsOK
<1>1. CASE e = p
  BY <1>1, StayOnward DEF LinesOnward
<1>2. CASE lat # <<>> /\ ~DramFull(d, setup.sched) /\ e = [p EXCEPT !.latency = Tail(@), !.dram = f]
  <2>1. e.sub = p.sub /\ e.latency = Tail(lat) /\ e.dram = f
    BY <1>0, <1>2 DEF PartFields
  <2>2. Carries(lat, d, Tail(lat), f)
    BY <1>0, <1>2, LeaveLatencyCarries
  <2>3. PartsOK(e, arr)
    BY LeaveLatencyOK
  <2> HIDE DEF e, f
  <2>4. (\A s \in Subs : e.sub[s].todram = p.sub[s].todram) /\ Carries(p.latency, p.dram, e.latency, e.dram)
    BY <2>1, <2>2
  <2>5. LinesOnward(p, e)
    BY <2>3, <2>4, PartCarries
  <2>6. QED
    BY <2>5 DEF e
<1>3. QED
  BY <1>1, <1>2 DEF LeaveLatency

\* dram_cycle, part by part.
LEMMA CycleOnward ==
  ASSUME Tracking, NEW ripe
  PROVE  LinesOnward(Now, Cycle(ripe))
<1> DEFINE p == Now
           r == Return(p)
           d == Dram(r)
           a == Arbitrate(d)
           e == LeaveLatency(a, ripe)
<1>0. PartsOK(p, arrived) /\ RoomBehind(p.dram) /\ setup \in Setups
  BY NowOK
<1> HIDE DEF p
<1>1. PartsOK(r, arrived) /\ r.dram.mrqq = p.dram.mrqq /\ r.dram.queue = p.dram.queue /\ LinesOnward(p, r)
  BY <1>0, ReturnOK, ReturnOnward
<1> HIDE DEF r
<1>2. RoomBehind(r.dram)
  BY <1>0, <1>1 DEF RoomBehind, DramFull, Pending
<1>3. /\ PartsOK(d, arrived) /\ LinesOnward(r, d)
      /\ setup.sched = "frfcfs" => Len(d.dram.mrqq) < MrqqSize
  BY <1>0, <1>1, <1>2, DramOK, DramOnward
<1> HIDE DEF d
<1>4. PartsOK(a, arrived) /\ a.dram = d.dram /\ LinesOnward(d, a)
  BY <1>0, <1>3, ArbitrateOK, ArbitrateOnward
<1> HIDE DEF a
<1>5. LinesOnward(a, e)
  BY <1>0, <1>3, <1>4, LeaveLatencyOnward
<1>6. LinesOnward(p, e)
  <2>1. ASSUME NEW f, NEW g, NEW h, LinesOnward(f, g), LinesOnward(g, h) PROVE LinesOnward(f, h)
    BY <2>1, GoOnward DEF LinesOnward
  <2> HIDE DEF e
  <2>2. LinesOnward(p, d) /\ LinesOnward(d, e)
    BY <1>1, <1>3, <1>4, <1>5, <2>1
  <2>3. QED
    BY <2>1, <2>2
<1>7. QED
  BY <1>6 DEF Cycle, e, a, d, r, p

\* A queue that requests are only pushed to.
Grows(q, r) ==
  /\ DOMAIN q \subseteq DOMAIN r /\ \A i \in DOMAIN q : r[i] = q[i]
  /\ \A i \in DOMAIN q : \A j \in DOMAIN r \ DOMAIN q : i < j

\* Pushes after pushes.
LEMMA GrowsOn ==
  ASSUME NEW q, NEW r, NEW t, Grows(q, r), Grows(r, t) PROVE Grows(q, t)
BY DEF Grows

\* One push, or none.
LEMMA GrowsByOne ==
  ASSUME NEW q \in Seq(Mfs), NEW x \in Mfs PROVE Grows(q, Append(q, x)) /\ Grows(q, q)
<1> DEFINE r == Append(q, x)
<1>1. Len(q) \in Nat /\ DOMAIN q = 1..Len(q) /\ DOMAIN r = 1..(Len(q) + 1) /\ \A i \in 1..Len(q) : r[i] = q[i]
  OBVIOUS
<1> HIDE DEF r
<1>2. Grows(q, r) /\ Grows(q, q)
  BY <1>1 DEF Grows
<1>3. QED
  BY <1>2 DEF r

\* The parts of cache_cycle that leave the queue to DRAM alone.
LEMMA TodramAlone ==
  ASSUME NEW u, DOMAIN u = Fields, NEW ripe, NEW r
  PROVE  /\ Reply(u).todram = u.todram /\ Forward(u).todram = u.todram
         /\ LeaveRop(u, ripe).todram = u.todram /\ Pushed(u, r).todram = u.todram
<1>1. Reply(u).todram = u.todram
  BY DEF Reply, Fields
<1>2. Forward(u).todram = u.todram
  BY DEF Forward, Fields
<1>3. LeaveRop(u, ripe).todram = u.todram
  BY DEF LeaveRop, Fields
<1>4. Pushed(u, r).todram = u.todram
  BY DEF Pushed, Fields
<1>5. QED
  BY <1>1, <1>2, <1>3, <1>4

\* baseline_cache::cycle pushes a miss to the queue to DRAM.
LEMMA SendMissGrows ==
  ASSUME NEW s, NEW u, NEW arr, SliceTypes(u, s, arr)
  PROVE  Grows(u.todram, SendMiss(u).todram)
<1>1. DOMAIN u = Fields /\ u.todram \in Seq(Mfs) /\ u.missq \in Seq(Mfs)
  BY SliceSeqs
<1>2. \/ SendMiss(u).todram = u.todram
      \/ u.missq # <<>> /\ SendMiss(u).todram = Append(u.todram, Head(u.missq))
  BY <1>1 DEF SendMiss, Fields
<1>3. u.missq # <<>> => Head(u.missq) \in Mfs
  <2> DEFINE q == u.missq
  <2> HIDE DEF q
  <2>1. q \in Seq(Mfs) /\ (q # <<>> => Head(q) \in Mfs)
    BY <1>1 DEF q
  <2>2. QED
    BY <2>1 DEF q
<1>4. Grows(u.todram, u.todram)
  BY DEF Grows
<1>5. QED
  BY <1>1, <1>2, <1>3, <1>4, GrowsByOne

\* memory_sub_partition::cache_cycle pushes what bypasses the L2 to the queue to DRAM,
\* and an access to the L2 leaves that queue alone.
LEMMA AccessedGrows ==
  ASSUME NEW s, NEW u, NEW arr, SliceTypes(u, s, arr), NEW v \in Accessed(u)
  PROVE  Grows(u.todram, v.todram)
<1> DEFINE x == Head(u.in)
<1>1. DOMAIN u = Fields /\ u.todram \in Seq(Mfs) /\ u.in \in Seq(Mfs)
  BY SliceSeqs
<1>2. Grows(u.todram, u.todram)
  BY DEF Grows
<1>3. CASE v = u
  BY <1>2, <1>3
<1>4. CASE u.in # <<>> /\ v = [u EXCEPT !.in = Tail(@), !.todram = Append(@, x)]
  <2>1. v.todram = Append(u.todram, x)
    BY <1>1, <1>4 DEF Fields
  <2>2. x \in Mfs
    <3> DEFINE q == u.in
    <3> HIDE DEF q
    <3>1. q \in Seq(Mfs) /\ q # <<>>
      BY <1>1, <1>4 DEF q
    <3>2. Head(q) \in Mfs
      BY <3>1
    <3>3. QED
      BY <3>2 DEF q
  <2>3. QED
    BY <1>1, <2>1, <2>2, GrowsByOne
<1>5. CASE v = Hit(u, x)
  <2>1. v.todram = u.todram
    BY <1>1, <1>5 DEF Hit, Fields
  <2>2. QED
    BY <1>2, <2>1
<1>6. CASE \E w \in Victims(u, Block(x)) : v = Miss(u, x, w)
  <2>1. v.todram = u.todram
    BY <1>1, <1>6 DEF Miss, Fields
  <2>2. QED
    BY <1>2, <2>1
<1>7. QED
  <2> DEFINE pass == [u EXCEPT !.in = Tail(@), !.todram = Append(@, x)]
  <2>1. \/ v = u \/ (u.in # <<>> /\ v = pass) \/ v = Hit(u, x)
        \/ \E w \in Victims(u, Block(x)) : v = Miss(u, x, w)
    <3> HIDE DEF pass, x
    <3> QED  BY DEF Accessed, pass, x
  <2>2. QED
    BY <1>3, <1>4, <1>5, <1>6, <2>1

\* A cycle of the L2 domain only pushes to the queue to DRAM of a slice.
LEMMA CycledGrows ==
  ASSUME NEW s \in Subs, SliceOK(sub[s], s, latency, dram, arrived), setup \in Setups,
         NEW ripe, NEW c \in Cycled(s, ripe)
  PROVE  Grows(sub[s].todram, c.slice.todram)
<1>1. ASSUME NEW u, NEW arr, SliceOK(u, s, latency, dram, arr), NEW v \in Accessed(SendMiss(Forward(Reply(u))))
      PROVE  Grows(u.todram, LeaveRop(v, ripe).todram)
  <2> DEFINE f == Forward(Reply(u))
             m == SendMiss(f)
  <2>1. SliceOK(Reply(u), s, latency, dram, arr)
    BY <1>1, ReplyOK
  <2>2. SliceOK(f, s, latency, dram, arr)
    BY <2>1, ForwardOK
  <2>3. SliceOK(m, s, latency, dram, arr)
    BY <2>2, SendMissOK
  <2>4. SliceOK(v, s, latency, dram, arr)
    BY <1>1, <2>3, AccessedOK
  <2>5. f.todram = u.todram
    <3>1. DOMAIN u = Fields /\ DOMAIN Reply(u) = Fields
      BY <1>1, <2>1, SliceSeqs DEF SliceOK
    <3>2. QED
      BY <3>1, TodramAlone
  <2>6. Grows(f.todram, m.todram)
    <3> HIDE DEF f
    <3> QED  BY <2>2, SendMissGrows DEF SliceOK
  <2>7. Grows(m.todram, v.todram)
    <3> HIDE DEF m
    <3>1. v \in Accessed(m)
      BY <1>1 DEF m, f
    <3>2. QED
      BY <2>3, <3>1, AccessedGrows DEF SliceOK
  <2>8. LeaveRop(v, ripe).todram = v.todram
    <3>1. DOMAIN v = Fields
      BY <2>4, SliceSeqs DEF SliceOK
    <3>2. QED
      BY <3>1, TodramAlone
  <2> HIDE DEF f, m
  <2>9. QED
    BY <2>5, <2>6, <2>7, <2>8, GrowsOn
<1>2. \/ c.r = {} /\ \E v \in Accessed(SendMiss(Forward(Reply(sub[s])))) : c.slice = LeaveRop(v, ripe)
      \/ \E r \in {q \in Arrivals(s) : ~Full(sub[s].in, InSize)} :
           /\ c.r = {r}
           /\ \E v \in Accessed(SendMiss(Forward(Reply(Pushed(sub[s], r))))) : c.slice = LeaveRop(v, ripe)
  BY CycledCases
<1>3. CASE \E v \in Accessed(SendMiss(Forward(Reply(sub[s])))) : c.slice = LeaveRop(v, ripe)
  BY <1>1, <1>3
<1>4. ASSUME NEW r \in Arrivals(s), ~Full(sub[s].in, InSize),
             \E v \in Accessed(SendMiss(Forward(Reply(Pushed(sub[s], r))))) : c.slice = LeaveRop(v, ripe)
      PROVE  Grows(sub[s].todram, c.slice.todram)
  <2>1. r \in Reqs /\ r \notin arrived /\ SubOf(setup.reqs[r].block) = s
    BY DEF Arrivals
  <2>2. SliceOK(Pushed(sub[s], r), s, latency, dram, arrived \cup {r})
    BY <1>4, <2>1, PushedOK
  <2>3. Pushed(sub[s], r).todram = sub[s].todram
    BY SliceSeqs, TodramAlone DEF SliceOK
  <2>4. QED
    BY <1>1, <1>4, <2>2, <2>3
<1>5. QED
  BY <1>2, <1>3, <1>4

\* Of two requests the one in front stays there until it leaves, and nobody gets in front
\* of who is there.
OrderHeld(Y, V, W) ==
  \A y, z \in Y : /\ Ahead(V, y, z) /\ Stands(W, y) => Ahead(W, y, z)
                  /\ Ahead(W, y, z) /\ Stands(V, z) => Ahead(V, y, z)

\* Requests that go on keep their order.
LEMMA OnwardHeld == ASSUME NEW Y, NEW V, NEW W, Onward(Y, V, W) PROVE OrderHeld(Y, V, W)
BY DEF Onward, OrderHeld

\* Requests that join the last queue of a line come behind those in it.
LEMMA GrowsHeld ==
  ASSUME NEW Y, NEW V, NEW W, Once(Y, W), NEW k \in Stages, Grows(V[k], W[k]),
         \A m \in Stages \ {k} : W[m] = V[m], \A m \in Stages : m < k => V[m] = <<>>, DOMAIN V[k] \subseteq Nat,
         DOMAIN W[k] \subseteq Nat
  PROVE  OrderHeld(Y, V, W)
<1>1. \A m \in Stages : \A y : Has(V[m], y) => Has(W[m], y)
  BY DEF Has, Grows
<1>2. \A m \in Stages : \A y, z : Before(V[m], y, z) => Before(W[m], y, z)
  BY DEF Before, Grows
<1>3. \A y, z : Ahead(V, y, z) => Ahead(W, y, z)
  BY <1>1, <1>2 DEF Ahead
<1>4. \A y, z \in Stages : y = z \/ y < z \/ z < y
  BY DEF Stages
<1>5. ASSUME NEW z \in Y, Stands(V, z), NEW j \in DOMAIN W[k], W[k][j] = z PROVE j \in DOMAIN V[k]
  <2> SUFFICES ASSUME j \notin DOMAIN V[k] PROVE FALSE
    OBVIOUS
  <2>1. PICK m \in Stages : Has(V[m], z)
    BY <1>5 DEF Stands
  <2>2. CASE m = k
    <3>1. PICK i \in DOMAIN V[k] : V[k][i] = z
      BY <2>1, <2>2 DEF Has
    <3>2. i \in DOMAIN W[k] /\ W[k][i] = z /\ i < j
      BY <3>1 DEF Grows
    <3>3. Ahead(W, z, z)
      BY <1>5, <3>2 DEF Ahead, Before
    <3>4. QED
      BY <3>3 DEF Once
  <2>3. CASE m # k
    <3>1. Has(W[m], z) /\ Has(W[k], z)
      BY <1>1, <1>5, <2>1 DEF Has
    <3>2. m < k \/ k < m
      BY <1>4, <2>3
    <3>3. Ahead(W, z, z)
      BY <3>1, <3>2 DEF Ahead
    <3>4. QED
      BY <3>3 DEF Once
  <2>4. QED
    BY <2>2, <2>3
<1>6. ASSUME NEW y \in Y, NEW z \in Y, Ahead(W, y, z), Stands(V, z) PROVE Ahead(V, y, z)
  <2>1. CASE \E m \in Stages : Before(W[m], y, z)
    <3>1. PICK m \in Stages : Before(W[m], y, z)
      BY <2>1
    <3>2. CASE m # k
      BY <3>1, <3>2 DEF Ahead
    <3>3. CASE m = k
      <4>1. PICK i \in DOMAIN W[k], j \in DOMAIN W[k] : i < j /\ W[k][i] = y /\ W[k][j] = z
        BY <3>1, <3>3 DEF Before
      <4>2. j \in DOMAIN V[k]
        BY <1>5, <1>6, <4>1
      <4>3. i \in DOMAIN V[k]
        <5>1. i \in Nat /\ j \in Nat
          OBVIOUS
        <5>2. i \notin DOMAIN V[k] => j < i
          BY <4>2 DEF Grows
        <5>3. QED
          BY <4>1, <5>1, <5>2
      <4>4. V[k][i] = y /\ V[k][j] = z
        BY <4>1, <4>2, <4>3 DEF Grows
      <4>5. QED
        BY <4>1, <4>2, <4>3, <4>4 DEF Ahead, Before
    <3>4. QED
      BY <3>2, <3>3
  <2>2. CASE \E m, n \in Stages : m < n /\ Has(W[n], y) /\ Has(W[m], z)
    <3>1. PICK m \in Stages, n \in Stages : m < n /\ Has(W[n], y) /\ Has(W[m], z)
      BY <2>2
    <3>2. ~(m < k)
      <4>1. m < k => W[m] = <<>>
        BY DEF Stages
      <4>2. QED
        BY <3>1, <4>1 DEF Has
    <3>3. n # k /\ Has(V[n], y)
      BY <3>1, <3>2
    <3>4. Has(V[m], z)
      <4>1. CASE m = k
        <5>1. PICK j \in DOMAIN W[k] : W[k][j] = z
          BY <3>1, <4>1 DEF Has
        <5>2. j \in DOMAIN V[k]
          BY <1>5, <1>6, <5>1
        <5>3. QED
          BY <4>1, <5>1, <5>2 DEF Has, Grows
      <4>2. CASE m # k
        BY <3>1, <4>2
      <4>3. QED
        BY <4>1, <4>2
    <3>5. QED
      BY <3>1, <3>3, <3>4 DEF Ahead
  <2>3. QED
    BY <1>6, <2>1, <2>2 DEF Ahead
<1>7. QED
  BY <1>3, <1>6 DEF OrderHeld

\* The line of a block, before and after a step.
TheLine(b) == LineOf(sub[SubOf(b)], latency, dram, b)
NextLine(b) == LineOf(sub'[SubOf(b)], latency', dram', b)

\* A step that leaves the queues to DRAM and the channel alone.
LEMMA LinesAlone ==
  ASSUME Tracking, \A s \in Subs : sub'[s].todram = sub[s].todram, latency' = latency, dram' = dram
  PROVE  \A b \in Used : OrderHeld(Own(b), TheLine(b), NextLine(b))
<1> SUFFICES ASSUME NEW b \in Used PROVE OrderHeld(Own(b), TheLine(b), NextLine(b))
  OBVIOUS
<1>1. SubOf(b) \in Subs
  BY SliceOfUsed DEF Tracking, Slices
<1>2. NextLine(b) = TheLine(b)
  <2> DEFINE u == sub[SubOf(b)]
             v == sub'[SubOf(b)]
             d == dram
             e == dram'
  <2>1. v.todram = u.todram /\ e = d
    BY <1>1
  <2> HIDE DEF u, v, d, e
  <2>2. LineOf(v, latency, e, b) = LineOf(u, latency, d, b)
    BY <2>1, LineSame
  <2>3. QED
    BY <2>2 DEF TheLine, NextLine, u, v, d, e
<1>3. QED
  BY <1>2, StayOnward, OnwardHeld

\* The L2 domain.
LEMMA L2CycleHeld ==
  ASSUME Tracking, NEW ripe, L2Cycle(ripe)
  PROVE  \A b \in Used : OrderHeld(Own(b), TheLine(b), NextLine(b))
<1>1. PICK c \in [Subs -> UNION {Cycled(s, s \in ripe) : s \in Subs}] :
       /\ \A s \in Subs : c[s] \in Cycled(s, s \in ripe)
       /\ sub' = [s \in Subs |-> c[s].slice]
  BY DEF L2Cycle
<1>2. latency' = latency /\ dram' = dram
  BY DEF L2Cycle
<1> SUFFICES ASSUME NEW b \in Used PROVE OrderHeld(Own(b), TheLine(b), NextLine(b))
  OBVIOUS
<1> DEFINE s == SubOf(b)
           u == sub[s]
           v == sub'[s]
           V == LineOf(u, latency, dram, b)
           W == LineOf(v, latency, dram, b)
<1>3. s \in Subs /\ setup \in Setups /\ SliceOK(u, s, latency, dram, arrived) /\ ChannelTypes(latency, dram)
  BY SliceOfUsed DEF Tracking, Slices
<1>4. v = c[s].slice /\ c[s] \in Cycled(s, s \in ripe)
  BY <1>1, <1>3
<1>5. Grows(u.todram, v.todram)
  BY <1>3, <1>4, CycledGrows
<1>6. SliceOK(v, s, latency, dram, arrived \cup c[s].r)
  BY <1>3, <1>4, CycledOK
<1>7. NextLine(b) = W /\ TheLine(b) = V
  BY <1>2 DEF TheLine, NextLine
<1>8. s = SubOf(b)
  OBVIOUS
<1> HIDE DEF s, u, v, V, W
<1>9. SliceTypes(u, s, arrived) /\ SliceTypes(v, s, arrived \cup c[s].r)
  BY <1>3, <1>6 DEF SliceOK
<1>10. Once(Own(b), W) /\ Numbered(V) /\ Numbered(W)
  <2>1. Once(Own(b), W)
    BY <1>3, <1>6, <1>8, LineOnce DEF W
  <2>2. Numbered(V) /\ Numbered(W)
    BY <1>3, <1>9, LineNumbered DEF V, W
  <2>3. QED
    BY <2>1, <2>2
<1>11. V[4] = u.todram /\ (\A m \in 5..9 : V[m] = Lane(latency, dram, b)[m])
       /\ \A m \in Stages \ (4..9) : V[m] = <<>>
  BY LineParts DEF V
<1>12. W[4] = v.todram /\ (\A m \in 5..9 : W[m] = Lane(latency, dram, b)[m])
       /\ \A m \in Stages \ (4..9) : W[m] = <<>>
  BY LineParts DEF W
<1>13. 4 \in Stages /\ (\A m \in Stages \ {4} : W[m] = V[m]) /\ \A m \in Stages : m < 4 => V[m] = <<>>
  <2>1. \A m \in Stages \ {4} : m \in 5..9 \/ m \in Stages \ (4..9)
    BY DEF Stages
  <2>2. \A m \in Stages : m < 4 => m \in Stages \ (4..9)
    BY DEF Stages
  <2>3. 4 \in Stages
    BY DEF Stages
  <2>4. QED
    BY <1>11, <1>12, <2>1, <2>2, <2>3
<1>14. Grows(V[4], W[4]) /\ DOMAIN V[4] \subseteq Nat /\ DOMAIN W[4] \subseteq Nat
  BY <1>5, <1>10, <1>11, <1>12, <1>13 DEF Numbered
<1>15. OrderHeld(Own(b), V, W)
  BY <1>10, <1>13, <1>14, GrowsHeld
<1>16. QED
  BY <1>7, <1>15

\* No step changes the order of two requests of a block.
LEMMA StepHeld ==
  ASSUME Tracking, [Next]_vars
  PROVE  (\A b \in Used : OrderHeld(Own(b), TheLine(b), NextLine(b))) /\ setup' = setup
<1>0. /\ DOMAIN sub = Subs /\ setup \in Setups /\ \A s \in Subs : DOMAIN sub[s] = Fields
  BY SliceSeqs DEF Tracking, Slices, SliceOK
<1>1. CASE Flush
  <2>1. sub' = [sub EXCEPT ![0].line = EmptySlice.line] /\ latency' = latency /\ dram' = dram /\ setup' = setup
    BY <1>1 DEF Flush
  <2>2. \A s \in Subs : sub'[s].todram = sub[s].todram
    BY <1>0, <2>1 DEF Fields
  <2>3. QED
    BY <2>1, <2>2, LinesAlone
<1>2. ASSUME NEW ripe, L2Cycle(ripe)
      PROVE  (\A b \in Used : OrderHeld(Own(b), TheLine(b), NextLine(b))) /\ setup' = setup
  <2>1. setup' = setup
    BY <1>2 DEF L2Cycle
  <2>2. QED
    BY <1>2, <2>1, L2CycleHeld
<1>3. ASSUME NEW ready \in SUBSET Subs, Respond(ready)
      PROVE  (\A b \in Used : OrderHeld(Own(b), TheLine(b), NextLine(b))) /\ setup' = setup
  <2> DEFINE takes == {s \in ready : sub[s].out # <<>>}
             done  == {Head(sub[s].out)[2] : s \in takes}
  <2>1. /\ sub' = [s \in Subs |-> IF s \in takes THEN [sub[s] EXCEPT !.out = Tail(@), !.tracker = @ \ done]
                                  ELSE sub[s]]
        /\ latency' = latency /\ dram' = dram /\ setup' = setup
    BY <1>3 DEF Respond
  <2> HIDE DEF takes, done
  <2>2. \A s \in Subs : sub'[s].todram = sub[s].todram
    BY <1>0, <2>1 DEF Fields
  <2>3. QED
    BY <2>1, <2>2, LinesAlone
<1>4. ASSUME NEW ripe, DramCycle(ripe)
      PROVE  (\A b \in Used : OrderHeld(Own(b), TheLine(b), NextLine(b))) /\ setup' = setup
  <2> DEFINE e == Cycle(ripe)
  <2>1. sub' = e.sub /\ latency' = e.latency /\ dram' = e.dram /\ setup' = setup
    BY <1>4, CycleIs
  <2>2. LinesOnward(Now, e)
    BY CycleOnward
  <2>3. Now.sub = sub /\ Now.latency = latency /\ Now.dram = dram
    BY DEF Now
  <2> HIDE DEF e
  <2>4. \A b \in Used : Onward(Own(b), TheLine(b), NextLine(b))
    BY <2>1, <2>2, <2>3 DEF LinesOnward, TheLine, NextLine
  <2>5. QED
    BY <2>1, <2>4, OnwardHeld
<1>5. CASE UNCHANGED vars
  <2>1. sub' = sub /\ latency' = latency /\ dram' = dram /\ setup' = setup
    BY <1>5 DEF vars
  <2>2. QED
    BY <2>1, LinesAlone
<1>6. QED
  BY <1>1, <1>2, <1>3, <1>4, <1>5 DEF Next

\* The queues of Line(b) are those of TheLine(b), from its end.
LEMMA QueuesOfLine ==
  ASSUME Tracking, NEW b \in Used, NEW k \in 1..6
  PROVE  /\ 10 - k \in 4..9
         /\ \A i \in DOMAIN Line(b)[k] : Line(b)[k][i] \in Mfs
         /\ \A y \in Own(b) : Has(Line(b)[k], y) <=> Has(TheLine(b)[10 - k], y)
         /\ \A y, z \in Own(b) : Before(Line(b)[k], y, z) <=> Before(TheLine(b)[10 - k], y, z)
<1> DEFINE L == Line(b)
           W == TheLine(b)
           n == BankOfBlock[b]
           t == sub[SubOf(b)].todram
<1>1. /\ L[1] = Data /\ L[2] = Served(n) /\ L[3] = MfsOf(dram.queue[n]) /\ L[4] = MfsOf(dram.mrqq)
      /\ L[5] = latency /\ L[6] = t
  BY DEF Line
<1>2. /\ W[4] = t /\ W[5] = latency /\ W[6] = MfsOf(dram.mrqq) /\ W[7] = MfsOf(dram.queue[n])
      /\ W[8] = ServedBy(dram, n) /\ W[9] = OnBus(dram.rwq.slots)
  BY LineParts DEF TheLine
<1>3. Served(n) = ServedBy(dram, n)
  BY DEF Served, ServedBy
<1>4. /\ setup \in Setups /\ ChannelTypes(latency, dram) /\ SubOf(b) \in Subs
      /\ SliceTypes(sub[SubOf(b)], SubOf(b), arrived)
  BY SliceOfUsed DEF Tracking, Slices, SliceOK
<1>5. n \in Banks
  BY <1>4, BanksOfBlocks
<1>6. t \in Seq(Mfs) /\ latency \in Seq(Mfs) /\ dram.mrqq \in Seq(DramReqs) /\ dram.queue[n] \in Seq(DramReqs)
      /\ (dram.bank[n].mrq # NoReq => dram.bank[n].mrq \in DramReqs)
  BY <1>4, <1>5, SliceSeqs DEF ChannelTypes
<1>7. dram.rwq.slots \in Seq(Transfers \cup {NoReq})
  BY <1>4, PipeOfChannel DEF PipeOK
<1>8. \A q \in Seq(Mfs) : \A i \in DOMAIN q : q[i] \in Mfs
  OBVIOUS
<1>9. \A q \in Seq(DramReqs) : \A i \in DOMAIN MfsOf(q) : MfsOf(q)[i] \in Mfs
  BY MfsFacts, <1>8
<1>10. /\ \A i \in DOMAIN Data : Data[i] \in Mfs
       /\ \A y \in Own(b) : Has(Data, y) <=> Has(OnBus(dram.rwq.slots), y)
       /\ \A y, z \in Own(b) : Before(Data, y, z) <=> Before(OnBus(dram.rwq.slots), y, z)
  <2> DEFINE q == dram.rwq.slots
             D == Data
             O == OnBus(q)
             C == Complete(q)
  <2>1. D = [i \in C |-> q[i].req.mf] /\ O = [i \in DOMAIN q |-> IF i \in C THEN q[i].req.mf ELSE <<>>]
        /\ C = {i \in DOMAIN q : q[i] # NoReq /\ q[i].atom >= q[i].req.n}
    BY DEF Data, OnBus, Complete
  <2>2. q \in Seq(Transfers \cup {NoReq})
    BY <1>7
  <2> HIDE DEF q, D, O, C
  <2>3. \A i \in C : q[i].req \in DramReqs /\ i \in DOMAIN q
    <3> TAKE i \in C
    <3>1. i \in DOMAIN q /\ q[i] # NoReq
      BY <2>1
    <3>2. q[i] \in Transfers
      BY <2>2, <3>1
    <3>3. QED
      BY <3>1, <3>2 DEF Transfers
  <2>4. \A i \in C : D[i] \in Mfs /\ O[i] = D[i]
    BY <2>1, <2>3, OwnRequests
  <2>5. \A y \in Own(b) : \A i \in DOMAIN O : O[i] = y => i \in C
    <3>1. <<>> \notin Own(b)
      BY DEF Own, Mfs
    <3>2. QED
      BY <2>1, <3>1
  <2>6. DOMAIN D = C /\ C \subseteq DOMAIN O
    BY <2>1
  <2>7. QED
    BY <2>4, <2>5, <2>6 DEF Has, Before, D, O, q
<1>11. \A i \in DOMAIN Served(n) : Served(n)[i] \in Mfs
  <2>1. dram.bank[n].mrq # NoReq => dram.bank[n].mrq.mf \in Mfs
    BY <1>6, OwnRequests
  <2>2. QED
    BY <2>1 DEF Served
<1> HIDE DEF L, W, n, t
<1>12. k = 1 \/ k = 2 \/ k = 3 \/ k = 4 \/ k = 5 \/ k = 6
  OBVIOUS
<1>13. \A i \in DOMAIN L[k] : L[k][i] \in Mfs
  BY <1>1, <1>6, <1>8, <1>9, <1>10, <1>11, <1>12
<1>14. CASE k # 1
  <2>1. L[k] = W[10 - k]
    BY <1>1, <1>2, <1>3, <1>12, <1>14
  <2>2. QED
    BY <1>13, <2>1 DEF L, W
<1>15. CASE k = 1
  <2>1. L[k] = Data /\ W[10 - k] = OnBus(dram.rwq.slots)
    BY <1>1, <1>2, <1>15
  <2>2. QED
    BY <1>10, <1>13, <2>1 DEF L, W
<1>16. QED
  BY <1>14, <1>15

\* Who is in front of whom, by the queues and the places in them.
LEMMA InFrontIs ==
  ASSUME NEW b, NEW e
  PROVE  e \in InFront(b) <=> \E k, l \in 1..6 : \E i \in DOMAIN Line(b)[k] : \E j \in DOMAIN Line(b)[l] :
           /\ Block(Line(b)[k][i]) = b /\ Block(Line(b)[l][j]) = b /\ (k < l \/ (k = l /\ i < j))
           /\ e = <<Line(b)[k][i], Line(b)[l][j]>>
<1> DEFINE L == Line(b)
           P(k) == {<<k, i>> : i \in {j \in DOMAIN L[k] : Block(L[k][j]) = b}}
           spots == UNION {P(k) : k \in 1..6}
           pairs == {p \in spots \X spots : (p[1][1] < p[2][1]) \/ (p[1][1] = p[2][1] /\ p[1][2] < p[2][2])}
<1>1. InFront(b) = {<<L[p[1][1]][p[1][2]], L[p[2][1]][p[2][2]]>> : p \in pairs}
  BY DEF InFront
<1> HIDE DEF L
<1>2. \A s : s \in spots <=> \E k \in 1..6 : \E i \in DOMAIN L[k] : Block(L[k][i]) = b /\ s = <<k, i>>
  <2>1. \A k : \A s : s \in P(k) <=> \E i \in DOMAIN L[k] : Block(L[k][i]) = b /\ s = <<k, i>>
    OBVIOUS
  <2> HIDE DEF P
  <2>2. QED
    BY <2>1
<1> HIDE DEF spots
<1>3. \A p : p \in pairs <=> \E s, t \in spots : p = <<s, t>> /\ ((s[1] < t[1]) \/ (s[1] = t[1] /\ s[2] < t[2]))
  OBVIOUS
<1> HIDE DEF pairs
<1>4. \A p : p \in pairs <=> \E k, l \in 1..6 : \E i \in DOMAIN L[k] : \E j \in DOMAIN L[l] :
         /\ Block(L[k][i]) = b /\ Block(L[l][j]) = b /\ (k < l \/ (k = l /\ i < j))
         /\ p = << <<k, i>>, <<l, j>> >>
  BY <1>2, <1>3
<1>5. e \in InFront(b) <=> \E p \in pairs : e = <<L[p[1][1]][p[1][2]], L[p[2][1]][p[2][2]]>>
  BY <1>1
<1>6. e \in InFront(b) <=> \E k, l \in 1..6 : \E i \in DOMAIN L[k] : \E j \in DOMAIN L[l] :
           /\ Block(L[k][i]) = b /\ Block(L[l][j]) = b /\ (k < l \/ (k = l /\ i < j))
           /\ e = <<L[k][i], L[l][j]>>
  <2>1. ASSUME e \in InFront(b)
        PROVE  \E k, l \in 1..6 : \E i \in DOMAIN L[k] : \E j \in DOMAIN L[l] :
           /\ Block(L[k][i]) = b /\ Block(L[l][j]) = b /\ (k < l \/ (k = l /\ i < j))
           /\ e = <<L[k][i], L[l][j]>>
    <3>1. PICK p \in pairs : e = <<L[p[1][1]][p[1][2]], L[p[2][1]][p[2][2]]>>
      BY <1>5, <2>1
    <3>2. PICK k \in 1..6, l \in 1..6 : \E i \in DOMAIN L[k] : \E j \in DOMAIN L[l] :
         /\ Block(L[k][i]) = b /\ Block(L[l][j]) = b /\ (k < l \/ (k = l /\ i < j))
         /\ p = << <<k, i>>, <<l, j>> >>
      BY <1>4
    <3>3. PICK i \in DOMAIN L[k], j \in DOMAIN L[l] :
         /\ Block(L[k][i]) = b /\ Block(L[l][j]) = b /\ (k < l \/ (k = l /\ i < j))
         /\ p = << <<k, i>>, <<l, j>> >>
      BY <3>2
    <3>4. e = <<L[k][i], L[l][j]>>
      BY <3>1, <3>3
    <3>5. QED
      BY <3>3, <3>4
  <2>2. ASSUME NEW k \in 1..6, NEW l \in 1..6, NEW i \in DOMAIN L[k], NEW j \in DOMAIN L[l],
               Block(L[k][i]) = b, Block(L[l][j]) = b, k < l \/ (k = l /\ i < j),
               e = <<L[k][i], L[l][j]>>
        PROVE  e \in InFront(b)
    <3> DEFINE p == << <<k, i>>, <<l, j>> >>
    <3>1. p \in pairs
      BY <1>4, <2>2
    <3>2. p[1][1] = k /\ p[1][2] = i /\ p[2][1] = l /\ p[2][2] = j
      OBVIOUS
    <3>3. e = <<L[p[1][1]][p[1][2]], L[p[2][1]][p[2][2]]>>
      BY <2>2, <3>2
    <3> HIDE DEF p
    <3>4. QED
      BY <1>5, <3>1, <3>3
  <2>3. QED
    BY <2>1, <2>2
<1>7. QED
  BY <1>6 DEF L

\* What InOrder says of the queues, of the stages of the lines.
LinesAre ==
  \A b \in Used : /\ InLine(b) = {y \in Own(b) : Stands(TheLine(b), y)}
                  /\ InFront(b) = {e \in Own(b) \X Own(b) : Ahead(TheLine(b), e[1], e[2])}

\* When the invariant holds, the queues and the stages of a line say the same.
LEMMA TrackingLines == Tracking => LinesAre
<1> SUFFICES ASSUME Tracking, NEW b \in Used
             PROVE  /\ InLine(b) = {y \in Own(b) : Stands(TheLine(b), y)}
                    /\ InFront(b) = {e \in Own(b) \X Own(b) : Ahead(TheLine(b), e[1], e[2])}
  BY DEF LinesAre
<1> DEFINE L == Line(b)
           W == TheLine(b)
           Y == Own(b)
<1>1. \A k \in 1..6 : /\ 10 - k \in 4..9
                      /\ \A i \in DOMAIN L[k] : L[k][i] \in Mfs
                      /\ \A y \in Y : Has(L[k], y) <=> Has(W[10 - k], y)
                      /\ \A y, z \in Y : Before(L[k], y, z) <=> Before(W[10 - k], y, z)
  BY QueuesOfLine
<1>2. /\ \A m \in Stages \ (4..9) : W[m] = <<>>
  BY LineParts DEF TheLine
<1>3. \A x : x \in InLine(b) <=> \E k \in 1..6 : \E i \in DOMAIN L[k] : L[k][i] = x /\ Block(x) = b
  <2> DEFINE S(k) == SeqSet(L[k])
  <2>1. \A k : \A x : x \in S(k) <=> \E i \in DOMAIN L[k] : L[k][i] = x
    BY DEF SeqSet
  <2>2. InLine(b) = {mf \in UNION {S(k) : k \in 1..6} : Block(mf) = b}
    <3> HIDE DEF L
    <3>1. InLine(b) = {mf \in UNION {SeqSet(L[k]) : k \in 1..6} : Block(mf) = b}
      BY DEF InLine, L
    <3>2. QED
      BY <3>1
  <2> HIDE DEF L, S
  <2>3. QED
    BY <2>1, <2>2
<1>4. \A e : e \in InFront(b) <=> \E k, l \in 1..6 : \E i \in DOMAIN L[k] : \E j \in DOMAIN L[l] :
           /\ Block(L[k][i]) = b /\ Block(L[l][j]) = b /\ (k < l \/ (k = l /\ i < j))
           /\ e = <<L[k][i], L[l][j]>>
  BY InFrontIs
<1>5. \A y : y \in Y <=> y \in Mfs /\ Block(y) = b
  BY DEF Own
<1> HIDE DEF L, W, Y
<1>6. \A m \in Stages : \A y : Has(W[m], y) => m \in 4..9 /\ 10 - m \in 1..6 /\ 10 - (10 - m) = m
  BY <1>2 DEF Has, Stages
<1>7. \A k \in 1..6 : 10 - k \in Stages
  BY DEF Stages
<1>8. \A x : x \in InLine(b) <=> x \in Y /\ Stands(W, x)
  <2>1. ASSUME NEW x, x \in InLine(b) PROVE x \in Y /\ Stands(W, x)
    <3>1. PICK k \in 1..6 : \E i \in DOMAIN L[k] : L[k][i] = x /\ Block(x) = b
      BY <1>3, <2>1
    <3>2. x \in Y /\ Has(L[k], x)
      BY <1>1, <1>5, <3>1 DEF Has
    <3>3. QED
      BY <1>1, <1>7, <3>2 DEF Stands
  <2>2. ASSUME NEW x \in Y, Stands(W, x) PROVE x \in InLine(b)
    <3>1. PICK m \in Stages : Has(W[m], x)
      BY <2>2 DEF Stands
    <3>2. 10 - m \in 1..6 /\ Has(L[10 - m], x)
      BY <1>1, <1>6, <3>1
    <3>3. QED
      BY <1>3, <1>5, <3>2 DEF Has
  <2>3. QED
    BY <2>1, <2>2
<1>9. \A e : e \in InFront(b) => e \in Y \X Y /\ Ahead(W, e[1], e[2])
  <2> SUFFICES ASSUME NEW e, e \in InFront(b) PROVE e \in Y \X Y /\ Ahead(W, e[1], e[2])
    OBVIOUS
  <2>1. PICK k \in 1..6, l \in 1..6 : \E i \in DOMAIN L[k] : \E j \in DOMAIN L[l] :
           /\ Block(L[k][i]) = b /\ Block(L[l][j]) = b /\ (k < l \/ (k = l /\ i < j))
           /\ e = <<L[k][i], L[l][j]>>
    BY <1>4
  <2>2. PICK i \in DOMAIN L[k], j \in DOMAIN L[l] :
           /\ Block(L[k][i]) = b /\ Block(L[l][j]) = b /\ (k < l \/ (k = l /\ i < j))
           /\ e = <<L[k][i], L[l][j]>>
    BY <2>1
  <2> DEFINE y == L[k][i]
             z == L[l][j]
  <2>3. y \in Y /\ z \in Y
    BY <1>1, <1>5, <2>2
  <2>4. Has(L[k], y) /\ Has(L[l], z) /\ (k = l /\ i < j => Before(L[k], y, z))
    BY <2>2 DEF Has, Before
  <2>5. (k < l \/ (k = l /\ i < j)) /\ e = <<y, z>>
    BY <2>2
  <2> HIDE DEF y, z
  <2>6. e[1] = y /\ e[2] = z /\ e \in Y \X Y
    BY <2>3, <2>5
  <2>7. CASE k < l
    <3>1. 10 - l < 10 - k /\ Has(W[10 - k], y) /\ Has(W[10 - l], z)
      BY <1>1, <2>3, <2>4, <2>7
    <3>2. QED
      BY <1>7, <2>6, <3>1 DEF Ahead
  <2>8. CASE k = l /\ i < j
    <3>1. Before(W[10 - k], y, z)
      BY <1>1, <2>3, <2>4, <2>8
    <3>2. QED
      BY <1>7, <2>6, <3>1 DEF Ahead
  <2>9. QED
    BY <2>5, <2>7, <2>8
<1>10. ASSUME NEW y \in Y, NEW z \in Y, Ahead(W, y, z) PROVE <<y, z>> \in InFront(b)
  <2>0. Block(y) = b /\ Block(z) = b
    BY <1>5
  <2>1. CASE \E m \in Stages : Before(W[m], y, z)
    <3>1. PICK m \in Stages : Before(W[m], y, z)
      BY <2>1
    <3>2. Has(W[m], y)
      BY <3>1 DEF Before, Has
    <3>3. 10 - m \in 1..6 /\ Before(L[10 - m], y, z)
      BY <1>1, <1>6, <3>1, <3>2
    <3> DEFINE k == 10 - m
    <3>4. PICK i \in DOMAIN L[k], j \in DOMAIN L[k] : i < j /\ L[k][i] = y /\ L[k][j] = z
      BY <3>3 DEF Before
    <3>5. k \in 1..6
      BY <3>3
    <3> HIDE DEF k
    <3>6. QED
      BY <1>4, <2>0, <3>4, <3>5
  <2>2. CASE \E m, n \in Stages : m < n /\ Has(W[n], y) /\ Has(W[m], z)
    <3>1. PICK m \in Stages, n \in Stages : m < n /\ Has(W[n], y) /\ Has(W[m], z)
      BY <2>2
    <3> DEFINE k == 10 - n
               l == 10 - m
    <3>2. k \in 1..6 /\ l \in 1..6 /\ Has(L[k], y) /\ Has(L[l], z)
      BY <1>1, <1>6, <3>1
    <3>3. k < l
      BY <3>1 DEF Stages
    <3> HIDE DEF k, l
    <3>4. PICK i \in DOMAIN L[k], j \in DOMAIN L[l] : L[k][i] = y /\ L[l][j] = z
      BY <3>2 DEF Has
    <3>5. QED
      BY <1>4, <2>0, <3>2, <3>3, <3>4
  <2>3. QED
    BY <1>10, <2>1, <2>2 DEF Ahead
<1>11. InLine(b) = {y \in Y : Stands(W, y)}
  BY <1>8
<1>12. InFront(b) = {e \in Y \X Y : Ahead(W, e[1], e[2])}
  <2>1. \A e \in Y \X Y : Ahead(W, e[1], e[2]) => e \in InFront(b)
    <3> TAKE e \in Y \X Y
    <3>1. e[1] \in Y /\ e[2] \in Y /\ e = <<e[1], e[2]>>
      OBVIOUS
    <3>2. QED
      BY <1>10, <3>1
  <2>2. QED
    BY <1>9, <2>1
<1>13. QED
  BY <1>11, <1>12 DEF W, Y

\* The order of the stages is that of InOrder.
LEMMA HeldInOrder ==
  ASSUME LinesAre, LinesAre', setup' = setup, setup \in Setups,
         \A b \in Used : OrderHeld(Own(b), TheLine(b), NextLine(b))
  PROVE  \A b \in Used : /\ \A e \in InFront(b) \ InFront(b)' : e[1] \notin InLine(b)'
                         /\ \A e \in InFront(b)' \ InFront(b) : e[2] \notin InLine(b)
<1> SUFFICES ASSUME NEW b \in Used
             PROVE  /\ \A e \in InFront(b) \ InFront(b)' : e[1] \notin InLine(b)'
                    /\ \A e \in InFront(b)' \ InFront(b) : e[2] \notin InLine(b)
  OBVIOUS
<1> DEFINE Y  == Own(b)
           V  == TheLine(b)
           W  == NextLine(b)
           F  == InFront(b)
           F1 == InFront(b)'
           I  == InLine(b)
           I1 == InLine(b)'
<1>1. b \in Blocks
  BY SetupTypes
<1>2. Used' = Used /\ Own(b)' = Y
  BY <1>1, SameRequests
<1>3. TheLine(b)' = W
  BY DEF TheLine, NextLine
<1>4. I = {y \in Y : Stands(V, y)} /\ F = {e \in Y \X Y : Ahead(V, e[1], e[2])}
  BY DEF LinesAre
<1>5. /\ I1 = {y \in Own(b)' : Stands(TheLine(b)', y)}
      /\ F1 = {e \in Own(b)' \X Own(b)' : Ahead(TheLine(b)', e[1], e[2])}
  BY <1>2 DEF LinesAre, Stands, Ahead, Has, Before, Stages
<1>6. I1 = {y \in Y : Stands(W, y)} /\ F1 = {e \in Y \X Y : Ahead(W, e[1], e[2])}
  BY <1>2, <1>3, <1>5
<1>7. \A y, z \in Y : /\ Ahead(V, y, z) /\ Stands(W, y) => Ahead(W, y, z)
                      /\ Ahead(W, y, z) /\ Stands(V, z) => Ahead(V, y, z)
  BY DEF OrderHeld
<1> HIDE DEF Y, V, W, F, F1, I, I1
<1>8. \A e \in F \ F1 : e[1] \notin I1
  BY <1>4, <1>6, <1>7
<1>9. \A e \in F1 \ F : e[2] \notin I
  BY <1>4, <1>6, <1>7
<1>10. QED
  BY <1>8, <1>9 DEF F, F1, I, I1

\* Arbitration that skips slices without a credit, first-ready scheduling, and writes and
\* reads that take different times leave two requests of one block in their order, from the
\* queue to DRAM to the end of the transfer: a read behind a write finds what was written.
THEOREM InOrderHolds == Spec => InOrder
<1> DEFINE Ordered == \A b \in Used : /\ \A e \in InFront(b) \ InFront(b)' : e[1] \notin InLine(b)'
                                      /\ \A e \in InFront(b)' \ InFront(b) : e[2] \notin InLine(b)
<1>1. Spec => []Tracking
  BY TrackingHolds
<1>2. Tracking => LinesAre
  BY TrackingLines
<1>3. Tracking /\ LinesAre /\ LinesAre' /\ [Next]_vars => [Ordered]_vars
  <2> SUFFICES ASSUME Tracking, LinesAre, LinesAre', [Next]_vars PROVE Ordered
    OBVIOUS
  <2>1. (\A b \in Used : OrderHeld(Own(b), TheLine(b), NextLine(b))) /\ setup' = setup
    BY StepHeld
  <2>2. setup \in Setups
    BY SliceSeqs DEF Tracking, Slices, SliceOK
  <2>3. QED
    BY <2>1, <2>2, HeldInOrder
<1>4. QED
  BY <1>1, <1>2, <1>3, PTL DEF Spec, InOrder
=============================================================================
