-------------------------- MODULE DataCacheProofs --------------------------
(* Proofs about DataCache, and then about CacpCache, for every cache and   *)
(* every set of signatures: the cache it is acts as a DataCache, the       *)
(* tables keep their range, and the search for a victim ends.  What is     *)
(* proved about DataCache uses nothing of the tables.                      *)
EXTENDS CacpCache, FiniteSetTheorems, WellFoundedInduction, TLAPS

-----------------------------------------------------------------------------
(* The inductive invariant.  TypeOK and FillFinds need what the tag array, *)
(* the MSHR table and the queues promise each other.                       *)

\* Lines hold a block of their set, and a block is in one line.
Tags ==
  /\ \A l \in Lines : lines[l].status = "INVALID" <=> lines[l].block = NoBlock
  /\ \A l \in Lines : lines[l].block \in Blocks => l[1] = SetOf[lines[l].block]
  /\ OneCopy

\* What the policies exclude.
Kept ==
  /\ policy.alloc = "ON_FILL" => \A l \in Lines : lines[l].status # "RESERVED"
  /\ policy.write = "READ_ONLY" => /\ atomics = {}
                                   /\ \A l \in Lines : lines[l].status # "MODIFIED"

\* The responses waiting are for entries, each once.
Responses ==
  /\ \A i \in 1..Len(ready) : ready[i] \in Entries
  /\ \A i, j \in 1..Len(ready) : ready[i] = ready[j] => i = j

\* Merged accesses and queued writes are inside, each in one place.
IsWrite(r) == r.kind = "write"
HomesOf(m, q, in) ==
  /\ \A b \in Blocks : \A i \in 1..Len(m[b]) : m[b][i] \in in
  /\ \A b, c \in Blocks : \A i \in 1..Len(m[b]), j \in 1..Len(m[c]) :
       m[b][i] = m[c][j] => b = c /\ i = j
  /\ \A j \in 1..Len(q) : IsWrite(q[j]) => q[j].mf \in in
  /\ \A i, j \in 1..Len(q) : IsWrite(q[i]) /\ IsWrite(q[j]) /\ q[i].mf = q[j].mf => i = j
  /\ \A b \in Blocks : \A i \in 1..Len(m[b]), j \in 1..Len(q) :
       IsWrite(q[j]) => q[j].mf # m[b][i]
  /\ \A f \in in :
       \/ \E b \in Blocks : \E i \in 1..Len(m[b]) : m[b][i] = f
       \/ \E j \in 1..Len(q) : IsWrite(q[j]) /\ q[j].mf = f
Homes == HomesOf(mshr, missQueue, inside)

\* A queued read is a request waited for that has not been sent before.
IsRead(r) == r.kind = "read"
ReadsOf(q, ex, be) ==
  /\ \A j \in 1..Len(q) : IsRead(q[j]) =>
       /\ \E e \in ex : e.mf = q[j].mf /\ e.block = q[j].block
       /\ q[j].mf \notin be
  /\ \A i, j \in 1..Len(q) : IsRead(q[i]) /\ IsRead(q[j]) /\ q[i].mf = q[j].mf => i = j
  /\ \A f \in be : \E e \in ex : e.mf = f
Reads == ReadsOf(missQueue, extra, below)

\* RefetchAfterWriteback of a queue.
OrderOf(q) ==
  \A i, j \in 1..Len(q) :
    q[i].kind = "writeback" /\ q[j].kind = "read" /\ q[i].block = q[j].block => i < j

IInv ==
  /\ TypeOK /\ Tags /\ Kept /\ Responses /\ FillFinds /\ Homes /\ Reads
  /\ RefetchAfterWriteback

-----------------------------------------------------------------------------
(* The tag array.                                                          *)

Statuses == {"INVALID", "RESERVED", "VALID", "MODIFIED"}
LineType == [status : Statuses, block : Blocks \cup {NoBlock}]

\* NoLine is no line, and a line of a block's set.
LEMMA LineFacts ==
  /\ NoLine \notin Lines
  /\ \A b \in Blocks : LinesOf(b) \subseteq Lines /\ NoBlock # b
  /\ \A b \in Blocks : \A l \in LinesOf(b) : l[1] = SetOf[b]
  /\ \A b \in Blocks : \A l \in Lines : l[1] = SetOf[b] => l \in LinesOf(b)
BY CacheConstants DEF Lines, LinesOf

\* What the tag array has done to a block that misses, once tag_array::access
\* has taken line l.
Reserves(b, l) ==
  /\ l \in Lines =>
       /\ lines' = [lines EXCEPT ![l] = [status |-> "RESERVED", block |-> b]]
       /\ l[1] = SetOf[b]
       /\ lines[l].status = "RESERVED" => lines[l].block = b
       /\ Copies(b) \subseteq {l}
       /\ policy.alloc = "ON_MISS"
  /\ l \notin Lines =>
       lines' = lines /\ policy.alloc = "ON_FILL" /\ Copies(b) = {} /\ l = NoLine

\* tag_array::access on a miss reserves a line that no other block reserved.
LEMMA MissReserves ==
  ASSUME TypeOK, Tags, Kept, NEW b \in Blocks, NEW l \in Lines \cup {NoLine},
         ~Hit(b), Slot(b, l), TagAccess(b, l)
  PROVE  Reserves(b, l) /\ lru' \subseteq Lines \X Lines
<1>1. \A m \in Lines : lines[m] \in LineType
  BY DEF TypeOK, LineType, Statuses
<1>2. Copies(b) \subseteq Lines /\ Unused(b) \subseteq Lines /\ Evictable(b) \subseteq Lines
  BY LineFacts DEF Copies, Unused, Evictable
<1>3. \A m \in Copies(b) : lines[m].status = "RESERVED"
  BY <1>1, <1>2, LineFacts DEF Hit, Copies, Tags, LineType, Statuses
<1>4. policy.alloc \in {"ON_MISS", "ON_FILL"}
  BY CacheConstants DEF TypeOK
<1>5. lru' \subseteq Lines \X Lines
  <2>1. CASE l = NoLine
    BY <2>1 DEF TagAccess, tagVars, TypeOK
  <2>2. CASE l \in Lines
    BY <2>2, LineFacts DEF TagAccess, Touched, Peers, TypeOK
  <2> QED BY <2>1, <2>2
<1>6. CASE l \in Copies(b)
  <2>1. l \in Lines /\ lines[l].block = b /\ lines[l].status = "RESERVED" /\ l[1] = SetOf[b]
    BY <1>6, <1>2, <1>3, LineFacts DEF Copies
  <2>2. lines[l] = [status |-> "RESERVED", block |-> b]
    BY <2>1, <1>1 DEF LineType
  <2>3. lines' = lines
    BY <2>1, LineFacts DEF TagAccess
  <2>4. lines = [lines EXCEPT ![l] = [status |-> "RESERVED", block |-> b]]
    BY <2>2, <2>1 DEF TypeOK
  <2>5. Copies(b) \subseteq {l}
    BY <1>6 DEF Tags, OneCopy
  <2>6. policy.alloc = "ON_MISS"
    BY <1>4, <2>1 DEF Kept
  <2> QED BY <1>5, <2>1, <2>3, <2>4, <2>5, <2>6 DEF Reserves
<1>7. CASE Copies(b) = {} /\ policy.alloc = "ON_MISS" /\ Victim(b, l)
  <2>1. l \in LinesOf(b) /\ lines[l].status # "RESERVED"
    BY <1>7 DEF Victim, Unused, Evictable
  <2>2. l \in Lines /\ l[1] = SetOf[b] /\ lines[l].block # b
    BY <1>7, <2>1, LineFacts DEF Copies
  <2>3. lines' = [lines EXCEPT ![l] = [status |-> "RESERVED", block |-> b]]
    BY <2>2, LineFacts DEF TagAccess
  <2> QED BY <1>5, <1>7, <2>1, <2>2, <2>3 DEF Reserves
<1>8. CASE Copies(b) = {} /\ policy.alloc = "ON_FILL" /\ l = NoLine
  BY <1>5, <1>8, LineFacts DEF Reserves, TagAccess, tagVars
<1> QED BY <1>6, <1>7, <1>8 DEF Slot

\* A line reserved on a miss keeps the tag array in order.
LEMMA ReservesKeeps ==
  ASSUME TypeOK, Tags, Kept, NEW b \in Blocks, NEW l \in Lines \cup {NoLine},
         Reserves(b, l), policy' = policy,
         policy.write = "READ_ONLY" => atomics' = {}
  PROVE  lines' \in [Lines -> LineType] /\ Tags' /\ Kept'
<1>0. lines \in [Lines -> LineType]
  BY DEF TypeOK, LineType, Statuses
<1>1. CASE l \in Lines
  <2>1. lines' = [lines EXCEPT ![l] = [status |-> "RESERVED", block |-> b]]
        /\ l[1] = SetOf[b] /\ Copies(b) \subseteq {l} /\ policy.alloc = "ON_MISS"
    BY <1>1 DEF Reserves
  <2>2. /\ lines' \in [Lines -> LineType]
        /\ lines'[l] = [status |-> "RESERVED", block |-> b]
        /\ \A m \in Lines : m # l => lines'[m] = lines[m]
    BY <1>0, <1>1, <2>1 DEF LineType, Statuses
  <2>3. \A c \in Blocks : \A m \in Copies(c)' :
          m \in Lines /\ m \in LinesOf(c) /\ lines'[m].block = c
    BY LineFacts DEF Copies, LinesOf
  <2>4. OneCopy'
    <3> SUFFICES ASSUME NEW c \in Blocks, NEW m \in Copies(c)', NEW n \in Copies(c)'
                 PROVE  m = n
      BY DEF OneCopy
    <3>1. CASE c = b
      <4>1. \A k \in Copies(b)' : k = l
        BY <2>1, <2>2, <2>3 DEF Copies
      <4> QED BY <3>1, <4>1
    <3>2. CASE c # b
      <4>1. m \in Copies(c) /\ n \in Copies(c)
        BY <2>2, <2>3, <3>2 DEF Copies
      <4> QED BY <4>1 DEF Tags, OneCopy
    <3> QED BY <3>1, <3>2
  <2>5. Tags'
    <3>1. \A m \in Lines : lines'[m].status = "INVALID" <=> lines'[m].block = NoBlock
      BY <2>2, LineFacts DEF Tags
    <3>2. \A m \in Lines : lines'[m].block \in Blocks => m[1] = SetOf[lines'[m].block]
      BY <2>1, <2>2 DEF Tags
    <3> QED BY <2>4, <3>1, <3>2 DEF Tags
  <2>6. Kept'
    BY <2>1, <2>2 DEF Kept
  <2> QED BY <2>2, <2>5, <2>6
<1>2. CASE l \notin Lines
  <2>1. lines' = lines
    BY <1>2 DEF Reserves
  <2>2. Tags'
    BY <2>1 DEF Tags, OneCopy, Copies
  <2>3. Kept'
    BY <2>1 DEF Kept
  <2> QED BY <1>0, <2>1, <2>2, <2>3
<1> QED BY <1>1, <1>2

\* A hit changes no more than the status of its line, which was not RESERVED.
LEMMA HitKeeps ==
  ASSUME TypeOK, Tags, Kept, NEW b \in Blocks, NEW l \in Copies(b), Hit(b),
         lines' = lines \/ ( /\ lines' = [lines EXCEPT ![l].status = "MODIFIED"]
                             /\ policy.write # "READ_ONLY" ),
         policy' = policy, atomics' = atomics
  PROVE  /\ lines' \in [Lines -> LineType] /\ Tags' /\ Kept'
         /\ Touched(l) \subseteq Lines \X Lines
         /\ \A m \in Lines : /\ lines'[m].block = lines[m].block
                             /\ lines[m].status = "RESERVED" => lines'[m] = lines[m]
<1>0. lines \in [Lines -> LineType] /\ l \in Lines /\ lines[l].block = b
  BY LineFacts DEF TypeOK, LineType, Statuses, Copies
<1>1. lines[l].status \in {"VALID", "MODIFIED"}
  BY DEF Hit, Tags, OneCopy
<1>2. Touched(l) \subseteq Lines \X Lines
  BY <1>0 DEF Touched, Peers, TypeOK
<1>3. CASE lines' = lines
  <2>1. Tags'
    BY <1>3 DEF Tags, OneCopy, Copies
  <2>2. Kept'
    BY <1>3 DEF Kept
  <2> QED BY <1>0, <1>2, <1>3, <2>1, <2>2
<1>4. CASE lines' = [lines EXCEPT ![l].status = "MODIFIED"] /\ policy.write # "READ_ONLY"
  <2>1. /\ lines' \in [Lines -> LineType]
        /\ lines'[l].status = "MODIFIED" /\ lines'[l].block = b
        /\ \A m \in Lines : m # l => lines'[m] = lines[m]
    BY <1>0, <1>4 DEF LineType, Statuses
  <2>2. \A m \in Lines : lines'[m].block = lines[m].block
    BY <1>0, <2>1
  <2>3. \A c \in Blocks : Copies(c)' = Copies(c)
    BY <2>2, LineFacts DEF Copies
  <2>4. OneCopy'
    BY <2>3 DEF Tags, OneCopy
  <2>5. \A m \in Lines : lines'[m].status = "INVALID" <=> lines'[m].block = NoBlock
    BY <1>0, <1>1, <2>1, LineFacts DEF Tags
  <2>6. Tags'
    BY <2>2, <2>4, <2>5 DEF Tags
  <2>7. Kept'
    BY <1>4, <2>1 DEF Kept
  <2> QED BY <1>0, <1>1, <1>2, <2>1, <2>2, <2>6, <2>7
<1> QED BY <1>3, <1>4

\* A line given up leaves the others as they are.
LEMMA EvictKeeps ==
  ASSUME TypeOK, Tags, Kept, NEW b \in Blocks, NEW l \in Copies(b), Hit(b),
         lines' = [lines EXCEPT ![l] = EmptyLine], policy' = policy, atomics' = atomics
  PROVE  /\ lines' \in [Lines -> LineType] /\ Tags' /\ Kept'
         /\ Without(l) \subseteq Lines \X Lines
         /\ \A m \in Lines : /\ lines'[m].block \in {lines[m].block, NoBlock}
                             /\ lines[m].status = "RESERVED" => lines'[m] = lines[m]
<1>0. lines \in [Lines -> LineType] /\ l \in Lines
  BY LineFacts DEF TypeOK, LineType, Statuses, Copies
<1>1. lines[l].status \in {"VALID", "MODIFIED"}
  BY DEF Hit, Tags, OneCopy
<1>2. /\ lines' \in [Lines -> LineType]
      /\ lines'[l] = EmptyLine
      /\ \A m \in Lines : m # l => lines'[m] = lines[m]
  BY <1>0 DEF LineType, Statuses, EmptyLine
<1>3. \A c \in Blocks : Copies(c)' \subseteq Copies(c)
  BY <1>2, LineFacts DEF Copies, EmptyLine
<1>4. OneCopy'
  BY <1>3 DEF Tags, OneCopy
<1>5. Tags'
  BY <1>2, <1>4, LineFacts DEF Tags, EmptyLine
<1>6. Kept'
  BY <1>2 DEF Kept, EmptyLine
<1>7. Without(l) \subseteq Lines \X Lines
  BY DEF Without, TypeOK
<1> QED BY <1>1, <1>2, <1>5, <1>6, <1>7 DEF EmptyLine

\* What a fill leaves in a line.
LEMMA FilledType ==
  ASSUME NEW b \in Blocks
  PROVE  /\ Filled(b) \in LineType /\ Filled(b).block = b
         /\ Filled(b).status \in {"VALID", "MODIFIED"}
         /\ b \notin atomics => Filled(b).status = "VALID"
BY DEF Filled, LineType, Statuses

\* A fill of a line that held its block, or of one taken for it, keeps the tag
\* array in order and every other reservation.
LEMMA FillKeeps ==
  ASSUME TypeOK, Tags, Kept, NEW b \in Blocks, NEW l \in Lines,
         l[1] = SetOf[b], Copies(b) \subseteq {l},
         lines' = [lines EXCEPT ![l] = Filled(b)], policy' = policy, atomics' = atomics
  PROVE  /\ lines' \in [Lines -> LineType] /\ Tags' /\ Kept'
         /\ \A m \in Lines : m # l => lines'[m] = lines[m]
         /\ lines'[l].block = b
<1>0. lines \in [Lines -> LineType]
  BY DEF TypeOK, LineType, Statuses
<1>1. /\ lines' \in [Lines -> LineType]
      /\ lines'[l] = Filled(b)
      /\ \A m \in Lines : m # l => lines'[m] = lines[m]
  BY <1>0, FilledType
<1>2. OneCopy'
  <2> SUFFICES ASSUME NEW c \in Blocks, NEW m \in Copies(c)', NEW n \in Copies(c)'
               PROVE  m = n
    BY DEF OneCopy
  <2>0. m \in Lines /\ n \in Lines /\ lines'[m].block = c /\ lines'[n].block = c
        /\ m \in LinesOf(c) /\ n \in LinesOf(c)
    BY LineFacts DEF Copies, LinesOf
  <2>1. CASE c = b
    <3>1. \A k \in Lines : k \in LinesOf(b) /\ lines'[k].block = b => k = l
      BY <1>1 DEF Copies
    <3> QED BY <2>0, <2>1, <3>1
  <2>2. CASE c # b
    <3>1. m # l /\ n # l
      BY <1>1, <2>0, <2>2, FilledType
    <3>2. m \in Copies(c) /\ n \in Copies(c)
      BY <1>1, <2>0, <3>1 DEF Copies
    <3> QED BY <3>2 DEF Tags, OneCopy
  <2> QED BY <2>1, <2>2
<1>3. \A m \in Lines : lines'[m].status = "INVALID" <=> lines'[m].block = NoBlock
  BY <1>1, LineFacts, FilledType DEF Tags
<1>4. \A m \in Lines : lines'[m].block \in Blocks => m[1] = SetOf[lines'[m].block]
  BY <1>1, FilledType DEF Tags
<1>5. Tags'
  BY <1>2, <1>3, <1>4 DEF Tags
<1>6. Kept'
  <2>1. lines'[l].status \in {"VALID", "MODIFIED"} /\ (b \notin atomics => lines'[l].status = "VALID")
    BY <1>1, FilledType
  <2> QED BY <1>1, <2>1 DEF Kept
<1> QED BY <1>1, <1>5, <1>6, FilledType

-----------------------------------------------------------------------------
(* The MSHR lists and the miss queue, as values.                           *)

MshrType == [Blocks -> Seq(Mfs)]

\* A write that comes in is queued and nowhere else.
LEMMA AppendWrite ==
  ASSUME NEW m \in MshrType, NEW q \in Seq(Request), NEW in \in SUBSET Mfs,
         NEW ex, NEW be, NEW w \in Mfs, w \notin in, NEW b \in Blocks,
         HomesOf(m, q, in), ReadsOf(q, ex, be), OrderOf(q)
  PROVE  LET r == Append(q, WriteRequest(w, b))
         IN  /\ r \in Seq(Request) /\ Len(r) = Len(q) + 1
             /\ HomesOf(m, r, in \cup {w}) /\ ReadsOf(r, ex, be) /\ OrderOf(r)
<1> DEFINE r == Append(q, WriteRequest(w, b))
<1>1. WriteRequest(w, b) \in Request /\ WriteRequest(w, b).kind = "write"
      /\ WriteRequest(w, b).mf = w
  BY DEF WriteRequest, Request
<1>2. /\ r \in Seq(Request) /\ Len(r) = Len(q) + 1
      /\ \A i \in 1..Len(q) : r[i] = q[i]
      /\ r[Len(q) + 1] = WriteRequest(w, b)
  BY <1>1
<1> HIDE DEF r
<1>3. \A i \in 1..Len(r) : (i \in 1..Len(q) /\ r[i] = q[i]) \/ i = Len(q) + 1
  BY <1>2
<1>4. HomesOf(m, r, in \cup {w})
  <2>1. \A c \in Blocks : \A i \in 1..Len(m[c]) : m[c][i] \in in \cup {w} /\ m[c][i] # w
    BY DEF HomesOf
  <2>2. \A c, d \in Blocks : \A i \in 1..Len(m[c]), j \in 1..Len(m[d]) :
          m[c][i] = m[d][j] => c = d /\ i = j
    BY DEF HomesOf
  <2>3. \A j \in 1..Len(r) : IsWrite(r[j]) => r[j].mf \in in \cup {w}
    BY <1>1, <1>2, <1>3 DEF HomesOf
  <2>4. \A i, j \in 1..Len(r) : IsWrite(r[i]) /\ IsWrite(r[j]) /\ r[i].mf = r[j].mf => i = j
    BY <1>1, <1>2, <1>3 DEF HomesOf
  <2>5. \A c \in Blocks : \A i \in 1..Len(m[c]), j \in 1..Len(r) :
          IsWrite(r[j]) => r[j].mf # m[c][i]
    BY <1>1, <1>2, <1>3, <2>1 DEF HomesOf
  <2>6. \A f \in in \cup {w} :
          \/ \E c \in Blocks : \E i \in 1..Len(m[c]) : m[c][i] = f
          \/ \E j \in 1..Len(r) : IsWrite(r[j]) /\ r[j].mf = f
    <3> TAKE f \in in \cup {w}
    <3>1. CASE f = w
      <4>1. Len(q) + 1 \in 1..Len(r)
        BY <1>2
      <4> QED BY <3>1, <4>1, <1>1, <1>2 DEF IsWrite
    <3>2. CASE f \in in
      <4>1. \A j \in 1..Len(q) : j \in 1..Len(r)
        BY <1>2
      <4> QED BY <3>2, <4>1, <1>2 DEF HomesOf
    <3> QED BY <3>1, <3>2
  <2> QED BY <2>1, <2>2, <2>3, <2>4, <2>5, <2>6 DEF HomesOf
<1>5. ReadsOf(r, ex, be)
  BY <1>1, <1>2, <1>3 DEF ReadsOf, IsRead
<1>6. OrderOf(r)
  BY <1>1, <1>2, <1>3 DEF OrderOf
<1> QED BY <1>2, <1>4, <1>5, <1>6 DEF r

\* Requests that are no writes house nobody.
LEMMA AppendOther ==
  ASSUME NEW m \in MshrType, NEW q \in Seq(Request), NEW in, NEW r \in Seq(Request),
         Len(r) = Len(q) + 1, \A i \in 1..Len(q) : r[i] = q[i],
         ~IsWrite(r[Len(q) + 1]), HomesOf(m, q, in)
  PROVE  HomesOf(m, r, in)
<1>1. \A i \in 1..Len(r) : IsWrite(r[i]) => i \in 1..Len(q) /\ r[i] = q[i]
  OBVIOUS
<1>2. \A j \in 1..Len(q) : j \in 1..Len(r)
  OBVIOUS
<1>3. \A f \in in :
        \/ \E c \in Blocks : \E i \in 1..Len(m[c]) : m[c][i] = f
        \/ \E j \in 1..Len(r) : IsWrite(r[j]) /\ r[j].mf = f
  BY <1>2 DEF HomesOf
<1>4. \A j \in 1..Len(r) : IsWrite(r[j]) => r[j].mf \in in
  BY <1>1 DEF HomesOf
<1>5. \A i, j \in 1..Len(r) : IsWrite(r[i]) /\ IsWrite(r[j]) /\ r[i].mf = r[j].mf => i = j
  BY <1>1 DEF HomesOf
<1>6. \A b \in Blocks : \A i \in 1..Len(m[b]), j \in 1..Len(r) :
        IsWrite(r[j]) => r[j].mf # m[b][i]
  BY <1>1 DEF HomesOf
<1>7. /\ \A b \in Blocks : \A i \in 1..Len(m[b]) : m[b][i] \in in
      /\ \A b, c \in Blocks : \A i \in 1..Len(m[b]), j \in 1..Len(m[c]) :
           m[b][i] = m[c][j] => b = c /\ i = j
  BY DEF HomesOf
<1> QED BY <1>3, <1>4, <1>5, <1>6, <1>7 DEF HomesOf

\* Somebody waits for an answer to f.
Waits(f, ex) == \E e \in ex : e.mf = f

\* A read request that comes in for a block nothing is waited for.
LEMMA AppendRead ==
  ASSUME NEW q \in Seq(Request), NEW ex, NEW be, NEW n \in Mfs, NEW b \in Blocks,
         NEW x, x.mf = n, x.block = b, n \notin be, ~Waits(n, ex),
         ReadsOf(q, ex, be), OrderOf(q)
  PROVE  LET r == Append(q, [kind |-> "read", mf |-> n, block |-> b])
         IN  /\ r \in Seq(Request) /\ Len(r) = Len(q) + 1
             /\ \A i \in 1..Len(q) : r[i] = q[i]
             /\ r[Len(q) + 1] = [kind |-> "read", mf |-> n, block |-> b]
             /\ ReadsOf(r, ex \cup {x}, be) /\ OrderOf(r)
<1> DEFINE new == [kind |-> "read", mf |-> n, block |-> b]
           r == Append(q, new)
<1>1. new \in Request /\ new.kind = "read" /\ new.mf = n /\ new.block = b
  BY DEF Request
<1>2. /\ r \in Seq(Request) /\ Len(r) = Len(q) + 1
      /\ \A i \in 1..Len(q) : r[i] = q[i]
      /\ r[Len(q) + 1] = new
  BY <1>1
<1> HIDE DEF r, new
<1>3. \A i \in 1..Len(r) : (i \in 1..Len(q) /\ r[i] = q[i]) \/ i = Len(q) + 1
  BY <1>2
<1>4. ReadsOf(r, ex \cup {x}, be)
  <2>1. \A j \in 1..Len(r) : IsRead(r[j]) =>
          /\ \E e \in ex \cup {x} : e.mf = r[j].mf /\ e.block = r[j].block
          /\ r[j].mf \notin be
    BY <1>1, <1>2, <1>3 DEF ReadsOf
  <2>2. \A j \in 1..Len(q) : IsRead(q[j]) => q[j].mf # n
    BY DEF ReadsOf, Waits
  <2>3. \A i, j \in 1..Len(r) : IsRead(r[i]) /\ IsRead(r[j]) /\ r[i].mf = r[j].mf => i = j
    BY <1>1, <1>2, <1>3, <2>2 DEF ReadsOf
  <2>4. \A f \in be : \E e \in ex \cup {x} : e.mf = f
    BY DEF ReadsOf
  <2> QED BY <2>1, <2>3, <2>4 DEF ReadsOf
<1>5. OrderOf(r)
  BY <1>1, <1>2, <1>3 DEF OrderOf
<1> QED BY <1>2, <1>4, <1>5 DEF r, new

\* A write-back that comes in behind no fetch of its block.
LEMMA AppendWriteback ==
  ASSUME NEW m \in MshrType, NEW q \in Seq(Request), NEW in, NEW ex, NEW be,
         NEW b \in Blocks, \A j \in 1..Len(q) : IsRead(q[j]) => q[j].block # b,
         HomesOf(m, q, in), ReadsOf(q, ex, be), OrderOf(q)
  PROVE  LET r == Append(q, [kind |-> "writeback", mf |-> NoMf, block |-> b])
         IN  /\ r \in Seq(Request) /\ Len(r) = Len(q) + 1
             /\ HomesOf(m, r, in) /\ ReadsOf(r, ex, be) /\ OrderOf(r)
<1> DEFINE new == [kind |-> "writeback", mf |-> NoMf, block |-> b]
           r == Append(q, new)
<1>1. new \in Request /\ new.kind = "writeback" /\ new.block = b
  BY DEF Request
<1>2. /\ r \in Seq(Request) /\ Len(r) = Len(q) + 1
      /\ \A i \in 1..Len(q) : r[i] = q[i]
      /\ r[Len(q) + 1] = new
  BY <1>1
<1> HIDE DEF r, new
<1>3. \A i \in 1..Len(r) : (i \in 1..Len(q) /\ r[i] = q[i]) \/ i = Len(q) + 1
  BY <1>2
<1>4. HomesOf(m, r, in)
  <2>1. ~IsWrite(r[Len(q) + 1])
    BY <1>1, <1>2 DEF IsWrite
  <2> QED BY <2>1, <1>2, AppendOther
<1>5. ReadsOf(r, ex, be)
  BY <1>1, <1>2, <1>3 DEF ReadsOf, IsRead
<1>6. OrderOf(r)
  BY <1>1, <1>2, <1>3 DEF OrderOf, IsRead
<1> QED BY <1>2, <1>4, <1>5, <1>6 DEF r, new

\* A read merged into the list of its block, or starting one.
LEMMA AddMerged ==
  ASSUME NEW m \in MshrType, NEW q \in Seq(Request), NEW in \in SUBSET Mfs,
         NEW n \in Mfs, n \notin in, NEW b \in Blocks, HomesOf(m, q, in)
  PROVE  LET k == [m EXCEPT ![b] = Append(@, n)]
         IN  /\ k \in MshrType /\ Len(k[b]) = Len(m[b]) + 1
             /\ \A i \in 1..Len(m[b]) : k[b][i] = m[b][i]
             /\ k[b][Len(m[b]) + 1] = n
             /\ \A c \in Blocks : c # b => k[c] = m[c]
             /\ HomesOf(k, q, in \cup {n})
<1> DEFINE k == [m EXCEPT ![b] = Append(@, n)]
<1>1. m[b] \in Seq(Mfs)
  BY DEF MshrType
<1>2. k \in MshrType /\ k[b] = Append(m[b], n) /\ \A c \in Blocks : c # b => k[c] = m[c]
  BY <1>1 DEF MshrType
<1>3. /\ Len(k[b]) = Len(m[b]) + 1
      /\ \A i \in 1..Len(m[b]) : k[b][i] = m[b][i]
      /\ k[b][Len(m[b]) + 1] = n
  BY <1>1, <1>2
<1> HIDE DEF k
<1>4. \A c \in Blocks : \A i \in 1..Len(k[c]) :
        \/ i \in 1..Len(m[c]) /\ k[c][i] = m[c][i]
        \/ c = b /\ i = Len(m[b]) + 1 /\ k[c][i] = n
  <2> TAKE c \in Blocks
  <2>1. CASE c = b
    <3>1. \A i \in 1..Len(k[b]) : i \in 1..Len(m[b]) \/ i = Len(m[b]) + 1
      BY <1>1, <1>3
    <3> QED BY <2>1, <3>1, <1>3
  <2>2. CASE c # b
    BY <2>2, <1>2
  <2> QED BY <2>1, <2>2
<1>5. \A c \in Blocks : \A i \in 1..Len(m[c]) : i \in 1..Len(k[c]) /\ k[c][i] = m[c][i]
  BY <1>1, <1>2, <1>3
<1>6. \A c \in Blocks : \A i \in 1..Len(k[c]) : k[c][i] \in in \cup {n}
  BY <1>4 DEF HomesOf
<1>7. \A c, d \in Blocks : \A i \in 1..Len(k[c]), j \in 1..Len(k[d]) :
        k[c][i] = k[d][j] => c = d /\ i = j
  <2>1. \A c, d \in Blocks : \A i \in 1..Len(m[c]), j \in 1..Len(m[d]) : m[c][i] = m[d][j] => c = d /\ i = j
    BY DEF HomesOf
  <2>2. \A c \in Blocks : \A i \in 1..Len(m[c]) : m[c][i] # n
    BY DEF HomesOf
  <2> SUFFICES ASSUME NEW c \in Blocks, NEW d \in Blocks, NEW i \in 1..Len(k[c]), NEW j \in 1..Len(k[d]),
                      k[c][i] = k[d][j]
               PROVE  c = d /\ i = j
    OBVIOUS
  <2>3. \/ i \in 1..Len(m[c]) /\ k[c][i] = m[c][i]
        \/ c = b /\ i = Len(m[b]) + 1 /\ k[c][i] = n
    BY <1>4
  <2>4. \/ j \in 1..Len(m[d]) /\ k[d][j] = m[d][j]
        \/ d = b /\ j = Len(m[b]) + 1 /\ k[d][j] = n
    BY <1>4
  <2>5. CASE i \in 1..Len(m[c]) /\ k[c][i] = m[c][i]
    <3>1. CASE j \in 1..Len(m[d]) /\ k[d][j] = m[d][j]
      <4>1. m[c][i] = m[d][j]
        BY <2>5, <3>1
      <4> QED BY <4>1, <2>1, <2>5, <3>1
    <3>2. k[d][j] # n
      BY <2>2, <2>5
    <3> QED BY <3>1, <3>2, <2>4
  <2>6. CASE c = b /\ i = Len(m[b]) + 1 /\ k[c][i] = n
    <3>1. ~(j \in 1..Len(m[d]) /\ k[d][j] = m[d][j])
      BY <2>2, <2>6
    <3> QED BY <3>1, <2>4, <2>6
  <2> QED BY <2>3, <2>5, <2>6
<1>8. \A j \in 1..Len(q) : IsWrite(q[j]) => q[j].mf \in in \cup {n} /\ q[j].mf # n
  BY DEF HomesOf
<1>9. \A c \in Blocks : \A i \in 1..Len(k[c]), j \in 1..Len(q) :
        IsWrite(q[j]) => q[j].mf # k[c][i]
  BY <1>4, <1>8 DEF HomesOf
<1>10. \A f \in in \cup {n} :
         \/ \E c \in Blocks : \E i \in 1..Len(k[c]) : k[c][i] = f
         \/ \E j \in 1..Len(q) : IsWrite(q[j]) /\ q[j].mf = f
  <2> TAKE f \in in \cup {n}
  <2>1. CASE f = n
    <3>1. Len(m[b]) + 1 \in 1..Len(k[b])
      BY <1>1, <1>3
    <3> QED BY <2>1, <3>1, <1>3
  <2>2. CASE \E c \in Blocks : \E i \in 1..Len(m[c]) : m[c][i] = f
    BY <2>2, <1>5
  <2>3. CASE \E j \in 1..Len(q) : IsWrite(q[j]) /\ q[j].mf = f
    BY <2>3
  <2> QED BY <2>1, <2>2, <2>3 DEF HomesOf
<1>11. HomesOf(k, q, in \cup {n})
  <2>1. \A i, j \in 1..Len(q) : IsWrite(q[i]) /\ IsWrite(q[j]) /\ q[i].mf = q[j].mf => i = j
    BY DEF HomesOf
  <2> QED BY <1>6, <1>7, <1>8, <1>9, <1>10, <2>1 DEF HomesOf
<1> QED BY <1>2, <1>3, <1>11 DEF k

\* The rest of a queue.
LEMMA TailFacts ==
  ASSUME NEW S, NEW q \in Seq(S), q # <<>>
  PROVE  /\ Head(q) \in S /\ Head(q) = q[1] /\ 1 \in 1..Len(q)
         /\ Tail(q) \in Seq(S) /\ Len(Tail(q)) = Len(q) - 1
         /\ \A i \in 1..Len(Tail(q)) : i + 1 \in 1..Len(q) /\ Tail(q)[i] = q[i + 1]
         /\ \A i \in 1..Len(q) : i # 1 => i - 1 \in 1..Len(Tail(q)) /\ Tail(q)[i - 1] = q[i]
<1>1. Len(q) > 0 /\ Head(q) = q[1] /\ 1 \in 1..Len(q) /\ Head(q) \in S
  OBVIOUS
<1>2. Tail(q) \in Seq(S) /\ Len(Tail(q)) = Len(q) - 1
  OBVIOUS
<1>3. \A i \in 1..Len(Tail(q)) : i + 1 \in 1..Len(q) /\ Tail(q)[i] = q[i + 1]
  BY <1>1, <1>2
<1>4. \A i \in 1..Len(q) : i # 1 => i - 1 \in 1..Len(Tail(q)) /\ Tail(q)[i - 1] = q[i]
  <2> TAKE i \in 1..Len(q)
  <2> HAVE i # 1
  <2>1. i - 1 \in 1..Len(Tail(q)) /\ (i - 1) + 1 = i
    BY <1>2
  <2> QED BY <2>1, <1>3
<1> QED BY <1>1, <1>2, <1>3, <1>4

\* A request that leaves: a write is gone from the cache, a read is below.
LEMMA SendHead ==
  ASSUME NEW m \in MshrType, NEW q \in Seq(Request), q # <<>>,
         NEW in \in SUBSET Mfs, NEW ex, NEW be,
         HomesOf(m, q, in), ReadsOf(q, ex, be), OrderOf(q)
  PROVE  /\ HomesOf(m, Tail(q), IF IsWrite(Head(q)) THEN in \ {Head(q).mf} ELSE in)
         /\ ReadsOf(Tail(q), ex, IF IsRead(Head(q)) THEN be \cup {Head(q).mf} ELSE be)
         /\ OrderOf(Tail(q))
<1> DEFINE t == Tail(q)
           rest == IF IsWrite(Head(q)) THEN in \ {Head(q).mf} ELSE in
           sent == IF IsRead(Head(q)) THEN be \cup {Head(q).mf} ELSE be
<1>1. /\ Head(q) = q[1] /\ 1 \in 1..Len(q)
      /\ \A i \in 1..Len(t) : i + 1 \in 1..Len(q) /\ t[i] = q[i + 1] /\ i + 1 # 1
      /\ \A i \in 1..Len(q) : i # 1 => i - 1 \in 1..Len(t) /\ t[i - 1] = q[i]
  BY TailFacts
<1>2. \A i, j \in 1..Len(t) : i + 1 = j + 1 => i = j
  OBVIOUS
<1>3. HomesOf(m, t, rest)
  <2>0. rest = IF IsWrite(q[1]) THEN in \ {q[1].mf} ELSE in
    BY <1>1
  <2> HIDE DEF rest, t
  <2>1. \A c \in Blocks : \A i \in 1..Len(m[c]) : m[c][i] \in rest
    BY <1>1, <2>0 DEF HomesOf
  <2>2. \A c, d \in Blocks : \A i \in 1..Len(m[c]), j \in 1..Len(m[d]) :
          m[c][i] = m[d][j] => c = d /\ i = j
    BY DEF HomesOf
  <2>3. \A j \in 1..Len(t) : IsWrite(t[j]) => t[j].mf \in rest
    <3> TAKE j \in 1..Len(t)
    <3> HAVE IsWrite(t[j])
    <3>1. t[j].mf \in in
      BY <1>1 DEF HomesOf
    <3>2. IsWrite(q[1]) => q[1].mf # t[j].mf
      BY <1>1 DEF HomesOf
    <3> QED BY <3>1, <3>2, <2>0
  <2>4. \A i, j \in 1..Len(t) : IsWrite(t[i]) /\ IsWrite(t[j]) /\ t[i].mf = t[j].mf => i = j
    <3>1. \A i, j \in 1..Len(q) :
            IsWrite(q[i]) /\ IsWrite(q[j]) /\ q[i].mf = q[j].mf => i = j
      BY DEF HomesOf
    <3> TAKE i, j \in 1..Len(t)
    <3> HAVE IsWrite(t[i]) /\ IsWrite(t[j]) /\ t[i].mf = t[j].mf
    <3>2. i + 1 \in 1..Len(q) /\ t[i] = q[i + 1] /\ j + 1 \in 1..Len(q) /\ t[j] = q[j + 1]
      BY <1>1
    <3>3. i + 1 = j + 1
      BY <3>1, <3>2
    <3> QED BY <3>3
  <2>5. \A c \in Blocks : \A i \in 1..Len(m[c]), j \in 1..Len(t) :
          IsWrite(t[j]) => t[j].mf # m[c][i]
    <3>1. \A c \in Blocks : \A i \in 1..Len(m[c]), j \in 1..Len(q) :
            IsWrite(q[j]) => q[j].mf # m[c][i]
      BY DEF HomesOf
    <3> TAKE c \in Blocks
    <3> TAKE i \in 1..Len(m[c]), j \in 1..Len(t)
    <3>2. j + 1 \in 1..Len(q) /\ t[j] = q[j + 1]
      BY <1>1
    <3> QED BY <3>1, <3>2
  <2>6. \A f \in rest :
          \/ \E c \in Blocks : \E i \in 1..Len(m[c]) : m[c][i] = f
          \/ \E j \in 1..Len(t) : IsWrite(t[j]) /\ t[j].mf = f
    <3> TAKE f \in rest
    <3>1. f \in in /\ (IsWrite(q[1]) => f # q[1].mf)
      BY <2>0
    <3>2. CASE \E c \in Blocks : \E i \in 1..Len(m[c]) : m[c][i] = f
      BY <3>2
    <3>3. CASE \E j \in 1..Len(q) : IsWrite(q[j]) /\ q[j].mf = f
      <4>1. PICK j \in 1..Len(q) : IsWrite(q[j]) /\ q[j].mf = f
        BY <3>3
      <4>2. j # 1
        BY <4>1, <3>1
      <4>3. j - 1 \in 1..Len(t) /\ t[j - 1] = q[j]
        BY <4>2, <1>1
      <4> QED BY <4>1, <4>3
    <3> QED BY <3>1, <3>2, <3>3 DEF HomesOf
  <2> QED BY <2>1, <2>2, <2>3, <2>4, <2>5, <2>6 DEF HomesOf
<1>4. ReadsOf(t, ex, sent)
  <2>0. sent = IF IsRead(q[1]) THEN be \cup {q[1].mf} ELSE be
    BY <1>1
  <2> HIDE DEF sent, t
  <2>1. \A j \in 1..Len(t) : IsRead(t[j]) => \E e \in ex : e.mf = t[j].mf /\ e.block = t[j].block
    BY <1>1 DEF ReadsOf
  <2>2. \A j \in 1..Len(t) : IsRead(t[j]) => t[j].mf \notin sent
    BY <1>1, <2>0 DEF ReadsOf
  <2>3. \A i, j \in 1..Len(t) : IsRead(t[i]) /\ IsRead(t[j]) /\ t[i].mf = t[j].mf => i = j
    BY <1>1, <1>2 DEF ReadsOf
  <2>4. \A f \in sent : \E e \in ex : e.mf = f
    BY <1>1, <2>0 DEF ReadsOf
  <2> QED BY <2>1, <2>2, <2>3, <2>4 DEF ReadsOf
<1>5. OrderOf(t)
  <2> SUFFICES ASSUME NEW i \in 1..Len(t), NEW j \in 1..Len(t), t[i].kind = "writeback",
                      t[j].kind = "read", t[i].block = t[j].block
               PROVE  i < j
    BY DEF OrderOf
  <2>1. i + 1 < j + 1
    BY <1>1 DEF OrderOf
  <2> QED BY <2>1
<1> QED BY <1>3, <1>4, <1>5

\* The answer to a request: nobody waits for it any more.
LEMMA Answered ==
  ASSUME NEW q \in Seq(Request), NEW ex, NEW be, NEW e \in ex, e.mf \in be,
         ReadsOf(q, ex, be), \A f \in ex : f.mf = e.mf => f = e
  PROVE  ReadsOf(q, ex \ {e}, be \ {e.mf})
<1>1. \A j \in 1..Len(q) : IsRead(q[j]) =>
        \E f \in ex \ {e} : f.mf = q[j].mf /\ f.block = q[j].block
  BY DEF ReadsOf
<1>2. \A j \in 1..Len(q) : IsRead(q[j]) => q[j].mf \notin be \ {e.mf}
  BY DEF ReadsOf
<1>3. \A i, j \in 1..Len(q) : IsRead(q[i]) /\ IsRead(q[j]) /\ q[i].mf = q[j].mf => i = j
  BY DEF ReadsOf
<1>4. \A f \in be \ {e.mf} : \E g \in ex \ {e} : g.mf = f
  BY DEF ReadsOf
<1> QED BY <1>1, <1>2, <1>3, <1>4 DEF ReadsOf

\* An access given back: it was in one list only.
LEMMA GiveBack ==
  ASSUME NEW m \in MshrType, NEW q \in Seq(Request), NEW in \in SUBSET Mfs,
         NEW b \in Blocks, m[b] # <<>>, HomesOf(m, q, in)
  PROVE  LET k == [m EXCEPT ![b] = Tail(@)]
         IN  /\ k \in MshrType /\ Len(k[b]) = Len(m[b]) - 1
             /\ \A c \in Blocks : c # b => k[c] = m[c]
             /\ HomesOf(k, q, in \ {Head(m[b])})
<1> DEFINE k == [m EXCEPT ![b] = Tail(@)]
           rest == in \ {Head(m[b])}
<1>1. m[b] \in Seq(Mfs)
  BY DEF MshrType
<1>2. /\ Head(m[b]) = m[b][1] /\ 1 \in 1..Len(m[b])
      /\ Tail(m[b]) \in Seq(Mfs) /\ Len(Tail(m[b])) = Len(m[b]) - 1
      /\ \A i \in 1..Len(Tail(m[b])) : i + 1 \in 1..Len(m[b]) /\ Tail(m[b])[i] = m[b][i + 1]
      /\ \A i \in 1..Len(m[b]) :
           i # 1 => i - 1 \in 1..Len(Tail(m[b])) /\ Tail(m[b])[i - 1] = m[b][i]
  BY <1>1, TailFacts
<1>3. k \in MshrType /\ k[b] = Tail(m[b]) /\ \A c \in Blocks : c # b => k[c] = m[c]
  BY <1>1, <1>2 DEF MshrType
<1>4. rest = in \ {m[b][1]}
  BY <1>2
<1> HIDE DEF k, rest
<1>5. /\ \A i \in 1..Len(k[b]) : i + 1 \in 1..Len(m[b]) /\ k[b][i] = m[b][i + 1] /\ i + 1 # 1
      /\ \A i \in 1..Len(m[b]) : i # 1 => i - 1 \in 1..Len(k[b]) /\ k[b][i - 1] = m[b][i]
  BY <1>2, <1>3
<1>6. \A c \in Blocks : \A i \in 1..Len(k[c]) :
        \E j \in 1..Len(m[c]) : /\ k[c][i] = m[c][j] /\ (c = b => j # 1)
                                /\ j = IF c = b THEN i + 1 ELSE i
  <2> TAKE c \in Blocks
  <2>1. CASE c = b
    BY <2>1, <1>5
  <2>2. CASE c # b
    BY <2>2, <1>3
  <2> QED BY <2>1, <2>2
<1>7. \A c \in Blocks : \A i \in 1..Len(k[c]) : k[c][i] \in rest
  <2> TAKE c \in Blocks
  <2> TAKE i \in 1..Len(k[c])
  <2>1. PICK j \in 1..Len(m[c]) : k[c][i] = m[c][j] /\ (c = b => j # 1)
    BY <1>6
  <2>2. m[c][j] \in in
    BY DEF HomesOf
  <2>3. m[c][j] # m[b][1]
    BY <2>1, <1>2 DEF HomesOf
  <2> QED BY <2>1, <2>2, <2>3, <1>4
<1>8. \A c, d \in Blocks : \A i \in 1..Len(k[c]), j \in 1..Len(k[d]) :
        k[c][i] = k[d][j] => c = d /\ i = j
  <2> SUFFICES ASSUME NEW c \in Blocks, NEW d \in Blocks, NEW i \in 1..Len(k[c]),
                      NEW j \in 1..Len(k[d]), k[c][i] = k[d][j]
               PROVE  c = d /\ i = j
    OBVIOUS
  <2>1. PICK x \in 1..Len(m[c]) : k[c][i] = m[c][x] /\ x = IF c = b THEN i + 1 ELSE i
    BY <1>6
  <2>2. PICK y \in 1..Len(m[d]) : k[d][j] = m[d][y] /\ y = IF d = b THEN j + 1 ELSE j
    BY <1>6
  <2>3. \A z, w \in Blocks : \A g \in 1..Len(m[z]), h \in 1..Len(m[w]) :
          m[z][g] = m[w][h] => z = w /\ g = h
    BY DEF HomesOf
  <2>4. c = d /\ x = y
    <3>1. m[c][x] = m[d][y]
      BY <2>1, <2>2
    <3> QED BY <2>3, <3>1
  <2>5. i \in Int /\ j \in Int
    <3>1. k[c] \in Seq(Mfs) /\ k[d] \in Seq(Mfs)
      BY <1>3 DEF MshrType
    <3>2. Len(k[c]) \in Nat /\ Len(k[d]) \in Nat
      BY <3>1
    <3> QED BY <3>2
  <2>6. CASE c = b
    <3>1. x = i + 1
      BY <2>1, <2>6
    <3>2. d = b
      BY <2>4, <2>6
    <3>3. y = j + 1
      BY <2>2, <3>2
    <3>4. i + 1 = j + 1
      BY <2>4, <3>1, <3>3
    <3>5. i = j
      BY <2>5, <3>4
    <3> QED BY <2>4, <3>5
  <2>7. CASE c # b
    <3>1. x = i
      BY <2>1, <2>7
    <3>2. y = j
      BY <2>2, <2>4, <2>7
    <3> QED BY <2>4, <3>1, <3>2
  <2> QED BY <2>6, <2>7
<1>9. \A j \in 1..Len(q) : IsWrite(q[j]) => q[j].mf \in rest
  BY <1>2, <1>4 DEF HomesOf
<1>10. \A c \in Blocks : \A i \in 1..Len(k[c]), j \in 1..Len(q) :
         IsWrite(q[j]) => q[j].mf # k[c][i]
  <2> TAKE c \in Blocks
  <2> TAKE i \in 1..Len(k[c]), j \in 1..Len(q)
  <2>1. PICK x \in 1..Len(m[c]) : k[c][i] = m[c][x]
    BY <1>6
  <2> QED BY <2>1 DEF HomesOf
<1>11. \A f \in rest :
         \/ \E c \in Blocks : \E i \in 1..Len(k[c]) : k[c][i] = f
         \/ \E j \in 1..Len(q) : IsWrite(q[j]) /\ q[j].mf = f
  <2> TAKE f \in rest
  <2>1. f \in in /\ f # m[b][1]
    BY <1>4
  <2>2. CASE \E c \in Blocks : \E i \in 1..Len(m[c]) : m[c][i] = f
    <3>1. PICK c \in Blocks : \E i \in 1..Len(m[c]) : m[c][i] = f
      BY <2>2
    <3>2. PICK i \in 1..Len(m[c]) : m[c][i] = f
      BY <3>1
    <3>3. CASE c = b
      <4>1. i - 1 \in 1..Len(k[b]) /\ k[b][i - 1] = m[b][i]
        BY <3>2, <3>3, <2>1, <1>5
      <4> QED BY <4>1, <3>2, <3>3
    <3>4. CASE c # b
      BY <3>2, <3>4, <1>3
    <3> QED BY <3>3, <3>4
  <2>3. CASE \E j \in 1..Len(q) : IsWrite(q[j]) /\ q[j].mf = f
    BY <2>3
  <2> QED BY <2>1, <2>2, <2>3 DEF HomesOf
<1>12. HomesOf(k, q, rest)
  <2>1. \A i, j \in 1..Len(q) : IsWrite(q[i]) /\ IsWrite(q[j]) /\ q[i].mf = q[j].mf => i = j
    BY DEF HomesOf
  <2> QED BY <1>7, <1>8, <1>9, <1>10, <1>11, <2>1 DEF HomesOf
<1> QED BY <1>2, <1>3, <1>12 DEF k, rest

-----------------------------------------------------------------------------
(* The actions.                                                            *)

\* Entries is finite.
LEMMA EntriesFinite == IsFiniteSet(Entries) /\ Cardinality(Entries) \in Nat
<1>1. Entries \subseteq Blocks /\ IsFiniteSet(Blocks)
  BY CacheConstants DEF Entries
<1> QED BY <1>1, FS_Subset, FS_CardinalityType

\* An access that reads nothing from below: it may change the tag array as
\* long as reservations stay, and may queue a write.
LEMMA NoReadKeeps ==
  ASSUME IInv, UNCHANGED <<policy, mshrVars, extra, below>>,
         lines' \in [Lines -> LineType], Tags', Kept', lru' \subseteq Lines \X Lines,
         \A m \in Lines : /\ lines'[m].block \in {lines[m].block, NoBlock}
                          /\ lines[m].status = "RESERVED" => lines'[m] = lines[m],
         \/ UNCHANGED <<missQueue, inside>>
         \/ \E w \in Mfs, b \in Blocks :
              /\ w \notin inside /\ ~QueueFull(0)
              /\ missQueue' = Append(missQueue, WriteRequest(w, b))
              /\ inside' = inside \cup {w}
  PROVE  IInv'
<1>1. /\ missQueue' \in Seq(Request) /\ Len(missQueue') <= MissQueueSize
      /\ inside' \subseteq Mfs /\ Homes' /\ Reads' /\ RefetchAfterWriteback'
  <2>1. CASE UNCHANGED <<missQueue, inside>>
    BY <2>1 DEF IInv, TypeOK, Homes, Reads, RefetchAfterWriteback, mshrVars
  <2>2. CASE \E w \in Mfs, b \in Blocks :
               /\ w \notin inside /\ ~QueueFull(0)
               /\ missQueue' = Append(missQueue, WriteRequest(w, b))
               /\ inside' = inside \cup {w}
    <3>1. PICK w \in Mfs, b \in Blocks :
                 /\ w \notin inside /\ ~QueueFull(0)
                 /\ missQueue' = Append(missQueue, WriteRequest(w, b))
                 /\ inside' = inside \cup {w}
      BY <2>2
    <3>2. /\ mshr \in MshrType /\ missQueue \in Seq(Request) /\ inside \in SUBSET Mfs
          /\ HomesOf(mshr, missQueue, inside) /\ ReadsOf(missQueue, extra, below)
          /\ OrderOf(missQueue)
      BY DEF IInv, TypeOK, MshrType, Homes, Reads, RefetchAfterWriteback, OrderOf
    <3>3. /\ missQueue' \in Seq(Request) /\ Len(missQueue') = Len(missQueue) + 1
          /\ HomesOf(mshr, missQueue', inside') /\ ReadsOf(missQueue', extra, below)
          /\ OrderOf(missQueue')
      <4>1. w \notin inside
        BY <3>1
      <4> DEFINE r == Append(missQueue, WriteRequest(w, b))
      <4>2. /\ r \in Seq(Request) /\ Len(r) = Len(missQueue) + 1
            /\ HomesOf(mshr, r, inside \cup {w}) /\ ReadsOf(r, extra, below) /\ OrderOf(r)
        BY <3>2, <4>1, AppendWrite
      <4>3. missQueue' = r /\ inside' = inside \cup {w}
        BY <3>1
      <4> HIDE DEF r
      <4> QED BY <4>2, <4>3
    <3>4. Len(missQueue) < MissQueueSize
      BY <3>1, <3>2, CacheConstants DEF QueueFull
    <3>5. Len(missQueue') <= MissQueueSize
      BY <3>2, <3>3, <3>4, CacheConstants
    <3>6. mshr' = mshr /\ extra' = extra /\ below' = below
      BY DEF mshrVars
    <3> QED BY <3>1, <3>2, <3>3, <3>5, <3>6
         DEF Homes, Reads, RefetchAfterWriteback, OrderOf
  <2> QED BY <2>1, <2>2
<1>2. TypeOK'
  <2>1. lines' \in [Lines -> [status : {"INVALID", "RESERVED", "VALID", "MODIFIED"},
                             block : Blocks \cup {NoBlock}]]
    BY DEF LineType, Statuses
  <2>2. /\ policy' = policy /\ mshr' = mshr /\ atomics' = atomics /\ ready' = ready
        /\ extra' = extra /\ below' = below /\ Entries' = Entries
    BY DEF mshrVars, Entries
  <2> QED BY <1>1, <2>1, <2>2 DEF IInv, TypeOK
<1>3. Responses'
  BY DEF IInv, Responses, mshrVars, Entries
<1>4. FillFinds'
  <2>1. \A e \in extra :
          IF policy.alloc = "ON_MISS"
          THEN e.line \in Lines /\ lines'[e.line] = [status |-> "RESERVED", block |-> e.block]
          ELSE Copies(e.block)' = {}
    <3> TAKE e \in extra
    <3>1. e.block \in Blocks
      BY DEF IInv, TypeOK, Fields
    <3>2. CASE policy.alloc = "ON_MISS"
      <4>1. e.line \in Lines /\ lines[e.line] = [status |-> "RESERVED", block |-> e.block]
        BY <3>2 DEF IInv, FillFinds
      <4>2. lines[e.line].status = "RESERVED"
        BY <4>1
      <4>3. lines'[e.line] = lines[e.line]
        BY <4>1, <4>2
      <4> QED BY <3>2, <4>1, <4>3
    <3>3. CASE policy.alloc # "ON_MISS"
      <4>1. Copies(e.block) = {}
        BY <3>3 DEF IInv, FillFinds
      <4>2. Copies(e.block)' \subseteq Copies(e.block)
        BY <3>1, LineFacts DEF Copies, LinesOf
      <4> QED BY <3>3, <4>1, <4>2
    <3> QED BY <3>2, <3>3
  <2>2. \A e \in extra :
          /\ mshr[e.block] # <<>> /\ Head(mshr[e.block]) = e.mf
          /\ \A i \in 1..Len(ready) : ready[i] # e.block
          /\ \A f \in extra : f.block = e.block => f = e
    BY DEF IInv, FillFinds
  <2>3. policy' = policy /\ mshr' = mshr /\ ready' = ready /\ extra' = extra
    BY DEF mshrVars
  <2> QED BY <2>1, <2>2, <2>3 DEF FillFinds
<1> QED BY <1>1, <1>2, <1>3, <1>4 DEF IInv

\* Every fetch queued is of a block that something waits for, whose line (if
\* lines are allocated on a miss) is reserved: it is no dirty line.
LEMMA NoFetchOfDirty ==
  ASSUME IInv, NEW q, ReadsOf(q, extra, below), NEW l \in Lines, NEW c \in Blocks,
         policy.alloc = "ON_MISS", lines[l].block = c, lines[l].status = "MODIFIED"
  PROVE  \A j \in 1..Len(q) : IsRead(q[j]) => q[j].block # c
<1> SUFFICES ASSUME NEW j \in 1..Len(q), IsRead(q[j]), q[j].block = c
             PROVE  FALSE
  OBVIOUS
<1>1. PICK e \in extra : e.block = c
  BY DEF ReadsOf
<1>2. e.line \in Lines /\ lines[e.line] = [status |-> "RESERVED", block |-> c]
  BY <1>1 DEF IInv, FillFinds
<1>3. lines[e.line].block = c /\ lines[e.line].status = "RESERVED"
  BY <1>2
<1>4. e.line \in Copies(c) /\ l \in Copies(c)
  BY <1>2, <1>3, LineFacts DEF Copies, IInv, Tags
<1>5. e.line = l
  BY <1>4 DEF IInv, Tags, OneCopy
<1> QED BY <1>3, <1>5

\* send_read_request of n for b, from a state in which the accesses of in are
\* in the lists and in queue q.
LEMMA SendReadKeeps ==
  ASSUME IInv, NEW b \in Blocks, NEW n \in Mfs, NEW q \in Seq(Request),
         NEW in \in SUBSET Mfs, NEW atomic \in BOOLEAN, NEW l \in Lines \cup {NoLine},
         n \notin in, HomesOf(mshr, q, in), ReadsOf(q, extra, below), OrderOf(q),
         ~Hit(b), Slot(b, l), Accepted(b, q), SendRead(n, b, atomic, q, l),
         Len(q) < MissQueueSize, policy.write # "READ_ONLY" => Len(q) + 2 <= MissQueueSize,
         policy.write = "READ_ONLY" => ~atomic,
         inside' = in \cup {n}, UNCHANGED <<policy, below>>
  PROVE  IInv'
<1> DEFINE m == [mshr EXCEPT ![b] = Append(@, n)]
           x == [mf |-> n, block |-> b, line |-> l]
           read == [kind |-> "read", mf |-> n, block |-> b]
           r == IF b \in Entries THEN q ELSE Append(q, read)
           ex == IF b \in Entries THEN extra ELSE extra \cup {x}
<1>1. TypeOK /\ Tags /\ Kept /\ Responses /\ FillFinds /\ mshr \in MshrType
      /\ extra \in SUBSET Fields
  BY DEF IInv, TypeOK, MshrType
<1>2. mshr' = m /\ extra' = ex /\ ready' = ready /\ policy' = policy /\ below' = below
  BY DEF SendRead
<1>3. missQueue' = r \o WritebackOf(b, l)
  BY DEF SendRead
<1>4. Reserves(b, l) /\ lru' \subseteq Lines \X Lines
  BY <1>1, MissReserves DEF SendRead
<1>5. atomics' \subseteq Blocks /\ (policy.write = "READ_ONLY" => atomics' = {})
  BY <1>1 DEF SendRead, TypeOK, Kept
<1>6. lines' \in [Lines -> LineType] /\ Tags' /\ Kept'
  BY <1>1, <1>4, <1>5, <1>2, ReservesKeeps
<1>7. /\ m \in MshrType /\ Len(m[b]) = Len(mshr[b]) + 1
      /\ \A i \in 1..Len(mshr[b]) : m[b][i] = mshr[b][i]
      /\ m[b][Len(mshr[b]) + 1] = n
      /\ \A c \in Blocks : c # b => m[c] = mshr[c]
      /\ HomesOf(m, q, in \cup {n})
  BY <1>1, AddMerged
<1>8. mshr[b] \in Seq(Mfs) /\ m[b] \in Seq(Mfs)
  BY <1>1, <1>7 DEF MshrType
<1>9. \A e \in extra : /\ e.mf \in in /\ e.block \in Entries /\ e.block \in Blocks
                       /\ mshr[e.block] \in Seq(Mfs) /\ mshr[e.block] # <<>>
                       /\ Head(mshr[e.block]) = e.mf
  <2> TAKE e \in extra
  <2>1. e.block \in Blocks /\ mshr[e.block] # <<>> /\ Head(mshr[e.block]) = e.mf
    BY <1>1 DEF FillFinds, Fields
  <2>2. mshr[e.block] \in Seq(Mfs)
    BY <1>1, <2>1 DEF MshrType
  <2>3. e.mf = mshr[e.block][1] /\ 1 \in 1..Len(mshr[e.block])
    BY <2>1, <2>2, TailFacts
  <2> QED BY <2>1, <2>2, <2>3 DEF Entries, HomesOf
<1>10. (\A e \in extra : e.mf # n) /\ n \notin below
  BY <1>9 DEF ReadsOf
<1>11. x \in Fields /\ x.mf = n /\ x.block = b /\ x.line = l
  BY DEF Fields
<1>12. /\ r \in Seq(Request) /\ Len(r) <= Len(q) + 1
       /\ HomesOf(m, r, in \cup {n}) /\ ReadsOf(r, ex, below) /\ OrderOf(r)
       /\ \A j \in 1..Len(r) : IsRead(r[j]) =>
            r[j].block = b \/ \E i \in 1..Len(q) : IsRead(q[i]) /\ q[i].block = r[j].block
  <2>1. CASE b \in Entries
    <3>1. r = q /\ ex = extra
      BY <2>1
    <3> HIDE DEF r, ex, m
    <3> QED BY <1>7, <3>1
  <2>2. CASE b \notin Entries
    <3> DEFINE a == Append(q, read)
    <3>1. /\ a \in Seq(Request) /\ Len(a) = Len(q) + 1
          /\ HomesOf(m, a, in \cup {n}) /\ ReadsOf(a, extra \cup {x}, below) /\ OrderOf(a)
      <4>1. ~Waits(n, extra)
        BY <1>10 DEF Waits
      <4>2. n \notin below
        BY <1>10
      <4>3. x.mf = n /\ x.block = b
        BY <1>11
      <4>4. /\ a \in Seq(Request) /\ Len(a) = Len(q) + 1
            /\ \A i \in 1..Len(q) : a[i] = q[i]
            /\ a[Len(q) + 1] = read
            /\ ReadsOf(a, extra \cup {x}, below) /\ OrderOf(a)
        <5> HIDE DEF x
        <5> QED BY <4>1, <4>2, <4>3, AppendRead
      <4>5. ~IsWrite(a[Len(q) + 1])
        BY <4>4 DEF IsWrite
      <4>6. HomesOf(m, a, in \cup {n})
        <5> HIDE DEF m, a
        <5> QED BY <1>7, <4>4, <4>5, AppendOther
      <4> QED BY <4>4, <4>6
    <3>2. \A j \in 1..Len(a) : IsRead(a[j]) =>
            a[j].block = b \/ \E i \in 1..Len(q) : IsRead(q[i]) /\ q[i].block = a[j].block
      <4>1. \A j \in 1..Len(a) : j \in 1..Len(q) \/ j = Len(q) + 1
        BY <3>1
      <4>2. read \in Request /\ read.block = b
        BY DEF Request
      <4>3. a[Len(q) + 1].block = b /\ \A j \in 1..Len(q) : a[j] = q[j]
        BY <4>2
      <4> HIDE DEF a
      <4> QED BY <4>1, <4>3
    <3>3. r = a /\ ex = extra \cup {x}
      BY <2>2
    <3> HIDE DEF r, ex, m, a, x
    <3> QED BY <3>1, <3>2, <3>3
  <2> QED BY <2>1, <2>2
<1> HIDE DEF r, m
<1>13. /\ missQueue' \in Seq(Request) /\ Len(missQueue') <= MissQueueSize
       /\ HomesOf(m, missQueue', in \cup {n}) /\ ReadsOf(missQueue', ex, below)
       /\ OrderOf(missQueue')
  <2>1. CASE WritebackOf(b, l) = <<>>
    <3>1. missQueue' = r
      BY <1>3, <1>12, <2>1
    <3>2. Len(r) <= MissQueueSize
      BY <1>12, CacheConstants
    <3> QED BY <3>1, <3>2, <1>12
  <2>2. CASE WritebackOf(b, l) # <<>>
    <3> DEFINE c == lines[l].block
               wb == [kind |-> "writeback", mf |-> NoMf, block |-> c]
    <3>1. l # NoLine /\ c # b /\ lines[l].status = "MODIFIED" /\ WritebackOf(b, l) = <<wb>>
      BY <2>2 DEF WritebackOf
    <3>2. l \in Lines /\ c \in Blocks
      BY <1>1, <3>1 DEF TypeOK, Tags
    <3>3. policy.alloc = "ON_MISS" /\ policy.write # "READ_ONLY"
      BY <1>1, <1>4, <3>1, <3>2 DEF Reserves, Kept
    <3> HIDE DEF c
    <3>4. \A j \in 1..Len(q) : IsRead(q[j]) => q[j].block # c
      BY <3>1, <3>2, <3>3, NoFetchOfDirty DEF c
    <3>5. \A j \in 1..Len(r) : IsRead(r[j]) => r[j].block # c
      BY <1>12, <3>1, <3>4
    <3> DEFINE a == Append(r, wb)
    <3>6. /\ a \in Seq(Request) /\ Len(a) = Len(r) + 1
          /\ HomesOf(m, a, in \cup {n}) /\ ReadsOf(a, ex, below) /\ OrderOf(a)
      <4> HIDE DEF ex
      <4> QED BY <1>7, <1>12, <3>2, <3>5, AppendWriteback
    <3>7. missQueue' = a
      <4>1. wb \in Request
        BY <3>2 DEF Request
      <4> HIDE DEF wb
      <4>2. r \o <<wb>> = Append(r, wb)
        BY <4>1, <1>12
      <4> QED BY <4>2, <1>3, <3>1
    <3>8. Len(a) <= MissQueueSize
      BY <1>12, <3>3, <3>6, CacheConstants
    <3> HIDE DEF a
    <3> QED BY <3>6, <3>7, <3>8
  <2> QED BY <2>1, <2>2
<1>14. Homes' /\ Reads' /\ RefetchAfterWriteback'
  BY <1>2, <1>13 DEF Homes, Reads, RefetchAfterWriteback, OrderOf
<1>15. Entries' = Entries \cup {b}
  <2>1. m[b] # <<>>
    <3>1. Len(m[b]) # 0
      BY <1>7, <1>8
    <3> QED BY <3>1, <1>8
  <2> QED BY <1>2, <1>7, <2>1 DEF Entries
<1>16. /\ \A c \in Blocks : Len(m[c]) <= MaxMerge
       /\ Cardinality(Entries') <= MshrEntries
  <2>1. \A c \in Blocks : Len(mshr[c]) <= MaxMerge
    BY <1>1 DEF TypeOK
  <2>2. CASE b \in Entries
    <3>1. Len(mshr[b]) < MaxMerge /\ Entries' = Entries
      BY <2>2, <1>15 DEF Accepted
    <3>2. Len(m[b]) <= MaxMerge
      BY <3>1, <1>7, <1>8, CacheConstants
    <3> QED BY <2>1, <3>1, <3>2, <1>1, <1>7 DEF TypeOK
  <2>3. CASE b \notin Entries
    <3>1. Cardinality(Entries) < MshrEntries /\ mshr[b] = <<>>
      BY <2>3 DEF Accepted, Entries
    <3>2. Len(m[b]) <= MaxMerge
      <4>1. Len(mshr[b]) = 0
        BY <3>1
      <4> QED BY <4>1, <1>7, CacheConstants
    <3>3. Cardinality(Entries') = Cardinality(Entries) + 1
      BY <2>3, <1>15, EntriesFinite, FS_AddElement
    <3>4. Cardinality(Entries') <= MshrEntries
      BY <3>1, <3>3, EntriesFinite, CacheConstants
    <3>5. \A c \in Blocks : Len(m[c]) <= MaxMerge
      BY <2>1, <3>2, <1>7
    <3> QED BY <3>4, <3>5
  <2> QED BY <2>2, <2>3
<1>17. TypeOK'
  <2>1. lines' \in [Lines -> [status : {"INVALID", "RESERVED", "VALID", "MODIFIED"},
                             block : Blocks \cup {NoBlock}]]
    BY <1>6 DEF LineType, Statuses
  <2>2. extra' \subseteq Fields
    BY <1>1, <1>2, <1>11
  <2>3. inside' \subseteq Mfs
    OBVIOUS
  <2>4. mshr' \in [Blocks -> Seq(Mfs)]
    BY <1>2, <1>7 DEF MshrType
  <2> QED BY <1>1, <1>2, <1>4, <1>5, <1>13, <1>16, <2>1, <2>2, <2>3, <2>4 DEF TypeOK
<1>18. Responses'
  BY <1>1, <1>2, <1>15 DEF Responses
<1>19. \A e \in ex :
         IF policy.alloc = "ON_MISS"
         THEN e.line \in Lines /\ lines'[e.line] = [status |-> "RESERVED", block |-> e.block]
         ELSE Copies(e.block)' = {}
  <2> SUFFICES ASSUME NEW e \in ex
               PROVE  IF policy.alloc = "ON_MISS"
                      THEN /\ e.line \in Lines
                           /\ lines'[e.line] = [status |-> "RESERVED", block |-> e.block]
                      ELSE Copies(e.block)' = {}
    OBVIOUS
  <2>1. CASE policy.alloc = "ON_MISS"
    <3>1. /\ l \in Lines
          /\ lines' = [lines EXCEPT ![l] = [status |-> "RESERVED", block |-> b]]
          /\ lines[l].status = "RESERVED" => lines[l].block = b
      BY <1>4, <2>1 DEF Reserves
    <3>2. lines'[l] = [status |-> "RESERVED", block |-> b]
          /\ \A k \in Lines : k # l => lines'[k] = lines[k]
      BY <1>1, <3>1 DEF TypeOK
    <3>3. CASE e \in extra
      <4>1. e.line \in Lines /\ lines[e.line] = [status |-> "RESERVED", block |-> e.block]
        BY <1>1, <2>1, <3>3 DEF FillFinds
      <4>2. lines[e.line].status = "RESERVED" /\ lines[e.line].block = e.block
        BY <4>1
      <4>3. CASE e.line = l
        <5>1. e.block = b
          BY <3>1, <4>2, <4>3
        <5> QED BY <2>1, <3>1, <3>2, <4>3, <5>1
      <4>4. CASE e.line # l
        BY <2>1, <3>2, <4>1, <4>4
      <4> QED BY <4>3, <4>4
    <3>4. CASE e = x
      <4>1. e.line = l /\ e.block = b
        BY <1>11, <3>4
      <4> QED BY <2>1, <3>1, <3>2, <4>1
    <3> QED BY <3>3, <3>4
  <2>2. CASE policy.alloc # "ON_MISS"
    <3>1. lines' = lines /\ Copies(b) = {}
      BY <1>4, <2>2 DEF Reserves
    <3>2. Copies(e.block) = {}
      BY <1>1, <1>11, <2>2, <3>1 DEF FillFinds
    <3> QED BY <2>2, <3>1, <3>2 DEF Copies, LinesOf
  <2> QED BY <2>1, <2>2
<1>20. \A e \in ex : m[e.block] # <<>> /\ Head(m[e.block]) = e.mf
  <2>1. \A c \in Blocks : m[c] \in Seq(Mfs) /\ mshr[c] \in Seq(Mfs)
    BY <1>1, <1>7 DEF MshrType
  <2>2. Len(m[b]) > 0
    BY <1>7, <1>8
  <2>3. m[b] # <<>> /\ Head(m[b]) = m[b][1]
    BY <2>2, <1>8
  <2>4. ASSUME NEW e \in extra
        PROVE  m[e.block] # <<>> /\ Head(m[e.block]) = e.mf
    <3>1. CASE e.block = b
      <4>1. e.mf = mshr[b][1] /\ 1 \in 1..Len(mshr[b])
        BY <1>8, <1>9, <3>1, TailFacts
      <4> QED BY <2>3, <4>1, <3>1, <1>7
    <3>2. CASE e.block # b
      BY <1>7, <1>9, <3>2
    <3> QED BY <3>1, <3>2
  <2>5. ASSUME b \notin Entries
        PROVE  m[b][1] = n
    <3>1. mshr[b] = <<>>
      BY <2>5 DEF Entries
    <3> QED BY <3>1, <1>7
  <2> QED BY <2>3, <2>4, <2>5, <1>11
<1>21. \A e \in ex : \A i \in 1..Len(ready) : ready[i] # e.block
  <2>1. \A e \in extra : \A i \in 1..Len(ready) : ready[i] # e.block
    BY <1>1 DEF FillFinds
  <2>2. \A i \in 1..Len(ready) : ready[i] \in Entries
    BY <1>1 DEF Responses
  <2> HIDE DEF x
  <2> QED BY <2>1, <2>2, <1>11
<1>22. \A e, f \in ex : f.block = e.block => f = e
  <2>1. \A e, f \in extra : f.block = e.block => f = e
    BY <1>1 DEF FillFinds
  <2>2. \A e \in extra : e.block \in Entries
    BY <1>9
  <2> HIDE DEF x
  <2> QED BY <2>1, <2>2, <1>11
<1>23. FillFinds'
  <2> HIDE DEF ex
  <2> QED BY <1>2, <1>19, <1>20, <1>21, <1>22 DEF FillFinds
<1> QED BY <1>6, <1>14, <1>17, <1>18, <1>23 DEF IInv

\* A hit that leaves the line in the cache, or gives it up, and at most queues
\* a write.
LEMMA HitStep ==
  ASSUME IInv, NEW b \in Blocks, NEW l \in Copies(b), Hit(b),
         \/ lines' = lines /\ lru' = Touched(l)
         \/ /\ lines' = [lines EXCEPT ![l].status = "MODIFIED"]
            /\ lru' = Touched(l) /\ policy.write # "READ_ONLY"
         \/ lines' = [lines EXCEPT ![l] = EmptyLine] /\ lru' = Without(l),
         UNCHANGED <<policy, mshrVars, extra, below>>,
         \/ UNCHANGED <<missQueue, inside>>
         \/ \E w \in Mfs, c \in Blocks :
              /\ w \notin inside /\ ~QueueFull(0)
              /\ missQueue' = Append(missQueue, WriteRequest(w, c))
              /\ inside' = inside \cup {w}
  PROVE  IInv'
<1>1. TypeOK /\ Tags /\ Kept /\ policy' = policy /\ atomics' = atomics
  BY DEF IInv, mshrVars
<1>2. /\ lines' \in [Lines -> LineType] /\ Tags' /\ Kept' /\ lru' \subseteq Lines \X Lines
      /\ \A m \in Lines : /\ lines'[m].block \in {lines[m].block, NoBlock}
                          /\ lines[m].status = "RESERVED" => lines'[m] = lines[m]
  <2>1. CASE lines' = lines /\ lru' = Touched(l)
    BY <1>1, <2>1, HitKeeps
  <2>2. CASE /\ lines' = [lines EXCEPT ![l].status = "MODIFIED"]
             /\ lru' = Touched(l) /\ policy.write # "READ_ONLY"
    BY <1>1, <2>2, HitKeeps
  <2>3. CASE lines' = [lines EXCEPT ![l] = EmptyLine] /\ lru' = Without(l)
    BY <1>1, <2>3, EvictKeeps
  <2> QED BY <2>1, <2>2, <2>3
<1> QED BY <1>2, NoReadKeeps

LEMMA ReadHitKeeps ==
  ASSUME IInv, NEW mf \in Mfs, NEW b \in Blocks, NEW atomic \in BOOLEAN,
         ReadHit(mf, b, atomic)
  PROVE  IInv'
<1>1. PICK l \in Copies(b) :
        /\ lru' = Touched(l)
        /\ lines' = IF atomic THEN [lines EXCEPT ![l].status = "MODIFIED"] ELSE lines
  BY DEF ReadHit
<1>2. Hit(b) /\ (atomic => policy.write # "READ_ONLY")
      /\ UNCHANGED <<policy, mshrVars, extra, below>> /\ UNCHANGED <<missQueue, inside>>
  BY DEF ReadHit, MayRead
<1>3. \/ lines' = lines /\ lru' = Touched(l)
      \/ /\ lines' = [lines EXCEPT ![l].status = "MODIFIED"]
         /\ lru' = Touched(l) /\ policy.write # "READ_ONLY"
  BY <1>1, <1>2
<1> QED BY <1>2, <1>3, HitStep

LEMMA WriteHitKeeps ==
  ASSUME IInv, NEW mf \in Mfs, NEW b \in Blocks,
         WriteBackHit(mf, b) \/ WriteThroughHit(mf, b) \/ WriteEvictHit(mf, b)
  PROVE  IInv'
<1>1. Hit(b) /\ policy.write # "READ_ONLY" /\ mf \notin inside
      /\ UNCHANGED <<policy, mshrVars, extra, below>>
  BY DEF WriteBackHit, WriteThroughHit, WriteEvictHit, Writes
<1>2. CASE WriteBackHit(mf, b)
  <2>1. PICK l \in Copies(b) : /\ lru' = Touched(l)
                               /\ lines' = [lines EXCEPT ![l].status = "MODIFIED"]
    BY <1>2 DEF WriteBackHit
  <2>2. UNCHANGED <<missQueue, inside>>
    BY <1>2 DEF WriteBackHit
  <2> QED BY <1>1, <2>1, <2>2, HitStep
<1>3. CASE WriteThroughHit(mf, b)
  <2>1. PICK l \in Copies(b) : /\ lru' = Touched(l)
                               /\ lines' = [lines EXCEPT ![l].status = "MODIFIED"]
    BY <1>3 DEF WriteThroughHit
  <2>2. /\ ~QueueFull(0) /\ inside' = inside \cup {mf}
        /\ missQueue' = Append(missQueue, WriteRequest(mf, b))
    BY <1>3 DEF WriteThroughHit
  <2> QED BY <1>1, <2>1, <2>2, HitStep
<1>4. CASE WriteEvictHit(mf, b)
  <2>1. PICK l \in Copies(b) : /\ lru' = Without(l)
                               /\ lines' = [lines EXCEPT ![l] = EmptyLine]
    BY <1>4 DEF WriteEvictHit
  <2>2. /\ ~QueueFull(0) /\ inside' = inside \cup {mf}
        /\ missQueue' = Append(missQueue, WriteRequest(mf, b))
    BY <1>4 DEF WriteEvictHit
  <2> QED BY <1>1, <2>1, <2>2, HitStep
<1> QED BY <1>2, <1>3, <1>4

LEMMA WriteMissNoAllocKeeps ==
  ASSUME IInv, NEW mf \in Mfs, NEW b \in Blocks, WriteMissNoAlloc(mf, b)
  PROVE  IInv'
<1>1. /\ mf \notin inside /\ ~QueueFull(0) /\ inside' = inside \cup {mf}
      /\ missQueue' = Append(missQueue, WriteRequest(mf, b))
      /\ UNCHANGED <<policy, mshrVars, extra, below>> /\ lines' = lines /\ lru' = lru
  BY DEF WriteMissNoAlloc, WriteMiss, tagVars
<1>2. lines' \in [Lines -> LineType] /\ lru' \subseteq Lines \X Lines
  BY <1>1 DEF IInv, TypeOK, LineType, Statuses
<1>3. Tags' /\ Kept'
  BY <1>1 DEF IInv, Tags, OneCopy, Copies, LinesOf, Kept, mshrVars
<1>4. \A m \in Lines : /\ lines'[m].block \in {lines[m].block, NoBlock}
                       /\ lines[m].status = "RESERVED" => lines'[m] = lines[m]
  BY <1>1
<1> QED BY <1>1, <1>2, <1>3, <1>4, NoReadKeeps

LEMMA ReadMissKeeps ==
  ASSUME IInv, NEW mf \in Mfs, NEW b \in Blocks, NEW atomic \in BOOLEAN,
         ReadMiss(mf, b, atomic)
  PROVE  IInv'
<1>1. PICK l \in Lines \cup {NoLine} : Slot(b, l) /\ SendRead(mf, b, atomic, missQueue, l)
  BY DEF ReadMiss
<1>2. /\ mf \notin inside /\ inside' = inside \cup {mf} /\ UNCHANGED <<policy, below>>
      /\ ~Hit(b) /\ Accepted(b, missQueue)
      /\ policy.write = "READ_ONLY" => ~atomic
  BY DEF ReadMiss, MayRead
<1>3. /\ missQueue \in Seq(Request) /\ inside \in SUBSET Mfs
      /\ HomesOf(mshr, missQueue, inside) /\ ReadsOf(missQueue, extra, below)
      /\ OrderOf(missQueue)
  BY DEF IInv, TypeOK, Homes, Reads, RefetchAfterWriteback, OrderOf
<1>4. /\ Len(missQueue) < MissQueueSize
      /\ policy.write # "READ_ONLY" => Len(missQueue) + 2 <= MissQueueSize
  <2>1. ~QueueFull(IF policy.write = "READ_ONLY" THEN 0 ELSE 1)
    BY DEF ReadMiss
  <2>2. CASE policy.write = "READ_ONLY"
    BY <2>1, <2>2, <1>3, CacheConstants DEF QueueFull
  <2>3. CASE policy.write # "READ_ONLY"
    BY <2>1, <2>3, <1>3, CacheConstants DEF QueueFull
  <2> QED BY <2>2, <2>3
<1> QED BY <1>1, <1>2, <1>3, <1>4, SendReadKeeps

\* The write and the read of wr_miss_wa both go in.
LEMMA WriteMissAllocKeeps ==
  ASSUME IInv, NEW mf \in Mfs, NEW n \in Mfs, NEW b \in Blocks, WriteMissAlloc(mf, n, b)
  PROVE  IInv'
<1> DEFINE q == Append(missQueue, WriteRequest(mf, b))
<1>1. /\ missQueue \in Seq(Request) /\ inside \in SUBSET Mfs /\ mshr \in MshrType
      /\ HomesOf(mshr, missQueue, inside) /\ ReadsOf(missQueue, extra, below)
      /\ OrderOf(missQueue)
  BY DEF IInv, TypeOK, Homes, Reads, RefetchAfterWriteback, OrderOf, MshrType
<1>2. /\ mf \notin inside /\ policy.write # "READ_ONLY" /\ ~Hit(b)
      /\ ~QueueFull(2) /\ Accepted(b, missQueue) /\ UNCHANGED <<policy, below>>
  BY DEF WriteMissAlloc, WriteMiss, Admits
<1>3. /\ q \in Seq(Request) /\ Len(q) = Len(missQueue) + 1
      /\ HomesOf(mshr, q, inside \cup {mf}) /\ ReadsOf(q, extra, below) /\ OrderOf(q)
  BY <1>1, <1>2, AppendWrite
<1>4. Len(q) + 2 <= MissQueueSize /\ Len(q) < MissQueueSize
  <2> HIDE DEF q
  <2> QED BY <1>1, <1>2, <1>3, CacheConstants DEF QueueFull
<1>5. Accepted(b, q)
  <2> HIDE DEF q
  <2> QED BY <1>2, <1>4 DEF Accepted
<1>6. /\ n \notin inside \cup {mf} /\ inside' = (inside \cup {mf}) \cup {n}
      /\ \E l \in Lines \cup {NoLine} : Slot(b, l) /\ SendRead(n, b, FALSE, q, l)
  BY <1>5 DEF WriteMissAlloc
<1> HIDE DEF q
<1>7. PICK l \in Lines \cup {NoLine} : Slot(b, l) /\ SendRead(n, b, FALSE, q, l)
  BY <1>6
<1> DEFINE in == inside \cup {mf}
<1>8. in \in SUBSET Mfs /\ n \notin in /\ HomesOf(mshr, q, in) /\ inside' = in \cup {n}
  BY <1>1, <1>3, <1>6
<1> HIDE DEF in
<1> QED BY <1>2, <1>3, <1>4, <1>5, <1>7, <1>8, SendReadKeeps

LEMMA CycleKeeps == ASSUME IInv, Cycle PROVE IInv'
<1>1. /\ missQueue \in Seq(Request) /\ inside \in SUBSET Mfs /\ mshr \in MshrType
      /\ HomesOf(mshr, missQueue, inside) /\ ReadsOf(missQueue, extra, below)
      /\ OrderOf(missQueue) /\ Len(missQueue) <= MissQueueSize /\ below \subseteq Mfs
  BY DEF IInv, TypeOK, Homes, Reads, RefetchAfterWriteback, OrderOf, MshrType
<1>2. /\ missQueue # <<>> /\ missQueue' = Tail(missQueue)
      /\ below' = IF IsRead(Head(missQueue)) THEN below \cup {Head(missQueue).mf} ELSE below
      /\ inside' = IF IsWrite(Head(missQueue)) THEN inside \ {Head(missQueue).mf} ELSE inside
      /\ policy' = policy /\ lines' = lines /\ lru' = lru /\ mshr' = mshr
      /\ atomics' = atomics /\ ready' = ready /\ extra' = extra
  BY DEF Cycle, IsRead, IsWrite, tagVars, mshrVars
<1>3. /\ HomesOf(mshr, missQueue', inside') /\ ReadsOf(missQueue', extra, below')
      /\ OrderOf(missQueue')
  BY <1>1, <1>2, SendHead
<1>4. Homes' /\ Reads' /\ RefetchAfterWriteback'
  BY <1>2, <1>3 DEF Homes, Reads, RefetchAfterWriteback, OrderOf
<1>5. /\ missQueue' \in Seq(Request) /\ Len(missQueue') <= MissQueueSize
      /\ Head(missQueue) \in Request
  BY <1>1, <1>2, TailFacts, CacheConstants
<1>6. below' \subseteq Mfs /\ inside' \subseteq Mfs
  <2>1. inside' \subseteq Mfs
    BY <1>1, <1>2
  <2>2. CASE IsRead(Head(missQueue))
    <3>1. PICK e \in extra : e.mf = Head(missQueue).mf
      BY <1>1, <1>2, <2>2, TailFacts DEF ReadsOf
    <3>2. e.mf \in Mfs
      BY DEF IInv, TypeOK, Fields
    <3> QED BY <1>1, <1>2, <2>1, <3>1, <3>2
  <2>3. CASE ~IsRead(Head(missQueue))
    BY <1>1, <1>2, <2>1, <2>3
  <2> QED BY <2>2, <2>3
<1>7. TypeOK'
  <2>1. Entries' = Entries
    BY <1>2 DEF Entries
  <2> QED BY <1>2, <1>5, <1>6, <2>1 DEF IInv, TypeOK
<1>8. Tags' /\ Kept' /\ Responses' /\ FillFinds'
  <2>1. Tags' /\ Kept'
    BY <1>2 DEF IInv, Tags, OneCopy, Copies, LinesOf, Kept
  <2>2. Responses'
    BY <1>2 DEF IInv, Responses, Entries
  <2>3. FillFinds'
    <3>1. /\ FillFinds /\ lines' = lines /\ mshr' = mshr /\ ready' = ready /\ extra' = extra
          /\ policy' = policy
      BY <1>2 DEF IInv
    <3>2. \A c : Copies(c)' = Copies(c)
      BY <3>1 DEF Copies, LinesOf
    <3> QED BY <3>1, <3>2 DEF FillFinds
  <2> QED BY <2>1, <2>2, <2>3
<1> QED BY <1>4, <1>7, <1>8 DEF IInv

\* The requesters waited for are inside, each in one request.
LEMMA Requesters ==
  ASSUME IInv
  PROVE  /\ \A e \in extra : e.mf \in inside /\ e.block \in Entries /\ e.block \in Blocks
         /\ \A e, f \in extra : e.mf = f.mf => e = f
<1>1. \A e \in extra : /\ e.block \in Blocks /\ e.block \in Entries
                       /\ 1 \in 1..Len(mshr[e.block]) /\ mshr[e.block][1] = e.mf
  <2> TAKE e \in extra
  <2>1. e.block \in Blocks /\ mshr[e.block] # <<>> /\ Head(mshr[e.block]) = e.mf
    BY DEF IInv, TypeOK, FillFinds, Fields
  <2>2. mshr[e.block] \in Seq(Mfs)
    BY <2>1 DEF IInv, TypeOK
  <2> QED BY <2>1, <2>2, TailFacts DEF Entries
<1>2. \A e \in extra : e.mf \in inside
  BY <1>1 DEF IInv, Homes, HomesOf
<1>3. ASSUME NEW e \in extra, NEW f \in extra, e.mf = f.mf
      PROVE  e = f
  <2>1. e.block = f.block
    BY <1>1, <1>3 DEF IInv, Homes, HomesOf
  <2> QED BY <2>1 DEF IInv, FillFinds
<1> QED BY <1>1, <1>2, <1>3

LEMMA FillStep == ASSUME IInv, NEW mf \in Mfs, Fill(mf) PROVE IInv'
<1>1. PICK e \in extra :
        /\ e.mf = mf
        /\ IF policy.alloc = "ON_MISS"
           THEN /\ lines' = [lines EXCEPT ![e.line] = Filled(e.block)]
                /\ lru' = lru
           ELSE \E l \in Lines : /\ Victim(e.block, l)
                                 /\ lines' = [lines EXCEPT ![l] = Filled(e.block)]
                                 /\ lru' = Touched(l)
        /\ ready' = Append(ready, e.block)
        /\ extra' = extra \ {e}
  BY DEF Fill
<1>2. /\ mf \in below /\ below' = below \ {mf}
      /\ UNCHANGED <<policy, mshr, atomics, missQueue, inside>>
  BY DEF Fill
<1>3. TypeOK /\ Tags /\ Kept /\ Responses /\ FillFinds /\ e.block \in Blocks
      /\ e.block \in Entries
  BY Requesters DEF IInv
<1> DEFINE b == e.block
<1>4. PICK l \in Lines :
        /\ lines' = [lines EXCEPT ![l] = Filled(b)]
        /\ l[1] = SetOf[b] /\ Copies(b) \subseteq {l} /\ lru' \subseteq Lines \X Lines
        /\ policy.alloc = "ON_MISS" => l = e.line
  <2>1. CASE policy.alloc = "ON_MISS"
    <3>1. e.line \in Lines /\ lines[e.line] = [status |-> "RESERVED", block |-> b]
      BY <1>3, <2>1 DEF FillFinds
    <3>2. lines[e.line].block = b
      BY <3>1
    <3>3. e.line[1] = SetOf[b]
      BY <1>3, <3>1, <3>2 DEF Tags
    <3>4. e.line \in Copies(b)
      BY <1>3, <3>1, <3>2, <3>3, LineFacts DEF Copies
    <3>5. Copies(b) \subseteq {e.line}
      BY <1>3, <3>4 DEF Tags, OneCopy
    <3>6. lru' \subseteq Lines \X Lines
      BY <1>1, <1>3, <2>1 DEF TypeOK
    <3>7. lines' = [lines EXCEPT ![e.line] = Filled(b)]
      BY <1>1, <2>1
    <3> QED BY <3>1, <3>3, <3>5, <3>6, <3>7
  <2>2. CASE policy.alloc # "ON_MISS"
    <3>1. PICK l \in Lines : /\ Victim(b, l)
                             /\ lines' = [lines EXCEPT ![l] = Filled(b)]
                             /\ lru' = Touched(l)
      BY <1>1, <2>2
    <3>2. l[1] = SetOf[b]
      BY <1>3, <3>1, LineFacts DEF Victim, Unused, Evictable
    <3>3. Copies(b) = {}
      BY <1>3, <2>2 DEF FillFinds
    <3>4. lru' \subseteq Lines \X Lines
      BY <1>3, <3>1 DEF Touched, Peers, TypeOK
    <3> QED BY <2>2, <3>1, <3>2, <3>3, <3>4
  <2> QED BY <2>1, <2>2
<1>5. /\ lines' \in [Lines -> LineType] /\ Tags' /\ Kept'
      /\ \A m \in Lines : m # l => lines'[m] = lines[m]
      /\ lines'[l].block = b
  <2>1. policy' = policy /\ atomics' = atomics
    BY <1>2
  <2> HIDE DEF b
  <2> QED BY <1>3, <1>4, <2>1, FillKeeps DEF b
<1>6. /\ ready' \in Seq(Blocks) /\ Len(ready') = Len(ready) + 1
      /\ \A i \in 1..Len(ready) : ready'[i] = ready[i]
      /\ ready'[Len(ready) + 1] = b
      /\ \A i \in 1..Len(ready') : i \in 1..Len(ready) \/ i = Len(ready) + 1
  BY <1>1, <1>3 DEF TypeOK
<1>7. TypeOK'
  <2>1. lines' \in [Lines -> [status : {"INVALID", "RESERVED", "VALID", "MODIFIED"},
                             block : Blocks \cup {NoBlock}]]
    BY <1>5 DEF LineType, Statuses
  <2>2. Entries' = Entries /\ extra' \subseteq Fields /\ below' \subseteq Mfs
    BY <1>1, <1>2, <1>3 DEF Entries, TypeOK
  <2> QED BY <1>2, <1>3, <1>4, <1>6, <2>1, <2>2 DEF TypeOK
<1>8. \A i \in 1..Len(ready) : ready[i] # b
  BY <1>3 DEF FillFinds
<1>9. Responses'
  <2>1. \A i \in 1..Len(ready) : ready[i] \in Entries
    BY <1>3 DEF Responses
  <2>2. \A i, j \in 1..Len(ready) : ready[i] = ready[j] => i = j
    BY <1>3 DEF Responses
  <2>3. Entries' = Entries
    BY <1>2 DEF Entries
  <2>4. \A i \in 1..Len(ready') : ready'[i] \in Entries
    BY <1>3, <1>6, <2>1
  <2>5. \A i, j \in 1..Len(ready') : ready'[i] = ready'[j] => i = j
    BY <1>6, <1>8, <2>2
  <2> QED BY <2>3, <2>4, <2>5 DEF Responses
<1>10. \A f \in extra \ {e} : f.block # b /\ f.block \in Blocks
  BY <1>3, Requesters DEF FillFinds
<1>11. FillFinds'
  <2> SUFFICES ASSUME NEW f \in extra \ {e}
               PROVE  /\ IF policy.alloc = "ON_MISS"
                         THEN /\ f.line \in Lines
                              /\ lines'[f.line] = [status |-> "RESERVED", block |-> f.block]
                         ELSE Copies(f.block)' = {}
                      /\ mshr[f.block] # <<>> /\ Head(mshr[f.block]) = f.mf
                      /\ \A i \in 1..Len(ready') : ready'[i] # f.block
                      /\ \A g \in extra \ {e} : g.block = f.block => g = f
    BY <1>1, <1>2 DEF FillFinds
  <2>1. ASSUME policy.alloc = "ON_MISS"
        PROVE  /\ f.line \in Lines
               /\ lines'[f.line] = [status |-> "RESERVED", block |-> f.block]
    <3>1. f.line \in Lines /\ lines[f.line] = [status |-> "RESERVED", block |-> f.block]
      BY <1>3, <2>1 DEF FillFinds
    <3>2. lines[l] = [status |-> "RESERVED", block |-> b]
      BY <1>3, <1>4, <2>1 DEF FillFinds
    <3>3. lines[f.line].block = f.block /\ lines[l].block = b
      BY <3>1, <3>2
    <3>4. f.line # l
      BY <3>3, <1>10
    <3>5. lines'[f.line] = lines[f.line]
      BY <3>1, <3>4, <1>5
    <3> QED BY <3>1, <3>5
  <2>2. ASSUME policy.alloc # "ON_MISS"
        PROVE  Copies(f.block)' = {}
    <3>1. Copies(f.block) = {}
      BY <1>3, <2>2 DEF FillFinds
    <3>2. \A m \in LinesOf(f.block) : lines'[m].block # f.block
      <4> TAKE m \in LinesOf(f.block)
      <4>1. lines[m].block # f.block /\ m \in Lines /\ f.block # b
        BY <3>1, <1>10, LineFacts DEF Copies
      <4>2. CASE m = l
        BY <4>1, <4>2, <1>5
      <4>3. CASE m # l
        <5>1. lines'[m] = lines[m]
          BY <4>1, <4>3, <1>5
        <5> QED BY <4>1, <5>1
      <4> QED BY <4>2, <4>3
    <3> QED BY <3>2 DEF Copies, LinesOf
  <2>3. mshr[f.block] # <<>> /\ Head(mshr[f.block]) = f.mf
    BY <1>3 DEF FillFinds
  <2>4. \A i \in 1..Len(ready') : ready'[i] # f.block
    <3>1. \A i \in 1..Len(ready) : ready[i] # f.block
      BY <1>3 DEF FillFinds
    <3> QED BY <3>1, <1>6, <1>10
  <2>5. \A g \in extra \ {e} : g.block = f.block => g = f
    BY <1>3 DEF FillFinds
  <2> QED BY <2>1, <2>2, <2>3, <2>4, <2>5
<1>12. Reads'
  <2>1. \A f \in extra : f.mf = e.mf => f = e
    BY Requesters
  <2>2. ReadsOf(missQueue, extra \ {e}, below \ {e.mf})
    BY <1>1, <1>2, <2>1, Answered DEF IInv, Reads, TypeOK
  <2> QED BY <1>1, <1>2, <2>2 DEF Reads
<1>13. Homes' /\ RefetchAfterWriteback'
  BY <1>2 DEF IInv, Homes, RefetchAfterWriteback
<1> QED BY <1>5, <1>7, <1>9, <1>11, <1>12, <1>13 DEF IInv

LEMMA NextAccessKeeps == ASSUME IInv, NextAccess PROVE IInv'
<1> DEFINE b == Head(ready)
           last == Len(mshr[b]) = 1
<1>1. TypeOK /\ Tags /\ Kept /\ Responses /\ FillFinds /\ mshr \in MshrType
      /\ inside \in SUBSET Mfs /\ missQueue \in Seq(Request)
      /\ HomesOf(mshr, missQueue, inside) /\ ready \in Seq(Blocks)
  BY DEF IInv, TypeOK, MshrType, Homes
<1>2. /\ ready # <<>> /\ inside' = inside \ {Head(mshr[b])}
      /\ mshr' = [mshr EXCEPT ![b] = Tail(@)]
      /\ ready' = IF last THEN Tail(ready) ELSE ready
      /\ atomics' = IF last THEN atomics \ {b} ELSE atomics
      /\ UNCHANGED <<policy, lines, lru, extra, missQueue, below>>
  BY DEF NextAccess, tagVars
<1>3. /\ b = ready[1] /\ 1 \in 1..Len(ready) /\ b \in Blocks
      /\ Tail(ready) \in Seq(Blocks) /\ Len(Tail(ready)) = Len(ready) - 1
      /\ \A i \in 1..Len(Tail(ready)) :
           i + 1 \in 1..Len(ready) /\ Tail(ready)[i] = ready[i + 1]
  BY <1>1, <1>2, TailFacts
<1>4. b \in Entries /\ mshr[b] # <<>>
  BY <1>1, <1>3 DEF Responses, Entries
<1>5. mshr[b] \in Seq(Mfs)
  BY <1>1, <1>3 DEF MshrType
<1> HIDE DEF b
<1>6. /\ mshr' \in MshrType /\ Len(mshr'[b]) = Len(mshr[b]) - 1
      /\ \A c \in Blocks : c # b => mshr'[c] = mshr[c]
      /\ HomesOf(mshr', missQueue, inside')
  <2> DEFINE k == [mshr EXCEPT ![b] = Tail(@)]
  <2>1. /\ k \in MshrType /\ Len(k[b]) = Len(mshr[b]) - 1
        /\ \A c \in Blocks : c # b => k[c] = mshr[c]
        /\ HomesOf(k, missQueue, inside \ {Head(mshr[b])})
    <3>1. b \in Blocks
      BY <1>3
    <3>2. mshr[b] # <<>>
      BY <1>4
    <3>3. /\ mshr \in MshrType /\ missQueue \in Seq(Request) /\ inside \in SUBSET Mfs
          /\ HomesOf(mshr, missQueue, inside)
      BY <1>1
    <3> QED BY <3>1, <3>2, <3>3, GiveBack
  <2>2. mshr' = k /\ inside' = inside \ {Head(mshr[b])}
    BY <1>2
  <2> HIDE DEF k
  <2> QED BY <2>1, <2>2
<1>7. mshr'[b] \in Seq(Mfs) /\ Len(mshr[b]) \in Nat /\ Len(mshr[b]) # 0
  BY <1>3, <1>4, <1>5, <1>6 DEF MshrType
<1>8. Entries' = IF last THEN Entries \ {b} ELSE Entries
  <2>1. last <=> mshr'[b] = <<>>
    <3>1. last <=> Len(mshr'[b]) = 0
      BY <1>6, <1>7
    <3>2. Len(mshr'[b]) = 0 <=> mshr'[b] = <<>>
      BY <1>7
    <3> QED BY <3>1, <3>2
  <2>2. \A c \in Blocks : c # b => (mshr'[c] # <<>> <=> mshr[c] # <<>>)
    BY <1>6
  <2>3. Entries' = {c \in Blocks : mshr'[c] # <<>>} /\ Entries = {c \in Blocks : mshr[c] # <<>>}
    BY DEF Entries
  <2>4. CASE last
    BY <2>1, <2>2, <2>3, <2>4
  <2>5. CASE ~last
    BY <2>1, <2>2, <2>3, <2>5, <1>4
  <2> QED BY <2>4, <2>5
<1>9. /\ ready' \in Seq(Blocks)
      /\ \A i \in 1..Len(ready') :
           \E j \in 1..Len(ready) : /\ ready'[i] = ready[j] /\ (last => j # 1)
                                    /\ j = IF last THEN i + 1 ELSE i
  <2>1. CASE last
    <3>1. ready' = Tail(ready)
      BY <1>2, <2>1
    <3> QED BY <1>3, <2>1, <3>1
  <2>2. CASE ~last
    BY <1>1, <1>2, <2>2
  <2> QED BY <2>1, <2>2
<1>10. Responses'
  <2>1. \A i, j \in 1..Len(ready) : ready[i] = ready[j] => i = j
    BY <1>1 DEF Responses
  <2>2. \A i \in 1..Len(ready') : ready'[i] \in Entries'
    <3> TAKE i \in 1..Len(ready')
    <3>1. PICK j \in 1..Len(ready) : ready'[i] = ready[j] /\ (last => j # 1)
      BY <1>9
    <3>2. ready[j] \in Entries
      BY <1>1 DEF Responses
    <3>3. last => ready[j] # b
      BY <1>3, <2>1, <3>1
    <3> QED BY <3>1, <3>2, <3>3, <1>8
  <2>3. \A i, j \in 1..Len(ready') : ready'[i] = ready'[j] => i = j
    <3>1. CASE last
      <4>1. /\ ready' = Tail(ready)
        BY <1>2, <3>1
      <4> SUFFICES ASSUME NEW i \in 1..Len(Tail(ready)), NEW j \in 1..Len(Tail(ready)),
                          Tail(ready)[i] = Tail(ready)[j]
                   PROVE  i = j
        BY <4>1
      <4>2. i + 1 \in 1..Len(ready) /\ j + 1 \in 1..Len(ready) /\ ready[i + 1] = ready[j + 1]
        BY <1>3
      <4>3. i + 1 = j + 1
        BY <2>1, <4>2
      <4>4. i \in Int /\ j \in Int
        BY <1>3
      <4> QED BY <4>3, <4>4
    <3>2. CASE ~last
      BY <1>2, <2>1, <3>2
    <3> QED BY <3>1, <3>2
  <2> QED BY <2>2, <2>3 DEF Responses
<1>11. FillFinds'
  <2> SUFFICES ASSUME NEW e \in extra
               PROVE  /\ IF policy.alloc = "ON_MISS"
                         THEN /\ e.line \in Lines
                              /\ lines[e.line] = [status |-> "RESERVED", block |-> e.block]
                         ELSE Copies(e.block) = {}
                      /\ mshr'[e.block] # <<>> /\ Head(mshr'[e.block]) = e.mf
                      /\ \A i \in 1..Len(ready') : ready'[i] # e.block
                      /\ \A f \in extra : f.block = e.block => f = e
    <3>1. extra' = extra /\ lines' = lines /\ policy' = policy
      BY <1>2
    <3>2. \A c : Copies(c)' = Copies(c)
      BY <3>1 DEF Copies, LinesOf
    <3> QED BY <3>1, <3>2 DEF FillFinds
  <2>1. e.block \in Blocks /\ e.block # b
    BY <1>1, <1>3, Requesters DEF FillFinds
  <2>2. mshr'[e.block] # <<>> /\ Head(mshr'[e.block]) = e.mf
    BY <1>1, <1>6, <2>1 DEF FillFinds
  <2>3. \A i \in 1..Len(ready') : ready'[i] # e.block
    <3>1. \A j \in 1..Len(ready) : ready[j] # e.block
      BY <1>1 DEF FillFinds
    <3> QED BY <3>1, <1>9
  <2> QED BY <1>1, <2>2, <2>3 DEF FillFinds
<1>12. TypeOK'
  <2>1. \A c \in Blocks : Len(mshr'[c]) <= MaxMerge
    <3>1. \A c \in Blocks : Len(mshr[c]) <= MaxMerge
      BY <1>1 DEF TypeOK
    <3>2. Len(mshr'[b]) <= MaxMerge
      BY <3>1, <1>3, <1>6, <1>7, CacheConstants
    <3> QED BY <3>1, <3>2, <1>6
  <2>2. Cardinality(Entries') <= MshrEntries
    <3>1. Entries' \subseteq Entries
      BY <1>8
    <3>2. Cardinality(Entries') <= Cardinality(Entries) /\ Cardinality(Entries') \in Nat
      BY <3>1, EntriesFinite, FS_Subset, FS_CardinalityType
    <3> QED BY <1>1, <3>2, EntriesFinite, CacheConstants DEF TypeOK
  <2>3. mshr' \in [Blocks -> Seq(Mfs)]
    BY <1>6 DEF MshrType
  <2>4. atomics' \subseteq Blocks /\ inside' \subseteq Mfs
    BY <1>1, <1>2 DEF TypeOK
  <2> QED BY <1>1, <1>2, <1>9, <2>1, <2>2, <2>3, <2>4 DEF TypeOK
<1>13. Tags' /\ Kept'
  <2>1. Tags'
    BY <1>1, <1>2 DEF Tags, OneCopy, Copies, LinesOf
  <2>2. Kept'
    BY <1>1, <1>2 DEF Kept
  <2> QED BY <2>1, <2>2
<1>14. Homes' /\ Reads' /\ RefetchAfterWriteback'
  <2>1. Homes'
    BY <1>2, <1>6 DEF Homes
  <2>2. Reads' /\ RefetchAfterWriteback'
    BY <1>2 DEF IInv, Reads, RefetchAfterWriteback
  <2> QED BY <2>1, <2>2
<1> QED BY <1>10, <1>11, <1>12, <1>13, <1>14 DEF IInv

\* With nothing inside, nothing is waited for.
LEMMA FlushKeeps == ASSUME IInv, Flush PROVE IInv'
<1>1. /\ policy.write # "READ_ONLY" /\ inside = {}
      /\ lines' = [l \in Lines |-> EmptyLine] /\ lru' = {}
      /\ policy' = policy /\ mshr' = mshr /\ atomics' = atomics /\ ready' = ready
      /\ extra' = extra /\ missQueue' = missQueue /\ below' = below /\ inside' = inside
  BY DEF Flush, mshrVars
<1>2. extra = {}
  BY <1>1, Requesters
<1>3. \A l \in Lines : lines'[l].status = "INVALID" /\ lines'[l].block = NoBlock
  BY <1>1 DEF EmptyLine
<1>4. TypeOK'
  <2>1. lines' \in [Lines -> [status : {"INVALID", "RESERVED", "VALID", "MODIFIED"},
                             block : Blocks \cup {NoBlock}]]
    BY <1>1 DEF EmptyLine
  <2>2. Entries' = Entries
    BY <1>1 DEF Entries
  <2> QED BY <1>1, <2>1, <2>2 DEF IInv, TypeOK
<1>5. Tags'
  <2>1. OneCopy'
    BY <1>3, LineFacts DEF OneCopy, Copies, LinesOf
  <2> QED BY <1>3, <2>1, LineFacts DEF Tags
<1>6. Kept'
  BY <1>1, <1>3 DEF Kept
<1>7. Responses' /\ FillFinds'
  <2>1. Responses'
    BY <1>1 DEF IInv, Responses, Entries
  <2>2. FillFinds'
    BY <1>1, <1>2 DEF FillFinds
  <2> QED BY <2>1, <2>2
<1>8. Homes' /\ Reads' /\ RefetchAfterWriteback'
  BY <1>1 DEF IInv, Homes, Reads, RefetchAfterWriteback
<1> QED BY <1>4, <1>5, <1>6, <1>7, <1>8 DEF IInv

-----------------------------------------------------------------------------
(* The theorems.                                                           *)

LEMMA InitIInv == Init => IInv
<1> SUFFICES ASSUME Init PROVE IInv
  OBVIOUS
<1>1. /\ policy \in Policies /\ lines = [l \in Lines |-> EmptyLine] /\ lru = {}
      /\ mshr = [b \in Blocks |-> <<>>] /\ atomics = {} /\ ready = <<>>
      /\ extra = {} /\ missQueue = <<>> /\ below = {} /\ inside = {}
  BY DEF Init
<1>2. \A l \in Lines : lines[l].status = "INVALID" /\ lines[l].block = NoBlock
  BY <1>1 DEF EmptyLine
<1>3. TypeOK
  <2>1. lines \in [Lines -> [status : {"INVALID", "RESERVED", "VALID", "MODIFIED"},
                            block : Blocks \cup {NoBlock}]]
    BY <1>1 DEF EmptyLine
  <2>2. Entries = {} /\ Cardinality(Entries) = 0
    BY <1>1, FS_EmptySet DEF Entries
  <2>3. \A b \in Blocks : Len(mshr[b]) <= MaxMerge
    BY <1>1, CacheConstants
  <2>4. mshr \in [Blocks -> Seq(Mfs)]
    BY <1>1
  <2> QED BY <1>1, <2>1, <2>2, <2>3, <2>4, CacheConstants DEF TypeOK
<1>4. Tags
  <2>1. OneCopy
    BY <1>2, LineFacts DEF OneCopy, Copies
  <2> QED BY <1>2, <2>1, LineFacts DEF Tags
<1>5. Kept /\ Responses /\ FillFinds
  BY <1>1, <1>2 DEF Kept, Responses, FillFinds
<1>6. Homes /\ Reads /\ RefetchAfterWriteback
  BY <1>1 DEF Homes, HomesOf, Reads, ReadsOf, RefetchAfterWriteback
<1> QED BY <1>3, <1>4, <1>5, <1>6 DEF IInv

LEMMA NextIInv == IInv /\ [Next]_vars => IInv'
<1> SUFFICES ASSUME IInv, [Next]_vars PROVE IInv'
  OBVIOUS
<1>1. ASSUME NEW mf \in Mfs, NEW b \in Blocks, Access(mf, b)
      PROVE  IInv'
  <2>1. ASSUME NEW atomic \in BOOLEAN, ReadHit(mf, b, atomic)
        PROVE  IInv'
    BY <2>1, ReadHitKeeps
  <2>2. ASSUME NEW atomic \in BOOLEAN, ReadMiss(mf, b, atomic)
        PROVE  IInv'
    BY <2>2, ReadMissKeeps
  <2>3. ASSUME WriteBackHit(mf, b) \/ WriteThroughHit(mf, b) \/ WriteEvictHit(mf, b)
        PROVE  IInv'
    BY <2>3, WriteHitKeeps
  <2>4. ASSUME WriteMissNoAlloc(mf, b)
        PROVE  IInv'
    BY <2>4, WriteMissNoAllocKeeps
  <2>5. ASSUME NEW n \in Mfs, WriteMissAlloc(mf, n, b)
        PROVE  IInv'
    BY <2>5, WriteMissAllocKeeps
  <2> QED BY <1>1, <2>1, <2>2, <2>3, <2>4, <2>5 DEF Access
<1>2. CASE Cycle
  BY <1>2, CycleKeeps
<1>3. CASE NextAccess
  BY <1>3, NextAccessKeeps
<1>4. CASE Flush
  BY <1>4, FlushKeeps
<1>5. ASSUME NEW mf \in Mfs, Fill(mf)
      PROVE  IInv'
  BY <1>5, FillStep
<1>6. CASE UNCHANGED vars
  <2>1. /\ policy' = policy /\ lines' = lines /\ lru' = lru /\ mshr' = mshr
        /\ atomics' = atomics /\ ready' = ready /\ extra' = extra
        /\ missQueue' = missQueue /\ below' = below /\ inside' = inside
    BY <1>6 DEF vars, tagVars, mshrVars
  <2>2. Entries' = Entries /\ \A c : Copies(c)' = Copies(c)
    BY <2>1 DEF Entries, Copies, LinesOf
  <2>3. TypeOK' /\ Tags' /\ Kept'
    BY <2>1, <2>2 DEF IInv, TypeOK, Tags, OneCopy, Kept
  <2>4. Responses' /\ FillFinds'
    BY <2>1, <2>2 DEF IInv, Responses, FillFinds
  <2>5. Homes' /\ Reads' /\ RefetchAfterWriteback'
    BY <2>1 DEF IInv, Homes, Reads, RefetchAfterWriteback
  <2> QED BY <2>3, <2>4, <2>5 DEF IInv
<1> QED BY <1>1, <1>2, <1>3, <1>4, <1>5, <1>6 DEF Next

LEMMA Inductive == Spec => []IInv
BY InitIInv, NextIInv, PTL DEF Spec

\* Every access is where its answer said.
LEMMA HomesOnce == ASSUME IInv PROVE AcceptedOnce
<1>1. /\ \A b \in Blocks : Len(mshr[b]) <= MaxMerge /\ mshr[b] \in Seq(Mfs)
      /\ HomesOf(mshr, missQueue, inside) /\ inside \subseteq Mfs
  BY DEF IInv, TypeOK, Homes
<1> SUFFICES ASSUME NEW mf \in Mfs
             PROVE  /\ mf \in inside <=> Places(mf) # {}
                    /\ \A p, q \in Places(mf) : p = q
  BY DEF AcceptedOnce
<1> DEFINE Listed(p) == /\ p \in Blocks \X (1..MaxMerge)
                        /\ p[2] \in 1..Len(mshr[p[1]]) /\ mshr[p[1]][p[2]] = mf
           Queued(i) == i \in 1..Len(missQueue) /\ IsWrite(missQueue[i])
                        /\ missQueue[i].mf = mf
<1>2. \A p \in Places(mf) : Listed(p) \/ \E i : Queued(i) /\ p = <<"queue", i>>
  <2> SUFFICES ASSUME NEW p \in Places(mf)
               PROVE  Listed(p) \/ \E i : Queued(i) /\ p = <<"queue", i>>
    OBVIOUS
  <2>1. CASE p \in Blocks \X (1..MaxMerge) /\ p[2] <= Len(mshr[p[1]])
             /\ mshr[p[1]][p[2]] = mf
    <3>1. p[1] \in Blocks /\ p[2] \in 1..MaxMerge
      BY <2>1
    <3>2. Len(mshr[p[1]]) \in Nat
      BY <3>1, <1>1
    <3>3. p[2] \in 1..Len(mshr[p[1]])
      BY <2>1, <3>1, <3>2, CacheConstants
    <3> QED BY <2>1, <3>3
  <2>2. CASE \E i \in 1..Len(missQueue) :
               /\ missQueue[i].kind = "write" /\ missQueue[i].mf = mf
               /\ p = <<"queue", i>>
    BY <2>2 DEF IsWrite
  <2> QED BY <2>1, <2>2 DEF Places
<1>3. ASSUME NEW b \in Blocks, NEW i \in 1..Len(mshr[b]), mshr[b][i] = mf
      PROVE  <<b, i>> \in Places(mf)
  <2>1. Len(mshr[b]) \in Nat /\ Len(mshr[b]) <= MaxMerge
    BY <1>1
  <2>2. i \in 1..MaxMerge /\ i <= Len(mshr[b])
    BY <2>1, CacheConstants
  <2>3. <<b, i>> \in Blocks \X (1..MaxMerge)
    BY <2>2
  <2> QED BY <1>3, <2>2, <2>3 DEF Places
<1>4. ASSUME NEW i, Queued(i)
      PROVE  <<"queue", i>> \in Places(mf)
  BY <1>4 DEF Places, IsWrite
<1>5. mf \in inside => Places(mf) # {}
  <2> SUFFICES ASSUME mf \in inside PROVE Places(mf) # {}
    OBVIOUS
  <2>1. CASE \E b \in Blocks : \E i \in 1..Len(mshr[b]) : mshr[b][i] = mf
    BY <2>1, <1>3
  <2>2. CASE \E j \in 1..Len(missQueue) : IsWrite(missQueue[j]) /\ missQueue[j].mf = mf
    BY <2>2, <1>4
  <2> QED BY <1>1, <2>1, <2>2 DEF HomesOf
<1>6. ASSUME NEW p, Listed(p)
      PROVE  p[1] \in Blocks /\ p = <<p[1], p[2]>> /\ mf \in inside
  <2>1. p[1] \in Blocks /\ p = <<p[1], p[2]>>
    BY <1>6
  <2> QED BY <1>1, <1>6, <2>1 DEF HomesOf
<1>7. ASSUME NEW i, Queued(i)
      PROVE  mf \in inside
  BY <1>1, <1>7 DEF HomesOf
<1>8. ASSUME NEW p, NEW q, Listed(p), Listed(q)
      PROVE  p = q
  <2>1. p[1] = q[1] /\ p[2] = q[2]
    BY <1>1, <1>6, <1>8 DEF HomesOf
  <2> QED BY <1>6, <1>8, <2>1
<1>9. ASSUME NEW i, NEW j, Queued(i), Queued(j)
      PROVE  i = j
  BY <1>1, <1>9 DEF HomesOf
<1>10. ASSUME NEW p, NEW i, Listed(p), Queued(i)
       PROVE  FALSE
  BY <1>1, <1>6, <1>10 DEF HomesOf
<1> HIDE DEF Listed, Queued
<1>11. \A p, q \in Places(mf) : p = q
  <2> SUFFICES ASSUME NEW p \in Places(mf), NEW q \in Places(mf) PROVE p = q
    OBVIOUS
  <2>1. CASE Listed(p)
    BY <2>1, <1>2, <1>8, <1>10
  <2>2. CASE \E i : Queued(i) /\ p = <<"queue", i>>
    <3>1. PICK i : Queued(i) /\ p = <<"queue", i>>
      BY <2>2
    <3>2. ~Listed(q)
      BY <3>1, <1>10
    <3>3. PICK j : Queued(j) /\ q = <<"queue", j>>
      BY <3>2, <1>2
    <3> QED BY <3>1, <3>3, <1>9
  <2> QED BY <2>1, <2>2, <1>2
<1>12. Places(mf) # {} => mf \in inside
  BY <1>2, <1>6, <1>7
<1> QED BY <1>5, <1>11, <1>12

\* Types and bounds: whatever the policy, the lists of mshr_table::add and the
\* miss queue never overflow (TypeOK).
THEOREM TypeCorrect == Spec => []TypeOK
<1>1. IInv => TypeOK
  BY DEF IInv
<1> QED BY <1>1, Inductive, PTL

\* A block is in at most one way, so that probe() may stop at the first match
\* (OneCopy).
THEOREM OneCopyAlways == Spec => []OneCopy
<1>1. IInv => OneCopy
  BY DEF IInv, Tags
<1> QED BY <1>1, Inductive, PTL

\* A fill finds the line reserved for it and an entry headed by its requester:
\* the asserts of fill(), cache_block_t::fill and mark_ready hold (FillFinds).
THEOREM FillsFind == Spec => []FillFinds
<1>1. IInv => FillFinds
  BY DEF IInv
<1> QED BY <1>1, Inductive, PTL

\* An access the cache accepted is in exactly one list, one that failed is in
\* none (AcceptedOnce).
THEOREM AcceptedExactlyOnce == Spec => []AcceptedOnce
<1>1. IInv => AcceptedOnce
  BY HomesOnce
<1> QED BY <1>1, Inductive, PTL

\* No fetch of a block is queued in front of its write-back
\* (RefetchAfterWriteback).
THEOREM RefetchOrder == Spec => []RefetchAfterWriteback
<1>1. IInv => RefetchAfterWriteback
  BY DEF IInv
<1> QED BY <1>1, Inductive, PTL

\* MSHRs and miss queue keep their limits and each block its one way
\* (LinesSound).
THEOREM LinesAreSound == Spec => []LinesSound
<1>1. TypeOK /\ OneCopy => LinesSound
  BY DEF LinesSound
<1> QED BY <1>1, TypeCorrect, OneCopyAlways, PTL

-----------------------------------------------------------------------------
(* The data cache under the tables.                                        *)

\* What an attempt does to the cache is an access of DataCache, or nothing if it
\* is refused.
LEMMA AttemptActs ==
  ASSUME NEW mf \in Mfs, NEW b \in Blocks, NEW s \in Signatures, NEW critical \in BOOLEAN,
         Attempt(mf, b, s, critical)
  PROVE  [Next]_vars
<1>1. CASE Load(mf, b)
  <2>1. \E atomic \in BOOLEAN : ReadHit(mf, b, atomic) \/ ReadMiss(mf, b, atomic)
    BY <1>1 DEF Load
  <2>2. Access(mf, b)
    BY <2>1 DEF Access
  <2>3. QED
    BY <2>2 DEF Next
<1>2. CASE Store(mf, b)
  <2>1. Access(mf, b)
    BY <1>2 DEF Store, Access
  <2>2. QED
    BY <2>1 DEF Next
<1>3. CASE UNCHANGED vars
  BY <1>3
<1>4. QED
  BY <1>1, <1>2, <1>3 DEF Attempt

LEMMA StepActs == CacpNext \/ UNCHANGED cacpVars => [Next]_vars
<1>1. ASSUME Memory PROVE Next
  BY <1>1 DEF Memory, Next
<1>2. ASSUME NEW mf \in Mfs, NEW b \in Blocks, NEW s \in Signatures, UseStray(mf, b, s)
      PROVE  UNCHANGED vars
  BY <1>2 DEF UseStray
<1>3. ASSUME UNCHANGED cacpVars PROVE UNCHANGED vars
  BY <1>3 DEF cacpVars
<1>4. QED
  BY <1>1, <1>2, <1>3, AttemptActs DEF CacpNext

\* The lines and requests under the tables keep to the types of DataCache.
LEMMA CacheTypes == CacpSpec => []TypeOK
<1>1. CacpInit => Init
  BY DEF CacpInit
<1>2. CacpSpec => Spec
  BY <1>1, StepActs, PTL DEF CacpSpec, Spec
<1>3. QED
  BY <1>2, TypeCorrect

-----------------------------------------------------------------------------
(* The tables.                                                             *)

LEMMA LineSet == ASSUME NEW b \in Blocks PROVE LinesOf(b) \subseteq Lines /\ IsFiniteSet(LinesOf(b))
<1>1. SetOf[b] \in Sets /\ Ways \in Nat
  BY CacheConstants
<1>2. IsFiniteSet(1..Ways) /\ IsFiniteSet({SetOf[b]})
  <2>1. IsFiniteSet(1..Ways)
    BY <1>1, FS_Interval
  <2>2. IsFiniteSet({SetOf[b]})
    BY FS_Singleton
  <2>3. QED
    BY <2>1, <2>2
<1>3. IsFiniteSet({SetOf[b]} \X (1..Ways))
  BY <1>2, FS_Product
<1>4. QED
  BY <1>1, <1>3 DEF LinesOf, Lines

\* SHiP stays below 4 in whatever round the loop ends, and after three rounds the
\* signature of every line of the part is at 3.
LEMMA AgedRange ==
  ASSUME CacpTypeOK, NEW P, IsFiniteSet(P), NEW k \in 0..3
  PROVE  Aged(P, k) \in [Signatures -> 0..3]
<1> SUFFICES ASSUME NEW x \in Signatures
             PROVE  AtMost3(ship[x] + k * Cardinality({l \in P : sig[l] = x})) \in 0..3
  BY DEF Aged
<1> DEFINE c == Cardinality({l \in P : sig[l] = x})
<1>1. c \in Nat
  BY FS_Subset, FS_CardinalityType
<1>2. ship[x] \in 0..3
  BY DEF CacpTypeOK
<1>3. k * c \in Nat
  BY <1>1
<1>4. HIDE DEF c
<1>5. QED
  BY <1>2, <1>3 DEF AtMost3, c

LEMMA AgedToThree ==
  ASSUME CacpTypeOK, NEW P, IsFiniteSet(P), P \subseteq Lines, NEW l \in P
  PROVE  Aged(P, 3)[sig[l]] = 3
<1> DEFINE C == {m \in P : sig[m] = sig[l]}
<1>1. sig[l] \in Signatures /\ ship[sig[l]] \in 0..3
  BY DEF CacpTypeOK
<1>2. IsFiniteSet(C) /\ l \in C
  BY FS_Subset
<1>3. Cardinality(C) \in Nat /\ Cardinality(C) # 0
  BY <1>2, FS_CardinalityType, FS_EmptySet
<1>4. Aged(P, 3)[sig[l]] = AtMost3(ship[sig[l]] + 3 * Cardinality(C))
  BY <1>1 DEF Aged
<1>5. QED
  BY <1>1, <1>3, <1>4 DEF AtMost3

LEMMA MissKeepsTables ==
  ASSUME CacpTypeOK, NEW b \in Blocks, NEW s \in Signatures, ProbeMiss(b, s), TypeOK',
         UNCHANGED undefined
  PROVE  CacpTypeOK'
<1>1. PICK k \in 0..3, l \in Part(b, s) :
        LET aged == [Aged(Part(b, s), k) EXCEPT ![s] = 2]
            evicts == lines[l].status # "INVALID"
        IN /\ sig' = [sig EXCEPT ![l] = s] /\ stray' = stray \ {l}
           /\ ccbp' = IF evicts /\ l \notin cReuse /\ l \in ncReuse /\ l[2] \in CriticalWays
                      THEN [ccbp EXCEPT ![s] = AtLeast0(@ - 1)] ELSE ccbp
           /\ ship' = IF evicts /\ l \notin cReuse \cup ncReuse
                      THEN [aged EXCEPT ![s] = @ - 1] ELSE aged
           /\ UNCHANGED <<cReuse, ncReuse>>
  BY DEF ProbeMiss
<1>2. Part(b, s) \subseteq Lines /\ IsFiniteSet(Part(b, s))
  BY LineSet, FS_Subset DEF Part
<1>3. Aged(Part(b, s), k) \in [Signatures -> 0..3]
  BY <1>2, AgedRange
<1> DEFINE aged == [Aged(Part(b, s), k) EXCEPT ![s] = 2]
<1>4. aged \in [Signatures -> 0..3] /\ aged[s] = 2
  BY <1>3
<1>5. [aged EXCEPT ![s] = @ - 1] \in [Signatures -> 0..3]
  BY <1>4
<1>6. ship' \in [Signatures -> 0..3]
  BY <1>1, <1>4, <1>5
<1>7. ccbp' \in [Signatures -> 0..3]
  BY <1>1 DEF CacpTypeOK, AtLeast0
<1>8. /\ sig' \in [Lines -> Signatures] /\ stray' \subseteq Lines
      /\ cReuse' \subseteq Lines /\ ncReuse' \subseteq Lines
  BY <1>1 DEF CacpTypeOK
<1>9. QED
  BY <1>6, <1>7, <1>8 DEF CacpTypeOK

LEMMA HitKeepsTables ==
  ASSUME CacpTypeOK, NEW l \in Lines, NEW critical \in BOOLEAN, ProbeHit(l, critical), TypeOK',
         UNCHANGED undefined
  PROVE  CacpTypeOK'
<1>1. sig[l] \in Signatures /\ ccbp[sig[l]] \in 0..3
  BY DEF CacpTypeOK
<1>2. AtMost3(ccbp[sig[l]] + 1) \in 0..3
  BY <1>1 DEF AtMost3
<1>3. QED
  BY <1>1, <1>2 DEF CacpTypeOK, ProbeHit

LEMMA NextKeepsTables == CacpTypeOK /\ [CacpNext]_cacpVars /\ TypeOK' => CacpTypeOK'
<1> SUFFICES ASSUME CacpTypeOK, [CacpNext]_cacpVars, TypeOK' PROVE CacpTypeOK'
  OBVIOUS
<1>1. ASSUME NEW mf \in Mfs, NEW b \in Blocks, NEW s \in Signatures, NEW critical \in BOOLEAN,
             Attempt(mf, b, s, critical)
      PROVE  CacpTypeOK'
  <2>1. UNCHANGED undefined
    BY <1>1 DEF Attempt
  <2>2. ASSUME NEW l \in Copies(b), ProbeHit(l, critical) PROVE CacpTypeOK'
    BY <2>1, <2>2, LineSet, HitKeepsTables DEF Copies
  <2>3. QED
    BY <1>1, <2>1, <2>2, MissKeepsTables DEF Attempt, Probe
<1>2. ASSUME NEW mf \in Mfs, NEW b \in Blocks, NEW s \in Signatures, UseStray(mf, b, s)
      PROVE  CacpTypeOK'
  BY <1>2 DEF UseStray, CacpTypeOK
<1>3. ASSUME UNCHANGED tables PROVE CacpTypeOK'
  BY <1>3 DEF CacpTypeOK, tables
<1>4. QED
  BY <1>1, <1>2, <1>3 DEF CacpNext, cacpVars

\* The counters of CCBP and SHiP stay in 0..3 however often an access is refused,
\* made again and trains them again, up to the first use of a stray sig.
LEMMA TablesInRange == CacpSpec => []CacpTypeOK
<1>1. CacpInit /\ TypeOK => CacpTypeOK
  <2> SUFFICES ASSUME CacpInit, TypeOK PROVE CacpTypeOK
    OBVIOUS
  <2>1. ccbp \in [Signatures -> 0..3] /\ ship \in [Signatures -> 0..3]
    BY DEF CacpInit
  <2>2. /\ sig \in [Lines -> Signatures] /\ stray \subseteq Lines
        /\ cReuse \subseteq Lines /\ ncReuse \subseteq Lines
    BY DEF CacpInit
  <2>3. undefined \in BOOLEAN
    BY Zenon DEF CacpInit
  <2>4. QED
    BY <2>1, <2>2, <2>3 DEF CacpTypeOK
<1>2. QED
  BY <1>1, CacheTypes, NextKeepsTables, PTL DEF CacpSpec

-----------------------------------------------------------------------------
(* The search.                                                             *)

\* A set of naturals has a least element.
LEMMA Least == ASSUME NEW T, T \subseteq Nat, T # {} PROVE \E n \in T : \A m \in T : n <= m
<1> DEFINE R == {p \in Nat \X Nat : p[1] < p[2]}
<1>1. IsWellFoundedOn(R, Nat)
  BY NatLessThanWellFounded DEF OpToRel
<1>2. \E n \in T : \A m \in T : ~(<<m, n>> \in R)
  <2> HIDE DEF R
  <2> QED  BY <1>1, WFMin
<1>3. \A m, n \in T : ~(<<m, n>> \in R) => n <= m
  OBVIOUS
<1>4. QED
  BY <1>2, <1>3

\* A set of ways of one set of the cache has a last one.
LEMMA LastOf ==
  ASSUME NEW b \in Blocks, NEW S, S \subseteq LinesOf(b), S # {}
  PROVE  \E l \in S : \A m \in S : m[2] <= l[2]
<1> DEFINE T == {Ways - l[2] : l \in S}
<1>1. \A l \in S : l[2] \in 1..Ways /\ Ways - l[2] \in Nat
  BY CacheConstants DEF LinesOf
<1>2. T \subseteq Nat /\ T # {}
  BY <1>1
<1>3. PICK n \in T : \A m \in T : n <= m
  BY <1>2, Least
<1>4. PICK l \in S : n = Ways - l[2]
  BY <1>3
<1>5. ASSUME NEW m \in S PROVE m[2] <= l[2]
  <2>1. Ways - m[2] \in T
    OBVIOUS
  <2>2. Ways - l[2] <= Ways - m[2]
    BY <2>1, <1>3, <1>4
  <2>3. QED
    BY <2>2, <1>1, CacheConstants
<1>6. QED
  BY <1>5

\* The assertion of CACP.cc that a victim was found: three rounds are enough in a
\* part whose lines all have a signature.
LEMMA ThreeRounds == CacpTypeOK => SearchEnds
<1> SUFFICES ASSUME CacpTypeOK, NEW b \in Blocks, NEW s \in Signatures,
                    Part(b, s) \cap stray = {}, Unreserved(Part(b, s)) # {}
             PROVE  \E k \in 0..3, l \in Part(b, s) : Chosen(Part(b, s), k, l)
  BY DEF SearchEnds
<1> DEFINE P == Part(b, s)
           K == {k \in 0..3 : Replaceable(P, k) # {}}
<1>1. P \subseteq LinesOf(b) /\ P \subseteq Lines /\ IsFiniteSet(P)
  BY LineSet, FS_Subset DEF Part
<1>2. 3 \in K
  <2>1. PICK l \in Unreserved(P) : TRUE
    OBVIOUS
  <2>2. l \in P
    BY <2>1 DEF Unreserved
  <2>3. Aged(P, 3)[sig[l]] = 3
    BY <1>1, <2>2, AgedToThree
  <2>4. l \in Replaceable(P, 3)
    BY <2>1, <2>3 DEF Replaceable
  <2>5. QED
    BY <2>4
<1>3. PICK k \in K : \A j \in K : k <= j
  <2>1. K \subseteq Nat /\ K # {}
    BY <1>2
  <2>2. QED
    BY <2>1, Least
<1>4. Replaceable(P, k) # {} /\ Replaceable(P, k) \subseteq P
  BY DEF Replaceable, Unreserved
<1>5. PICK l \in Replaceable(P, k) : \A m \in Replaceable(P, k) : m[2] <= l[2]
  BY <1>1, <1>4, LastOf
<1>6. \A j \in 0..(k - 1) : Replaceable(P, j) = {}
  BY <1>3
<1>7. Chosen(P, k, l)
  BY <1>5, <1>6 DEF Chosen
<1>8. QED
  BY <1>4, <1>5, <1>7

\* SearchSound: as long as no index was taken from a sig that was never set, the
\* tables keep their range, and the search of tag_array_CACP::probe in a part whose
\* lines all have a signature ends with a victim when there can be one.
THEOREM CacpSearchSound == CacpSpec => []SearchSound
<1>1. CacpTypeOK => SearchSound
  BY ThreeRounds DEF SearchSound
<1>2. QED
  BY <1>1, TablesInRange, PTL
=============================================================================
