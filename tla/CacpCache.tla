----------------------------- MODULE CacpCache -----------------------------
(* l1_cache_cacp (CACP.cc): the L1 data cache with criticality-aware cache *)
(* prioritization.  tag_array_CACP::probe predicts from a signature of the *)
(* block and the pc whether a critical warp will reuse a line (CCBP) and   *)
(* how soon it is reused (SHiP), splits the ways of a set in two and picks *)
(* a victim in the predicted part.  The access then goes on as in          *)
(* data_cache, whose tag_array::access probes again on its own.            *)
(*                                                                         *)
(* probe() trains its tables for every attempt, also one that then fails   *)
(* and is made again.  An access comes with any signature: the pc is free. *)
(*                                                                         *)
(* Nothing gives cache_block_t::sig a value before probe() first chooses   *)
(* the line, and tag_array::access brings blocks into other lines than it  *)
(* chooses.  The first index of a table with such a value may read or      *)
(* write anywhere; the model stops there (undefined).                      *)
EXTENDS DataCache

CONSTANT Signatures

VARIABLES ccbp,    \* CCBP: per signature, 0..3
          ship,    \* SHiP: per signature, 0..3
          sig,     \* cache_block_t::sig
          stray,   \* lines whose sig was never set and is no signature
          cReuse,  \* lines with c_reuse
          ncReuse, \* lines with nc_reuse
          undefined  \* a stray sig has been used as an index

tables == <<ccbp, ship, sig, stray, cReuse, ncReuse, undefined>>
cacpVars == <<vars, tables>>

\* The constructor of cache_block_t leaves sig as it finds it: what is in the
\* memory of a line may be a signature or not.
CacpInit ==
  /\ Init
  /\ ccbp = [s \in Signatures |-> 1] /\ ship = [s \in Signatures |-> 3]
  /\ sig \in [Lines -> Signatures] /\ stray \in SUBSET Lines
  /\ cReuse = {} /\ ncReuse = {}
  /\ undefined = FALSE

AtMost3(n) == IF n > 3 THEN 3 ELSE n
AtLeast0(n) == IF n < 0 THEN 0 ELSE n

\* cacp_hit; its increment of SHiP is undone by the caller's SHiP[sig] = 0.
ProbeHit(l, critical) ==
  /\ cReuse' = IF critical THEN cReuse \cup {l} ELSE cReuse
  /\ ncReuse' = IF critical THEN ncReuse ELSE ncReuse \cup {l}
  /\ ccbp' = IF critical THEN [ccbp EXCEPT ![sig[l]] = AtMost3(@ + 1)] ELSE ccbp
  /\ ship' = [ship EXCEPT ![sig[l]] = 0]
  /\ UNCHANGED <<sig, stray>>

\* PARTITION_PCT of the ways are for lines predicted critical.
CriticalWays == 1..((Ways * 50) \div 100)
Part(b, s) ==
  {l \in LinesOf(b) : (l[2] \in CriticalWays) = (ccbp[s] >= 2)}
Unreserved(P) == {l \in P : lines[l].status # "RESERVED"}

\* SHiP after k rounds of the loop, each of which adds one per line of the part.
Aged(P, k) ==
  [x \in Signatures |-> AtMost3(ship[x] + k * Cardinality({l \in P : sig[l] = x}))]
Replaceable(P, k) ==
  {l \in Unreserved(P) : lines[l].status = "INVALID" \/ Aged(P, k)[sig[l]] = 3}

\* The line found: the last replaceable one of the first round that has any.
Chosen(P, k, l) ==
  /\ l \in Replaceable(P, k) /\ \A m \in Replaceable(P, k) : m[2] <= l[2]
  /\ \A j \in 0..(k - 1) : Replaceable(P, j) = {}

\* The miss of probe().  cacp_eviction runs after sig was overwritten, so it
\* trains the signature that comes in.
ProbeMiss(b, s) ==
  \E k \in 0..3, l \in Part(b, s) :
    LET aged == [Aged(Part(b, s), k) EXCEPT ![s] = 2]
        evicts == lines[l].status # "INVALID"
    IN /\ Chosen(Part(b, s), k, l)
       /\ sig' = [sig EXCEPT ![l] = s] /\ stray' = stray \ {l}
       /\ ccbp' = IF evicts /\ l \notin cReuse /\ l \in ncReuse /\ l[2] \in CriticalWays
                  THEN [ccbp EXCEPT ![s] = AtLeast0(@ - 1)] ELSE ccbp
       /\ ship' = IF evicts /\ l \notin cReuse \cup ncReuse
                  THEN [aged EXCEPT ![s] = @ - 1] ELSE aged
       /\ UNCHANGED <<cReuse, ncReuse>>

\* RESERVATION_FAIL of probe(): every line of the part is RESERVED, or there
\* is none because one way cannot be split.
PartReserved(b, s) == Copies(b) = {} /\ Unreserved(Part(b, s)) = {}

Probe(b, s, critical) ==
  \/ \E l \in Copies(b) : ProbeHit(l, critical)
  \/ Copies(b) = {} /\ ~PartReserved(b, s) /\ ProbeMiss(b, s)

\* The lines whose sig probe() takes as an index: the one that has the block, or
\* all of the part, RESERVED or not.
Indexed(b, s) == IF Copies(b) # {} THEN Copies(b) ELSE Part(b, s)

-----------------------------------------------------------------------------
(* l1_cache_cacp::access.  What follows an accepted probe is data_cache's; *)
(* the line probe() chose is not used: see TagAccess.                      *)

Load(mf, b) == ReadHit(mf, b, FALSE) \/ ReadMiss(mf, b, FALSE)
LoadFails(b) == ~Hit(b) /\ (QueueFull(1) \/ ~Accepted(b, missQueue))

Store(mf, b) == WriteBackHit(mf, b) \/ WriteEvictHit(mf, b) \/ WriteMissNoAlloc(mf, b)
StoreFails(b) == ~(Hit(b) /\ Writes(b, {"WRITE_BACK"})) /\ QueueFull(0)

Attempt(mf, b, s, critical) ==
  /\ mf \notin inside
  /\ Indexed(b, s) \cap stray = {}
  /\ Probe(b, s, critical) /\ UNCHANGED undefined
  /\ \/ Load(mf, b) \/ Store(mf, b)
     \/ (LoadFails(b) \/ StoreFails(b)) /\ UNCHANGED vars

UseStray(mf, b, s) ==
  /\ mf \notin inside
  /\ Indexed(b, s) \cap stray # {}
  /\ undefined' = TRUE
  /\ UNCHANGED <<vars, ccbp, ship, sig, stray, cReuse, ncReuse>>

Memory == Cycle \/ NextAccess \/ Flush \/ \E mf \in Mfs : Fill(mf)

CacpNext ==
  /\ ~undefined
  /\ \/ \E mf \in Mfs, b \in Blocks, s \in Signatures :
          \/ \E critical \in BOOLEAN : Attempt(mf, b, s, critical)
          \/ UseStray(mf, b, s)
     \/ Memory /\ UNCHANGED tables

CacpSpec == CacpInit /\ [][CacpNext]_cacpVars

-----------------------------------------------------------------------------
(* Properties                                                              *)

\* The tables stay in the range their saturating updates keep and
\* assert(SHiP[line->sig] <= 3) relies on.
CacpTypeOK ==
  /\ TypeOK
  /\ ccbp \in [Signatures -> 0..3] /\ ship \in [Signatures -> 0..3]
  /\ sig \in [Lines -> Signatures] /\ stray \subseteq Lines
  /\ cReuse \subseteq Lines /\ ncReuse \subseteq Lines
  /\ undefined \in BOOLEAN

\* The search of probe() ends in a part without a stray line: whatever the
\* signatures of the lines share and however often they were trained, a line
\* that is not RESERVED gives a victim within three rounds
\* (assert(invalid_line != -1)).
SearchEnds ==
  \A b \in Blocks, s \in Signatures :
    Part(b, s) \cap stray = {} /\ Unreserved(Part(b, s)) # {} =>
      \E k \in 0..3, l \in Part(b, s) : Chosen(Part(b, s), k, l)

\* Trained in any order, the tables keep their range and the search ends, as
\* long as no stray sig has been used.
SearchSound == ~undefined => CacpTypeOK /\ SearchEnds

=============================================================================
