------------------------ MODULE MemoryPartitionProofs ------------------------
(* Theorems about MemoryPartition and the DRAM channel in it, for any      *)
(* number of banks and slices, any timing and any workload.                *)
EXTENDS MemoryPartition, FiniteSetTheorems, NaturalsInduction, WellFoundedInduction, TLAPS

-----------------------------------------------------------------------------
(* Choosing a bank.                                                        *)

\* A set of naturals has a least element, which Min is.
LEMMA LeastIsMin ==
  ASSUME NEW S \in SUBSET Nat, S # {}
  PROVE  Min(S) \in S /\ \A n \in S : Min(S) <= n
<1> DEFINE R == {p \in Nat \X Nat : p[1] < p[2]}
<1>1. IsWellFoundedOn(R, Nat)
  BY NatLessThanWellFounded DEF OpToRel
<1>2. \E n \in S : \A m \in S : ~(<<m, n>> \in R)
  <2> HIDE DEF R
  <2> QED  BY <1>1, WFMin
<1>3. \A m, n \in S : ~(<<m, n>> \in R) => n <= m
  OBVIOUS
<1>4. \E n \in S : \A m \in S : n <= m
  BY <1>2, <1>3
<1>5. QED
  BY <1>4 DEF Min

LEMMA Remainder == ASSUME NEW n \in Nat PROVE n % NumBanks \in 0..(NumBanks - 1)
BY DramConstants

\* The state of the counters that keep commands apart.
Numbers(d) ==
  /\ DOMAIN d = {"mrqq", "queue", "lastrow", "bank", "group", "c", "prio", "rw", "rwq", "returnq"}
  /\ d.prio \in Nat
  /\ d.c \in [{"RRD", "CCD", "RTW", "WTR"} -> Nat]
  /\ d.group \in [Groups -> [{"CCDL", "RTPL"} -> Nat]]
  /\ DOMAIN d.bank = Banks
  /\ \A b \in Banks : /\ DOMAIN d.bank[b] = {"mrq", "tx", "open", "row", "c"}
                      /\ d.bank[b].c \in [Timers -> Nat]

Commands == [kind : {"nop", "read", "write", "activate", "precharge"}, bank : Banks]

\* What is left, n cycles after a command, of the distances it asks for.
Owes(d, x, n) ==
  /\ x.kind = "activate" =>
       /\ d.c["RRD"] >= T.RRD - n
       /\ d.bank[x.bank].c["RC"] >= T.RC - n /\ d.bank[x.bank].c["RAS"] >= T.RAS - n
       /\ d.bank[x.bank].c["RCD"] >= T.RCD - n /\ d.bank[x.bank].c["RCDWR"] >= T.RCDWR - n
  /\ x.kind = "precharge" => d.bank[x.bank].c["RP"] >= T.RP - n
  /\ x.kind = "read" =>
       /\ d.c["RTW"] >= T.RTW - n
       /\ d.bank[x.bank].c["RTP"] >= T.RTP - n /\ d.group[Group(x.bank)]["RTPL"] >= T.RTPL - n
  /\ x.kind = "write" => d.c["WTR"] >= T.WTR - n /\ d.bank[x.bank].c["WTP"] >= T.WTP - n
  /\ x.kind \in {"read", "write"} =>
       d.c["CCD"] >= T.CCD - n /\ d.group[Group(x.bank)]["CCDL"] >= T.CCDL - n

\* Two states of the channel with the same counters.
SameCounters(e, f) ==
  /\ Numbers(f) /\ f.c = e.c /\ f.group = e.group
  /\ \A b \in Banks : f.bank[b].c = e.bank[b].c

\* The bank that is told something is one the guards of its command allow.
LEMMA CommandTold ==
  ASSUME NEW d, d.prio \in Nat
  PROVE  /\ Command(d) \in Commands
         /\ Command(d).kind # "nop" => Command(d).kind = CommandTo(d, Command(d).bank)
<1> DEFINE ok == {i \in Banks : CommandTo(d, (i + d.prio) % NumBanks) # "nop"}
           b  == FirstFrom(d, LAMBDA j : CommandTo(d, j) # "nop")
<1>1. CASE ok = {}
  BY <1>1, DramConstants DEF Command, FirstFrom, Commands, Banks
<1>2. CASE ok # {}
  <2>1. Min(ok) \in ok
    <3>1. ok \in SUBSET Nat
      BY DramConstants DEF Banks
    <3>2. QED
      BY <3>1, <1>2, LeastIsMin
  <2>2. b = (Min(ok) + d.prio) % NumBanks
    BY <1>2 DEF FirstFrom
  <2>3. b \in Banks /\ CommandTo(d, b) # "nop"
    <3>1. PICK i \in Banks : i = Min(ok) /\ CommandTo(d, (i + d.prio) % NumBanks) # "nop"
      BY <2>1
    <3>2. i + d.prio \in Nat
      BY DramConstants DEF Banks
    <3>3. (i + d.prio) % NumBanks \in Banks
      BY <3>2, Remainder DEF Banks
    <3>4. QED
      <4> HIDE DEF b, ok
      <4> QED  BY <2>2, <3>1, <3>3
  <2>4. CommandTo(d, b) \in {"nop", "read", "write", "activate", "precharge"}
    BY DEF CommandTo
  <2>5. Command(d) = IF b = NoReq THEN [kind |-> "nop", bank |-> 0] ELSE [kind |-> CommandTo(d, b), bank |-> b]
    BY DEF Command
  <2>6. QED
    <3> HIDE DEF b
    <3> QED  BY <2>3, <2>4, <2>5, DramConstants DEF Commands, Banks
<1>3. QED
  BY <1>1, <1>2

-----------------------------------------------------------------------------
(* The parts of a cycle.                                                   *)

\* No part before the command touches a counter.
LEMMA ScheduleKeepsCounters ==
  ASSUME NEW d, Numbers(d), NEW policy
  PROVE  SameCounters(d, Schedule(Transfer(d), policy))
<1>1. SameCounters(d, Transfer(d))
  BY DEF Numbers, Transfer, SameCounters
<1>2. ASSUME NEW e, Numbers(e) PROVE SameCounters(e, AddReq(e))
  BY <1>2 DEF Numbers, AddReq, SameCounters
<1>3. ASSUME NEW e, Numbers(e) PROVE SameCounters(e, Drain(e))
  BY <1>2, <1>3 DEF Drain, SameCounters
<1>4. ASSUME NEW e, Numbers(e), NEW b PROVE SameCounters(e, ServeBank(e, b))
  <2>1. (e.prio + 1) % NumBanks \in Nat
    BY <1>4, Remainder, DramConstants DEF Numbers
  <2>2. ASSUME NEW m, NEW q, NEW l, NEW p \in Nat
        PROVE  SameCounters(e, [e EXCEPT !.bank[b].mrq = m, !.queue[b] = q, !.lastrow[b] = l, !.prio = p])
    BY <1>4 DEF Numbers, SameCounters
  <2>3. QED
    BY <2>1, <2>2, Zenon DEF ServeBank
<1>5. ASSUME NEW e, Numbers(e) PROVE SameCounters(e, ScheduleFrFcfs(e))
  <2> DEFINE g == Drain(e)
  <2>1. SameCounters(e, g)
    BY <1>3, <1>5
  <2>2. \A b : SameCounters(g, ServeBank(g, b))
    BY <2>1, <1>4 DEF SameCounters
  <2>3. ScheduleFrFcfs(e) = g \/ \E b : ScheduleFrFcfs(e) = ServeBank(g, b)
    BY DEF ScheduleFrFcfs
  <2>4. QED
    <3> HIDE DEF g
    <3> QED  BY <2>1, <2>2, <2>3 DEF SameCounters
<1>6. ASSUME NEW e, Numbers(e) PROVE SameCounters(e, ScheduleFifo(e))
  BY <1>6 DEF Numbers, ScheduleFifo, SameCounters
<1>7. ASSUME NEW e, Numbers(e) PROVE SameCounters(e, Schedule(e, policy))
  BY <1>5, <1>6, <1>7 DEF Schedule
<1>8. QED
  BY <1>1, <1>7 DEF SameCounters

\* The shape of a channel, whatever its counters.
Shape(d) ==
  /\ DOMAIN d = {"mrqq", "queue", "lastrow", "bank", "group", "c", "prio", "rw", "rwq", "returnq"}
  /\ DOMAIN d.bank = Banks
  /\ \A b \in Banks : DOMAIN d.bank[b] = {"mrq", "tx", "open", "row", "c"}

\* What an activate starts.
LEMMA ActivateCounters ==
  ASSUME NEW d, Numbers(d), NEW x \in Commands, x.kind = "activate", NEW e, e = Issue(d, x)
  PROVE  /\ Shape(e) /\ e.prio \in Nat
         /\ e.c = [d.c EXCEPT !["RRD"] = T.RRD] /\ e.group = d.group
         /\ \A j \in Banks : j # x.bank => e.bank[j].c = d.bank[j].c
         /\ e.bank[x.bank].c = [t \in Timers |-> IF t \in {"RCD", "RCDWR", "RAS", "RC"}
                                                 THEN T[t] ELSE d.bank[x.bank].c[t]]
<1>1. x.bank \in Banks /\ (x.bank + 1) % NumBanks \in Nat
  BY Remainder, DramConstants DEF Banks, Commands
<1>2. PICK f : f = [t \in Timers |-> IF t \in {"RCD", "RCDWR", "RAS", "RC"}
                                     THEN T[t] ELSE d.bank[x.bank].c[t]]
  OBVIOUS
<1>3. PICK r, n : /\ n = (x.bank + 1) % NumBanks
                  /\ e = [d EXCEPT !.bank[x.bank].open = TRUE, !.bank[x.bank].row = r,
                                   !.bank[x.bank].c = f, !.c.RRD = T.RRD, !.prio = n]
  <2>1. e = [d EXCEPT !.bank[x.bank].open = TRUE, !.bank[x.bank].row = d.bank[x.bank].mrq.row,
                      !.bank[x.bank].c = [t \in Timers |-> IF t \in {"RCD", "RCDWR", "RAS", "RC"}
                                                           THEN T[t] ELSE @[t]],
                      !.c.RRD = T.RRD, !.prio = (x.bank + 1) % NumBanks]
    BY DEF Issue
  <2>2. PICK r, n : r = d.bank[x.bank].mrq.row /\ n = (x.bank + 1) % NumBanks
    OBVIOUS
  <2>3. e = [d EXCEPT !.bank[x.bank].open = TRUE, !.bank[x.bank].row = r,
                      !.bank[x.bank].c = f, !.c.RRD = T.RRD, !.prio = n]
    BY <1>1, <1>2, <2>1, <2>2 DEF Numbers
  <2>4. QED
    BY <2>2, <2>3
<1>4. e.prio \in Nat /\ e.c = [d.c EXCEPT !["RRD"] = T.RRD] /\ e.group = d.group
  BY <1>1, <1>3 DEF Numbers
<1>5. Shape(e)
  BY <1>1, <1>3 DEF Numbers, Shape
<1>6. \A j \in Banks : j # x.bank => e.bank[j].c = d.bank[j].c
  BY <1>1, <1>3 DEF Numbers
<1>7. e.bank[x.bank].c = f
  BY <1>1, <1>3 DEF Numbers
<1>8. QED
  BY <1>2, <1>4, <1>5, <1>6, <1>7

\* What a precharge starts.
LEMMA PrechargeCounters ==
  ASSUME NEW d, Numbers(d), NEW x \in Commands, x.kind = "precharge", NEW e, e = Issue(d, x)
  PROVE  /\ Shape(e) /\ e.prio \in Nat
         /\ e.c = d.c /\ e.group = d.group
         /\ \A j \in Banks : j # x.bank => e.bank[j].c = d.bank[j].c
         /\ e.bank[x.bank].c = [d.bank[x.bank].c EXCEPT !["RP"] = T.RP]
<1>1. x.bank \in Banks /\ (x.bank + 1) % NumBanks \in Nat
  BY Remainder, DramConstants DEF Banks, Commands
<1>2. e = [d EXCEPT !.bank[x.bank].open = FALSE, !.bank[x.bank].c.RP = T.RP,
                    !.prio = (x.bank + 1) % NumBanks]
  BY DEF Issue
<1>3. e.prio \in Nat /\ e.c = d.c /\ e.group = d.group
  BY <1>1, <1>2 DEF Numbers
<1>4. Shape(e)
  BY <1>1, <1>2 DEF Numbers, Shape
<1>5. \A j \in Banks : j # x.bank => e.bank[j].c = d.bank[j].c
  BY <1>1, <1>2 DEF Numbers
<1>6. e.bank[x.bank].c = [d.bank[x.bank].c EXCEPT !["RP"] = T.RP]
  BY <1>1, <1>2 DEF Numbers
<1>7. QED
  BY <1>3, <1>4, <1>5, <1>6

\* What a read and a write start, but for the turn of the data bus.
ColumnStarted(d, b, e) ==
  /\ Shape(e) /\ e.prio = d.prio
  /\ e.c = [d.c EXCEPT !["CCD"] = T.CCD]
  /\ e.group = [d.group EXCEPT ![Group(b)] = [@ EXCEPT !["CCDL"] = T.CCDL]]
  /\ \A j \in Banks : e.bank[j].c = d.bank[j].c

LEMMA ColumnCounters ==
  ASSUME NEW d, Numbers(d), NEW b \in Banks, NEW rw, NEW e, e = ColumnIssued(d, b, rw)
  PROVE  ColumnStarted(d, b, e)
<1>1. PICK s, k, m : e = [d EXCEPT !.rw = rw, !.rwq = s, !.bank[b].tx = k, !.bank[b].mrq = m,
                                   !.c.CCD = T.CCD, !.group[Group(b)].CCDL = T.CCDL]
  BY Zenon DEF ColumnIssued
<1>2. e.prio = d.prio /\ e.c = [d.c EXCEPT !["CCD"] = T.CCD]
  BY <1>1 DEF Numbers
<1>3. Shape(e)
  BY <1>1 DEF Numbers, Shape
<1>4. e.group = [d.group EXCEPT ![Group(b)] = [@ EXCEPT !["CCDL"] = T.CCDL]]
  BY <1>1 DEF Numbers
<1>5. \A j \in Banks : e.bank[j].c = d.bank[j].c
  BY <1>1 DEF Numbers
<1>6. QED
  BY <1>2, <1>3, <1>4, <1>5 DEF ColumnStarted

LEMMA Times ==
  /\ T.CCD \in Nat /\ T.CCDL \in Nat /\ T.RRD \in Nat /\ T.RCD \in Nat /\ T.RCDWR \in Nat
  /\ T.RAS \in Nat /\ T.RP \in Nat /\ T.RC \in Nat /\ T.WTR \in Nat /\ T.RTW \in Nat
  /\ T.WTP \in Nat /\ T.RTP \in Nat /\ T.RTPL \in Nat
BY DramConstants

\* A command starts the counters of the distances it asks for, and shortens none.
LEMMA IssueOwes ==
  ASSUME NEW d, Numbers(d), NEW c \in Commands, NEW f, f = Issue(d, c)
  PROVE  /\ Numbers(f) /\ Owes(f, c, 0)
         /\ \A x \in Commands, n \in Nat : Owes(d, x, n) => Owes(f, x, n)
<1> DEFINE b == c.bank
           \* A command may start counters.
           Started(g) ==
             /\ Numbers(g)
             /\ \A t \in {"RRD", "CCD", "RTW", "WTR"} : g.c[t] \in {d.c[t], T[t]}
             /\ \A j \in Banks, t \in Timers : g.bank[j].c[t] \in {d.bank[j].c[t], T[t]}
             /\ \A j \in Groups, t \in {"CCDL", "RTPL"} : g.group[j][t] \in {d.group[j][t], T[t]}
<1>1. b \in Banks /\ Group(b) \in Groups
  BY TagsTellGroups DEF Commands
<1>2. Started(f) /\ Owes(f, c, 0)
  <2>1. CASE c.kind = "nop"
    BY <2>1, <1>1, DramConstants DEF Issue, Owes
  <2>2. CASE c.kind = "activate"
    <3>1. /\ Shape(f) /\ f.prio \in Nat
          /\ f.c = [d.c EXCEPT !["RRD"] = T.RRD] /\ f.group = d.group
          /\ \A j \in Banks : j # b => f.bank[j].c = d.bank[j].c
          /\ f.bank[b].c = [t \in Timers |-> IF t \in {"RCD", "RCDWR", "RAS", "RC"}
                                            THEN T[t] ELSE d.bank[b].c[t]]
      BY <2>2, ActivateCounters
    <3>2. \A j \in Banks : f.bank[j].c \in [Timers -> Nat]
      BY <1>1, Times, <3>1 DEF Numbers, Timers
    <3>3. Numbers(f)
      BY Times, <3>1, <3>2 DEF Numbers, Shape
    <3>4. \A t \in {"RRD", "CCD", "RTW", "WTR"} : f.c[t] \in {d.c[t], T[t]}
      BY <3>1 DEF Numbers
    <3>5. \A j \in Banks, t \in Timers : f.bank[j].c[t] \in {d.bank[j].c[t], T[t]}
      BY <3>1
    <3>6. Owes(f, c, 0)
      BY <2>2, Times, <3>1 DEF Owes, Numbers, Timers
    <3>7. QED
      BY <3>1, <3>3, <3>4, <3>5, <3>6
  <2>3. CASE c.kind = "precharge"
    <3>1. /\ Shape(f) /\ f.prio \in Nat
          /\ f.c = d.c /\ f.group = d.group
          /\ \A j \in Banks : j # b => f.bank[j].c = d.bank[j].c
          /\ f.bank[b].c = [d.bank[b].c EXCEPT !["RP"] = T.RP]
      BY <2>3, PrechargeCounters
    <3>2. \A j \in Banks : f.bank[j].c \in [Timers -> Nat]
      BY <1>1, Times, <3>1 DEF Numbers, Timers
    <3>3. Numbers(f)
      BY Times, <3>1, <3>2 DEF Numbers, Shape
    <3>4. \A j \in Banks, t \in Timers : f.bank[j].c[t] \in {d.bank[j].c[t], T[t]}
      BY <3>1 DEF Numbers
    <3>5. Owes(f, c, 0)
      BY <2>3, Times, <1>1, <3>1 DEF Owes, Numbers, Timers
    <3>6. QED
      BY <3>1, <3>3, <3>4, <3>5
  <2>4. CASE c.kind = "read"
    <3> DEFINE g == ColumnIssued(d, b, "read")
    <3>1. f = [g EXCEPT !.c.RTW = T.RTW, !.bank[b].c.RTP = T.RTP, !.group[Group(b)].RTPL = T.RTPL]
      BY <2>4 DEF Issue
    <3>0. g = ColumnIssued(d, b, "read")
      OBVIOUS
    <3> HIDE DEF g
    <3>2. /\ Shape(g) /\ g.prio = d.prio
          /\ g.c = [d.c EXCEPT !["CCD"] = T.CCD]
          /\ g.group = [d.group EXCEPT ![Group(b)] = [@ EXCEPT !["CCDL"] = T.CCDL]]
          /\ \A j \in Banks : g.bank[j].c = d.bank[j].c
      <4>1. ColumnStarted(d, b, g)
        BY <1>1, <3>0, ColumnCounters, Zenon
      <4>2. QED
        BY <4>1 DEF ColumnStarted
    <3>3. f.prio \in Nat /\ Shape(f)
      BY <1>1, <3>1, <3>2 DEF Shape, Numbers
    <3>4. f.c = [g.c EXCEPT !["RTW"] = T.RTW]
      <4>1. DOMAIN g = DOMAIN d
        BY <3>2 DEF Shape, Numbers
      <4>2. QED
        BY <3>1, <4>1 DEF Numbers
    <3>5. f.group = [g.group EXCEPT ![Group(b)] = [@ EXCEPT !["RTPL"] = T.RTPL]]
      BY <3>1, <3>2 DEF Shape
    <3>6. \A j \in Banks : j # b => f.bank[j].c = d.bank[j].c
      BY <1>1, <3>1, <3>2 DEF Shape
    <3>7. f.bank[b].c = [d.bank[b].c EXCEPT !["RTP"] = T.RTP]
      BY <1>1, <3>1, <3>2 DEF Shape
    <3>8. /\ f.c \in [{"RRD", "CCD", "RTW", "WTR"} -> Nat]
          /\ \A t \in {"RRD", "CCD", "RTW", "WTR"} : f.c[t] \in {d.c[t], T[t]}
          /\ f.c["CCD"] = T.CCD /\ f.c["RTW"] = T.RTW
      BY <3>2, <3>4, Times DEF Numbers
    <3>9. /\ f.group \in [Groups -> [{"CCDL", "RTPL"} -> Nat]]
          /\ f.group[Group(b)] = [d.group[Group(b)] EXCEPT !["CCDL"] = T.CCDL, !["RTPL"] = T.RTPL]
          /\ \A j \in Groups : j # Group(b) => f.group[j] = d.group[j]
      <4>1. /\ g.group \in [Groups -> [{"CCDL", "RTPL"} -> Nat]]
            /\ g.group[Group(b)] = [d.group[Group(b)] EXCEPT !["CCDL"] = T.CCDL]
            /\ \A j \in Groups : j # Group(b) => g.group[j] = d.group[j]
        BY <1>1, <3>2, Times DEF Numbers
      <4>2. /\ f.group \in [Groups -> [{"CCDL", "RTPL"} -> Nat]]
            /\ f.group[Group(b)] = [g.group[Group(b)] EXCEPT !["RTPL"] = T.RTPL]
            /\ \A j \in Groups : j # Group(b) => f.group[j] = g.group[j]
        BY <1>1, <3>5, <4>1, Times
      <4>3. QED
        BY <1>1, <4>1, <4>2 DEF Numbers
    <3>10. \A j \in Banks : f.bank[j].c \in [Timers -> Nat]
      BY <1>1, <3>6, <3>7, Times DEF Numbers, Timers
    <3>11. Numbers(f)
      BY <3>3, <3>8, <3>9, <3>10 DEF Numbers, Shape
    <3>12. \A j \in Banks, t \in Timers : f.bank[j].c[t] \in {d.bank[j].c[t], T[t]}
      BY <3>6, <3>7 DEF Numbers
    <3>13. \A j \in Groups, t \in {"CCDL", "RTPL"} : f.group[j][t] \in {d.group[j][t], T[t]}
      BY <1>1, <3>9 DEF Numbers
    <3>14. Owes(f, c, 0)
      BY <2>4, <1>1, <3>7, <3>8, <3>9, Times DEF Owes, Numbers, Timers
    <3>15. QED
      BY <3>8, <3>11, <3>12, <3>13, <3>14
  <2>5. CASE c.kind = "write"
    <3> DEFINE g == ColumnIssued(d, b, "write")
    <3>1. f = [g EXCEPT !.c.WTR = T.WTR, !.bank[b].c.WTP = T.WTP]
      BY <2>5, Zenon DEF Issue
    <3>0. g = ColumnIssued(d, b, "write")
      OBVIOUS
    <3> HIDE DEF g
    <3>2. /\ Shape(g) /\ g.prio = d.prio
          /\ g.c = [d.c EXCEPT !["CCD"] = T.CCD]
          /\ g.group = [d.group EXCEPT ![Group(b)] = [@ EXCEPT !["CCDL"] = T.CCDL]]
          /\ \A j \in Banks : g.bank[j].c = d.bank[j].c
      <4>1. ColumnStarted(d, b, g)
        BY <1>1, <3>0, ColumnCounters, Zenon
      <4>2. QED
        BY <4>1 DEF ColumnStarted
    <3>3. f.prio \in Nat /\ Shape(f)
      <4>1. f.prio = g.prio
        BY <3>1, <3>2 DEF Shape
      <4>2. g.prio \in Nat
        BY <3>2 DEF Numbers
      <4>3. Shape(f)
        BY <1>1, <3>1, <3>2 DEF Shape
      <4>4. QED
        BY <4>1, <4>2, <4>3
    <3>4. f.c = [g.c EXCEPT !["WTR"] = T.WTR] /\ f.group = g.group
      <4>1. DOMAIN g = DOMAIN d
        BY <3>2 DEF Shape, Numbers
      <4>2. QED
        BY <3>1, <4>1 DEF Numbers
    <3>5. \A j \in Banks : j # b => f.bank[j].c = d.bank[j].c
      BY <1>1, <3>1, <3>2 DEF Shape
    <3>6. f.bank[b].c = [d.bank[b].c EXCEPT !["WTP"] = T.WTP]
      BY <1>1, <3>1, <3>2 DEF Shape
    <3>7. /\ f.c \in [{"RRD", "CCD", "RTW", "WTR"} -> Nat]
          /\ \A t \in {"RRD", "CCD", "RTW", "WTR"} : f.c[t] \in {d.c[t], T[t]}
          /\ f.c["CCD"] = T.CCD /\ f.c["WTR"] = T.WTR
      BY <3>2, <3>4, Times DEF Numbers
    <3>8. /\ f.group \in [Groups -> [{"CCDL", "RTPL"} -> Nat]]
          /\ f.group[Group(b)] = [d.group[Group(b)] EXCEPT !["CCDL"] = T.CCDL]
          /\ \A j \in Groups : j # Group(b) => f.group[j] = d.group[j]
      BY <1>1, <3>2, <3>4, Times DEF Numbers
    <3>9. \A j \in Banks : f.bank[j].c \in [Timers -> Nat]
      BY <1>1, <3>5, <3>6, Times DEF Numbers, Timers
    <3>10. Numbers(f)
      BY <3>3, <3>7, <3>8, <3>9 DEF Numbers, Shape
    <3>11. \A j \in Banks, t \in Timers : f.bank[j].c[t] \in {d.bank[j].c[t], T[t]}
      BY <3>5, <3>6 DEF Numbers
    <3>12. \A j \in Groups, t \in {"CCDL", "RTPL"} : f.group[j][t] \in {d.group[j][t], T[t]}
      BY <1>1, <3>8 DEF Numbers
    <3>13. Owes(f, c, 0)
      BY <2>5, <1>1, <3>6, <3>7, <3>8, Times DEF Owes, Numbers, Timers
    <3>14. QED
      BY <3>7, <3>10, <3>11, <3>12, <3>13
  <2>6. QED
    BY <2>1, <2>2, <2>3, <2>4, <2>5 DEF Commands
<1>3. ASSUME NEW x \in Commands, NEW n \in Nat, Owes(d, x, n) PROVE Owes(f, x, n)
  <2>1. x.bank \in Banks /\ Group(x.bank) \in Groups
    BY TagsTellGroups DEF Commands
  <2>2. \A v, w \in Nat, t \in Nat : v \in {w, t} /\ w >= t - n => v >= t - n
    OBVIOUS
  <2>3. /\ Numbers(f)
        /\ \A t \in {"RRD", "CCD", "RTW", "WTR"} : f.c[t] \in {d.c[t], T[t]}
        /\ \A t \in Timers : f.bank[x.bank].c[t] \in {d.bank[x.bank].c[t], T[t]}
        /\ \A t \in {"CCDL", "RTPL"} : f.group[Group(x.bank)][t] \in {d.group[Group(x.bank)][t], T[t]}
    BY <1>2, <2>1
  <2>4. ASSUME NEW t \in {"RRD", "CCD", "RTW", "WTR"}, d.c[t] >= T[t] - n
        PROVE  f.c[t] >= T[t] - n
    BY <2>2, <2>3, <2>4, Times DEF Numbers
  <2>5. ASSUME NEW t \in Timers, d.bank[x.bank].c[t] >= T[t] - n
        PROVE  f.bank[x.bank].c[t] >= T[t] - n
    <3>1. d.bank[x.bank].c[t] \in Nat /\ f.bank[x.bank].c[t] \in Nat
      BY <2>1, <2>3, <2>5 DEF Numbers
    <3>2. T[t] \in Nat
      BY <2>5, Times DEF Timers
    <3>3. QED
      BY <2>2, <2>3, <2>5, <3>1, <3>2
  <2>6. ASSUME NEW t \in {"CCDL", "RTPL"}, d.group[Group(x.bank)][t] >= T[t] - n
        PROVE  f.group[Group(x.bank)][t] >= T[t] - n
    BY <2>1, <2>2, <2>3, <2>6, Times DEF Numbers
  <2>7. QED
    BY <1>3, <2>4, <2>5, <2>6 DEF Owes, Timers
<1>4. QED
  BY <1>2, <1>3

\* Time passes: a cycle takes one from what is left.
LEMMA TickOwes ==
  ASSUME NEW d, Numbers(d), NEW e, e = Tick(d)
  PROVE  /\ Numbers(e)
         /\ \A x \in Commands, n \in Nat : Owes(d, x, n) => Owes(e, x, n + 1)
<1>1. /\ Shape(e) /\ e.prio = d.prio /\ e.c = Less(d.c)
      /\ e.group = [g \in Groups |-> Less(d.group[g])]
      /\ \A j \in Banks : e.bank[j].c = Less(d.bank[j].c)
  <2> DEFINE c == Less(d.c)
             k == [b \in Banks |-> [d.bank[b] EXCEPT !.c = Less(d.bank[b].c)]]
             g == [j \in Groups |-> Less(d.group[j])]
  <2>1. e = [d EXCEPT !.c = c, !.bank = k, !.group = g]
    BY Zenon DEF Tick
  <2>2. DOMAIN e = DOMAIN d /\ e.prio = d.prio /\ e.c = c /\ e.bank = k /\ e.group = g
    <3> HIDE DEF c, k, g
    <3> QED  BY <2>1 DEF Numbers
  <2>3. QED
    BY <2>2 DEF Numbers, Shape
<1>2. ASSUME NEW S, NEW h \in [S -> Nat]
      PROVE  /\ Less(h) \in [S -> Nat]
             /\ \A t \in S, k \in Nat, n \in Nat : h[t] >= k - n => Less(h)[t] >= k - (n + 1)
  BY DEF Less
<1>3. Numbers(e)
  BY <1>1, <1>2 DEF Numbers, Shape
<1>4. ASSUME NEW x \in Commands, NEW n \in Nat, Owes(d, x, n) PROVE Owes(e, x, n + 1)
  <2>1. x.bank \in Banks /\ Group(x.bank) \in Groups
    BY TagsTellGroups DEF Commands
  <2>2. \A t \in {"RRD", "CCD", "RTW", "WTR"}, k \in Nat : d.c[t] >= k - n => e.c[t] >= k - (n + 1)
    <3>1. d.c \in [{"RRD", "CCD", "RTW", "WTR"} -> Nat]
      BY DEF Numbers
    <3>2. QED
      BY <1>1, <1>2, <3>1, ZenonT(60)
  <2>3. \A t \in Timers, k \in Nat :
          d.bank[x.bank].c[t] >= k - n => e.bank[x.bank].c[t] >= k - (n + 1)
    <3>1. d.bank[x.bank].c \in [Timers -> Nat]
      BY <2>1 DEF Numbers
    <3>2. QED
      BY <1>1, <1>2, <2>1, <3>1
  <2>4. \A t \in {"CCDL", "RTPL"}, k \in Nat :
          d.group[Group(x.bank)][t] >= k - n => e.group[Group(x.bank)][t] >= k - (n + 1)
    <3>1. /\ d.group[Group(x.bank)] \in [{"CCDL", "RTPL"} -> Nat]
          /\ e.group[Group(x.bank)] = Less(d.group[Group(x.bank)])
      BY <1>1, <2>1 DEF Numbers
    <3>2. QED
      BY <1>2, <3>1
  <2>5. QED
    BY <1>4, <2>2, <2>3, <2>4, Times DEF Owes, Timers
<1>5. QED
  BY <1>3, <1>4

\* A command is given when the distance to each earlier one is kept.
LEMMA GapKept ==
  ASSUME NEW d, Numbers(d), NEW y, y = Command(d), NEW x \in Commands, NEW n \in Nat, Owes(d, x, n)
  PROVE  n >= MinGap(x, y)
<1>1. y \in Commands
  BY CommandTold DEF Numbers
<1>2. CASE y.kind = "nop"
  BY <1>2, Times DEF MinGap
<1>3. CASE y.kind # "nop"
  <2> DEFINE a == x.bank
             b == y.bank
  <2>1. a \in Banks /\ b \in Banks /\ Group(a) \in Groups /\ Group(b) \in Groups
    BY <1>1, TagsTellGroups DEF Commands
  <2>2. y.kind = CommandTo(d, b)
    BY <1>3, CommandTold DEF Numbers
  <2>3. BankGroup(a) = BankGroup(b) => Group(a) = Group(b)
    BY <2>1, TagsTellGroups
  <2>4. y.kind = "activate" => d.c.RRD = 0 /\ d.bank[b].c.RP = 0 /\ d.bank[b].c.RC = 0
    BY <2>2 DEF CommandTo, MayActivate
  <2>5. y.kind = "precharge" => /\ d.bank[b].c.RAS = 0 /\ d.bank[b].c.WTP = 0 /\ d.bank[b].c.RTP = 0
                                /\ d.group[Group(b)].RTPL = 0
    BY <2>2 DEF CommandTo, MayPrecharge
  <2>6. y.kind = "read" => /\ d.c.CCD = 0 /\ d.bank[b].c["RCD"] = 0 /\ d.group[Group(b)].CCDL = 0
                           /\ d.c["WTR"] = 0
    BY <2>2 DEF CommandTo, Column
  <2>7. y.kind = "write" => /\ d.c.CCD = 0 /\ d.bank[b].c["RCDWR"] = 0 /\ d.group[Group(b)].CCDL = 0
                            /\ d.c["RTW"] = 0
    BY <2>2 DEF CommandTo, Column
  <2>8. CASE x.kind = "activate"
    BY <2>8, <1>1, <2>1, <2>4, <2>5, <2>6, <2>7, Times DEF Owes, MinGap, Commands
  <2>9. CASE x.kind = "precharge"
    BY <2>9, <1>1, <2>1, <2>4, Times DEF Owes, MinGap, Commands
  <2>10. CASE x.kind = "read"
    BY <2>10, <1>1, <2>1, <2>3, <2>5, <2>6, <2>7, Times DEF Owes, MinGap, Commands
  <2>11. CASE x.kind = "write"
    BY <2>11, <1>1, <2>1, <2>3, <2>5, <2>6, <2>7, Times DEF Owes, MinGap, Commands
  <2>12. CASE x.kind = "nop"
    BY <2>12 , <1>3, Times DEF MinGap
  <2>13. QED
    BY <2>8, <2>9, <2>10, <2>11, <2>12 DEF Commands
<1>4. QED
  BY <1>2, <1>3

\* A cycle of the channel: its command keeps every distance, and what is left of
\* each is counted on.
LEMMA CycleOwes ==
  ASSUME NEW d, Numbers(d), NEW policy, NEW e, e = DramCycled(d, policy),
         NEW y, y = CommandOf(d, policy)
  PROVE  /\ Numbers(e) /\ y \in Commands /\ Owes(e, y, 1)
         /\ \A x \in Commands, n \in Nat : Owes(d, x, n) => n >= MinGap(x, y) /\ Owes(e, x, n + 1)
<1> DEFINE s == Schedule(Transfer(d), policy)
           f == Issue(s, y)
<1>1. SameCounters(d, s)
  BY ScheduleKeepsCounters
<1>2. y = Command(s) /\ e = Tick(f)
  BY DEF CommandOf, DramCycled
<1> HIDE DEF s
<1>3. y \in Commands
  BY <1>1, <1>2, CommandTold DEF SameCounters, Numbers
<1>4. /\ Numbers(f) /\ Owes(f, y, 0)
      /\ \A x \in Commands, n \in Nat : Owes(s, x, n) => Owes(f, x, n)
  BY <1>1, <1>3, IssueOwes DEF SameCounters
<1> HIDE DEF f
<1>5. Numbers(e) /\ \A x \in Commands, n \in Nat : Owes(f, x, n) => Owes(e, x, n + 1)
  BY <1>2, <1>4, TickOwes
<1>6. Owes(e, y, 1)
  BY <1>3, <1>4, <1>5
<1>7. ASSUME NEW x \in Commands, NEW n \in Nat, Owes(d, x, n)
      PROVE  n >= MinGap(x, y) /\ Owes(e, x, n + 1)
  <2>1. Owes(s, x, n)
    BY <1>1, <1>7 DEF SameCounters, Owes, Commands
  <2>2. n >= MinGap(x, y)
    BY <1>1, <1>2, <2>1, GapKept DEF SameCounters
  <2>3. QED
    BY <1>4, <1>5, <2>1, <2>2
<1>8. QED
  BY <1>3, <1>5, <1>6, <1>7

-----------------------------------------------------------------------------
(* The channel in its partition.                                           *)

Parts(p) == DOMAIN p = {"sub", "latency", "credit", "dram"}

LEMMA ReturnDram ==
  ASSUME NEW p, Parts(p), NEW r, r = Return(p)
  PROVE  Parts(r) /\ (r.dram = p.dram \/ r.dram = [p.dram EXCEPT !.returnq = Tail(@)])
BY DEF Return, Parts

LEMMA DramDram ==
  ASSUME NEW p, Parts(p), NEW r, r = Dram(p)
  PROVE  Parts(r) /\ r.dram = DramCycled(p.dram, setup.sched)
<1> DEFINE d == DramCycled(p.dram, setup.sched)
<1>1. \/ r = [p EXCEPT !.dram = d]
      \/ \E c, v, s : r = [[p EXCEPT !.dram = d] EXCEPT !.credit = c, !.sub[s].tracker = v]
  BY Zenon DEF Dram
<1>2. Parts(r) /\ r.dram = d
  <2> HIDE DEF d
  <2>1. CASE r = [p EXCEPT !.dram = d]
    BY <2>1 DEF Parts
  <2>2. CASE \E c, v, s : r = [[p EXCEPT !.dram = d] EXCEPT !.credit = c, !.sub[s].tracker = v]
    <3>1. PICK c, v, s : r = [[p EXCEPT !.dram = d] EXCEPT !.credit = c, !.sub[s].tracker = v]
      BY <2>2, Zenon
    <3>2. QED
      BY <3>1 DEF Parts
  <2>3. QED
    BY <1>1, <2>1, <2>2, Zenon
<1>3. QED
  BY <1>2

LEMMA ArbitrateDram ==
  ASSUME NEW p, Parts(p), NEW r, r = Arbitrate(p)
  PROVE  Parts(r) /\ r.dram = p.dram
<1>1. CASE r = p
  BY <1>1
<1>2. CASE \E s, t, l, c : r = [p EXCEPT !.sub[s].todram = t, !.latency = l, !.credit = c]
  <2>1. PICK s, t, l, c : r = [p EXCEPT !.sub[s].todram = t, !.latency = l, !.credit = c]
    BY <1>2, Zenon
  <2>2. QED
    BY <2>1 DEF Parts
<1>3. r = p \/ \E s, t, l, c : r = [p EXCEPT !.sub[s].todram = t, !.latency = l, !.credit = c]
  BY Zenon DEF Arbitrate
<1>4. QED
  BY <1>1, <1>2, <1>3, Zenon

LEMMA LeaveLatencyDram ==
  ASSUME NEW p, Parts(p), NEW ripe, NEW r, r = LeaveLatency(p, ripe)
  PROVE  Parts(r) /\ (r.dram = p.dram \/ \E x : r.dram = DramPush(p.dram, x))
BY DEF LeaveLatency, Parts

\* Window is a length.
LEMMA RecentIsEnd ==
  ASSUME NEW S, NEW q \in Seq(S), NEW r, r = Recent(q)
  PROVE  /\ r \in Seq(S) /\ Len(r) <= Len(q)
         /\ \A i \in 1..Len(r) : r[i] = q[i + (Len(q) - Len(r))]
         /\ \A i \in 1..Len(r) : i + (Len(q) - Len(r)) \in 1..Len(q)
<1>1. Window \in Nat /\ Len(q) \in Nat
  BY PartitionConstants
<1>2. CASE Len(q) > Window
  <2>1. r = SubSeq(q, Len(q) - Window + 1, Len(q))
    BY <1>2 DEF Recent
  <2>2. \A i \in (Len(q) - Window + 1)..Len(q) : q[i] \in S
    BY <1>1, <1>2
  <2>3. Len(r) = Window /\ r \in Seq(S)
    BY <1>1, <1>2, <2>1, <2>2
  <2>4. \A i \in 1..Len(r) : r[i] = q[i + (Len(q) - Len(r))]
    BY <1>1, <1>2, <2>1, <2>3
  <2>5. QED
    BY <1>1, <1>2, <2>3, <2>4
<1>3. CASE ~(Len(q) > Window)
  <2>1. r = SubSeq(q, 1, Len(q))
    BY <1>3 DEF Recent
  <2>2. \A i \in 1..Len(q) : q[i] \in S
    OBVIOUS
  <2>3. Len(r) = Len(q) /\ r \in Seq(S)
    BY <1>1, <2>1, <2>2
  <2>4. \A i \in 1..Len(r) : r[i] = q[i]
    BY <1>1, <2>1, <2>3
  <2>5. QED
    BY <1>1, <2>3, <2>4
<1>4. QED
  BY <1>2, <1>3

\* The counters of the channel hold what the last commands still ask for.
TimingInv ==
  /\ Numbers(dram) /\ bus \in Seq(Commands)
  /\ \A i \in 1..Len(bus) : Owes(dram, bus[i], Len(bus) + 1 - i)
  /\ TimingRespected

LEMMA TimingInit == Init => TimingInv
BY DEF Init, TimingInv, EmptyChannel, Numbers, Timers, TimingRespected

\* The cycle of the DRAM domain, as far as the channel is concerned.
LEMMA DramCycleDram ==
  ASSUME NEW ripe, DramCycle(ripe)
  PROVE  \E d : /\ d = dram \/ d = [dram EXCEPT !.returnq = Tail(@)]
                /\ bus' = Recent(Append(bus, CommandOf(d, setup.sched)))
                /\ \/ dram' = DramCycled(d, setup.sched)
                   \/ \E x : dram' = DramPush(DramCycled(d, setup.sched), x)
<1> DEFINE p == [sub |-> sub, latency |-> latency, credit |-> credit, dram |-> dram]
           r == Return(p)
           c == Dram(r)
           a == Arbitrate(c)
           q == LeaveLatency(a, ripe)
<1>1. Parts(p) /\ p.dram = dram
  BY DEF Parts
<1>2. dram' = q.dram /\ bus' = Recent(Append(bus, CommandOf(r.dram, setup.sched)))
  BY DEF DramCycle
<1> HIDE DEF p
<1>3. Parts(r) /\ (r.dram = dram \/ r.dram = [dram EXCEPT !.returnq = Tail(@)])
  BY <1>1, ReturnDram
<1> HIDE DEF r
<1>4. Parts(c) /\ c.dram = DramCycled(r.dram, setup.sched)
  BY <1>3, DramDram
<1> HIDE DEF c
<1>5. Parts(a) /\ a.dram = c.dram
  BY <1>4, ArbitrateDram
<1> HIDE DEF a
<1>6. q.dram = a.dram \/ \E x : q.dram = DramPush(a.dram, x)
  BY <1>5, LeaveLatencyDram
<1> HIDE DEF q
<1>7. QED
  BY <1>2, <1>3, <1>4, <1>5, <1>6, Zenon

\* Only the cycle of the DRAM domain changes the channel and its bus.
LEMMA StepParts ==
  ASSUME [Next]_vars
  PROVE  (\E ripe : DramCycle(ripe)) \/ UNCHANGED <<dram, bus>>
<1>1. CASE Next
  <2>1. CASE \E ripe \in {TRUE, \A s \in Subs : latency \o sub[s].todram = <<>>} : DramCycle(ripe)
    BY <2>1
  <2>2. CASE Flush
    BY <2>2 DEF Flush
  <2>3. CASE \E late \in SUBSET {s \in Subs : sub[s].rop # <<>>} : L2Cycle(Subs \ late)
    <3>1. PICK late : L2Cycle(Subs \ late)
      BY <2>3, Zenon
    <3>2. QED
      BY <3>1, Zenon DEF L2Cycle
  <2>4. CASE \E full \in SUBSET {s \in Subs : sub[s].out # <<>>} : Respond(Subs \ full)
    BY <2>4 DEF Respond
  <2>5. QED
    BY <1>1, <2>1, <2>2, <2>3, <2>4, Zenon DEF Next
<1>2. CASE UNCHANGED vars
  BY <1>2 DEF vars
<1>3. QED
  BY <1>1, <1>2

LEMMA TimingStep == TimingInv /\ [Next]_vars => TimingInv'
<1> SUFFICES ASSUME TimingInv, [Next]_vars PROVE TimingInv'
  OBVIOUS
<1>1. ASSUME NEW ripe, DramCycle(ripe) PROVE TimingInv'
  <2> DEFINE L == Len(bus)
  <2>1. PICK d : /\ d = dram \/ d = [dram EXCEPT !.returnq = Tail(@)]
                 /\ bus' = Recent(Append(bus, CommandOf(d, setup.sched)))
                 /\ \/ dram' = DramCycled(d, setup.sched)
                    \/ \E x : dram' = DramPush(DramCycled(d, setup.sched), x)
    BY <1>1, DramCycleDram
  <2> DEFINE y == CommandOf(d, setup.sched)
             e == DramCycled(d, setup.sched)
             q == Append(bus, y)
  <2>2. SameCounters(dram, d)
    BY <2>1 DEF TimingInv, Numbers, SameCounters
  <2>3. /\ Numbers(e) /\ y \in Commands /\ Owes(e, y, 1)
        /\ \A x \in Commands, n \in Nat : Owes(d, x, n) => n >= MinGap(x, y) /\ Owes(e, x, n + 1)
    BY <2>2, CycleOwes DEF SameCounters
  <2>4. dram' = e \/ \E x : dram' = DramPush(e, x)
    BY <2>1
  <2>5. bus' = Recent(q)
    BY <2>1
  <2> HIDE DEF y, e
  <2>6. SameCounters(e, dram')
    BY <2>3, <2>4 DEF DramPush, SameCounters, Numbers
  <2>7. /\ q \in Seq(Commands) /\ Len(q) = L + 1 /\ L \in Nat
        /\ q[L + 1] = y /\ \A i \in 1..L : q[i] = bus[i] /\ bus[i] \in Commands
    BY <2>3 DEF TimingInv
  <2>8. \A i \in 1..L : Owes(d, bus[i], L + 1 - i)
    BY <2>2, <2>7 DEF TimingInv, SameCounters, Owes, Commands
  <2>9. \A i \in 1..Len(q) : Owes(dram', q[i], Len(q) + 1 - i)
    <3>1. \A i \in 1..L : Owes(e, q[i], (L + 1 - i) + 1)
      BY <2>3, <2>7, <2>8
    <3>2. \A x \in Commands : \A n : Owes(e, x, n) => Owes(dram', x, n)
      BY <2>6 DEF SameCounters, Owes, Commands
    <3>3. ASSUME NEW i \in 1..L PROVE Owes(dram', q[i], Len(q) + 1 - i)
      <4>1. (L + 1 - i) + 1 = Len(q) + 1 - i
        BY <2>7
      <4>2. Owes(e, q[i], Len(q) + 1 - i)
        BY <3>1, <4>1
      <4>3. QED
        BY <2>7, <3>2, <4>2
    <3>4. Owes(dram', q[L + 1], Len(q) + 1 - (L + 1))
      <4>1. Len(q) + 1 - (L + 1) = 1
        BY <2>7
      <4>2. QED
        BY <2>3, <2>7, <3>2, <4>1
    <3>5. \A i \in 1..Len(q) : i \in 1..L \/ i = L + 1
      BY <2>7
    <3>6. QED
      BY <3>3, <3>4, <3>5
  <2>10. \A i, j \in 1..Len(q) : i < j => j - i >= MinGap(q[i], q[j])
    <3>1. ASSUME NEW i \in 1..L PROVE L + 1 - i >= MinGap(bus[i], y)
      BY <2>3, <2>7, <2>8
    <3>2. ASSUME NEW i \in 1..L, NEW j \in 1..L, i < j PROVE j - i >= MinGap(bus[i], bus[j])
      <4>1. DOMAIN bus = 1..L
        BY DEF TimingInv
      <4>2. QED
        BY <3>2, <4>1 DEF TimingInv, TimingRespected
    <3>3. \A i \in 1..Len(q) : i \in 1..L \/ i = L + 1
      BY <2>7
    <3>4. QED
      <4> TAKE i, j \in 1..Len(q)
      <4> HAVE i < j
      <4>1. i \in 1..L
        BY <2>7, <3>3
      <4>2. CASE j \in 1..L
        BY <2>7, <3>2, <4>1, <4>2
      <4>3. CASE j = L + 1
        BY <2>7, <3>1, <4>1, <4>3
      <4>4. QED
        BY <3>3, <4>2, <4>3
  <2> HIDE DEF q
  <2>11. /\ bus' \in Seq(Commands) /\ Len(bus') <= Len(q)
         /\ \A i \in 1..Len(bus') : bus'[i] = q[i + (Len(q) - Len(bus'))]
         /\ \A i \in 1..Len(bus') : i + (Len(q) - Len(bus')) \in 1..Len(q)
    BY <2>5, <2>7, RecentIsEnd, ZenonT(60)
  <2>12. \A i \in 1..Len(bus') : Owes(dram', bus'[i], Len(bus') + 1 - i)
    <3> TAKE i \in 1..Len(bus')
    <3> DEFINE k == i + (Len(q) - Len(bus'))
    <3>1. k \in 1..Len(q) /\ bus'[i] = q[k] /\ Len(q) + 1 - k = Len(bus') + 1 - i
      BY <2>7, <2>11
    <3>2. QED
      BY <2>9, <3>1
  <2>13. TimingRespected'
    <3> SUFFICES ASSUME NEW i \in 1..Len(bus'), NEW j \in 1..Len(bus'), i < j
                 PROVE  j - i >= MinGap(bus'[i], bus'[j])
      <4>1. DOMAIN bus' = 1..Len(bus')
        BY <2>11
      <4>2. QED
        BY <4>1 DEF TimingRespected
    <3> DEFINE k == i + (Len(q) - Len(bus'))
               l == j + (Len(q) - Len(bus'))
    <3>1. k \in 1..Len(q) /\ l \in 1..Len(q) /\ k < l /\ l - k = j - i
      BY <2>7, <2>11
    <3>2. bus'[i] = q[k] /\ bus'[j] = q[l]
      BY <2>11
    <3>3. QED
      BY <2>10, <3>1, <3>2
  <2>14. QED
    BY <2>6, <2>11, <2>12, <2>13 DEF TimingInv, SameCounters
<1>2. ASSUME UNCHANGED <<dram, bus>> PROVE TimingInv'
  BY <1>2 DEF TimingInv, TimingRespected
<1>3. QED
  BY <1>1, <1>2, StepParts

\* The commands the banks get keep the distances of the timing options, for any
\* number of banks and groups, any timing, and any requests: dram_t::cycle with its
\* schedulers, behind any number of L2 slices.
THEOREM TimingRespectedHolds == Spec => []TimingRespected
<1>1. TimingInv => TimingRespected
  BY DEF TimingInv
<1>2. QED
  BY TimingInit, TimingStep, <1>1, PTL DEF Spec

-----------------------------------------------------------------------------
(* The rows the scheduler is on its way to serve.                          *)

\* The queues hold requests of S, and the row being served of a bank has one.
RowsKept(d, S) ==
  /\ DOMAIN d = {"mrqq", "queue", "lastrow", "bank", "group", "c", "prio", "rw", "rwq", "returnq"}
  /\ d.mrqq \in Seq(S) /\ d.queue \in [Banks -> Seq(S)] /\ DOMAIN d.lastrow = Banks
  /\ \A b \in Banks : d.lastrow[b] # NoRow => HasRow(d.queue[b], d.lastrow[b])

\* Parts of a cycle that leave the queues alone.
SameQueues(d, e) == DOMAIN e = DOMAIN d /\ e.mrqq = d.mrqq /\ e.queue = d.queue /\ e.lastrow = d.lastrow

LEMMA SameRows == ASSUME NEW d, NEW S, RowsKept(d, S), NEW e, SameQueues(d, e) PROVE RowsKept(e, S)
BY DEF RowsKept, SameQueues

\* A request that is added takes no row from a bank.
LEMMA AddReqRows ==
  ASSUME NEW S, NEW d, RowsKept(d, S)
  PROVE  RowsKept(AddReq(d), S)
<1> DEFINE r == Head(d.mrqq)
           e == [d EXCEPT !.queue[r.bk] = Append(@, r), !.mrqq = Tail(@)]
<1>1. CASE AddReq(d) = d
  BY <1>1
<1>2. CASE d.mrqq # <<>> /\ AddReq(d) = e
  <2>1. r \in S /\ Tail(d.mrqq) \in Seq(S)
    BY <1>2 DEF RowsKept
  <2>2. DOMAIN e = DOMAIN d /\ e.mrqq = Tail(d.mrqq) /\ e.lastrow = d.lastrow
    BY DEF RowsKept
  <2>3. e.queue = [d.queue EXCEPT ![r.bk] = Append(@, r)]
    BY DEF RowsKept
  <2>4. e.queue \in [Banks -> Seq(S)]
    <3> HIDE DEF r, e
    <3>1. \A q \in Seq(S), x \in S : Append(q, x) \in Seq(S)
      OBVIOUS
    <3>2. \A b \in Banks : d.queue[b] \in Seq(S) /\ Append(d.queue[b], r) \in Seq(S)
      BY <2>1, <3>1 DEF RowsKept
    <3>3. QED
      BY <2>3, <3>2, ZenonT(60) DEF RowsKept
  <2>5. ASSUME NEW b \in Banks, d.lastrow[b] # NoRow PROVE HasRow(e.queue[b], d.lastrow[b])
    <3> HIDE DEF r, e
    <3>1. PICK i \in DOMAIN d.queue[b] : d.queue[b][i].row = d.lastrow[b]
      BY <2>5 DEF RowsKept, HasRow
    <3>2. i \in DOMAIN e.queue[b] /\ e.queue[b][i] = d.queue[b][i]
      <4>1. d.queue[b] \in Seq(S)
        BY DEF RowsKept
      <4>2. e.queue[b] = d.queue[b] \/ e.queue[b] = Append(d.queue[b], r)
        BY <2>3 DEF RowsKept
      <4>3. \A q \in Seq(S), x \in S : \A j \in DOMAIN q : j \in DOMAIN Append(q, x) /\ Append(q, x)[j] = q[j]
        OBVIOUS
      <4>4. QED
        BY <2>1, <3>1, <4>1, <4>2, <4>3
    <3>3. QED
      BY <3>1, <3>2 DEF HasRow
  <2>6. QED
    <3> HIDE DEF r, e
    <3> QED  BY <1>2, <2>1, <2>2, <2>4, <2>5 DEF RowsKept
<1>3. QED
  BY <1>1, <1>2 DEF AddReq

\* The last request of a row takes the row with it.
LEMMA ServeBankRows ==
  ASSUME NEW S, NEW d, RowsKept(d, S), NEW b \in Banks
  PROVE  RowsKept(ServeBank(d, b), S)
<1> DEFINE row  == RowOf(d, b)
           k    == SelectInSeq(d.queue[b], LAMBDA r : r.row = row)
           rest == RemoveAt(d.queue[b], k)
<1>1. d.queue[b] \in Seq(S) /\ Len(d.queue[b]) \in Nat
  BY DEF RowsKept
<1>2. k \in 0..Len(d.queue[b])
  <2> DEFINE I == {i \in 1..Len(d.queue[b]) : d.queue[b][i].row = row}
  <2>1. k = IF I # {} THEN Min(I) ELSE 0
    BY DEF SelectInSeq
  <2>2. I \in SUBSET Nat
    BY <1>1
  <2>3. I # {} => Min(I) \in I
    BY <2>2, LeastIsMin
  <2>4. QED
    <3> HIDE DEF k
    <3> QED  BY <1>1, <2>1, <2>3
<1>3. rest \in Seq(S)
  <2>1. \A q \in Seq(S) : \A i \in 0..Len(q) : SubSeq(q, 1, i - 1) \in Seq(S) /\ SubSeq(q, i + 1, Len(q)) \in Seq(S)
    OBVIOUS
  <2>2. \A q, p \in Seq(S) : q \o p \in Seq(S)
    OBVIOUS
  <2>3. QED
    <3> HIDE DEF k
    <3> QED  BY <1>1, <1>2, <2>1, <2>2 DEF RemoveAt
<1>4. \E m, p : ServeBank(d, b) = [d EXCEPT !.bank[b].mrq = m, !.queue[b] = rest,
                                      !.lastrow[b] = IF HasRow(rest, row) THEN row ELSE NoRow, !.prio = p]
  BY Zenon DEF ServeBank
<1> HIDE DEF rest, row
<1>5. QED
  <2>1. PICK m, p : ServeBank(d, b) = [d EXCEPT !.bank[b].mrq = m, !.queue[b] = rest,
                                      !.lastrow[b] = IF HasRow(rest, row) THEN row ELSE NoRow, !.prio = p]
    BY <1>4, Zenon
  <2> DEFINE e == ServeBank(d, b)
  <2> HIDE DEF e
  <2>2. DOMAIN e = DOMAIN d /\ e.mrqq = d.mrqq
    BY <2>1 DEF e, RowsKept
  <2>3. e.queue = [d.queue EXCEPT ![b] = rest]
    BY <2>1 DEF e, RowsKept
  <2>4. e.lastrow = [d.lastrow EXCEPT ![b] = IF HasRow(rest, row) THEN row ELSE NoRow]
    BY <2>1 DEF e, RowsKept
  <2>5. e.queue \in [Banks -> Seq(S)]
    BY <1>3, <2>3 DEF RowsKept
  <2>6. \A j \in Banks : e.lastrow[j] # NoRow => HasRow(e.queue[j], e.lastrow[j])
    BY <2>3, <2>4 DEF RowsKept
  <2>7. RowsKept(e, S)
    BY <2>2, <2>4, <2>5, <2>6 DEF RowsKept
  <2>8. QED
    BY <2>7 DEF e

\* A cycle of the channel.
LEMMA CycleRows ==
  ASSUME NEW S, NEW d, RowsKept(d, S), d.prio \in Nat, NEW policy
  PROVE  RowsKept(DramCycled(d, policy), S)
<1>1. RowsKept(Transfer(d), S) /\ Transfer(d).prio \in Nat
  <2>0. Transfer(d).prio = d.prio
    BY DEF Transfer, RowsKept
  <2>1. SameQueues(d, Transfer(d))
    BY DEF Transfer, RowsKept, SameQueues
  <2>2. QED
    BY <2>0, <2>1, SameRows
<1>2. ASSUME NEW e, RowsKept(e, S) PROVE RowsKept(ScheduleFifo(e), S)
  <2>1. CASE ScheduleFifo(e) = e
    BY <1>2, <2>1
  <2>2. CASE /\ e.mrqq # <<>>
             /\ ScheduleFifo(e) = [e EXCEPT !.bank[Head(e.mrqq).bk].mrq = Head(e.mrqq), !.mrqq = Tail(@)]
    <3>1. Tail(e.mrqq) \in Seq(S)
      BY <1>2, <2>2 DEF RowsKept
    <3>2. QED
      BY <1>2, <2>2, <3>1 DEF RowsKept
  <2>3. QED
    BY <2>1, <2>2 DEF ScheduleFifo
<1>3. ASSUME NEW e, RowsKept(e, S), e.prio \in Nat PROVE RowsKept(ScheduleFrFcfs(e), S)
  <2> DEFINE g == Drain(e)
             b == FirstFrom(g, LAMBDA j : g.bank[j].mrq = NoReq /\ g.queue[j] # <<>>)
  <2>1. RowsKept(g, S)
    BY <1>3, AddReqRows DEF Drain
  <2>2. CASE b \in Banks
    <3> HIDE DEF g
    <3>1. RowsKept(ServeBank(g, b), S)
      BY <2>1, <2>2, ServeBankRows
    <3>2. QED
      BY <2>1, <3>1 DEF ScheduleFrFcfs, g
  <2>3. CASE b = NoReq
    BY <2>1, <2>3 DEF ScheduleFrFcfs
  <2>4. b \in Banks \/ b = NoReq
    <3> DEFINE ok == {i \in Banks : LET j == (i + g.prio) % NumBanks
                                    IN g.bank[j].mrq = NoReq /\ g.queue[j] # <<>>}
    <3>1. b = IF ok = {} THEN NoReq ELSE (Min(ok) + g.prio) % NumBanks
      BY DEF FirstFrom
    <3>2. g.prio \in Nat
      <4>1. \A f : RowsKept(f, S) => AddReq(f).prio = f.prio
        BY DEF AddReq, RowsKept
      <4>2. RowsKept(AddReq(e), S)
        BY <1>3, AddReqRows
      <4>3. QED
        BY <1>3, <4>1, <4>2 DEF Drain
    <3>3. ok # {} => Min(ok) \in Nat
      <4>1. ok \in SUBSET Nat
        BY DramConstants DEF Banks
      <4>2. QED
        BY <4>1, LeastIsMin
    <3>4. ok # {} => (Min(ok) + g.prio) % NumBanks \in Banks
      <4> HIDE DEF ok, g
      <4> QED  BY <3>2, <3>3, Remainder DEF Banks
    <3>5. QED
      <4> HIDE DEF ok, g, b
      <4> QED  BY <3>1, <3>4
  <2>5. QED
    BY <2>2, <2>3, <2>4
<1>4. ASSUME NEW e, RowsKept(e, S), NEW c PROVE RowsKept(Tick(Issue(e, c)), S)
  <2> DEFINE f == Issue(e, c)
  <2>1. ASSUME NEW b, NEW rw PROVE SameQueues(e, ColumnIssued(e, b, rw))
    <3>1. PICK s, k, m : ColumnIssued(e, b, rw) = [e EXCEPT !.rw = rw, !.rwq = s, !.bank[b].tx = k,
                             !.bank[b].mrq = m, !.c.CCD = T.CCD, !.group[Group(b)].CCDL = T.CCDL]
      BY Zenon DEF ColumnIssued
    <3>2. QED
      BY <1>4, <3>1 DEF RowsKept, SameQueues
  <2>2. SameQueues(e, f)
    <3>1. CASE c.kind = "read"
      <4> DEFINE g == ColumnIssued(e, c.bank, "read")
      <4>1. f = [g EXCEPT !.c.RTW = T.RTW, !.bank[c.bank].c.RTP = T.RTP, !.group[Group(c.bank)].RTPL = T.RTPL]
        BY <3>1 DEF Issue
      <4>2. SameQueues(e, g)
        BY <2>1
      <4> HIDE DEF g
      <4>3. QED
        BY <1>4, <4>1, <4>2 DEF RowsKept, SameQueues
    <3>2. CASE c.kind = "write"
      BY <1>4, <2>1, <3>2, ZenonT(60) DEF Issue, RowsKept, SameQueues
    <3>3. CASE c.kind = "activate"
      BY <1>4, <3>3 DEF Issue, RowsKept, SameQueues
    <3>4. CASE c.kind = "precharge"
      BY <1>4, <3>4 DEF Issue, RowsKept, SameQueues
    <3>5. CASE c.kind \notin {"read", "write", "activate", "precharge"}
      BY <1>4, <3>5 DEF Issue, RowsKept, SameQueues
    <3>6. QED
      BY <3>1, <3>2, <3>3, <3>4, <3>5
  <2>3. RowsKept(f, S)
    BY <1>4, <2>2, SameRows
  <2> HIDE DEF f
  <2>4. SameQueues(f, Tick(f))
    BY <2>3 DEF Tick, RowsKept, SameQueues
  <2>5. QED
    BY <2>3, <2>4, SameRows DEF f
<1>5. RowsKept(Schedule(Transfer(d), policy), S)
  BY <1>1, <1>2, <1>3 DEF Schedule
<1>6. QED
  BY <1>4, <1>5 DEF DramCycled

\* Every row a bank is on its way to serve has a request waiting.
RowsInv == \E S : RowsKept(dram, S)

LEMMA RowsInit == Init => RowsInv
<1>1. Init => RowsKept(dram, {})
  BY DEF Init, EmptyChannel, RowsKept
<1>2. QED
  BY <1>1 DEF RowsInv

LEMMA RowsStep == TimingInv /\ RowsInv /\ [Next]_vars => RowsInv'
<1> SUFFICES ASSUME TimingInv, RowsInv, [Next]_vars PROVE RowsInv'
  OBVIOUS
<1>1. PICK S : RowsKept(dram, S)
  BY DEF RowsInv
<1>2. ASSUME NEW ripe, DramCycle(ripe) PROVE RowsInv'
  <2>1. PICK d : /\ d = dram \/ d = [dram EXCEPT !.returnq = Tail(@)]
                 /\ bus' = Recent(Append(bus, CommandOf(d, setup.sched)))
                 /\ \/ dram' = DramCycled(d, setup.sched)
                    \/ \E x : dram' = DramPush(DramCycled(d, setup.sched), x)
    BY <1>2, DramCycleDram
  <2>2. RowsKept(d, S) /\ d.prio \in Nat
    BY <1>1, <2>1 DEF RowsKept, TimingInv, Numbers
  <2> DEFINE e == DramCycled(d, setup.sched)
  <2>3. RowsKept(e, S)
    BY <2>2, CycleRows
  <2> HIDE DEF e
  <2>4. CASE dram' = e
    BY <2>3, <2>4 DEF RowsInv
  <2>5. ASSUME NEW x, dram' = DramPush(e, x) PROVE RowsInv'
    <3> DEFINE U == S \cup {x}
    <3>1. \A q \in Seq(S) : q \in Seq(U) /\ Append(q, x) \in Seq(U)
      OBVIOUS
    <3>2. RowsKept(dram', U)
      BY <2>3, <2>5, <3>1 DEF RowsKept, DramPush
    <3>3. QED
      BY <3>2 DEF RowsInv
  <2>6. QED
    BY <2>1, <2>4, <2>5 DEF e
<1>3. ASSUME UNCHANGED dram PROVE RowsInv'
  BY <1>1, <1>3 DEF RowsInv
<1>4. QED
  BY <1>2, <1>3, StepParts

\* The row a bank is on its way to serve has a request: what schedule() takes from
\* the bin it kept a pointer to is there, in any channel and for any requests.
THEOREM ServedRowHolds == Spec => []ServedRowHasRequests
<1>1. RowsInv => ServedRowHasRequests
  BY DEF RowsInv, RowsKept, ServedRowHasRequests
<1>2. QED
  BY TimingInit, TimingStep, RowsInit, RowsStep, <1>1, PTL DEF Spec

-----------------------------------------------------------------------------
(* Where the requests are: the invariant of the slices.                    *)

\* y stands in a queue; and y stands in front of z.
Has(q, y)      == \E i \in DOMAIN q : q[i] = y
Before(q, y, z) == \E i, j \in DOMAIN q : i < j /\ q[i] = y /\ q[j] = z

\* The data bus: the request in each slot with its last transfer.
OnBus(slots) == [i \in DOMAIN slots |-> IF i \in Complete(slots) THEN slots[i].req.mf ELSE <<>>]
ServedBy(d, k) == IF d.bank[k].mrq = NoReq THEN <<>> ELSE <<d.bank[k].mrq.mf>>

\* The queues a request of block b passes, in their order.
Stages == 1..12
Way(u, lat, d, b) ==
  <<u.rop, u.in, u.missq, u.todram, lat, MfsOf(d.mrqq), MfsOf(d.queue[BankOfBlock[b]]),
    ServedBy(d, BankOfBlock[b]), OnBus(d.rwq.slots), MfsOf(d.returnq), u.fromdram, u.out>>
Stands(W, y) == \E k \in Stages : Has(W[k], y)
Ahead(W, y, z) == \/ \E k \in Stages : Before(W[k], y, z)
                  \/ \E k, l \in Stages : k < l /\ Has(W[l], y) /\ Has(W[k], z)

Own(b) == {y \in Mfs : Block(y) = b}

\* On its way to the L2.
Early(W, y) == Has(W[1], y) \/ Has(W[2], y)

\* The reads for block b that are under way.
Fetches(u, b) == u.extra \cap Own(b)

\* What a slice keeps about the requests of a block b, on their way W.
Tracked(W, u, arr, b) ==
  /\ \A y \in Own(b) : /\ ~Ahead(W, y, y) /\ ~Before(u.mshr[b], y, y)
                       /\ Has(u.mshr[b], y) => (Stands(W, y) <=> y \in u.extra)
  /\ \A f \in Fetches(u, b) : /\ u.mshr[b] # <<>> /\ f = Head(u.mshr[b])
                              /\ Stands(W, f) /\ ~Early(W, f) /\ ~Has(W[12], f)
                              /\ ~Ahead(W, f, <<"wb", b>>)
  /\ \A r \in Reqs : <<"alloc", r>> \in Own(b) =>
       /\ Stands(W, <<"alloc", r>>) => <<"alloc", r>> \in u.extra
       /\ Has(u.mshr[b], <<"alloc", r>>) => r \in arr /\ ~Early(W, <<"req", r>>)
  /\ \A r \in Reqs : <<"req", r>> \in Own(b) =>
       (r \in u.tracker <=> (Stands(W, <<"req", r>>) \/ Has(u.mshr[b], <<"req", r>>)))
  /\ u.mshr[b] # <<>> => (Has(u.ready, b) <=> Fetches(u, b) = {})
  /\ Has(u.ready, b) => u.mshr[b] # <<>>
  /\ ~Before(u.ready, b, b)
  /\ u.line[b] \in {"valid", "modified"} => Fetches(u, b) = {} /\ ~Stands(W, <<"wb", b>>)

OfSlice(s) == {y \in Mfs : SubOf(Block(y)) = s}
CoreReqs(s) == {y \in OfSlice(s) : y[1] = "req"}
SliceTypes(u, s, arr) ==
  /\ DOMAIN u = DOMAIN EmptySlice
  /\ u.rop \in Seq(CoreReqs(s)) /\ u.in \in Seq(CoreReqs(s)) /\ u.out \in Seq(CoreReqs(s))
  /\ u.missq \in Seq(OfSlice(s)) /\ u.todram \in Seq(OfSlice(s))
  /\ u.fromdram \in Seq({y \in OfSlice(s) : ~IsWriteback(y)})
  /\ u.line \in [Blocks -> {"none", "reserved", "valid", "modified"}]
  /\ \A b \in Blocks : u.line[b] # "none" => b \in Used /\ SubOf(b) = s
  /\ u.mshr \in [Blocks -> Seq({y \in OfSlice(s) : ~IsWrite(y)})]
  /\ \A b \in Blocks : \A i \in DOMAIN u.mshr[b] : Block(u.mshr[b][i]) = b
  /\ u.ready \in Seq({b \in Used : SubOf(b) = s})
  /\ u.extra \subseteq {y \in OfSlice(s) : ~IsWrite(y)} /\ (u.extra # {} => L2On)
  /\ u.fill \in Nat /\ u.data \in Nat
  /\ u.tracker \subseteq {r \in arr : SubOf(setup.reqs[r].block) = s}
  /\ Len(u.in) <= InSize /\ Len(u.out) <= OutSize
  /\ Len(u.todram) <= TodramSize /\ Len(u.fromdram) <= FromdramSize
  /\ Len(u.missq) <= MissQueueSize

DramReqs == {r \in AnyReq : /\ r.mf \in Mfs /\ r.bk = BankOfBlock[Block(r.mf)]
                            /\ r.row = RowOfBlock[Block(r.mf)] /\ r.writeback = IsWriteback(r.mf)}
ChannelTypes(lat, d) ==
  /\ lat \in Seq(Mfs)
  /\ DOMAIN d = DOMAIN EmptyChannel
  /\ d.mrqq \in Seq(DramReqs) /\ Len(d.mrqq) <= MrqqSize
  /\ setup.sched = "fifo" => \A b \in Banks : d.queue[b] = <<>>
  /\ d.queue \in [Banks -> Seq(DramReqs)]
  /\ \A b \in Banks : \A i \in DOMAIN d.queue[b] : d.queue[b][i].bk = b
  /\ DOMAIN d.lastrow = Banks
  /\ \A b \in Banks : d.lastrow[b] # NoRow => HasRow(d.queue[b], d.lastrow[b])
  /\ DOMAIN d.bank = Banks
  /\ \A b \in Banks : /\ DOMAIN d.bank[b] = {"mrq", "tx", "open", "row", "c"}
                      /\ d.bank[b].tx \in Nat
                      /\ d.bank[b].mrq # NoReq => d.bank[b].mrq \in DramReqs /\ d.bank[b].mrq.bk = b
  /\ d.prio \in Nat
  /\ DOMAIN d.rwq = {"min", "slots"} /\ d.rwq.min \in {CL, WL}
  /\ d.rwq.slots \in Seq({x \in AnyTransfer : x.req \in DramReqs} \cup {NoReq})
  /\ Len(d.rwq.slots) \in d.rwq.min..(CL + 1)
  /\ d.returnq \in Seq({r \in DramReqs : ~r.writeback}) /\ Len(d.returnq) <= ReturnSize

\* A full mrqq has room behind it.
RoomBehind(d) == setup.sched = "frfcfs" => (Len(d.mrqq) = MrqqSize => ~DramFull(d, "frfcfs"))

-----------------------------------------------------------------------------
(* Queues, as the requests of one block see them.                          *)

\* What becomes of the requests of Y in a queue: they stay, in their order; x, which
\* none of them is in front of, leaves it; x joins at its end.
Kept(Y, q, r) == \A y \in Y : /\ Has(r, y) <=> Has(q, y)
                              /\ \A z \in Y : Before(r, y, z) => Before(q, y, z)
Left(Y, q, r, x) ==
  /\ x \in Y /\ Has(q, x)
  /\ \A y \in Y : /\ Has(r, y) => Has(q, y) /\ Before(q, x, y)
                  /\ Has(q, y) => Has(r, y) \/ y = x
                  /\ \A z \in Y : Before(r, y, z) => Before(q, y, z)
Joined(Y, q, r, x) ==
  /\ x \in Y
  /\ \A y \in Y : /\ Has(r, y) <=> Has(q, y) \/ y = x
                  /\ \A z \in Y : Before(r, y, z) => Before(q, y, z) \/ (z = x /\ Has(q, y))

\* The two ends of a queue.
LEMMA HeadLeaves ==
  ASSUME NEW S, NEW q \in Seq(S), q # <<>>, NEW Y
  PROVE  IF Head(q) \in Y THEN Left(Y, q, Tail(q), Head(q)) ELSE Kept(Y, q, Tail(q))
<1> DEFINE r == Tail(q)
<1>1. /\ Len(q) \in Nat /\ Len(q) >= 1 /\ DOMAIN q = 1..Len(q) /\ DOMAIN r = 1..(Len(q) - 1)
      /\ \A i \in 1..(Len(q) - 1) : r[i] = q[i + 1]
      /\ Head(q) = q[1]
  OBVIOUS
<1> HIDE DEF r
<1>2. \A y : Has(r, y) => Has(q, y) /\ Before(q, q[1], y)
  <2> TAKE y
  <2> HAVE Has(r, y)
  <2>1. PICK i \in 1..(Len(q) - 1) : r[i] = y
    BY <1>1 DEF Has
  <2>2. i + 1 \in 1..Len(q) /\ 1 \in 1..Len(q) /\ 1 < i + 1 /\ q[i + 1] = y
    BY <1>1, <2>1
  <2>3. QED
    BY <1>1, <2>2 DEF Has, Before
<1>3. \A y : Has(q, y) => Has(r, y) \/ y = q[1]
  <2> TAKE y
  <2> HAVE Has(q, y)
  <2>1. PICK i \in 1..Len(q) : q[i] = y
    BY <1>1 DEF Has
  <2>2. CASE i = 1
    BY <2>1, <2>2
  <2>3. CASE i # 1
    <3>1. i - 1 \in 1..(Len(q) - 1) /\ r[i - 1] = q[(i - 1) + 1] /\ (i - 1) + 1 = i
      BY <1>1, <2>3
    <3>2. QED
      BY <1>1, <2>1, <3>1 DEF Has
  <2>4. QED
    BY <2>2, <2>3
<1>4. \A y, z : Before(r, y, z) => Before(q, y, z)
  <2> TAKE y, z
  <2> HAVE Before(r, y, z)
  <2>1. PICK i \in 1..(Len(q) - 1), j \in 1..(Len(q) - 1) : i < j /\ r[i] = y /\ r[j] = z
    BY <1>1 DEF Before
  <2>2. i + 1 \in 1..Len(q) /\ j + 1 \in 1..Len(q) /\ i + 1 < j + 1 /\ q[i + 1] = y /\ q[j + 1] = z
    BY <1>1, <2>1
  <2>3. QED
    BY <1>1, <2>2 DEF Before
<1>5. Has(q, q[1])
  BY <1>1 DEF Has
<1>6. QED
  <2> USE DEF r
  <2>1. CASE Head(q) \in Y
    BY <1>1, <1>2, <1>3, <1>4, <1>5, <2>1 DEF Left
  <2>2. CASE Head(q) \notin Y
    BY <1>1, <1>2, <1>3, <1>4, <2>2 DEF Kept
  <2>3. QED
    BY <2>1, <2>2

\* A request pushed to a queue joins it at its end, for the blocks it is of.
LEMMA TailJoins ==
  ASSUME NEW S, NEW q \in Seq(S), NEW x \in S, NEW Y
  PROVE  IF x \in Y THEN Joined(Y, q, Append(q, x), x) ELSE Kept(Y, q, Append(q, x))
<1> DEFINE r == Append(q, x)
<1>1. /\ Len(q) \in Nat /\ DOMAIN q = 1..Len(q) /\ DOMAIN r = 1..(Len(q) + 1)
      /\ \A i \in 1..Len(q) : r[i] = q[i]
      /\ r[Len(q) + 1] = x
  OBVIOUS
<1> HIDE DEF r
<1>2. \A i \in DOMAIN r : (i \in DOMAIN q /\ r[i] = q[i]) \/ (i = Len(q) + 1 /\ r[i] = x)
  BY <1>1
<1>3. \A y : Has(r, y) <=> Has(q, y) \/ y = x
  <2>1. DOMAIN q \subseteq DOMAIN r /\ Len(q) + 1 \in DOMAIN r
    BY <1>1
  <2>2. QED
    BY <1>1, <1>2, <2>1 DEF Has
<1>4. \A y, z : Before(r, y, z) => Before(q, y, z) \/ (z = x /\ Has(q, y))
  <2> TAKE y, z
  <2> HAVE Before(r, y, z)
  <2>1. PICK i \in DOMAIN r, j \in DOMAIN r : i < j /\ r[i] = y /\ r[j] = z
    BY DEF Before
  <2>2. i # Len(q) + 1
    BY <1>1, <2>1
  <2>3. i \in DOMAIN q /\ q[i] = y
    BY <1>2, <2>1, <2>2
  <2>4. QED
    BY <1>2, <2>1, <2>3 DEF Before, Has
<1>5. QED
  <2> USE DEF r
  <2>1. CASE x \in Y
    BY <1>3, <1>4, <2>1 DEF Joined
  <2>2. CASE x \notin Y
    BY <1>3, <1>4, <2>2 DEF Kept
  <2>3. QED
    BY <2>1, <2>2

\* In a queue that is left alone the requests stay.
LEMMA NothingMoves == ASSUME NEW Y, NEW q PROVE Kept(Y, q, q)
BY DEF Kept

-----------------------------------------------------------------------------
(* A request on its way.                                                   *)

\* Requests that stay in every queue stand where they stood, in their order.
LEMMA WayKept ==
  ASSUME NEW Y, NEW V, NEW W, \A k \in Stages : Kept(Y, V[k], W[k])
  PROVE  \A y \in Y : /\ Stands(W, y) <=> Stands(V, y)
                      /\ \A z \in Y : Ahead(W, y, z) => Ahead(V, y, z)
BY DEF Kept, Stands, Ahead

\* A request of Y moves on from stage k to stage l: it is in front of others now if it
\* passed them.
Moved(Y, V, W, k, l, x) ==
  /\ \A y \in Y : Stands(W, y) <=> Stands(V, y)
  /\ \A y, z \in Y : Ahead(W, y, z) =>
       \/ Ahead(V, y, z)
       \/ y = x /\ z # x /\ \E m \in Stages : k < m /\ m < l /\ Has(V[m], z)
  /\ \A y \in Y : \A m \in Stages : Has(W[m], y) => Has(V[m], y) \/ (m = l /\ y = x)
  /\ ~Ahead(V, x, x) => ~Has(W[k], x)

\* A request that leaves one queue and joins a later one has moved, behind none
\* that it was in front of.
LEMMA WayMoves ==
  ASSUME NEW Y, NEW x \in Y, NEW V, NEW W, NEW k \in Stages, NEW l \in Stages, k < l,
         Left(Y, V[k], W[k], x), Joined(Y, V[l], W[l], x),
         \A m \in Stages \ {k, l} : Kept(Y, V[m], W[m])
  PROVE  Moved(Y, V, W, k, l, x)
<1>1. \A y \in Y : \A m \in Stages : /\ Has(W[m], y) => Has(V[m], y) \/ (m = l /\ y = x)
                                     /\ Has(V[m], y) => Has(W[m], y) \/ (m = k /\ y = x)
  BY DEF Left, Joined, Kept
<1>2. Has(W[l], x) /\ Has(V[k], x)
  BY DEF Joined, Left
<1>3. \A y \in Y : Stands(W, y) <=> Stands(V, y)
  BY <1>1, <1>2 DEF Stands
<1>4. ASSUME NEW y \in Y, NEW z \in Y, NEW m \in Stages, Before(W[m], y, z) PROVE Ahead(V, y, z)
  <2>1. Before(V[m], y, z) \/ (m = l /\ z = x /\ Has(V[l], y))
    BY <1>4 DEF Left, Joined, Kept
  <2>2. QED
    BY <1>2, <2>1 DEF Ahead
<1>5. ASSUME NEW y \in Y, NEW z \in Y, NEW m \in Stages, NEW n \in Stages, m < n, Has(W[n], y), Has(W[m], z)
      PROVE  Ahead(V, y, z) \/ (y = x /\ z # x /\ \E i \in Stages : k < i /\ i < l /\ Has(V[i], z))
  <2>1. CASE n = l /\ y = x
    <3>1. CASE m = k
      BY <1>5, <3>1, <2>1 DEF Left, Ahead
    <3>2. CASE m < k
      <4>1. Has(V[m], z)
        BY <1>1, <1>5, <2>1, <3>2 DEF Stages
      <4>2. QED
        BY <1>2, <2>1, <3>2, <4>1 DEF Ahead
    <3>3. CASE k < m
      <4>1. Has(V[m], z) /\ m < l
        BY <1>1, <1>5, <2>1 DEF Stages
      <4>2. CASE z = x
        BY <1>2, <2>1, <3>3, <4>1, <4>2 DEF Ahead
      <4>3. QED
        BY <2>1, <3>3, <4>1, <4>2
    <3>4. QED
      BY <3>1, <3>2, <3>3 DEF Stages
  <2>2. CASE ~(n = l /\ y = x) /\ m = l /\ z = x
    <3>1. Has(V[n], y) /\ k < n
      BY <1>1, <1>5, <2>2 DEF Stages
    <3>2. QED
      BY <1>2, <2>2, <3>1 DEF Ahead
  <2>3. CASE ~(n = l /\ y = x) /\ ~(m = l /\ z = x)
    BY <1>1, <1>5, <2>3 DEF Ahead
  <2>4. QED
    BY <2>1, <2>2, <2>3
<1>6. ~Ahead(V, x, x) => ~Has(W[k], x)
  BY DEF Left, Ahead
<1>7. \A y, z \in Y : Ahead(W, y, z) =>
        \/ Ahead(V, y, z)
        \/ y = x /\ z # x /\ \E m \in Stages : k < m /\ m < l /\ Has(V[m], z)
  BY <1>4, <1>5 DEF Ahead
<1>8. QED
  BY <1>1, <1>3, <1>6, <1>7 DEF Moved

\* A request leaves.
Ended(Y, V, W, x) ==
  /\ \A y \in Y : Stands(W, y) <=> (Stands(V, y) /\ y # x)
  /\ \A y, z \in Y : Ahead(W, y, z) => Ahead(V, y, z)
  /\ \A y \in Y : \A m \in Stages : Has(W[m], y) => Has(V[m], y)

\* A request that leaves a queue, and was only there, is gone.
LEMMA WayEnds ==
  ASSUME NEW Y, NEW x \in Y, NEW V, NEW W, NEW k \in Stages,
         Left(Y, V[k], W[k], x), \A m \in Stages \ {k} : Kept(Y, V[m], W[m]), ~Ahead(V, x, x)
  PROVE  Ended(Y, V, W, x)
<1>1. Has(V[k], x) /\ ~Has(W[k], x)
  BY DEF Left, Ahead
<1>2. \A m \in Stages \ {k} : ~Has(V[m], x)
  <2> TAKE m \in Stages \ {k}
  <2>1. m < k \/ k < m
    BY DEF Stages
  <2>2. QED
    BY <1>1, <2>1 DEF Ahead
<1>3. \A y \in Y : \A m \in Stages : /\ Has(W[m], y) => Has(V[m], y)
                                     /\ Has(V[m], y) => Has(W[m], y) \/ y = x
  BY DEF Left, Kept
<1>4. \A m \in Stages : ~Has(W[m], x)
  BY <1>1, <1>2, <1>3
<1>5. \A y, z \in Y : \A m \in Stages : Before(W[m], y, z) => Before(V[m], y, z)
  BY DEF Left, Kept
<1>6. QED
  BY <1>3, <1>4, <1>5 DEF Stands, Ahead, Ended

\* A request enters at stage k: behind those that are there, unless they are before it.
Begun(Y, V, W, k, x) ==
  /\ \A y \in Y : Stands(W, y) <=> (Stands(V, y) \/ y = x)
  /\ ~Ahead(W, x, x)
  /\ \A y, z \in Y : Ahead(W, y, z) =>
       \/ Ahead(V, y, z)
       \/ z = x /\ Stands(V, y)
       \/ y = x /\ \E m \in Stages : m < k /\ Has(V[m], z)
  /\ \A y \in Y : \A m \in Stages : Has(W[m], y) => Has(V[m], y) \/ (m = k /\ y = x)

\* A request that joins a queue, and was in none, is there now.
LEMMA WayBegins ==
  ASSUME NEW Y, NEW x \in Y, NEW V, NEW W, NEW k \in Stages,
         Joined(Y, V[k], W[k], x), \A m \in Stages \ {k} : Kept(Y, V[m], W[m]), ~Stands(V, x)
  PROVE  Begun(Y, V, W, k, x)
<1>1. \A y \in Y : \A m \in Stages : Has(W[m], y) <=> Has(V[m], y) \/ (m = k /\ y = x)
  BY DEF Joined, Kept
<1>2. \A m \in Stages : ~Has(V[m], x)
  BY DEF Stands
<1>3. \A y, z \in Y : \A m \in Stages : Before(W[m], y, z) => Before(V[m], y, z) \/ (m = k /\ z = x /\ Has(V[m], y))
  BY DEF Joined, Kept
<1>4. \A y \in Y : \A m \in Stages : ~Before(V[m], y, x) /\ ~Before(V[m], x, y)
  BY <1>2 DEF Has, Before
<1>5. ASSUME NEW y \in Y, NEW z \in Y, Ahead(W, y, z)
      PROVE  \/ Ahead(V, y, z)
             \/ z = x /\ Stands(V, y)
             \/ y = x /\ \E m \in Stages : m < k /\ Has(V[m], z)
  <2>1. CASE \E m \in Stages : Before(W[m], y, z)
    BY <1>3, <2>1 DEF Ahead, Stands
  <2>2. CASE \E m, n \in Stages : m < n /\ Has(W[n], y) /\ Has(W[m], z)
    <3>1. PICK m \in Stages, n \in Stages : m < n /\ Has(W[n], y) /\ Has(W[m], z)
      BY <2>2
    <3>2. Has(V[n], y) \/ (n = k /\ y = x)
      BY <1>1, <3>1
    <3>3. Has(V[m], z) \/ (m = k /\ z = x)
      BY <1>1, <3>1
    <3>4. ~(n = k /\ m = k)
      BY <3>1 DEF Stages
    <3>5. QED
      BY <3>1, <3>2, <3>3, <3>4 DEF Ahead, Stands
  <2>3. QED
    BY <1>5, <2>1, <2>2 DEF Ahead
<1>6. ~Ahead(W, x, x)
  <2>1. ~Ahead(V, x, x)
    BY <1>2, <1>4 DEF Ahead
  <2>2. QED
    BY <1>2, <1>5, <2>1 DEF Stands
<1>7. QED
  BY <1>1, <1>5, <1>6 DEF Stands, Begun

-----------------------------------------------------------------------------
(* A block of a slice.                                                     *)

\* The write-back of a block's line is one of the block's requests.
LEMMA WritebackOwn == ASSUME NEW b \in Used PROVE <<"wb", b>> \in Own(b)
BY DEF Own, Mfs, Block

\* Every request is one of its own block, which some access uses.
LEMMA OwnBlocks == ASSUME NEW y \in Mfs PROVE Block(y) \in Used /\ y \in Own(Block(y))
BY DEF Own, Mfs, Block, Used

\* What a slice keeps about a block it keeps when nothing new happens to it.
LEMMA TrackedKept ==
  ASSUME NEW b \in Used, NEW u, NEW v, NEW V, NEW W, NEW arr, NEW more, arr \subseteq more,
         Tracked(V, u, arr, b),
         \A y \in Own(b) : Stands(W, y) <=> Stands(V, y),
         \A y, z \in Own(b) : Ahead(W, y, z) => \/ Ahead(V, y, z)
                                                \/ y # z /\ y \notin u.extra,
         \A y \in Own(b) : Early(W, y) => Early(V, y),
         \A y \in Own(b) : Has(W[12], y) => Has(V[12], y) \/ y \notin u.extra,
         v.mshr[b] = u.mshr[b], Fetches(v, b) = Fetches(u, b),
         \A r \in Reqs : <<"req", r>> \in Own(b) => (r \in v.tracker <=> r \in u.tracker),
         Has(v.ready, b) <=> Has(u.ready, b), Before(v.ready, b, b) => Before(u.ready, b, b),
         v.line[b] \in {"valid", "modified"} => u.line[b] \in {"valid", "modified"}
  PROVE  Tracked(W, v, more, b)
<1>0. <<"wb", b>> \in Own(b)
  BY WritebackOwn
<1>1. \A y \in Own(b) : /\ ~Ahead(W, y, y) /\ ~Before(v.mshr[b], y, y)
                        /\ Has(v.mshr[b], y) => (Stands(W, y) <=> y \in v.extra)
  BY DEF Tracked, Fetches
<1>2. \A f \in Fetches(v, b) : /\ v.mshr[b] # <<>> /\ f = Head(v.mshr[b])
                               /\ Stands(W, f) /\ ~Early(W, f) /\ ~Has(W[12], f)
                               /\ ~Ahead(W, f, <<"wb", b>>)
  BY <1>0 DEF Tracked, Fetches
<1>3. \A r \in Reqs : <<"alloc", r>> \in Own(b) =>
       /\ Stands(W, <<"alloc", r>>) => <<"alloc", r>> \in v.extra
       /\ Has(v.mshr[b], <<"alloc", r>>) => r \in more /\ ~Early(W, <<"req", r>>)
  <2> SUFFICES ASSUME NEW r \in Reqs, <<"alloc", r>> \in Own(b)
               PROVE  /\ Stands(W, <<"alloc", r>>) => <<"alloc", r>> \in v.extra
                      /\ Has(v.mshr[b], <<"alloc", r>>) => r \in more /\ ~Early(W, <<"req", r>>)
    OBVIOUS
  <2>1. <<"req", r>> \in Own(b)
    BY DEF Own, Mfs, Block
  <2>2. QED
    BY <2>1 DEF Tracked, Fetches
<1>4. \A r \in Reqs : <<"req", r>> \in Own(b) =>
       (r \in v.tracker <=> (Stands(W, <<"req", r>>) \/ Has(v.mshr[b], <<"req", r>>)))
  BY DEF Tracked
<1>5. v.line[b] \in {"valid", "modified"} => Fetches(v, b) = {} /\ ~Stands(W, <<"wb", b>>)
  BY <1>0 DEF Tracked
<1>6. QED
  BY <1>1, <1>2, <1>3, <1>4, <1>5 DEF Tracked

\* The queues of a slice on the way.
LEMMA WayOfSlice ==
  ASSUME NEW u, NEW v, NEW lat, NEW d, NEW b
  PROVE  LET V == Way(u, lat, d, b)
             W == Way(v, lat, d, b)
         IN /\ V[1] = u.rop /\ V[2] = u.in /\ V[3] = u.missq /\ V[4] = u.todram
            /\ V[11] = u.fromdram /\ V[12] = u.out
            /\ \A k \in Stages \ {1, 2, 3, 4, 11, 12} : W[k] = V[k]
BY DEF Way, Stages

\* A slice that does nothing to a block.
Untouched(u, v, b) ==
  /\ Kept(Own(b), u.rop, v.rop) /\ Kept(Own(b), u.in, v.in) /\ Kept(Own(b), u.missq, v.missq)
  /\ Kept(Own(b), u.todram, v.todram) /\ Kept(Own(b), u.fromdram, v.fromdram)
  /\ Kept(Own(b), u.out, v.out)
  /\ v.mshr[b] = u.mshr[b] /\ Fetches(v, b) = Fetches(u, b)
  /\ \A r \in Reqs : <<"req", r>> \in Own(b) => (r \in v.tracker <=> r \in u.tracker)
  /\ Has(v.ready, b) <=> Has(u.ready, b)
  /\ Before(v.ready, b, b) => Before(u.ready, b, b)
  /\ v.line[b] \in {"valid", "modified"} => u.line[b] \in {"valid", "modified"}

\* What is kept of a block stays true when its slice does nothing to the block, also
\* if requests arrive.
LEMMA BlockUntouched ==
  ASSUME NEW b \in Used, NEW u, NEW v, NEW lat, NEW d, NEW arr, NEW more, arr \subseteq more,
         Tracked(Way(u, lat, d, b), u, arr, b), Untouched(u, v, b)
  PROVE  Tracked(Way(v, lat, d, b), v, more, b)
<1> DEFINE V == Way(u, lat, d, b)
           W == Way(v, lat, d, b)
<1>1. \A k \in Stages \ {1, 2, 3, 4, 11, 12} : W[k] = V[k]
  BY WayOfSlice
<1>2. /\ V[1] = u.rop /\ V[2] = u.in /\ V[3] = u.missq /\ V[4] = u.todram
      /\ V[11] = u.fromdram /\ V[12] = u.out
      /\ W[1] = v.rop /\ W[2] = v.in /\ W[3] = v.missq /\ W[4] = v.todram
      /\ W[11] = v.fromdram /\ W[12] = v.out
  BY WayOfSlice
<1> HIDE DEF V, W
<1>3. \A k \in Stages : Kept(Own(b), V[k], W[k])
  <2> TAKE k \in Stages
  <2>1. CASE k \in {1, 2, 3, 4, 11, 12}
    BY <1>2, <2>1 DEF Untouched
  <2>2. CASE k \notin {1, 2, 3, 4, 11, 12}
    BY <1>1, <2>2, NothingMoves
  <2>3. QED
    BY <2>1, <2>2
<1>4. \A y \in Own(b) : /\ Stands(W, y) <=> Stands(V, y)
                        /\ \A z \in Own(b) : Ahead(W, y, z) => Ahead(V, y, z)
  BY <1>3, WayKept
<1>5. \A y \in Own(b) : /\ Early(W, y) => Early(V, y)
                        /\ Has(W[12], y) => Has(V[12], y)
  BY <1>3 DEF Kept, Early, Stages
<1>6. Tracked(V, u, arr, b)
  BY DEF V
<1>7. Tracked(W, v, more, b)
  BY <1>4, <1>5, <1>6, TrackedKept DEF Untouched
<1>8. QED
  BY <1>7 DEF W

-----------------------------------------------------------------------------
(* A slice, whatever moves in it.                                          *)

\* A slice, with its requests on their way.
SliceOK(u, s, lat, d, arr) ==
  /\ SliceTypes(u, s, arr)
  /\ \A b \in Used : SubOf(b) = s => Tracked(Way(u, lat, d, b), u, arr, b)

Fields == {"rop", "in", "todram", "fromdram", "out", "line", "mshr", "ready", "extra", "missq",
           "fill", "data", "tracker"}

\* The fields of a slice.
LEMMA FieldsOfSlice == DOMAIN EmptySlice = Fields
BY DEF EmptySlice, Fields

\* A slice of which every field is as before, or of its type, has its types.
LEMMA TypesAgain ==
  ASSUME NEW s, NEW u, NEW v, NEW arr, SliceTypes(u, s, arr), DOMAIN v = Fields,
         v.rop = u.rop \/ v.rop \in Seq(CoreReqs(s)),
         v.in = u.in \/ (v.in \in Seq(CoreReqs(s)) /\ Len(v.in) <= InSize),
         v.out = u.out \/ (v.out \in Seq(CoreReqs(s)) /\ Len(v.out) <= OutSize),
         v.missq = u.missq \/ (v.missq \in Seq(OfSlice(s)) /\ Len(v.missq) <= MissQueueSize),
         v.todram = u.todram \/ (v.todram \in Seq(OfSlice(s)) /\ Len(v.todram) <= TodramSize),
         v.fromdram = u.fromdram \/ (/\ v.fromdram \in Seq({y \in OfSlice(s) : ~IsWriteback(y)})
                                      /\ Len(v.fromdram) <= FromdramSize),
         v.line = u.line \/ (/\ v.line \in [Blocks -> {"none", "reserved", "valid", "modified"}]
                              /\ \A b \in Blocks : v.line[b] # "none" => b \in Used /\ SubOf(b) = s),
         v.mshr = u.mshr \/ (/\ v.mshr \in [Blocks -> Seq({y \in OfSlice(s) : ~IsWrite(y)})]
                              /\ \A b \in Blocks : \A i \in DOMAIN v.mshr[b] : Block(v.mshr[b][i]) = b),
         v.ready = u.ready \/ v.ready \in Seq({b \in Used : SubOf(b) = s}),
         v.extra = u.extra \/ (v.extra \subseteq {y \in OfSlice(s) : ~IsWrite(y)} /\ (v.extra # {} => L2On)),
         v.fill = u.fill \/ v.fill \in Nat,
         v.data = u.data \/ v.data \in Nat,
         v.tracker = u.tracker \/ v.tracker \subseteq {r \in arr : SubOf(setup.reqs[r].block) = s}
  PROVE  SliceTypes(v, s, arr)
<1>1. DOMAIN v = DOMAIN EmptySlice
  BY FieldsOfSlice
<1>2. v.rop \in Seq(CoreReqs(s)) /\ v.in \in Seq(CoreReqs(s)) /\ v.out \in Seq(CoreReqs(s))
  BY DEF SliceTypes
<1>3. v.missq \in Seq(OfSlice(s)) /\ v.todram \in Seq(OfSlice(s))
  BY DEF SliceTypes
<1>4. v.fromdram \in Seq({y \in OfSlice(s) : ~IsWriteback(y)})
  BY DEF SliceTypes
<1>5. v.line \in [Blocks -> {"none", "reserved", "valid", "modified"}]
  BY DEF SliceTypes
<1>6. \A b \in Blocks : v.line[b] # "none" => b \in Used /\ SubOf(b) = s
  BY DEF SliceTypes
<1>7. v.mshr \in [Blocks -> Seq({y \in OfSlice(s) : ~IsWrite(y)})]
  BY DEF SliceTypes
<1>8. \A b \in Blocks : \A i \in DOMAIN v.mshr[b] : Block(v.mshr[b][i]) = b
  BY DEF SliceTypes
<1>9. v.ready \in Seq({b \in Used : SubOf(b) = s})
  BY DEF SliceTypes
<1>10. v.extra \subseteq {y \in OfSlice(s) : ~IsWrite(y)} /\ (v.extra # {} => L2On)
  <2>1. u.extra \subseteq {y \in OfSlice(s) : ~IsWrite(y)} /\ (u.extra # {} => L2On)
    BY DEF SliceTypes
  <2>2. CASE v.extra = u.extra
    BY ONLY <2>1, <2>2
  <2>3. CASE v.extra # u.extra
    BY <2>3
  <2>4. QED
    BY <2>2, <2>3
<1>11. v.fill \in Nat /\ v.data \in Nat
  BY DEF SliceTypes
<1>12. v.tracker \subseteq {r \in arr : SubOf(setup.reqs[r].block) = s}
  BY DEF SliceTypes
<1>13. Len(v.in) <= InSize /\ Len(v.out) <= OutSize
  BY DEF SliceTypes
<1>14. /\ Len(v.todram) <= TodramSize /\ Len(v.fromdram) <= FromdramSize
       /\ Len(v.missq) <= MissQueueSize
  BY DEF SliceTypes
<1>15. QED
  BY ONLY <1>1, <1>2, <1>3, <1>4, <1>5, <1>6, <1>7, <1>8, <1>9, <1>10, <1>11, <1>12, <1>13, <1>14
     DEF SliceTypes

\* What a queue of members of S holds, and what push and pop make of it.
LEMMA QueueFacts ==
  ASSUME NEW S, NEW q \in Seq(S)
  PROVE  /\ Len(q) \in Nat /\ DOMAIN q = 1..Len(q)
         /\ \A y : Has(q, y) => y \in S
         /\ \A x \in S : Append(q, x) \in Seq(S) /\ Len(Append(q, x)) = Len(q) + 1
         /\ q # <<>> => Head(q) \in S /\ Tail(q) \in Seq(S) /\ Len(Tail(q)) = Len(q) - 1 /\ Has(q, Head(q))
<1>1. q # <<>> => Head(q) = q[1] /\ 1 \in DOMAIN q
  OBVIOUS
<1>2. QED
  BY <1>1 DEF Has

\* A request of another block is none of this one.
LEMMA OwnOfOthers ==
  ASSUME NEW b \in Used, NEW x \in Mfs, Block(x) # b PROVE x \notin Own(b)
BY DEF Own

\* memory_sub_partition::push.
LEMMA PushedOK ==
  ASSUME NEW s \in Subs, NEW u, NEW lat, NEW d, NEW arr, SliceOK(u, s, lat, d, arr),
         NEW r \in Reqs, r \notin arr, SubOf(setup.reqs[r].block) = s, ~Full(u.in, InSize)
  PROVE  SliceOK(Pushed(u, r), s, lat, d, arr \cup {r})
<1> DEFINE x == <<"req", r>>
           v == Pushed(u, r)
           more == arr \cup {r}
<1>0. x \in CoreReqs(s) /\ x \in Mfs /\ Block(x) = setup.reqs[r].block
  BY DEF CoreReqs, OfSlice, Mfs, Block
<1>1. /\ u.rop \in Seq(CoreReqs(s)) /\ u.in \in Seq(CoreReqs(s)) /\ DOMAIN u = Fields
      /\ u.tracker \subseteq arr /\ u.mshr \in [Blocks -> Seq({y \in OfSlice(s) : ~IsWrite(y)})]
  BY FieldsOfSlice DEF SliceOK, SliceTypes
<1>2. Len(u.in) + 1 <= InSize
  <2>1. Len(u.in) \in Nat
    BY <1>1
  <2>2. InSize \in Nat
    BY PartitionConstants
  <2>3. QED
    BY <2>1, <2>2 DEF Full
<1>3. /\ DOMAIN v = Fields /\ v.tracker = u.tracker \cup {r}
      /\ v.missq = u.missq /\ v.todram = u.todram /\ v.fromdram = u.fromdram /\ v.out = u.out
      /\ v.line = u.line /\ v.mshr = u.mshr /\ v.ready = u.ready /\ v.extra = u.extra
      /\ v.fill = u.fill /\ v.data = u.data
      /\ \/ v.rop = u.rop /\ v.in = Append(u.in, x)
         \/ v.rop = Append(u.rop, x) /\ v.in = u.in
  <2> DEFINE t == [u EXCEPT !.tracker = @ \cup {r}]
  <2>1. v = [t EXCEPT !.in = Append(@, x)] \/ v = [t EXCEPT !.rop = Append(@, x)]
    BY DEF Pushed
  <2>2. QED
    <3> HIDE DEF v, x
    <3> QED  BY <1>1, <2>1 DEF Fields
<1> HIDE DEF v, x, more
<1>4. SliceTypes(v, s, more)
  <2>1. v.rop \in Seq(CoreReqs(s)) /\ v.in \in Seq(CoreReqs(s)) /\ Len(v.in) <= InSize
    <3>1. Len(Append(u.in, x)) = Len(u.in) + 1 /\ Append(u.in, x) \in Seq(CoreReqs(s)) /\ Append(u.rop, x) \in Seq(CoreReqs(s))
      BY <1>0, <1>1
    <3>2. Len(u.in) <= InSize
      BY DEF SliceOK, SliceTypes
    <3>3. QED
      BY <1>1, <1>2, <1>3, <3>1, <3>2
  <2>2. v.tracker \subseteq {q \in more : SubOf(setup.reqs[q].block) = s}
    BY <1>3 DEF SliceOK, SliceTypes, more
  <2>3. SliceTypes(u, s, more)
    <3>1. SliceTypes(u, s, arr)
      BY DEF SliceOK
    <3>2. {q \in arr : SubOf(setup.reqs[q].block) = s} \subseteq {q \in more : SubOf(setup.reqs[q].block) = s}
      BY DEF more
    <3>3. QED
      BY ONLY <3>1, <3>2 DEF SliceTypes
  <2>4. QED
    BY <1>3, <2>1, <2>2, <2>3, TypesAgain
<1>5. ASSUME NEW b \in Used, SubOf(b) = s, Block(x) # b PROVE Tracked(Way(v, lat, d, b), v, more, b)
  <2>1. Untouched(u, v, b)
    <3>1. Kept(Own(b), u.rop, v.rop) /\ Kept(Own(b), u.in, v.in)
      <4>1. x \notin Own(b)
        BY <1>0, <1>5, OwnOfOthers
      <4>2. Kept(Own(b), u.rop, Append(u.rop, x)) /\ Kept(Own(b), u.in, Append(u.in, x))
        BY <1>0, <1>1, <4>1, TailJoins, Zenon
      <4>3. QED
        BY <1>3, <4>2, NothingMoves
    <3>2. Fetches(v, b) = Fetches(u, b)
      BY <1>3 DEF Fetches
    <3>3. ASSUME NEW q \in Reqs, <<"req", q>> \in Own(b) PROVE q \in v.tracker <=> q \in u.tracker
      <4>1. <<"req", q>> # x
        BY <1>5, <3>3 DEF Own
      <4>2. QED
        BY <1>3, <4>1 DEF x
    <3>4. QED
      BY <1>3, <3>1, <3>2, <3>3, NothingMoves DEF Untouched
  <2>2. QED
    BY <1>5, <2>1, BlockUntouched DEF SliceOK, more
<1>6. ASSUME NEW b \in Used, SubOf(b) = s, Block(x) = b PROVE Tracked(Way(v, lat, d, b), v, more, b)
  <2> DEFINE V == Way(u, lat, d, b)
             W == Way(v, lat, d, b)
             Y == Own(b)
  <2>1. /\ V[1] = u.rop /\ V[2] = u.in /\ V[3] = u.missq /\ V[4] = u.todram
        /\ V[11] = u.fromdram /\ V[12] = u.out
        /\ W[1] = v.rop /\ W[2] = v.in /\ W[3] = v.missq /\ W[4] = v.todram
        /\ W[11] = v.fromdram /\ W[12] = v.out
        /\ \A k \in Stages \ {1, 2, 3, 4, 11, 12} : W[k] = V[k]
    BY WayOfSlice
  <2>2. Tracked(V, u, arr, b)
    BY <1>6 DEF SliceOK
  <2> HIDE DEF V, W
  <2>3. x \in Y /\ r \notin u.tracker
    BY <1>0, <1>1, <1>6, OwnBlocks
  <2>4. ~Stands(V, x) /\ ~Has(u.mshr[b], x)
    BY <2>2, <2>3 DEF Tracked, x
  <2>5. PICK k \in {1, 2} : Joined(Y, V[k], W[k], x) /\ \A m \in Stages \ {k} : W[m] = V[m]
    <3>1. Joined(Y, u.rop, Append(u.rop, x), x) /\ Joined(Y, u.in, Append(u.in, x), x)
      BY <1>0, <1>1, <2>3, TailJoins, Zenon
    <3>2. QED
      <4> HIDE DEF Y
      <4>1. CASE v.rop = u.rop /\ v.in = Append(u.in, x)
        <5>1. \A m \in Stages \ {2} : W[m] = V[m]
          BY <1>3, <2>1, <4>1 DEF Stages
        <5>2. QED
          BY <1>3, <2>1, <3>1, <4>1, <5>1
      <4>2. CASE v.rop = Append(u.rop, x) /\ v.in = u.in
        <5>1. \A m \in Stages \ {1} : W[m] = V[m]
          BY <1>3, <2>1, <4>2 DEF Stages
        <5>2. QED
          BY <1>3, <2>1, <3>1, <4>2, <5>1
      <4>3. QED
        BY <1>3, <4>1, <4>2
  <2>6. k \in Stages /\ \A m \in Stages \ {k} : Kept(Y, V[m], W[m])
    BY <2>5, NothingMoves DEF Stages
  <2>7. Begun(Y, V, W, k, x)
    BY <2>3, <2>4, <2>5, <2>6, WayBegins
  <2>8. x \notin u.extra /\ x # <<"wb", b>>
    <3>1. x \in Fetches(u, b) => Stands(V, x)
      BY <2>2 DEF Tracked
    <3>2. QED
      BY <2>3, <2>4, <3>1 DEF Fetches, x
  <2>9. \A y \in Y : /\ ~Ahead(W, y, y) /\ ~Before(v.mshr[b], y, y)
                     /\ Has(v.mshr[b], y) => (Stands(W, y) <=> y \in v.extra)
    BY <1>3, <2>2, <2>4, <2>7 DEF Tracked, Begun
  <2>10. \A f \in Fetches(v, b) : /\ v.mshr[b] # <<>> /\ f = Head(v.mshr[b])
                                  /\ Stands(W, f) /\ ~Early(W, f) /\ ~Has(W[12], f)
                                  /\ ~Ahead(W, f, <<"wb", b>>)
    <3> TAKE f \in Fetches(v, b)
    <3>1. f \in Fetches(u, b) /\ f \in Y /\ f # x /\ <<"wb", b>> \in Y
      BY <1>3, <2>8, WritebackOwn DEF Fetches
    <3>2. f = Head(u.mshr[b]) /\ u.mshr[b] # <<>> /\ Stands(V, f) /\ ~Early(V, f) /\ ~Has(V[12], f) /\ ~Ahead(V, f, <<"wb", b>>)
      BY <2>2, <3>1 DEF Tracked
    <3>3. ~Early(W, f) /\ ~Has(W[12], f)
      BY <2>7, <3>1, <3>2 DEF Begun, Early, Stages
    <3>4. ~Ahead(W, f, <<"wb", b>>)
      BY <2>7, <2>8, <3>1, <3>2 DEF Begun
    <3>5. QED
      BY <1>3, <2>7, <3>1, <3>2, <3>3, <3>4 DEF Begun
  <2>11. \A q \in Reqs : <<"alloc", q>> \in Y =>
           /\ Stands(W, <<"alloc", q>>) => <<"alloc", q>> \in v.extra
           /\ Has(v.mshr[b], <<"alloc", q>>) => q \in more /\ ~Early(W, <<"req", q>>)
    <3> SUFFICES ASSUME NEW q \in Reqs, <<"alloc", q>> \in Y
                 PROVE  /\ Stands(W, <<"alloc", q>>) => <<"alloc", q>> \in v.extra
                        /\ Has(v.mshr[b], <<"alloc", q>>) => q \in more /\ ~Early(W, <<"req", q>>)
      OBVIOUS
    <3>1. <<"alloc", q>> # x /\ <<"req", q>> \in Y
      BY DEF x, Own, Mfs, Block
    <3>2. Stands(W, <<"alloc", q>>) => <<"alloc", q>> \in v.extra
      BY <1>3, <2>2, <2>7, <3>1 DEF Tracked, Begun
    <3>3. ASSUME Has(v.mshr[b], <<"alloc", q>>) PROVE q \in more /\ ~Early(W, <<"req", q>>)
      <4>1. q \in arr /\ ~Early(V, <<"req", q>>)
        BY <1>3, <2>2, <3>3 DEF Tracked
      <4>2. <<"req", q>> # x
        BY <4>1 DEF x
      <4>3. QED
        BY <2>7, <3>1, <4>1, <4>2 DEF Begun, Early, Stages, more
    <3>4. QED
      BY <3>2, <3>3
  <2>12. \A q \in Reqs : <<"req", q>> \in Y =>
           (q \in v.tracker <=> (Stands(W, <<"req", q>>) \/ Has(v.mshr[b], <<"req", q>>)))
    BY <1>3, <2>2, <2>7 DEF Tracked, Begun, x
  <2>13. v.line[b] \in {"valid", "modified"} => Fetches(v, b) = {} /\ ~Stands(W, <<"wb", b>>)
    BY <1>3, <2>2, <2>7, <2>8, WritebackOwn DEF Tracked, Begun, Fetches
  <2>14. Tracked(W, v, more, b)
    BY <1>3, <2>2, <2>9, <2>10, <2>11, <2>12, <2>13 DEF Tracked, Fetches
  <2>15. QED
    BY <2>14 DEF W
<1>7. QED
  BY <1>4, <1>5, <1>6 DEF SliceOK, v, more

\* The books of a slice about a block, but for its tracker.
SameBooks(u, v, b) ==
  /\ v.mshr[b] = u.mshr[b] /\ Fetches(v, b) = Fetches(u, b)
  /\ Has(v.ready, b) <=> Has(u.ready, b)
  /\ Before(v.ready, b, b) => Before(u.ready, b, b)
  /\ v.line[b] \in {"valid", "modified"} => u.line[b] \in {"valid", "modified"}

\* A request moves on, with the order of those it does not pass.
LEMMA BlockMoves ==
  ASSUME NEW b \in Used, NEW u, NEW v, NEW V, NEW W, NEW arr, Tracked(V, u, arr, b),
         NEW x \in Own(b), NEW k \in Stages, NEW l \in Stages, k < l,
         Left(Own(b), V[k], W[k], x), Joined(Own(b), V[l], W[l], x),
         \A m \in Stages \ {k, l} : Kept(Own(b), V[m], W[m]),
         x \notin u.extra \/ (l # 12 /\ \A m \in Stages : k < m /\ m < l => \A z \in Own(b) : ~Has(V[m], z)),
         SameBooks(u, v, b),
         \A r \in Reqs : <<"req", r>> \in Own(b) => (r \in v.tracker <=> r \in u.tracker)
  PROVE  Tracked(W, v, arr, b)
<1>1. Moved(Own(b), V, W, k, l, x)
  BY WayMoves
<1>2. \A y \in Own(b) : Stands(W, y) <=> Stands(V, y)
  BY <1>1 DEF Moved
<1>3. \A y, z \in Own(b) : Ahead(W, y, z) => \/ Ahead(V, y, z)
                                             \/ y # z /\ y \notin u.extra
  BY <1>1 DEF Moved
<1>4. \A y \in Own(b) : Early(W, y) => Early(V, y)
  <2> TAKE y \in Own(b)
  <2> HAVE Early(W, y)
  <2>1. PICK m \in {1, 2} : Has(W[m], y)
    BY DEF Early
  <2>2. Has(V[m], y) \/ (m = l /\ y = x)
    BY <1>1, <2>1 DEF Moved, Stages
  <2>3. CASE m = l /\ y = x
    <3>1. k = 1 /\ Has(V[k], x)
      BY <2>1, <2>3 DEF Stages, Left
    <3>2. QED
      BY <2>3, <3>1 DEF Early
  <2>4. QED
    BY <2>1, <2>2, <2>3 DEF Early
<1>5. \A y \in Own(b) : Has(W[12], y) => Has(V[12], y) \/ y \notin u.extra
  BY <1>1 DEF Moved, Stages
<1>6. QED
  BY <1>2, <1>3, <1>4, <1>5, TrackedKept DEF SameBooks

\* A request that nothing waits for ends; the tracker forgets it.
LEMMA BlockEnds ==
  ASSUME NEW b \in Used, NEW u, NEW v, NEW V, NEW W, NEW arr, Tracked(V, u, arr, b),
         NEW x \in Own(b), NEW k \in Stages, Left(Own(b), V[k], W[k], x),
         \A m \in Stages \ {k} : Kept(Own(b), V[m], W[m]),
         x \notin u.extra, SameBooks(u, v, b),
         \A r \in Reqs : <<"req", r>> \in Own(b) =>
           (r \in v.tracker <=> (r \in u.tracker /\ <<"req", r>> # x))
  PROVE  Tracked(W, v, arr, b)
<1>0. <<"wb", b>> \in Own(b) /\ ~Ahead(V, x, x) /\ Has(V[k], x) /\ Stands(V, x)
  BY WritebackOwn DEF Tracked, Left, Stands
<1>1. Ended(Own(b), V, W, x)
  BY <1>0, WayEnds
<1>2. ~Has(u.mshr[b], x)
  BY <1>0 DEF Tracked
<1>3. \A y \in Own(b) : /\ ~Ahead(W, y, y) /\ ~Before(v.mshr[b], y, y)
                        /\ Has(v.mshr[b], y) => (Stands(W, y) <=> y \in v.extra)
  BY <1>1, <1>2 DEF Ended, Tracked, SameBooks, Fetches
<1>4. \A f \in Fetches(v, b) : /\ v.mshr[b] # <<>> /\ f = Head(v.mshr[b])
                               /\ Stands(W, f) /\ ~Early(W, f) /\ ~Has(W[12], f)
                               /\ ~Ahead(W, f, <<"wb", b>>)
  <2> TAKE f \in Fetches(v, b)
  <2>1. f \in Fetches(u, b) /\ f # x /\ f \in Own(b)
    BY DEF SameBooks, Fetches
  <2>2. /\ u.mshr[b] # <<>> /\ f = Head(u.mshr[b]) /\ Stands(V, f) /\ ~Early(V, f)
        /\ ~Has(V[12], f) /\ ~Ahead(V, f, <<"wb", b>>)
    BY <2>1 DEF Tracked
  <2>3. ~Early(W, f) /\ ~Has(W[12], f)
    BY <1>1, <2>1, <2>2 DEF Ended, Early, Stages
  <2>4. QED
    BY <1>0, <1>1, <2>1, <2>2, <2>3 DEF Ended, SameBooks
<1>5. ASSUME NEW r \in Reqs, <<"alloc", r>> \in Own(b)
      PROVE  /\ Stands(W, <<"alloc", r>>) => <<"alloc", r>> \in v.extra
             /\ Has(v.mshr[b], <<"alloc", r>>) => r \in arr /\ ~Early(W, <<"req", r>>)
  <2>1. <<"req", r>> \in Own(b)
    BY <1>5 DEF Own, Mfs, Block
  <2>2. Early(W, <<"req", r>>) => Early(V, <<"req", r>>)
    BY <1>1, <2>1 DEF Ended, Early, Stages
  <2>3. Stands(W, <<"alloc", r>>) => <<"alloc", r>> \in Fetches(u, b)
    BY <1>1, <1>5 DEF Ended, Tracked, Fetches
  <2>4. QED
    BY <1>5, <2>2, <2>3 DEF Tracked, SameBooks, Fetches
<1>6. \A r \in Reqs : <<"req", r>> \in Own(b) =>
       (r \in v.tracker <=> (Stands(W, <<"req", r>>) \/ Has(v.mshr[b], <<"req", r>>)))
  BY <1>1, <1>2 DEF Tracked, Ended, SameBooks
<1>7. v.line[b] \in {"valid", "modified"} => Fetches(v, b) = {} /\ ~Stands(W, <<"wb", b>>)
  BY <1>0, <1>1 DEF Tracked, Ended, SameBooks
<1>8. QED
  BY <1>3, <1>4, <1>5, <1>6, <1>7 DEF Tracked, SameBooks

\* The head of a queue moves to another.
HeadGoes(V, W, k, l, x) ==
  /\ V[k] \in Seq(Mfs) /\ V[k] # <<>> /\ x = Head(V[k]) /\ V[l] \in Seq(Mfs)
  /\ W[k] = Tail(V[k]) /\ W[l] = Append(V[l], x)
  /\ \A m \in Stages \ {k, l} : W[m] = V[m]

\* What is kept of a slice stays true when the head of a queue goes to a later queue
\* and nothing else is changed.
LEMMA SliceMoves ==
  ASSUME NEW s \in Subs, NEW u, NEW v, NEW lat, NEW d, NEW arr,
         SliceOK(u, s, lat, d, arr), SliceTypes(v, s, arr),
         NEW k \in Stages, NEW l \in Stages, k < l, NEW x \in Mfs,
         \A b \in Used : HeadGoes(Way(u, lat, d, b), Way(v, lat, d, b), k, l, x),
         x \notin u.extra \/ (l = k + 1 /\ l # 12),
         v.mshr = u.mshr, v.extra = u.extra, v.ready = u.ready, v.tracker = u.tracker,
         \A b \in Used : v.line[b] \in {"valid", "modified"} => u.line[b] \in {"valid", "modified"}
  PROVE  SliceOK(v, s, lat, d, arr)
<1> SUFFICES ASSUME NEW b \in Used, SubOf(b) = s PROVE Tracked(Way(v, lat, d, b), v, arr, b)
  BY DEF SliceOK
<1> DEFINE V == Way(u, lat, d, b)
           W == Way(v, lat, d, b)
<1>1. /\ V[k] \in Seq(Mfs) /\ V[k] # <<>> /\ x = Head(V[k]) /\ V[l] \in Seq(Mfs)
      /\ W[k] = Tail(V[k]) /\ W[l] = Append(V[l], x)
      /\ \A m \in Stages \ {k, l} : W[m] = V[m]
  BY DEF HeadGoes
<1>2. Tracked(V, u, arr, b)
  BY DEF SliceOK
<1> HIDE DEF V, W
<1>3. \A m \in Stages \ {k, l} : Kept(Own(b), V[m], W[m])
  BY <1>1, NothingMoves
<1>4. SameBooks(u, v, b)
  BY DEF SameBooks, Fetches
<1>5. CASE x \in Own(b)
  <2>1. Left(Own(b), V[k], W[k], x)
    BY <1>1, <1>5, HeadLeaves
  <2>2. Joined(Own(b), V[l], W[l], x)
    BY <1>1, <1>5, TailJoins
  <2>3. x \notin u.extra \/ (l # 12 /\ \A m \in Stages : k < m /\ m < l => \A z \in Own(b) : ~Has(V[m], z))
    BY DEF Stages
  <2>4. Tracked(W, v, arr, b)
    BY <1>2, <1>3, <1>4, <1>5, <2>1, <2>2, <2>3, BlockMoves
  <2>5. QED
    BY <2>4 DEF W
<1>6. CASE x \notin Own(b)
  <2>1. Kept(Own(b), V[k], W[k])
    BY <1>1, <1>6, HeadLeaves
  <2>2. Kept(Own(b), V[l], W[l])
    BY <1>1, <1>6, TailJoins
  <2>3. \A m \in Stages : Kept(Own(b), V[m], W[m])
    BY <1>3, <2>1, <2>2
  <2>4. \A y \in Own(b) : /\ Stands(W, y) <=> Stands(V, y)
                          /\ \A z \in Own(b) : Ahead(W, y, z) => Ahead(V, y, z)
    BY <2>3, WayKept
  <2>5. \A y \in Own(b) : (Early(W, y) => Early(V, y)) /\ (Has(W[12], y) => Has(V[12], y))
    BY <2>3 DEF Kept, Early, Stages
  <2>6. Tracked(W, v, arr, b)
    BY <1>2, <1>4, <2>4, <2>5, TrackedKept DEF SameBooks
  <2>7. QED
    BY <2>6 DEF W
<1>7. QED
  BY <1>5, <1>6

\* The lengths of the queues are numbers.
LEMMA Sizes ==
  /\ InSize \in Nat /\ OutSize \in Nat /\ TodramSize \in Nat /\ FromdramSize \in Nat
  /\ MissQueueSize \in Nat /\ LineCycles \in Nat /\ LineAtoms \in Nat
BY PartitionConstants

\* The queues of a slice hold requests.
LEMMA SliceSeqs ==
  ASSUME NEW s, NEW u, NEW arr, SliceTypes(u, s, arr)
  PROVE  /\ DOMAIN u = Fields
         /\ u.rop \in Seq(Mfs) /\ u.in \in Seq(Mfs) /\ u.missq \in Seq(Mfs) /\ u.todram \in Seq(Mfs)
         /\ u.fromdram \in Seq(Mfs) /\ u.out \in Seq(Mfs)
         /\ Len(u.in) \in Nat /\ Len(u.todram) \in Nat /\ Len(u.out) \in Nat /\ Len(u.fromdram) \in Nat
         /\ Len(u.missq) \in Nat
<1>1. CoreReqs(s) \subseteq Mfs /\ OfSlice(s) \subseteq Mfs /\ {y \in OfSlice(s) : ~IsWriteback(y)} \subseteq Mfs
  BY DEF CoreReqs, OfSlice
<1>2. \A S, U : S \subseteq U => Seq(S) \subseteq Seq(U)
  OBVIOUS
<1>3. /\ u.rop \in Seq(CoreReqs(s)) /\ u.in \in Seq(CoreReqs(s)) /\ u.out \in Seq(CoreReqs(s))
      /\ u.missq \in Seq(OfSlice(s)) /\ u.todram \in Seq(OfSlice(s))
      /\ u.fromdram \in Seq({y \in OfSlice(s) : ~IsWriteback(y)})
  BY DEF SliceTypes
<1>4. /\ u.rop \in Seq(Mfs) /\ u.in \in Seq(Mfs) /\ u.missq \in Seq(Mfs) /\ u.todram \in Seq(Mfs)
      /\ u.fromdram \in Seq(Mfs) /\ u.out \in Seq(Mfs)
  BY <1>1, <1>2, <1>3
<1>5. \A q \in Seq(Mfs) : Len(q) \in Nat
  OBVIOUS
<1>6. DOMAIN u = Fields
  BY FieldsOfSlice DEF SliceTypes
<1>7. QED
  BY <1>4, <1>5, <1>6

\* The ROP delay queue.
LEMMA LeaveRopOK ==
  ASSUME NEW s \in Subs, NEW u, NEW lat, NEW d, NEW arr, SliceOK(u, s, lat, d, arr), NEW ripe
  PROVE  SliceOK(LeaveRop(u, ripe), s, lat, d, arr)
<1> DEFINE v == LeaveRop(u, ripe)
           x == Head(u.rop)
<1>1. CASE v = u
  BY <1>1
<1>2. CASE /\ u.rop # <<>> /\ ~Full(u.in, InSize)
           /\ v = [u EXCEPT !.rop = Tail(u.rop), !.in = Append(u.in, x)]
  <2>1. SliceTypes(u, s, arr) /\ DOMAIN u = Fields
    BY SliceSeqs DEF SliceOK
  <2>2. v.rop = Tail(u.rop) /\ v.in = Append(u.in, x)
    BY <1>2, <2>1 DEF Fields
  <2>3. /\ DOMAIN v = Fields /\ v.missq = u.missq /\ v.todram = u.todram /\ v.fromdram = u.fromdram
        /\ v.out = u.out /\ v.line = u.line /\ v.mshr = u.mshr /\ v.ready = u.ready
        /\ v.extra = u.extra /\ v.fill = u.fill /\ v.data = u.data /\ v.tracker = u.tracker
    BY <1>2, <2>1 DEF Fields
  <2> HIDE DEF v
  <2>4. u.rop \in Seq(CoreReqs(s)) /\ u.in \in Seq(CoreReqs(s)) /\ Len(u.in) \in Nat
    BY <2>1 DEF SliceTypes
  <2>5. SliceTypes(v, s, arr)
    <3>1. v.rop \in Seq(CoreReqs(s)) /\ v.in \in Seq(CoreReqs(s)) /\ Len(v.in) = Len(u.in) + 1
      BY <1>2, <2>2, <2>4
    <3>2. Len(v.in) <= InSize
      BY <1>2, <2>4, <3>1, Sizes DEF Full
    <3>3. QED
      BY <2>1, <2>3, <3>1, <3>2, TypesAgain
  <2>6. x \in Mfs
    BY <1>2, <2>4 DEF CoreReqs, OfSlice
  <2>7. ASSUME NEW b \in Used PROVE HeadGoes(Way(u, lat, d, b), Way(v, lat, d, b), 1, 2, x)
    <3> DEFINE V == Way(u, lat, d, b)
               W == Way(v, lat, d, b)
    <3>1. /\ V[1] = u.rop /\ V[2] = u.in /\ W[1] = v.rop /\ W[2] = v.in
          /\ \A m \in Stages \ {1, 2} : W[m] = V[m]
      <4>1. /\ V[3] = u.missq /\ V[4] = u.todram /\ V[11] = u.fromdram /\ V[12] = u.out
            /\ W[3] = v.missq /\ W[4] = v.todram /\ W[11] = v.fromdram /\ W[12] = v.out
        BY WayOfSlice
      <4>2. QED
        BY <2>3, <4>1, WayOfSlice DEF Stages
    <3>2. u.rop \in Seq(Mfs) /\ u.in \in Seq(Mfs)
      BY <2>1, SliceSeqs
    <3>3. QED
      <4> HIDE DEF V, W
      <4> QED  BY <1>2, <2>2, <3>1, <3>2 DEF HeadGoes, V, W
  <2> HIDE DEF x
  <2>b. /\ 1 \in Stages /\ 2 \in Stages /\ 1 < 2 /\ 2 = 1 + 1 /\ 2 # 12
        /\ v.mshr = u.mshr /\ v.extra = u.extra /\ v.ready = u.ready /\ v.tracker = u.tracker
        /\ \A b \in Used : v.line[b] \in {"valid", "modified"} => u.line[b] \in {"valid", "modified"}
    BY <2>3 DEF Stages
  <2>8. SliceOK(v, s, lat, d, arr)
    BY <2>5, <2>6, <2>7, <2>b, SliceMoves
  <2>9. QED
    BY <2>8 DEF v
<1>3. QED
  BY <1>1, <1>2 DEF LeaveRop

-----------------------------------------------------------------------------
(* What the L2 makes of an access and of a response.                       *)

\* No request moves, no line becomes valid.
LEMMA SliceIdle ==
  ASSUME NEW s \in Subs, NEW u, NEW v, NEW lat, NEW d, NEW arr,
         SliceOK(u, s, lat, d, arr), SliceTypes(v, s, arr),
         v.rop = u.rop, v.in = u.in, v.missq = u.missq, v.todram = u.todram,
         v.fromdram = u.fromdram, v.out = u.out,
         v.mshr = u.mshr, v.extra = u.extra, v.ready = u.ready, v.tracker = u.tracker,
         \A b \in Used : v.line[b] \in {"valid", "modified"} => u.line[b] \in {"valid", "modified"}
  PROVE  SliceOK(v, s, lat, d, arr)
<1>1. \A b \in Used : Untouched(u, v, b)
  BY NothingMoves DEF Untouched, Fetches
<1>2. QED
  BY <1>1, BlockUntouched DEF SliceOK

\* baseline_cache::cycle.
LEMMA SendMissOK ==
  ASSUME NEW s \in Subs, NEW u, NEW lat, NEW d, NEW arr, SliceOK(u, s, lat, d, arr)
  PROVE  SliceOK(SendMiss(u), s, lat, d, arr)
<1> DEFINE v == SendMiss(u)
           x == Head(u.missq)
<1>0. SliceTypes(u, s, arr) /\ DOMAIN u = Fields /\ u.fill \in Nat /\ u.data \in Nat
  BY SliceSeqs DEF SliceOK, SliceTypes
<1>1. /\ DOMAIN v = Fields /\ v.rop = u.rop /\ v.in = u.in /\ v.fromdram = u.fromdram
      /\ v.out = u.out /\ v.line = u.line /\ v.mshr = u.mshr /\ v.ready = u.ready
      /\ v.extra = u.extra /\ v.tracker = u.tracker /\ v.fill \in Nat /\ v.data \in Nat
  BY <1>0 DEF Fields, SendMiss
<1>2. \/ v.missq = u.missq /\ v.todram = u.todram
      \/ /\ u.missq # <<>> /\ ~Full(u.todram, TodramSize)
         /\ v.missq = Tail(u.missq) /\ v.todram = Append(u.todram, x)
  BY <1>0 DEF Fields, SendMiss
<1> HIDE DEF v
<1>3. CASE v.missq = u.missq /\ v.todram = u.todram
  <2>1. SliceTypes(v, s, arr)
    BY <1>0, <1>1, <1>3, TypesAgain
  <2>2. SliceOK(v, s, lat, d, arr)
    BY <1>0, <1>1, <1>3, <2>1, SliceIdle
  <2>3. QED
    BY <2>2 DEF v
<1>4. CASE /\ u.missq # <<>> /\ ~Full(u.todram, TodramSize)
           /\ v.missq = Tail(u.missq) /\ v.todram = Append(u.todram, x)
  <2>1. /\ u.missq \in Seq(OfSlice(s)) /\ u.todram \in Seq(OfSlice(s)) /\ Len(u.todram) \in Nat
        /\ Len(u.missq) \in Nat /\ Len(u.missq) <= MissQueueSize
    BY <1>0 DEF SliceTypes
  <2>2. x \in OfSlice(s) /\ x \in Mfs
    BY <1>4, <2>1 DEF OfSlice
  <2>3. SliceTypes(v, s, arr)
    <3>1. /\ v.missq \in Seq(OfSlice(s)) /\ Len(v.missq) = Len(u.missq) - 1
          /\ v.todram \in Seq(OfSlice(s)) /\ Len(v.todram) = Len(u.todram) + 1
      BY <1>4, <2>1, <2>2
    <3>2. Len(v.missq) <= MissQueueSize /\ Len(v.todram) <= TodramSize
      BY <1>4, <2>1, <3>1, Sizes DEF Full
    <3>3. QED
      BY <1>0, <1>1, <3>1, <3>2, TypesAgain
  <2>4. ASSUME NEW b \in Used PROVE HeadGoes(Way(u, lat, d, b), Way(v, lat, d, b), 3, 4, x)
    <3> DEFINE V == Way(u, lat, d, b)
               W == Way(v, lat, d, b)
    <3>1. /\ V[3] = u.missq /\ V[4] = u.todram /\ W[3] = v.missq /\ W[4] = v.todram
          /\ \A m \in Stages \ {3, 4} : W[m] = V[m]
      <4>1. /\ V[1] = u.rop /\ V[2] = u.in /\ V[11] = u.fromdram /\ V[12] = u.out
            /\ W[1] = v.rop /\ W[2] = v.in /\ W[11] = v.fromdram /\ W[12] = v.out
        BY WayOfSlice
      <4>2. QED
        BY <1>1, <4>1, WayOfSlice DEF Stages
    <3>2. u.missq \in Seq(Mfs) /\ u.todram \in Seq(Mfs)
      BY <1>0, SliceSeqs
    <3>3. QED
      <4> HIDE DEF V, W
      <4> QED  BY <1>4, <3>1, <3>2 DEF HeadGoes, V, W
  <2> HIDE DEF x
  <2>b. /\ 3 \in Stages /\ 4 \in Stages /\ 3 < 4 /\ 4 = 3 + 1 /\ 4 # 12
        /\ v.mshr = u.mshr /\ v.extra = u.extra /\ v.ready = u.ready /\ v.tracker = u.tracker
        /\ \A b \in Used : v.line[b] \in {"valid", "modified"} => u.line[b] \in {"valid", "modified"}
    BY <1>1 DEF Stages
  <2>5. SliceOK(v, s, lat, d, arr)
    BY <2>2, <2>3, <2>4, <2>b, SliceMoves
  <2>6. QED
    BY <2>5 DEF v
<1>5. QED
  BY <1>2, <1>3, <1>4

\* What every setup may be.
LEMMA SetupTypes ==
  ASSUME setup \in Setups
  PROVE  /\ Used \subseteq Blocks /\ Reqs \subseteq Nat
         /\ \A r \in Reqs : setup.reqs[r].kind \in {"read", "write", "l1wb", "atomic", "texture"}
         /\ setup.sched \in {"frfcfs", "fifo"}
<1> DEFINE R == [kind : {"read", "write", "l1wb", "atomic", "texture"}, block : Blocks]
<1>1. setup.reqs \in Seq(R) /\ setup.sched \in {"frfcfs", "fifo"}
  BY PartitionConstants
<1> HIDE DEF R
<1>2. DOMAIN setup.reqs \subseteq Nat /\ \A r \in DOMAIN setup.reqs : setup.reqs[r] \in R
  BY <1>1
<1>3. QED
  BY <1>1, <1>2 DEF Used, Reqs, R

\* A slice looks up its request and passes it by the L2.
LEMMA BypassOK ==
  ASSUME NEW s \in Subs, NEW u, NEW lat, NEW d, NEW arr, SliceOK(u, s, lat, d, arr),
         u.in # <<>>, ~Full(u.todram, TodramSize)
  PROVE  SliceOK([u EXCEPT !.in = Tail(@), !.todram = Append(@, Head(u.in))], s, lat, d, arr)
<1> DEFINE x == Head(u.in)
           v == [u EXCEPT !.in = Tail(@), !.todram = Append(@, x)]
<1>0. SliceTypes(u, s, arr) /\ DOMAIN u = Fields
  BY SliceSeqs DEF SliceOK
<1>1. /\ DOMAIN v = Fields /\ v.rop = u.rop /\ v.missq = u.missq /\ v.fromdram = u.fromdram
      /\ v.out = u.out /\ v.line = u.line /\ v.mshr = u.mshr /\ v.ready = u.ready
      /\ v.extra = u.extra /\ v.tracker = u.tracker /\ v.fill = u.fill /\ v.data = u.data
      /\ v.in = Tail(u.in) /\ v.todram = Append(u.todram, x)
  BY <1>0 DEF Fields
<1>2. /\ u.in \in Seq(CoreReqs(s)) /\ u.todram \in Seq(OfSlice(s)) /\ Len(u.todram) \in Nat
      /\ Len(u.in) \in Nat /\ Len(u.in) <= InSize
  BY <1>0 DEF SliceTypes
<1>3. x \in CoreReqs(s) /\ x \in OfSlice(s) /\ x \in Mfs
  BY <1>2 DEF OfSlice, CoreReqs
<1> HIDE DEF v
<1>4. SliceTypes(v, s, arr)
  <2>1. /\ v.in \in Seq(CoreReqs(s)) /\ Len(v.in) = Len(u.in) - 1
        /\ v.todram \in Seq(OfSlice(s)) /\ Len(v.todram) = Len(u.todram) + 1
    BY <1>1, <1>2, <1>3
  <2>2. Len(v.in) <= InSize /\ Len(v.todram) <= TodramSize
    BY <1>2, <2>1, Sizes DEF Full
  <2>3. QED
    BY <1>0, <1>1, <2>1, <2>2, TypesAgain
<1>5. ASSUME NEW b \in Used PROVE HeadGoes(Way(u, lat, d, b), Way(v, lat, d, b), 2, 4, x)
  <2> DEFINE V == Way(u, lat, d, b)
             W == Way(v, lat, d, b)
  <2>1. /\ V[2] = u.in /\ V[4] = u.todram /\ W[2] = v.in /\ W[4] = v.todram
        /\ \A m \in Stages \ {2, 4} : W[m] = V[m]
    <3>1. /\ V[1] = u.rop /\ V[3] = u.missq /\ V[11] = u.fromdram /\ V[12] = u.out
          /\ W[1] = v.rop /\ W[3] = v.missq /\ W[11] = v.fromdram /\ W[12] = v.out
      BY WayOfSlice
    <3>2. QED
      BY <1>1, <3>1, WayOfSlice DEF Stages
  <2>2. u.in \in Seq(Mfs) /\ u.todram \in Seq(Mfs)
    BY <1>0, SliceSeqs
  <2>3. QED
    <3> HIDE DEF V, W
    <3> QED  BY <1>1, <2>1, <2>2 DEF HeadGoes, V, W
<1>6. x \notin u.extra
  <2> DEFINE b == Block(x)
             W == Way(u, lat, d, b)
  <2>1. b \in Used /\ x \in Own(b) /\ SubOf(b) = s
    BY <1>3, OwnBlocks DEF OfSlice
  <2>2. Tracked(W, u, arr, b)
    BY <2>1 DEF SliceOK
  <2>3. Early(W, x)
    <3>1. Has(u.in, x)
      BY <1>2, QueueFacts
    <3>2. QED
      BY <3>1, WayOfSlice DEF Early
  <2>4. QED
    <3> HIDE DEF W, b
    <3> QED  BY <2>1, <2>2, <2>3 DEF Tracked, Fetches
<1> HIDE DEF x
<1>b. /\ 2 \in Stages /\ 4 \in Stages /\ 2 < 4
      /\ v.mshr = u.mshr /\ v.extra = u.extra /\ v.ready = u.ready /\ v.tracker = u.tracker
      /\ \A b \in Used : v.line[b] \in {"valid", "modified"} => u.line[b] \in {"valid", "modified"}
  BY <1>1 DEF Stages
<1>7. SliceOK(v, s, lat, d, arr)
  BY <1>3, <1>4, <1>5, <1>6, <1>b, SliceMoves
<1>8. QED
  BY <1>7 DEF v, x

\* What a request of a slice that is at a stage tells.
LEMMA TrackedAt ==
  ASSUME NEW s \in Subs, NEW u, NEW lat, NEW d, NEW arr, SliceOK(u, s, lat, d, arr),
         NEW x \in OfSlice(s)
  PROVE  /\ Block(x) \in Used /\ x \in Own(Block(x)) /\ SubOf(Block(x)) = s
         /\ Tracked(Way(u, lat, d, Block(x)), u, arr, Block(x))
BY OwnBlocks DEF OfSlice, SliceOK

\* A response that no entry of the MSHR table waits for goes on to the interconnect.
LEMMA ForwardPassOK ==
  ASSUME NEW s \in Subs, NEW u, NEW lat, NEW d, NEW arr, SliceOK(u, s, lat, d, arr),
         u.fromdram # <<>>, ~(L2On /\ Head(u.fromdram) \in u.extra), ~Full(u.out, OutSize)
  PROVE  SliceOK([u EXCEPT !.fromdram = Tail(@), !.out = Append(@, Head(u.fromdram))], s, lat, d, arr)
<1> DEFINE x == Head(u.fromdram)
           v == [u EXCEPT !.fromdram = Tail(@), !.out = Append(@, x)]
           S == {y \in OfSlice(s) : ~IsWriteback(y)}
<1>0. SliceTypes(u, s, arr) /\ DOMAIN u = Fields
  BY SliceSeqs DEF SliceOK
<1>1. /\ DOMAIN v = Fields /\ v.rop = u.rop /\ v.missq = u.missq /\ v.in = u.in
      /\ v.todram = u.todram /\ v.line = u.line /\ v.mshr = u.mshr /\ v.ready = u.ready
      /\ v.extra = u.extra /\ v.tracker = u.tracker /\ v.fill = u.fill /\ v.data = u.data
      /\ v.fromdram = Tail(u.fromdram) /\ v.out = Append(u.out, x)
  BY <1>0 DEF Fields
<1>2. /\ u.fromdram \in Seq(S) /\ u.out \in Seq(CoreReqs(s)) /\ Len(u.out) \in Nat
      /\ Len(u.fromdram) \in Nat /\ Len(u.fromdram) <= FromdramSize
  BY <1>0 DEF SliceTypes
<1>3. x \in S /\ x \in OfSlice(s) /\ x \in Mfs /\ x \notin u.extra
  <2>1. x \in S
    BY <1>2
  <2>2. u.extra # {} => L2On
    BY <1>0 DEF SliceTypes
  <2>3. QED
    BY <2>1, <2>2 DEF OfSlice
<1>4. Has(u.fromdram, x)
  BY <1>2, QueueFacts
<1>5. x \in CoreReqs(s)
  <2> DEFINE W == Way(u, lat, d, Block(x))
  <2>1. Tracked(W, u, arr, Block(x)) /\ x \in Own(Block(x))
    BY <1>3, TrackedAt
  <2>2. Stands(W, x)
    BY <1>4, WayOfSlice DEF Stands, Stages
  <2>3. x[1] # "wb"
    BY <1>3 DEF IsWriteback, Kind
  <2>4. x[1] # "alloc"
    <3> HIDE DEF W, x
    <3>1. ASSUME x[1] = "alloc" PROVE FALSE
      <4>1. PICK r \in Reqs : x = <<"alloc", r>>
        BY <1>3, <2>3, <3>1 DEF Mfs
      <4>2. QED
        BY <1>3, <2>1, <2>2, <4>1 DEF Tracked
    <3>2. QED
      BY <3>1
  <2>5. QED
    <3> HIDE DEF x
    <3> QED  BY <1>3, <2>3, <2>4 DEF CoreReqs, Mfs
<1> HIDE DEF v
<1>6. SliceTypes(v, s, arr)
  <2>1. /\ v.out \in Seq(CoreReqs(s)) /\ Len(v.out) = Len(u.out) + 1
    BY <1>1, <1>2, <1>5
  <2>2. v.fromdram \in Seq(S) /\ Len(v.fromdram) = Len(u.fromdram) - 1
    BY <1>1, <1>2
  <2>3. Len(v.out) <= OutSize /\ Len(v.fromdram) <= FromdramSize
    BY <1>2, <2>1, <2>2, Sizes DEF Full
  <2>4. QED
    BY <1>0, <1>1, <2>1, <2>2, <2>3, TypesAgain
<1>7. ASSUME NEW b \in Used PROVE HeadGoes(Way(u, lat, d, b), Way(v, lat, d, b), 11, 12, x)
  <2> DEFINE V == Way(u, lat, d, b)
             W == Way(v, lat, d, b)
  <2>1. /\ V[11] = u.fromdram /\ V[12] = u.out /\ W[11] = v.fromdram /\ W[12] = v.out
        /\ \A m \in Stages \ {11, 12} : W[m] = V[m]
    <3>1. /\ V[1] = u.rop /\ V[2] = u.in /\ V[3] = u.missq /\ V[4] = u.todram
          /\ W[1] = v.rop /\ W[2] = v.in /\ W[3] = v.missq /\ W[4] = v.todram
      BY WayOfSlice
    <3>2. QED
      BY <1>1, <3>1, WayOfSlice DEF Stages
  <2>2. u.fromdram \in Seq(Mfs) /\ u.out \in Seq(Mfs)
    BY <1>0, SliceSeqs
  <2>3. QED
    <3> HIDE DEF V, W
    <3> QED  BY <1>1, <2>1, <2>2 DEF HeadGoes, V, W
<1> HIDE DEF x, S
<1>b. /\ 11 \in Stages /\ 12 \in Stages /\ 11 < 12
      /\ v.mshr = u.mshr /\ v.extra = u.extra /\ v.ready = u.ready /\ v.tracker = u.tracker
      /\ \A b \in Used : v.line[b] \in {"valid", "modified"} => u.line[b] \in {"valid", "modified"}
  BY <1>1 DEF Stages
<1>8. SliceOK(v, s, lat, d, arr)
  BY <1>3, <1>6, <1>7, <1>b, SliceMoves
<1>9. QED
  BY <1>8 DEF v, x

\* A hit: the request is answered, or, written back by an L1, ends.
LEMMA HitOK ==
  ASSUME NEW s \in Subs, NEW u, NEW lat, NEW d, NEW arr, SliceOK(u, s, lat, d, arr), setup \in Setups,
         u.in # <<>>, ~Full(u.out, OutSize), u.line[Block(Head(u.in))] \in {"valid", "modified"}
  PROVE  SliceOK(Hit(u, Head(u.in)), s, lat, d, arr)
<1> DEFINE x == Head(u.in)
           v == Hit(u, x)
<1>0. SliceTypes(u, s, arr) /\ DOMAIN u = Fields
  BY SliceSeqs DEF SliceOK
<1>2. /\ u.in \in Seq(CoreReqs(s)) /\ u.out \in Seq(CoreReqs(s)) /\ Len(u.out) \in Nat
      /\ Len(u.in) \in Nat /\ Len(u.in) <= InSize /\ Len(u.out) <= OutSize
      /\ u.line \in [Blocks -> {"none", "reserved", "valid", "modified"}] /\ u.data \in Nat
  BY <1>0 DEF SliceTypes
<1>3. x \in CoreReqs(s) /\ x \in OfSlice(s) /\ x \in Mfs
  BY <1>2 DEF OfSlice, CoreReqs
<1>4. Block(x) \in Used /\ Block(x) \in Blocks /\ SubOf(Block(x)) = s
  BY <1>3, OwnBlocks, SetupTypes DEF OfSlice
<1>1. /\ DOMAIN v = Fields /\ v.rop = u.rop /\ v.missq = u.missq /\ v.fromdram = u.fromdram
      /\ v.todram = u.todram /\ v.mshr = u.mshr /\ v.ready = u.ready
      /\ v.extra = u.extra /\ v.fill = u.fill /\ v.data = u.data + 1
      /\ v.in = Tail(u.in)
      /\ v.line = [u.line EXCEPT ![Block(x)] = IF IsWrite(x) \/ Kind(x) = "atomic" THEN "modified" ELSE @]
      /\ v.out = IF Kind(x) = "l1wb" THEN u.out ELSE Append(u.out, x)
      /\ v.tracker = IF Kind(x) = "l1wb" THEN u.tracker \ {x[2]} ELSE u.tracker
  <2> HIDE DEF x
  <2> QED  BY <1>0 DEF Fields, Hit
<1> HIDE DEF v, x
<1>5. SliceTypes(v, s, arr)
  <2>1. /\ v.in \in Seq(CoreReqs(s)) /\ Len(v.in) = Len(u.in) - 1
    BY <1>1, <1>2 DEF x
  <2>2. v.out \in Seq(CoreReqs(s)) /\ (v.out = u.out \/ Len(v.out) = Len(u.out) + 1)
    BY <1>1, <1>2, <1>3
  <2>3. Len(v.in) <= InSize /\ Len(v.out) <= OutSize
    BY <1>2, <2>1, <2>2, Sizes DEF Full
  <2>4. v.line \in [Blocks -> {"none", "reserved", "valid", "modified"}]
    BY <1>1, <1>2
  <2>5. \A b \in Blocks : v.line[b] # "none" => b \in Used /\ SubOf(b) = s
    BY <1>0, <1>1, <1>2, <1>4 DEF SliceTypes
  <2>6. v.tracker \subseteq {r \in arr : SubOf(setup.reqs[r].block) = s} /\ v.data \in Nat
    BY <1>0, <1>1, <1>2 DEF SliceTypes
  <2>7. QED
    BY <1>0, <1>1, <2>1, <2>2, <2>3, <2>4, <2>5, <2>6, TypesAgain
<1>6. \A b \in Used : v.line[b] \in {"valid", "modified"} => u.line[b] \in {"valid", "modified"}
  BY <1>1, <1>2, SetupTypes DEF x
<1>7. x \notin u.extra
  <2> DEFINE W == Way(u, lat, d, Block(x))
  <2>1. Tracked(W, u, arr, Block(x)) /\ x \in Own(Block(x))
    BY <1>3, TrackedAt
  <2>2. Early(W, x)
    BY <1>2, QueueFacts, WayOfSlice DEF Early, x
  <2>3. QED
    <3> HIDE DEF W
    <3> QED  BY <2>1, <2>2 DEF Tracked, Fetches
<1>8. CASE Kind(x) # "l1wb"
  <2>1. ASSUME NEW b \in Used PROVE HeadGoes(Way(u, lat, d, b), Way(v, lat, d, b), 2, 12, x)
    <3> DEFINE V == Way(u, lat, d, b)
               W == Way(v, lat, d, b)
    <3>1. /\ V[2] = u.in /\ V[12] = u.out /\ W[2] = v.in /\ W[12] = v.out
          /\ \A m \in Stages \ {2, 12} : W[m] = V[m]
      <4>1. /\ V[1] = u.rop /\ V[3] = u.missq /\ V[4] = u.todram /\ V[11] = u.fromdram
            /\ W[1] = v.rop /\ W[3] = v.missq /\ W[4] = v.todram /\ W[11] = v.fromdram
        BY WayOfSlice
      <4>2. QED
        BY <1>1, <4>1, WayOfSlice DEF Stages
    <3>2. u.in \in Seq(Mfs) /\ u.out \in Seq(Mfs)
      BY <1>0, SliceSeqs
    <3>3. QED
      <4> HIDE DEF V, W
      <4> QED  BY <1>1, <1>8, <3>1, <3>2 DEF HeadGoes, V, W, x
  <2>2. 2 \in Stages /\ 12 \in Stages /\ 2 < 12
    BY DEF Stages
  <2>3. v.mshr = u.mshr /\ v.extra = u.extra /\ v.ready = u.ready /\ v.tracker = u.tracker
    BY <1>1, <1>8
  <2>4. SliceOK(v, s, lat, d, arr)
    BY <1>3, <1>5, <1>6, <1>7, <2>1, <2>2, <2>3, SliceMoves
  <2>5. QED
    BY <2>4 DEF v, x
<1>9. CASE Kind(x) = "l1wb"
  <2>1. ASSUME NEW b \in Used, SubOf(b) = s PROVE Tracked(Way(v, lat, d, b), v, arr, b)
    <3> DEFINE V == Way(u, lat, d, b)
               W == Way(v, lat, d, b)
    <3>1. V[2] = u.in /\ W[2] = v.in /\ \A m \in Stages \ {2} : W[m] = V[m]
      <4>1. /\ V[1] = u.rop /\ V[3] = u.missq /\ V[4] = u.todram /\ V[11] = u.fromdram /\ V[12] = u.out
            /\ W[1] = v.rop /\ W[3] = v.missq /\ W[4] = v.todram /\ W[11] = v.fromdram /\ W[12] = v.out
        BY WayOfSlice
      <4>2. QED
        BY <1>1, <1>9, <4>1, WayOfSlice DEF Stages
    <3>2. Tracked(V, u, arr, b)
      BY <2>1 DEF SliceOK
    <3> HIDE DEF V, W
    <3>3. SameBooks(u, v, b)
      BY <1>1, <1>6 DEF SameBooks, Fetches
    <3>4. \A m \in Stages \ {2} : Kept(Own(b), V[m], W[m])
      BY <3>1, NothingMoves
    <3>5. PICK r \in Reqs : x = <<"req", r>>
      BY <1>3 DEF CoreReqs, OfSlice, Mfs
    <3>6. \A q \in Reqs : q \in v.tracker <=> (q \in u.tracker /\ <<"req", q>> # x)
      BY <1>1, <1>9, <3>5
    <3>7. CASE x \in Own(b)
      <4>1. Left(Own(b), V[2], W[2], x)
        BY <1>1, <1>2, <3>1, <3>7, HeadLeaves DEF x
      <4>2. Tracked(W, v, arr, b)
        BY <1>7, <3>2, <3>3, <3>4, <3>6, <3>7, <4>1, BlockEnds DEF Stages
      <4>3. QED
        BY <4>2 DEF W
    <3>8. CASE x \notin Own(b)
      <4>1. Kept(Own(b), V[2], W[2])
        BY <1>1, <1>2, <3>1, <3>8, HeadLeaves DEF x
      <4>2. Untouched(u, v, b)
        BY <1>1, <1>9, <3>1, <3>3, <3>6, <3>8, <4>1, NothingMoves DEF Untouched, SameBooks
      <4>3. QED
        BY <2>1, <4>2, BlockUntouched DEF SliceOK
    <3>9. QED
      BY <3>7, <3>8
  <2>2. QED
    BY <1>5, <2>1 DEF SliceOK, v, x
<1>10. QED
  BY <1>8, <1>9

\* memory_sub_partition::cache_cycle answers an access that waited.
LEMMA ReplyOK ==
  ASSUME NEW s \in Subs, NEW u, NEW lat, NEW d, NEW arr, SliceOK(u, s, lat, d, arr), setup \in Setups
  PROVE  SliceOK(Reply(u), s, lat, d, arr)
<1> DEFINE b  == Head(u.ready)
           q  == u.mshr[b]
           x  == Head(q)
           v  == Reply(u)
           R  == {c \in Used : SubOf(c) = s}
           M  == {y \in OfSlice(s) : ~IsWrite(y)}
<1>1. CASE v = u
  BY <1>1
<1>2. CASE /\ u.ready # <<>> /\ ~Full(u.out, OutSize)
           /\ v = [u EXCEPT !.mshr[b] = Tail(@), !.ready = IF Len(u.mshr[b]) = 1 THEN Tail(@) ELSE @,
                            !.out = IF Kind(x) = "alloc" THEN @ ELSE Append(@, x)]
  <2>0. SliceTypes(u, s, arr) /\ DOMAIN u = Fields
    BY SliceSeqs DEF SliceOK
  <2>1. /\ u.ready \in Seq(R) /\ u.mshr \in [Blocks -> Seq(M)] /\ u.out \in Seq(CoreReqs(s)) /\ Len(u.out) \in Nat
        /\ \A c \in Blocks : \A i \in DOMAIN u.mshr[c] : Block(u.mshr[c][i]) = c
    BY <2>0 DEF SliceTypes
  <2>2. b \in Used /\ Has(u.ready, b) /\ b \in Blocks /\ SubOf(b) = s
    <3>1. b \in R /\ Has(u.ready, b)
      BY <1>2, <2>1, QueueFacts
    <3>2. QED
      BY <3>1, SetupTypes
  <2>3. q \in Seq(M)
    BY <2>1, <2>2
  <2> HIDE DEF b
  <2>4. /\ DOMAIN v = Fields /\ v.rop = u.rop /\ v.in = u.in /\ v.missq = u.missq /\ v.fromdram = u.fromdram
        /\ v.todram = u.todram /\ v.line = u.line /\ v.extra = u.extra /\ v.fill = u.fill
        /\ v.data = u.data /\ v.tracker = u.tracker
        /\ v.mshr = [u.mshr EXCEPT ![b] = Tail(q)]
        /\ v.ready = IF Len(q) = 1 THEN Tail(u.ready) ELSE u.ready
        /\ v.out = IF Kind(x) = "alloc" THEN u.out ELSE Append(u.out, x)
    <3> HIDE DEF x, v
    <3> QED  BY <1>2, <2>0 DEF Fields
  <2> HIDE DEF v
  <2>5. q # <<>>
    BY <2>2 DEF SliceOK, Tracked
  <2>6. x \in M /\ Block(x) = b /\ x \in OfSlice(s) /\ x \in Mfs /\ Has(q, x)
    <3>1. x \in M /\ Has(q, x)
      BY <2>3, <2>5, QueueFacts
    <3>2. q[1] = x /\ 1 \in DOMAIN q
      BY <2>3, <2>5
    <3>3. QED
      BY <2>1, <2>2, <3>1, <3>2 DEF OfSlice
  <2> HIDE DEF q, x
  <2>7. b \in Used /\ x \in Own(b) /\ Tracked(Way(u, lat, d, b), u, arr, b)
    BY <2>6, TrackedAt
  <2>8. x \notin u.extra /\ Fetches(u, b) = {} /\ ~Stands(Way(u, lat, d, b), x)
    BY <2>2, <2>5, <2>6, <2>7 DEF Tracked, Fetches, q
  <2>9. Left(Own(b), q, Tail(q), x)
    BY <2>3, <2>5, <2>7, HeadLeaves DEF x
  <2>10. Kind(x) = "alloc" \/ x \in CoreReqs(s)
    BY <2>6 DEF CoreReqs, Mfs, OfSlice, Kind, IsWrite
  <2>11. SliceTypes(v, s, arr)
    <3>1. v.out \in Seq(CoreReqs(s)) /\ Len(v.out) <= OutSize
      <4>1. Len(u.out) <= OutSize
        BY <2>0 DEF SliceTypes
      <4>2. x \in CoreReqs(s) => Append(u.out, x) \in Seq(CoreReqs(s)) /\ Len(Append(u.out, x)) = Len(u.out) + 1
        BY <2>1
      <4>3. Len(u.out) + 1 <= OutSize
        BY <1>2, <2>1, Sizes DEF Full
      <4>4. QED
        BY <2>1, <2>4, <2>10, <4>1, <4>2, <4>3
    <3>2. v.ready \in Seq(R)
      BY <1>2, <2>1, <2>4
    <3>3. Tail(q) \in Seq(M) /\ \A i \in DOMAIN Tail(q) : Block(Tail(q)[i]) = b
      <4>1. \A i \in DOMAIN q : Block(q[i]) = b
        BY <2>1, <2>2 DEF q
      <4>2. Tail(q) \in Seq(M) /\ \A i \in DOMAIN Tail(q) : i + 1 \in DOMAIN q /\ Tail(q)[i] = q[i + 1]
        BY <2>3, <2>5
      <4>3. QED
        BY <4>1, <4>2
    <3>4. v.mshr \in [Blocks -> Seq(M)] /\ \A c \in Blocks : \A i \in DOMAIN v.mshr[c] : Block(v.mshr[c][i]) = c
      BY <2>1, <2>2, <2>4, <3>3
    <3> HIDE DEF q, x, v
    <3>5. QED
      BY <2>0, <2>4, <3>1, <3>2, <3>4, TypesAgain DEF R, M
  <2>12. ASSUME NEW c \in Used, SubOf(c) = s, c # b PROVE Tracked(Way(v, lat, d, c), v, arr, c)
    <3>1. Kept({c}, u.ready, v.ready)
      <4>1. Kept({c}, u.ready, Tail(u.ready))
        BY <1>2, <2>1, <2>12, HeadLeaves DEF b
      <4>2. QED
        BY <2>4, <4>1, NothingMoves
    <3>2. Kept(Own(c), u.out, v.out)
      <4>1. x \notin Own(c)
        BY <2>6, <2>12 DEF Own
      <4>2. x \in CoreReqs(s) => Kept(Own(c), u.out, Append(u.out, x))
        BY <2>1, <4>1, TailJoins
      <4>3. QED
        BY <2>4, <2>10, <4>2, NothingMoves
    <3>3. v.mshr[c] = u.mshr[c]
      BY <2>1, <2>4, <2>12
    <3>4. Has(v.ready, c) <=> Has(u.ready, c)
      BY <3>1 DEF Kept
    <3>5. Before(v.ready, c, c) => Before(u.ready, c, c)
      BY <3>1 DEF Kept
    <3>6. Untouched(u, v, c)
      BY <2>4, <3>2, <3>3, <3>4, <3>5, NothingMoves DEF Untouched, Fetches
    <3>7. QED
      BY <2>12, <3>6, BlockUntouched DEF SliceOK
  <2>13. Tracked(Way(v, lat, d, b), v, arr, b)
    <3> DEFINE V == Way(u, lat, d, b)
               W == Way(v, lat, d, b)
    <3>1. V[12] = u.out /\ W[12] = v.out /\ \A m \in Stages \ {12} : W[m] = V[m]
      <4>1. /\ V[1] = u.rop /\ V[2] = u.in /\ V[3] = u.missq /\ V[4] = u.todram /\ V[11] = u.fromdram
            /\ W[1] = v.rop /\ W[2] = v.in /\ W[3] = v.missq /\ W[4] = v.todram /\ W[11] = v.fromdram
        BY WayOfSlice
      <4>2. QED
        BY <2>4, <4>1, WayOfSlice DEF Stages
    <3>2. Tracked(V, u, arr, b) /\ ~Stands(V, x)
      BY <2>7, <2>8
    <3> HIDE DEF V, W
    <3>3. <<"wb", b>> \in Own(b) /\ x # <<"wb", b>>
      BY <2>6, <2>7, WritebackOwn DEF IsWrite, Kind
    <3>4. v.mshr[b] = Tail(q) /\ Fetches(v, b) = {}
      BY <2>1, <2>2, <2>4, <2>8 DEF Fetches
    <3>5. \A y \in Own(b) : /\ Has(Tail(q), y) => Has(q, y) /\ y # x
                            /\ Has(q, y) => Has(Tail(q), y) \/ y = x
                            /\ ~Before(Tail(q), y, y)
      BY <2>7, <2>9, <3>2 DEF Left, Tracked, q
    <3>6. /\ \A y \in Own(b) : /\ Stands(W, y) => Stands(V, y) \/ (y = x /\ Kind(x) # "alloc")
                               /\ Stands(V, y) => Stands(W, y)
                               /\ ~Ahead(W, y, y)
                               /\ Early(W, y) => Early(V, y)
          /\ Kind(x) # "alloc" => Stands(W, x)
      <4>1. CASE Kind(x) = "alloc"
        <5>1. \A m \in Stages : Kept(Own(b), V[m], W[m])
          BY <2>4, <3>1, <4>1, NothingMoves
        <5>2. \A y \in Own(b) : /\ Stands(W, y) <=> Stands(V, y)
                                /\ \A z \in Own(b) : Ahead(W, y, z) => Ahead(V, y, z)
          BY <5>1, WayKept
        <5>3. \A y \in Own(b) : Early(W, y) => Early(V, y)
          BY <5>1 DEF Kept, Early, Stages
        <5>4. \A y \in Own(b) : ~Ahead(V, y, y)
          BY <3>2 DEF Tracked
        <5>5. QED
          BY <4>1, <5>2, <5>3, <5>4
      <4>2. CASE Kind(x) # "alloc"
        <5>1. Joined(Own(b), V[12], W[12], x)
          BY <2>1, <2>4, <2>7, <2>10, <3>1, <4>2, TailJoins
        <5>2. \A m \in Stages \ {12} : Kept(Own(b), V[m], W[m])
          BY <3>1, NothingMoves
        <5>3. Begun(Own(b), V, W, 12, x)
          BY <2>7, <3>2, <5>1, <5>2, WayBegins DEF Stages
        <5>4. \A y \in Own(b) : Early(W, y) => Early(V, y)
          BY <5>3 DEF Begun, Early, Stages
        <5>5. \A y \in Own(b) : ~Ahead(W, y, y)
          BY <3>2, <5>3 DEF Begun, Tracked
        <5>6. QED
          BY <2>7, <4>2, <5>3, <5>4, <5>5 DEF Begun
      <4>3. QED
        BY <4>1, <4>2
    <3>7. \A y \in Own(b) : Has(Tail(q), y) => (Stands(W, y) <=> y \in v.extra)
      BY <2>4, <3>2, <3>5, <3>6 DEF Tracked, q
    <3>8. ASSUME NEW r \in Reqs, <<"alloc", r>> \in Own(b)
          PROVE  /\ Stands(W, <<"alloc", r>>) => <<"alloc", r>> \in v.extra
                 /\ Has(Tail(q), <<"alloc", r>>) => r \in arr /\ ~Early(W, <<"req", r>>)
      <4>1. <<"req", r>> \in Own(b)
        BY <3>8 DEF Own, Mfs, Block
      <4>2. Stands(W, <<"alloc", r>>) => Stands(V, <<"alloc", r>>)
        BY <3>6, <3>8 DEF Kind
      <4>3. QED
        BY <2>4, <3>2, <3>5, <3>6, <3>8, <4>1, <4>2 DEF Tracked, q
    <3>9. ASSUME NEW r \in Reqs, <<"req", r>> \in Own(b)
          PROVE  r \in v.tracker <=> (Stands(W, <<"req", r>>) \/ Has(Tail(q), <<"req", r>>))
      <4>1. r \in u.tracker <=> (Stands(V, <<"req", r>>) \/ Has(q, <<"req", r>>))
        BY <3>2, <3>9 DEF Tracked, q
      <4>2. CASE <<"req", r>> = x
        <5>1. Kind(x) # "alloc"
          BY <3>9, <4>2, SetupTypes DEF Kind
        <5>2. QED
          BY <2>4, <2>6, <3>6, <4>1, <4>2, <5>1
      <4>3. CASE <<"req", r>> # x
        BY <2>4, <3>5, <3>6, <3>9, <4>1, <4>3
      <4>4. QED
        BY <4>2, <4>3
    <3>10. /\ Tail(q) # <<>> => Has(v.ready, b)
           /\ Has(v.ready, b) => Tail(q) # <<>>
           /\ ~Before(v.ready, b, b)
      <4>1. (Tail(q) # <<>>) <=> (Len(q) # 1)
        <5>1. Tail(q) \in Seq(M) /\ Len(Tail(q)) = Len(q) - 1 /\ Len(q) \in Nat
          BY <2>3, <2>5
        <5>2. \A t \in Seq(M) : (t = <<>>) <=> (Len(t) = 0)
          OBVIOUS
        <5>3. (Tail(q) = <<>>) <=> (Len(q) - 1 = 0)
          BY <5>1, <5>2
        <5>4. (Len(q) - 1 = 0) <=> (Len(q) = 1)
          BY <5>1
        <5>5. QED
          BY <5>3, <5>4
      <4>2. ~Before(u.ready, b, b)
        BY <3>2 DEF Tracked
      <4>3. Left({b}, u.ready, Tail(u.ready), b)
        BY <1>2, <2>1, HeadLeaves DEF b
      <4>4. ~Has(Tail(u.ready), b) /\ ~Before(Tail(u.ready), b, b)
        BY <4>2, <4>3 DEF Left
      <4>5. QED
        BY <2>2, <2>4, <4>1, <4>2, <4>4
    <3>11. ~Stands(V, <<"wb", b>>) => ~Stands(W, <<"wb", b>>)
      BY <3>3, <3>6
    <3>12. v.line[b] \in {"valid", "modified"} => ~Stands(W, <<"wb", b>>)
      BY <2>4, <3>2, <3>11 DEF Tracked
    <3>13. \A y \in Own(b) : ~Ahead(W, y, y) /\ ~Before(v.mshr[b], y, y)
      BY <3>4, <3>5, <3>6
    <3>14. Tracked(W, v, arr, b)
      BY <3>4, <3>7, <3>8, <3>9, <3>10, <3>12, <3>13 DEF Tracked
    <3>15. QED
      BY <3>14 DEF W
  <2>14. QED
    BY <2>11, <2>12, <2>13 DEF SliceOK, v
<1>3. QED
  BY <1>1, <1>2 DEF Reply

\* A response of DRAM fills the L2.
LEMMA FillOK ==
  ASSUME NEW s \in Subs, NEW u, NEW lat, NEW d, NEW arr, SliceOK(u, s, lat, d, arr), setup \in Setups,
         u.fromdram # <<>>, Head(u.fromdram) \in u.extra, NEW filled \in {"valid", "modified"}
  PROVE  SliceOK([u EXCEPT !.fromdram = Tail(@), !.extra = @ \ {Head(u.fromdram)}, !.fill = LineCycles,
                           !.line[Block(Head(u.fromdram))] = filled,
                           !.ready = Append(@, Block(Head(u.fromdram)))], s, lat, d, arr)
<1> DEFINE x == Head(u.fromdram)
           b == Block(x)
           v == [u EXCEPT !.fromdram = Tail(@), !.extra = @ \ {x}, !.fill = LineCycles,
                          !.line[b] = filled, !.ready = Append(@, b)]
           S == {y \in OfSlice(s) : ~IsWriteback(y)}
           R == {c \in Used : SubOf(c) = s}
<1>0. SliceTypes(u, s, arr) /\ DOMAIN u = Fields
  BY SliceSeqs DEF SliceOK
<1>1. /\ DOMAIN v = Fields /\ v.rop = u.rop /\ v.missq = u.missq /\ v.in = u.in
      /\ v.todram = u.todram /\ v.out = u.out /\ v.mshr = u.mshr
      /\ v.tracker = u.tracker /\ v.fill = LineCycles /\ v.data = u.data
      /\ v.fromdram = Tail(u.fromdram) /\ v.extra = u.extra \ {x} /\ v.ready = Append(u.ready, b)
      /\ v.line = [u.line EXCEPT ![b] = filled]
  <2> HIDE DEF b, x
  <2> QED  BY <1>0 DEF Fields
<1> HIDE DEF v
<1>2. /\ u.fromdram \in Seq(S) /\ u.out \in Seq(CoreReqs(s)) /\ u.ready \in Seq(R)
      /\ Len(u.fromdram) \in Nat /\ Len(u.fromdram) <= FromdramSize
      /\ u.extra \subseteq {y \in OfSlice(s) : ~IsWrite(y)} /\ (u.extra # {} => L2On)
      /\ u.line \in [Blocks -> {"none", "reserved", "valid", "modified"}]
  BY <1>0 DEF SliceTypes
<1>3. x \in S /\ x \in OfSlice(s) /\ x \in Mfs /\ x \in u.extra /\ Has(u.fromdram, x)
  <2>1. x \in S /\ Has(u.fromdram, x)
    BY <1>2, QueueFacts
  <2>2. QED
    BY <2>1 DEF OfSlice
<1> HIDE DEF x, S
<1>4. b \in Used /\ x \in Own(b) /\ SubOf(b) = s /\ b \in Blocks /\ Tracked(Way(u, lat, d, b), u, arr, b)
  BY <1>3, TrackedAt, SetupTypes
<1>5. SliceTypes(v, s, arr)
  <2>1. v.fromdram \in Seq(S) /\ Len(v.fromdram) = Len(u.fromdram) - 1
    BY <1>1, <1>2
  <2>2. Len(v.fromdram) <= FromdramSize
    BY <1>2, <2>1, Sizes
  <2>3. v.ready \in Seq(R)
    <3>1. b \in R
      BY <1>4
    <3>2. QED
      <4> HIDE DEF b, R
      <4> QED  BY <1>1, <1>2, <3>1
  <2>4. /\ v.line \in [Blocks -> {"none", "reserved", "valid", "modified"}]
        /\ \A c \in Blocks : v.line[c] # "none" => c \in Used /\ SubOf(c) = s
    <3>1. \A c \in Blocks : v.line[c] = u.line[c] \/ (c = b /\ v.line[c] = filled)
      BY <1>1, <1>2
    <3>2. QED
      BY <1>0, <1>1, <1>2, <1>4, <3>1 DEF SliceTypes
  <2>5. v.extra \subseteq {y \in OfSlice(s) : ~IsWrite(y)} /\ (v.extra # {} => L2On) /\ v.fill \in Nat
    BY <1>1, <1>2, Sizes
  <2>6. QED
    <3> HIDE DEF b
    <3> QED  BY <1>0, <1>1, <2>1, <2>2, <2>3, <2>4, <2>5, TypesAgain DEF S, R
<1> HIDE DEF R
<1>6. ASSUME NEW c \in Used, SubOf(c) = s, c # b PROVE Tracked(Way(v, lat, d, c), v, arr, c)
  <2>1. x \notin Own(c)
    BY <1>6 DEF Own
  <2>2. Kept(Own(c), u.fromdram, v.fromdram)
    BY <1>1, <1>2, <2>1, HeadLeaves DEF x
  <2>3. Kept({c}, u.ready, v.ready)
    <3>1. b \in R
      BY <1>4 DEF R
    <3>2. b \notin {c}
      BY <1>6
    <3>3. QED
      BY <1>1, <1>2, <3>1, <3>2, TailJoins
  <2>4. Fetches(v, c) = Fetches(u, c)
    BY <1>1, <2>1 DEF Fetches
  <2>5. v.line[c] = u.line[c]
    BY <1>1, <1>2, <1>6, SetupTypes
  <2>6. Untouched(u, v, c)
    BY <1>1, <2>2, <2>3, <2>4, <2>5, NothingMoves DEF Untouched, Kept
  <2>7. QED
    BY <1>6, <2>6, BlockUntouched DEF SliceOK
<1>7. Tracked(Way(v, lat, d, b), v, arr, b)
  <2> DEFINE V == Way(u, lat, d, b)
             W == Way(v, lat, d, b)
  <2>1. /\ V[11] = u.fromdram /\ V[12] = u.out /\ W[11] = v.fromdram
        /\ \A m \in Stages \ {11} : W[m] = V[m]
    <3>1. /\ V[1] = u.rop /\ V[2] = u.in /\ V[3] = u.missq /\ V[4] = u.todram /\ V[12] = u.out
          /\ W[1] = v.rop /\ W[2] = v.in /\ W[3] = v.missq /\ W[4] = v.todram /\ W[12] = v.out
      BY WayOfSlice
    <3>2. QED
      BY <1>1, <3>1, WayOfSlice DEF Stages
  <2>2. Tracked(V, u, arr, b)
    BY <1>4
  <2>3. b \in Used /\ x \in Own(b) /\ <<"wb", b>> \in Own(b)
    BY <1>4, WritebackOwn
  <2> HIDE DEF V, W, b
  <2>4. Left(Own(b), V[11], W[11], x)
    BY <1>1, <1>2, <2>1, <2>3, HeadLeaves DEF x
  <2>5. \A m \in Stages \ {11} : Kept(Own(b), V[m], W[m])
    BY <2>1, NothingMoves
  <2>6. x \in Fetches(u, b) /\ ~Ahead(V, x, x)
    BY <1>3, <2>2, <2>3 DEF Tracked, Fetches
  <2>7. Ended(Own(b), V, W, x)
    BY <2>3, <2>4, <2>5, <2>6, WayEnds DEF Stages
  <2>8. Fetches(v, b) = {}
    <3>1. \A f \in Fetches(u, b) : f = x
      BY <2>2, <2>6 DEF Tracked
    <3>2. QED
      BY <1>1, <3>1 DEF Fetches
  <2>9. u.mshr[b] # <<>> /\ ~Has(u.ready, b)
    BY <2>2, <2>6 DEF Tracked
  <2>10. ~Stands(W, <<"wb", b>>)
    <3> SUFFICES ASSUME NEW m \in Stages, Has(W[m], <<"wb", b>>) PROVE FALSE
      BY DEF Stands
    <3>1. Has(V[m], <<"wb", b>>)
      BY <2>3, <2>7 DEF Ended
    <3>2. CASE m = 12
      <4>1. <<"wb", b>> \in CoreReqs(s)
        BY <1>2, <2>1, <3>1, <3>2, QueueFacts
      <4>2. QED
        BY <4>1 DEF CoreReqs
    <3>3. CASE m = 11
      <4>1. <<"wb", b>> \in S
        BY <1>2, <2>1, <3>1, <3>3, QueueFacts
      <4>2. QED
        BY <4>1 DEF S, IsWriteback, Kind
    <3>4. CASE m < 11
      <4>1. Ahead(V, x, <<"wb", b>>)
        BY <1>3, <2>1, <3>1, <3>4 DEF Ahead, Stages
      <4>2. QED
        BY <2>2, <2>6, <4>1 DEF Tracked
    <3>5. QED
      BY <3>2, <3>3, <3>4 DEF Stages
  <2>11. Joined({b}, u.ready, v.ready, b)
    <3>1. b \in R /\ b \in {b}
      BY <1>4, <2>3 DEF R
    <3>2. QED
      BY <1>1, <1>2, <3>1, TailJoins
  <2>12. Has(v.ready, b) /\ ~Before(v.ready, b, b)
    <3>1. ~Before(u.ready, b, b)
      BY <2>2 DEF Tracked
    <3>2. QED
      BY <2>9, <2>11, <3>1 DEF Joined
  <2>13. \A y \in Own(b) : /\ ~Ahead(W, y, y) /\ ~Before(v.mshr[b], y, y)
                           /\ Has(v.mshr[b], y) => (Stands(W, y) <=> y \in v.extra)
    BY <1>1, <2>2, <2>7 DEF Tracked, Ended
  <2>14. ASSUME NEW r \in Reqs, <<"alloc", r>> \in Own(b)
         PROVE  /\ Stands(W, <<"alloc", r>>) => <<"alloc", r>> \in v.extra
                /\ Has(v.mshr[b], <<"alloc", r>>) => r \in arr /\ ~Early(W, <<"req", r>>)
    <3>1. <<"req", r>> \in Own(b)
      BY <2>14 DEF Own, Mfs, Block
    <3>2. Early(W, <<"req", r>>) => Early(V, <<"req", r>>)
      BY <2>7, <3>1 DEF Ended, Early, Stages
    <3>3. QED
      BY <1>1, <2>2, <2>7, <2>14, <3>2 DEF Tracked, Ended
  <2>15. ASSUME NEW r \in Reqs, <<"req", r>> \in Own(b)
         PROVE  r \in v.tracker <=> (Stands(W, <<"req", r>>) \/ Has(v.mshr[b], <<"req", r>>))
    <3>1. r \in u.tracker <=> (Stands(V, <<"req", r>>) \/ Has(u.mshr[b], <<"req", r>>))
      BY <2>2, <2>15 DEF Tracked
    <3>2. Stands(W, <<"req", r>>) <=> (Stands(V, <<"req", r>>) /\ <<"req", r>> # x)
      BY <2>7, <2>15 DEF Ended
    <3>3. Has(u.mshr[b], x)
      <4>1. u.mshr \in [Blocks -> Seq({y \in OfSlice(s) : ~IsWrite(y)})]
        BY <1>0 DEF SliceTypes
      <4>2. u.mshr[b] \in Seq({y \in OfSlice(s) : ~IsWrite(y)})
        BY <1>4, <4>1 DEF b
      <4>3. x = Head(u.mshr[b])
        BY <2>2, <2>6 DEF Tracked
      <4>4. QED
        BY <2>9, <4>2, <4>3, QueueFacts
    <3>4. QED
      BY <1>1, <3>1, <3>2, <3>3
  <2>16. Tracked(W, v, arr, b)
    BY <1>1, <2>8, <2>9, <2>10, <2>12, <2>13, <2>14, <2>15 DEF Tracked
  <2>17. QED
    BY <2>16 DEF W
<1>8. QED
  BY <1>5, <1>6, <1>7 DEF SliceOK, v, x

\* The way of block b when y comes to wait, for a fetch of its own if none waits in q.
Reader(V, W, b, y, q) ==
  \A z \in Own(b) : /\ ~Ahead(W, z, z)
                    /\ (Stands(W, z) <=> IF z = y THEN q = <<>> ELSE Stands(V, z))
                    /\ (Early(W, z) => Early(V, z) /\ z # y)
                    /\ (Has(W[12], z) => Has(V[12], z) /\ z # y)
                    /\ (z # y => (Ahead(W, z, <<"wb", b>>) => Ahead(V, z, <<"wb", b>>)))

\* What a slice u keeps of block b becomes, in v, that y waits behind the list q.
NowWaits(u, v, W, arr, b, y, q) ==
  /\ y \in Own(b) /\ q = u.mshr[b] /\ v.mshr[b] = Append(q, y) /\ v.line[b] = "reserved"
  /\ v.extra \cap Own(b) = IF q = <<>> THEN Fetches(u, b) \cup {y} ELSE Fetches(u, b)
  /\ v.ready = u.ready /\ v.tracker = u.tracker
  /\ y \notin u.extra /\ ~Has(q, y)
  /\ \A r \in Reqs : y = <<"alloc", r>> => r \in arr /\ ~Early(W, <<"req", r>>)
  /\ \A r \in Reqs : y = <<"req", r>> => r \in u.tracker
  /\ q = <<>> => ~Ahead(W, y, <<"wb", b>>)

\* A read or allocation y of block b comes to wait.
LEMMA BlockReads ==
  ASSUME NEW b \in Used, NEW u, NEW v, NEW V, NEW W, NEW arr, Tracked(V, u, arr, b),
         NEW S, NEW q \in Seq(S), NEW y \in S,
         NowWaits(u, v, W, arr, b, y, q), Reader(V, W, b, y, q)
  PROVE  Tracked(W, v, arr, b)
<1> USE DEF NowWaits
<1>1. Joined(Own(b), q, Append(q, y), y)
  BY TailJoins
<1>2. Append(q, y) # <<>> /\ Head(Append(q, y)) = IF q = <<>> THEN y ELSE Head(q)
  OBVIOUS
<1> \A z \in Own(b) : /\ ~Ahead(W, z, z)
                       /\ (Stands(W, z) <=> IF z = y THEN q = <<>> ELSE Stands(V, z))
                       /\ (Early(W, z) => Early(V, z) /\ z # y)
                       /\ (Has(W[12], z) => Has(V[12], z) /\ z # y)
                       /\ (z # y => (Ahead(W, z, <<"wb", b>>) => Ahead(V, z, <<"wb", b>>)))
  BY DEF Reader
<1>3. q = <<>> => Fetches(u, b) = {} /\ ~Has(u.ready, b)
  BY DEF Tracked
<1>4. ASSUME NEW z \in Own(b)
      PROVE  /\ ~Ahead(W, z, z) /\ ~Before(v.mshr[b], z, z)
             /\ Has(v.mshr[b], z) => (Stands(W, z) <=> z \in v.extra)
  <2>1. ~Before(q, z, z) /\ (Has(q, z) => (Stands(V, z) <=> z \in u.extra))
    BY DEF Tracked
  <2>2. ~Before(v.mshr[b], z, z)
    BY <1>1, <2>1 DEF Joined
  <2>3. CASE z = y
    BY <2>2, <2>3 DEF Fetches
  <2>4. CASE z # y
    BY <1>1, <2>1, <2>2, <2>4 DEF Fetches, Joined
  <2>5. QED
    BY <2>3, <2>4
<1>5. ASSUME NEW f \in Fetches(v, b)
      PROVE  /\ v.mshr[b] # <<>> /\ f = Head(v.mshr[b])
             /\ Stands(W, f) /\ ~Early(W, f) /\ ~Has(W[12], f)
             /\ ~Ahead(W, f, <<"wb", b>>)
  <2>0. f \in Own(b)
    BY DEF Fetches
  <2>1. CASE q = <<>>
    <3>1. f = y
      BY <1>3, <2>1 DEF Fetches
    <3>2. QED
      BY <1>2, <2>0, <2>1, <3>1
  <2>2. CASE q # <<>>
    <3>1. f \in Fetches(u, b) /\ f # y
      BY <2>2 DEF Fetches
    <3>2. f = Head(q) /\ Stands(V, f) /\ ~Early(V, f) /\ ~Has(V[12], f) /\ ~Ahead(V, f, <<"wb", b>>)
      BY <3>1 DEF Tracked
    <3>3. QED
      BY <1>2, <2>0, <2>2, <3>1, <3>2
  <2>3. QED
    BY <2>1, <2>2
<1>6. ASSUME NEW r \in Reqs, <<"alloc", r>> \in Own(b)
      PROVE  /\ Stands(W, <<"alloc", r>>) => <<"alloc", r>> \in v.extra
             /\ Has(v.mshr[b], <<"alloc", r>>) => r \in arr /\ ~Early(W, <<"req", r>>)
  <2>1. <<"req", r>> \in Own(b)
    BY <1>6 DEF Own, Mfs, Block
  <2>2. CASE <<"alloc", r>> = y
    BY <1>6, <2>2 DEF Fetches
  <2>3. CASE <<"alloc", r>> # y
    BY <1>1, <1>6, <2>1, <2>3 DEF Tracked, Fetches, Joined
  <2>4. QED
    BY <2>2, <2>3
<1>7. ASSUME NEW r \in Reqs, <<"req", r>> \in Own(b)
      PROVE  r \in v.tracker <=> (Stands(W, <<"req", r>>) \/ Has(v.mshr[b], <<"req", r>>))
  <2>1. CASE <<"req", r>> = y
    BY <1>1, <1>7, <2>1 DEF Joined
  <2>2. CASE <<"req", r>> # y
    BY <1>1, <1>7, <2>2 DEF Tracked, Joined
  <2>3. QED
    BY <2>1, <2>2
<1>8. Has(v.ready, b) <=> Fetches(v, b) = {}
  <2>1. CASE q = <<>>
    BY <1>3, <2>1 DEF Fetches
  <2>2. CASE q # <<>>
    BY <2>2 DEF Fetches, Tracked
  <2>3. QED
    BY <2>1, <2>2
<1>9. ~Before(v.ready, b, b) /\ v.mshr[b] # <<>>
  BY <1>2 DEF Tracked
<1>10. v.line[b] \notin {"valid", "modified"}
  OBVIOUS
<1>11. QED
  BY <1>4, <1>5, <1>6, <1>7, <1>8, <1>9, <1>10 DEF Tracked

\* An evicted line, and its write-back.
LEMMA EvictOK ==
  ASSUME NEW s \in Subs, NEW u, NEW v, NEW lat, NEW d, NEW arr, SliceOK(u, s, lat, d, arr), setup \in Setups,
         NEW c \in Blocks, u.line[c] = "modified", Len(u.missq) < MissQueueSize,
         DOMAIN v = Fields, v.rop = u.rop, v.in = u.in, v.todram = u.todram, v.fromdram = u.fromdram,
         v.out = u.out, v.mshr = u.mshr, v.ready = u.ready, v.extra = u.extra, v.tracker = u.tracker,
         v.fill = u.fill, v.data \in Nat,
         v.line = [u.line EXCEPT ![c] = "none"], v.missq = Append(u.missq, <<"wb", c>>)
  PROVE  SliceOK(v, s, lat, d, arr)
<1> DEFINE x == <<"wb", c>>
<1>0. SliceTypes(u, s, arr) /\ DOMAIN u = Fields
  BY SliceSeqs DEF SliceOK
<1>1. /\ u.missq \in Seq(OfSlice(s)) /\ Len(u.missq) \in Nat
      /\ u.line \in [Blocks -> {"none", "reserved", "valid", "modified"}]
      /\ c \in Used /\ SubOf(c) = s
  BY <1>0 DEF SliceTypes
<1>2. x \in Mfs /\ Block(x) = c /\ x \in OfSlice(s)
  BY <1>1 DEF Mfs, Block, OfSlice
<1>3. SliceTypes(v, s, arr)
  <2>1. v.missq \in Seq(OfSlice(s)) /\ Len(v.missq) <= MissQueueSize
    <3>1. v.missq \in Seq(OfSlice(s)) /\ Len(v.missq) = Len(u.missq) + 1
      BY <1>1, <1>2
    <3>2. QED
      BY <1>1, <3>1, Sizes
  <2>2. /\ v.line \in [Blocks -> {"none", "reserved", "valid", "modified"}]
        /\ \A b \in Blocks : v.line[b] # "none" => b \in Used /\ SubOf(b) = s
    BY <1>0, <1>1 DEF SliceTypes
  <2>3. QED
    BY <1>0, <2>1, <2>2, FieldsOfSlice DEF SliceTypes
<1>4. ASSUME NEW b \in Used, SubOf(b) = s, b # c PROVE Tracked(Way(v, lat, d, b), v, arr, b)
  <2>1. x \notin Own(b)
    BY <1>2, <1>4 DEF Own
  <2>2. Kept(Own(b), u.missq, v.missq)
    BY <1>1, <1>2, <2>1, TailJoins
  <2>3. v.line[b] = u.line[b]
    BY <1>1, <1>4, SetupTypes
  <2>4. Untouched(u, v, b)
    BY <2>2, <2>3, NothingMoves DEF Untouched, Fetches
  <2>5. QED
    BY <1>4, <2>4, BlockUntouched DEF SliceOK
<1>5. Tracked(Way(v, lat, d, c), v, arr, c)
  <2> DEFINE V == Way(u, lat, d, c)
             W == Way(v, lat, d, c)
  <2>1. V[3] = u.missq /\ W[3] = v.missq /\ \A m \in Stages \ {3} : W[m] = V[m]
    <3>1. /\ V[1] = u.rop /\ V[2] = u.in /\ V[4] = u.todram /\ V[11] = u.fromdram /\ V[12] = u.out
          /\ W[1] = v.rop /\ W[2] = v.in /\ W[4] = v.todram /\ W[11] = v.fromdram /\ W[12] = v.out
      BY WayOfSlice
    <3>2. QED
      BY <3>1, WayOfSlice DEF Stages
  <2>2. Tracked(V, u, arr, c)
    BY <1>1 DEF SliceOK
  <2>3. c \in Used /\ x \in Own(c)
    BY <1>1, WritebackOwn
  <2> HIDE DEF V, W
  <2>4. ~Stands(V, x) /\ Fetches(u, c) = {}
    BY <2>2 DEF Tracked
  <2>5. Joined(Own(c), V[3], W[3], x)
    BY <1>1, <1>2, <2>1, <2>3, TailJoins
  <2>6. \A m \in Stages \ {3} : Kept(Own(c), V[m], W[m])
    BY <2>1, NothingMoves
  <2>7. Begun(Own(c), V, W, 3, x)
    BY <2>3, <2>4, <2>5, <2>6, WayBegins DEF Stages
  <2>8. v.line[c] = "none" /\ Fetches(v, c) = {}
    BY <1>1, <2>4 DEF Fetches
  <2>9. ~Has(u.mshr[c], x)
    <3>1. u.mshr \in [Blocks -> Seq({y \in OfSlice(s) : ~IsWrite(y)})]
      BY <1>0 DEF SliceTypes
    <3>2. u.mshr[c] \in Seq({y \in OfSlice(s) : ~IsWrite(y)})
      BY <3>1
    <3>3. IsWrite(x)
      BY DEF IsWrite, Kind
    <3>4. QED
      BY <3>2, <3>3, QueueFacts
  <2>10. \A y \in Own(c) : /\ ~Ahead(W, y, y) /\ ~Before(v.mshr[c], y, y)
                           /\ Has(v.mshr[c], y) => (Stands(W, y) <=> y \in v.extra)
    BY <2>2, <2>7, <2>9 DEF Tracked, Begun
  <2>11. ASSUME NEW r \in Reqs, <<"alloc", r>> \in Own(c)
         PROVE  /\ Stands(W, <<"alloc", r>>) => <<"alloc", r>> \in v.extra
                /\ Has(v.mshr[c], <<"alloc", r>>) => r \in arr /\ ~Early(W, <<"req", r>>)
    <3>1. <<"req", r>> \in Own(c)
      BY <2>11 DEF Own, Mfs, Block
    <3>2. Early(W, <<"req", r>>) => Early(V, <<"req", r>>)
      BY <2>7, <3>1 DEF Begun, Early, Stages
    <3>3. QED
      BY <2>2, <2>7, <2>11, <3>2 DEF Tracked, Begun
  <2>12. ASSUME NEW r \in Reqs, <<"req", r>> \in Own(c)
         PROVE  r \in v.tracker <=> (Stands(W, <<"req", r>>) \/ Has(v.mshr[c], <<"req", r>>))
    BY <2>2, <2>7, <2>12 DEF Tracked, Begun
  <2>13. /\ v.mshr[c] # <<>> => (Has(v.ready, c) <=> Fetches(v, c) = {})
         /\ Has(v.ready, c) => v.mshr[c] # <<>>
         /\ ~Before(v.ready, c, c)
    BY <2>2, <2>4, <2>8 DEF Tracked
  <2>14. Tracked(W, v, arr, c)
    BY <2>8, <2>10, <2>11, <2>12, <2>13 DEF Tracked
  <2>15. QED
    BY <2>14 DEF W
<1>6. QED
  BY <1>3, <1>4, <1>5 DEF SliceOK

\* A request y for block b comes to wait in slice u: its line is reserved, and it is
\* sent for the block if none is.
Waiting(u, v, y, b) ==
  /\ DOMAIN v = Fields /\ v.rop = u.rop /\ v.todram = u.todram /\ v.fromdram = u.fromdram
  /\ v.out = u.out /\ v.ready = u.ready /\ v.tracker = u.tracker /\ v.fill = u.fill /\ v.data = u.data
  /\ v.line = [u.line EXCEPT ![b] = "reserved"]
  /\ v.mshr = [u.mshr EXCEPT ![b] = Append(@, y)]
  /\ v.extra = IF u.mshr[b] = <<>> THEN u.extra \cup {y} ELSE u.extra
  /\ v.missq = IF u.mshr[b] = <<>> THEN Append(u.missq, y) ELSE u.missq
  /\ u.mshr[b] = <<>> => Len(u.missq) < MissQueueSize

\* The reader of a miss waits; its line is reserved.
LEMMA ReaderTypes ==
  ASSUME NEW s \in Subs, NEW u, NEW v, NEW arr, SliceTypes(u, s, arr), setup \in Setups, L2On,
         NEW y \in OfSlice(s), ~IsWrite(y), NEW b, b = Block(y),
         Waiting(u, v, y, b),
         v.in = u.in \/ (u.in # <<>> /\ v.in = Tail(u.in))
  PROVE  SliceTypes(v, s, arr)
<1> DEFINE M == {z \in OfSlice(s) : ~IsWrite(z)}
<1>w. /\ DOMAIN v = Fields /\ v.rop = u.rop /\ v.todram = u.todram /\ v.fromdram = u.fromdram
      /\ v.out = u.out /\ v.ready = u.ready /\ v.tracker = u.tracker /\ v.fill = u.fill /\ v.data = u.data
  BY DEF Waiting
<1>1. b \in Used /\ b \in Blocks /\ SubOf(b) = s /\ y \in M
  BY OwnBlocks, SetupTypes DEF OfSlice
<1>2. /\ u.missq \in Seq(OfSlice(s)) /\ Len(u.missq) \in Nat /\ Len(u.missq) <= MissQueueSize
      /\ u.in \in Seq(CoreReqs(s)) /\ Len(u.in) \in Nat /\ Len(u.in) <= InSize
      /\ u.line \in [Blocks -> {"none", "reserved", "valid", "modified"}]
      /\ u.mshr \in [Blocks -> Seq(M)] /\ u.extra \subseteq M
      /\ \A c \in Blocks : \A i \in DOMAIN u.mshr[c] : Block(u.mshr[c][i]) = c
  BY DEF SliceTypes
<1>3. v.in \in Seq(CoreReqs(s)) /\ Len(v.in) <= InSize
  <2>1. u.in # <<>> => Tail(u.in) \in Seq(CoreReqs(s)) /\ Len(Tail(u.in)) = Len(u.in) - 1
    BY <1>2
  <2>2. CASE v.in = u.in
    BY <1>2, <2>2
  <2>3. CASE u.in # <<>> /\ v.in = Tail(u.in)
    BY <1>2, <2>1, <2>3, Sizes
  <2>4. QED
    BY <2>2, <2>3
<1>4. v.missq \in Seq(OfSlice(s)) /\ Len(v.missq) <= MissQueueSize
  <2>1. Append(u.missq, y) \in Seq(OfSlice(s)) /\ Len(Append(u.missq, y)) = Len(u.missq) + 1
    BY <1>2
  <2>2. QED
    BY <1>2, <2>1, Sizes DEF Waiting
<1>5. v.mshr \in [Blocks -> Seq(M)] /\ \A c \in Blocks : \A i \in DOMAIN v.mshr[c] : Block(v.mshr[c][i]) = c
  <2> DEFINE q == u.mshr[b]
  <2>1. q \in Seq(M) /\ \A i \in DOMAIN q : Block(q[i]) = b
    BY <1>1, <1>2
  <2>2. Append(q, y) \in Seq(M) /\ \A i \in DOMAIN Append(q, y) : Append(q, y)[i] = y \/ (i \in DOMAIN q /\ Append(q, y)[i] = q[i])
    <3> HIDE DEF q, M
    <3> QED  BY <1>1, <2>1
  <2>3. v.mshr = [u.mshr EXCEPT ![b] = Append(q, y)]
    BY DEF Waiting
  <2>4. \A i \in DOMAIN Append(q, y) : Block(Append(q, y)[i]) = b
    BY <2>1, <2>2
  <2>5. QED
    <3> HIDE DEF q, M
    <3> QED  BY <1>1, <1>2, <2>2, <2>3, <2>4
<1>6. /\ v.line \in [Blocks -> {"none", "reserved", "valid", "modified"}]
      /\ \A c \in Blocks : v.line[c] # "none" => c \in Used /\ SubOf(c) = s
  BY <1>1, <1>2 DEF SliceTypes, Waiting
<1>7. v.extra \subseteq M /\ (v.extra # {} => L2On)
  BY <1>1, <1>2 DEF Waiting
<1>8. QED
  BY <1>w, <1>3, <1>4, <1>5, <1>6, <1>7, FieldsOfSlice DEF SliceTypes

\* rd_miss_base.
LEMMA ReadMissOK ==
  ASSUME NEW s \in Subs, NEW u, NEW v, NEW lat, NEW d, NEW arr, SliceOK(u, s, lat, d, arr),
         setup \in Setups, L2On, u.in # <<>>,
         NEW x, x = Head(u.in), ~IsWrite(x), NEW b, b = Block(x),
         v.in = Tail(u.in), Waiting(u, v, x, b)
  PROVE  SliceOK(v, s, lat, d, arr)
<1> DEFINE M == {z \in OfSlice(s) : ~IsWrite(z)}
<1>0. SliceTypes(u, s, arr)
  BY DEF SliceOK
<1>w. /\ DOMAIN v = Fields /\ v.rop = u.rop /\ v.todram = u.todram /\ v.fromdram = u.fromdram
      /\ v.out = u.out /\ v.ready = u.ready /\ v.tracker = u.tracker
      /\ v.extra = IF u.mshr[b] = <<>> THEN u.extra \cup {x} ELSE u.extra
      /\ v.missq = IF u.mshr[b] = <<>> THEN Append(u.missq, x) ELSE u.missq
  BY DEF Waiting
<1>1. /\ u.in \in Seq(CoreReqs(s)) /\ u.missq \in Seq(OfSlice(s)) /\ u.mshr \in [Blocks -> Seq(M)]
      /\ u.line \in [Blocks -> {"none", "reserved", "valid", "modified"}]
  BY <1>0 DEF SliceTypes
<1>2. x \in CoreReqs(s) /\ x \in OfSlice(s) /\ x \in Mfs /\ Has(u.in, x)
  <2>1. x \in CoreReqs(s) /\ Has(u.in, x)
    BY <1>1, QueueFacts
  <2>2. QED
    BY <2>1 DEF CoreReqs, OfSlice
<1>3. b \in Used /\ b \in Blocks /\ x \in Own(b) /\ SubOf(b) = s /\ x \in M
  BY <1>2, OwnBlocks, SetupTypes DEF OfSlice
<1>4. SliceTypes(v, s, arr)
  BY <1>0, <1>2, ReaderTypes
<1>5. ASSUME NEW c \in Used, SubOf(c) = s, c # b PROVE Tracked(Way(v, lat, d, c), v, arr, c)
  <2>1. x \notin Own(c)
    BY <1>5 DEF Own
  <2>2. Kept(Own(c), u.in, v.in)
    BY <1>1, <2>1, HeadLeaves
  <2>3. Kept(Own(c), u.missq, v.missq)
    <3>1. Kept(Own(c), u.missq, Append(u.missq, x))
      BY <1>1, <1>2, <2>1, TailJoins
    <3>2. QED
      BY <1>w, <3>1, NothingMoves
  <2>4. v.line[c] = u.line[c] /\ v.mshr[c] = u.mshr[c]
    BY <1>1, <1>5, SetupTypes DEF Waiting
  <2>5. Fetches(v, c) = Fetches(u, c)
    BY <1>w, <2>1 DEF Fetches
  <2>6. Untouched(u, v, c)
    BY <1>w, <2>2, <2>3, <2>4, <2>5, NothingMoves DEF Untouched
  <2>7. QED
    BY <1>5, <2>6, BlockUntouched DEF SliceOK
<1>6. Tracked(Way(v, lat, d, b), v, arr, b)
  <2> DEFINE V == Way(u, lat, d, b)
             W == Way(v, lat, d, b)
             q == u.mshr[b]
  <2>1. /\ V[1] = u.rop /\ V[2] = u.in /\ V[3] = u.missq /\ W[2] = v.in /\ W[3] = v.missq
        /\ \A m \in Stages \ {2, 3} : W[m] = V[m]
    <3>1. /\ V[1] = u.rop /\ V[4] = u.todram /\ V[11] = u.fromdram /\ V[12] = u.out
          /\ W[1] = v.rop /\ W[4] = v.todram /\ W[11] = v.fromdram /\ W[12] = v.out
      BY WayOfSlice
    <3>2. QED
      BY <1>w, <3>1, WayOfSlice DEF Stages
  <2>2. Tracked(V, u, arr, b)
    BY <1>3 DEF SliceOK
  <2>3. <<"wb", b>> \in Own(b) /\ q \in Seq(M)
    BY <1>1, <1>3, WritebackOwn
  <2>4. v.mshr[b] = Append(q, x) /\ v.line[b] = "reserved"
    BY <1>1, <1>3 DEF Waiting
  <2> HIDE DEF V, W, q
  <2>5. Left(Own(b), V[2], W[2], x)
    BY <1>1, <1>3, <2>1, HeadLeaves
  <2>6. Early(V, x) /\ Stands(V, x) /\ ~Ahead(V, x, x)
    BY <1>2, <1>3, <2>1, <2>2 DEF Early, Stands, Stages, Tracked
  <2>7. x \notin u.extra /\ ~Has(q, x)
    BY <1>3, <2>2, <2>6 DEF Tracked, Fetches, q
  <2>8. PICK r \in Reqs : x = <<"req", r>>
    BY <1>2 DEF CoreReqs, OfSlice, Mfs
  <2>9. r \in u.tracker
    BY <1>3, <2>2, <2>6, <2>8 DEF Tracked
  <2>10. v.extra \cap Own(b) = IF q = <<>> THEN Fetches(u, b) \cup {x} ELSE Fetches(u, b)
    BY <1>w, <1>3 DEF Fetches, q
  <2>11. /\ Reader(V, W, b, x, q)
         /\ q = <<>> => (Ahead(W, x, <<"wb", b>>) => Ahead(V, x, <<"wb", b>>))
    <3>0. ~Has(V[12], x) /\ ~Has(V[1], x)
      BY <1>2, <2>1, <2>6 DEF Ahead, Stages
    <3>1. CASE q = <<>>
      <4>1. Joined(Own(b), V[3], W[3], x)
        BY <1>1, <1>2, <1>3, <1>w, <2>1, <3>1, TailJoins DEF q
      <4>2. \A m \in Stages \ {2, 3} : Kept(Own(b), V[m], W[m])
        BY <2>1, NothingMoves
      <4>3. Moved(Own(b), V, W, 2, 3, x)
        BY <1>3, <2>5, <4>1, <4>2, WayMoves DEF Stages
      <4>4. \A y, z \in Own(b) : Ahead(W, y, z) => Ahead(V, y, z)
        BY <4>3 DEF Moved, Stages
      <4>5. \A z \in Own(b) : Early(W, z) => Early(V, z) /\ z # x
        BY <2>6, <3>0, <4>3 DEF Moved, Early, Stages
      <4>6. \A z \in Own(b) : Has(W[12], z) => Has(V[12], z) /\ z # x
        BY <3>0, <4>3 DEF Moved, Stages
      <4>7. \A z \in Own(b) : Stands(W, z) <=> Stands(V, z)
        BY <4>3 DEF Moved
      <4>8. \A z \in Own(b) : ~Ahead(W, z, z)
        BY <2>2, <4>4 DEF Tracked
      <4>9. QED
        BY <1>3, <2>3, <2>6, <3>1, <4>4, <4>5, <4>6, <4>7, <4>8 DEF Reader
    <3>2. CASE q # <<>>
      <4>1. \A m \in Stages \ {2} : Kept(Own(b), V[m], W[m])
        BY <1>w, <2>1, <3>2, NothingMoves DEF q
      <4>2. Ended(Own(b), V, W, x)
        BY <1>3, <2>5, <2>6, <4>1, WayEnds DEF Stages
      <4>3. \A z \in Own(b) : Early(W, z) => Early(V, z) /\ z # x
        BY <4>2 DEF Ended, Early, Stages, Stands
      <4>4. \A z \in Own(b) : Has(W[12], z) => Has(V[12], z) /\ z # x
        BY <3>0, <4>2 DEF Ended, Stages
      <4>5. \A z \in Own(b) : ~Ahead(W, z, z)
        BY <2>2, <4>2 DEF Tracked, Ended
      <4>6. QED
        BY <2>3, <3>2, <4>2, <4>3, <4>4, <4>5 DEF Ended, Reader
    <3>3. QED
      BY <3>1, <3>2
  <2>12. ~Ahead(V, x, <<"wb", b>>)
    <3>0. ~Has(V[1], <<"wb", b>>) /\ ~Has(V[2], <<"wb", b>>)
      <4>1. u.rop \in Seq(CoreReqs(s)) /\ u.in \in Seq(CoreReqs(s))
        BY <1>0 DEF SliceTypes
      <4>2. <<"wb", b>> \notin CoreReqs(s)
        BY DEF CoreReqs
      <4>3. QED
        BY <2>1, <4>1, <4>2, QueueFacts
    <3>1. \A m \in Stages : Has(V[m], x) => m = 2
      <4> TAKE m \in Stages
      <4>1. Has(V[2], x)
        BY <1>2, <2>1
      <4>2. m < 2 \/ m = 2 \/ m > 2
        BY DEF Stages
      <4>3. QED
        BY <2>6, <4>1, <4>2 DEF Ahead, Stages
    <3>2. ASSUME NEW m \in Stages, Before(V[m], x, <<"wb", b>>) PROVE FALSE
      <4>1. Has(V[m], x) /\ Has(V[m], <<"wb", b>>)
        BY <3>2 DEF Before, Has
      <4>2. QED
        BY <3>0, <3>1, <4>1
    <3>3. ASSUME NEW m \in Stages, NEW l \in Stages, m < l, Has(V[l], x), Has(V[m], <<"wb", b>>)
          PROVE  FALSE
      <4>1. l = 2
        BY <3>1, <3>3
      <4>2. m = 1
        BY <3>3, <4>1 DEF Stages
      <4>3. QED
        BY <3>0, <3>3, <4>2
    <3>4. QED
      BY <3>2, <3>3 DEF Ahead
  <2>13. Tracked(W, v, arr, b)
    <3>1. \A n \in Reqs : x = <<"alloc", n>> => n \in arr /\ ~Early(W, <<"req", n>>)
      BY <2>8
    <3>2. \A n \in Reqs : x = <<"req", n>> => n \in u.tracker
      BY <2>8, <2>9
    <3>3. q = u.mshr[b] /\ q \in Seq(M) /\ x \in M
      BY <1>3, <2>3 DEF q
    <3>4. v.ready = u.ready /\ v.tracker = u.tracker
      BY <1>w
    <3>5. Reader(V, W, b, x, q) /\ (q = <<>> => ~Ahead(W, x, <<"wb", b>>))
      BY ONLY <2>11, <2>12
    <3>6. NowWaits(u, v, W, arr, b, x, q)
      BY ONLY <1>3, <2>4, <2>7, <2>10, <3>1, <3>2, <3>3, <3>4, <3>5 DEF NowWaits
    <3> HIDE DEF M
    <3>7. QED
      BY ONLY <1>3, <2>2, <3>3, <3>5, <3>6, BlockReads
  <2>14. QED
    BY <2>13 DEF W
<1>7. QED
  BY <1>4, <1>5, <1>6 DEF SliceOK

\* wr_miss_wa reads the block the write x, which stands in the miss queue, has missed.
LEMMA AllocateOK ==
  ASSUME NEW s \in Subs, NEW u, NEW v, NEW lat, NEW d, NEW arr, SliceOK(u, s, lat, d, arr),
         setup \in Setups, L2On, NEW r \in arr, r \in Reqs, Has(u.missq, <<"req", r>>),
         NEW b, b = Block(<<"req", r>>), ~Has(u.mshr[b], <<"alloc", r>>),
         v.in = u.in, Waiting(u, v, <<"alloc", r>>, b)
  PROVE  SliceOK(v, s, lat, d, arr)
<1> DEFINE M == {z \in OfSlice(s) : ~IsWrite(z)}
           x == <<"req", r>>
           y == <<"alloc", r>>
<1>0. SliceTypes(u, s, arr)
  BY DEF SliceOK
<1>w. /\ DOMAIN v = Fields /\ v.rop = u.rop /\ v.todram = u.todram /\ v.fromdram = u.fromdram
      /\ v.out = u.out /\ v.ready = u.ready /\ v.tracker = u.tracker
      /\ v.extra = IF u.mshr[b] = <<>> THEN u.extra \cup {y} ELSE u.extra
      /\ v.missq = IF u.mshr[b] = <<>> THEN Append(u.missq, y) ELSE u.missq
  BY DEF Waiting
<1>1. /\ u.in \in Seq(CoreReqs(s)) /\ u.rop \in Seq(CoreReqs(s)) /\ u.missq \in Seq(OfSlice(s))
      /\ u.mshr \in [Blocks -> Seq(M)]
      /\ u.line \in [Blocks -> {"none", "reserved", "valid", "modified"}]
  BY <1>0 DEF SliceTypes
<1>2. x \in OfSlice(s) /\ x \in Mfs
  BY <1>1, QueueFacts DEF OfSlice
<1>3. /\ b \in Used /\ b \in Blocks /\ x \in Own(b) /\ SubOf(b) = s
      /\ y \in Mfs /\ Block(y) = b /\ y \in Own(b) /\ y \in OfSlice(s) /\ ~IsWrite(y) /\ y \in M
  <2>1. b \in Used /\ b \in Blocks /\ x \in Own(b) /\ SubOf(b) = s
    BY <1>2, OwnBlocks, SetupTypes DEF OfSlice
  <2>2. y \in Mfs /\ Block(y) = b /\ ~IsWrite(y)
    BY DEF Mfs, Block, IsWrite, Kind
  <2>3. QED
    BY <2>1, <2>2 DEF Own, OfSlice
<1>4. SliceTypes(v, s, arr)
  BY <1>0, <1>3, ReaderTypes
<1>5. ASSUME NEW c \in Used, SubOf(c) = s, c # b PROVE Tracked(Way(v, lat, d, c), v, arr, c)
  <2>1. y \notin Own(c)
    BY <1>3, <1>5 DEF Own
  <2>3. Kept(Own(c), u.missq, v.missq)
    <3>1. Kept(Own(c), u.missq, Append(u.missq, y))
      BY <1>1, <1>3, <2>1, TailJoins
    <3>2. QED
      BY <1>w, <3>1, NothingMoves
  <2>4. v.line[c] = u.line[c] /\ v.mshr[c] = u.mshr[c]
    BY <1>1, <1>5, SetupTypes DEF Waiting
  <2>5. Fetches(v, c) = Fetches(u, c)
    BY <1>w, <2>1 DEF Fetches
  <2>6. Untouched(u, v, c)
    BY <1>w, <2>3, <2>4, <2>5, NothingMoves DEF Untouched
  <2>7. QED
    BY <1>5, <2>6, BlockUntouched DEF SliceOK
<1>6. Tracked(Way(v, lat, d, b), v, arr, b)
  <2> DEFINE V == Way(u, lat, d, b)
             W == Way(v, lat, d, b)
             q == u.mshr[b]
  <2>1. /\ V[1] = u.rop /\ V[2] = u.in /\ V[3] = u.missq /\ W[3] = v.missq
        /\ \A m \in Stages \ {3} : W[m] = V[m]
    <3>1. /\ V[1] = u.rop /\ V[2] = u.in /\ V[4] = u.todram /\ V[11] = u.fromdram /\ V[12] = u.out
          /\ W[1] = v.rop /\ W[2] = v.in /\ W[4] = v.todram /\ W[11] = v.fromdram /\ W[12] = v.out
      BY WayOfSlice
    <3>2. QED
      BY <1>w, <3>1, WayOfSlice DEF Stages
  <2>2. Tracked(V, u, arr, b)
    BY <1>3 DEF SliceOK
  <2>3. <<"wb", b>> \in Own(b) /\ q \in Seq(M) /\ ~Has(q, y)
    BY <1>1, <1>3, WritebackOwn
  <2>4. v.mshr[b] = Append(q, y) /\ v.line[b] = "reserved"
    BY <1>1, <1>3 DEF Waiting
  <2>10. v.extra \cap Own(b) = IF q = <<>> THEN Fetches(u, b) \cup {y} ELSE Fetches(u, b)
    BY <1>w, <1>3 DEF Fetches, q
  <2>a. q = u.mshr[b]
    OBVIOUS
  <2> HIDE DEF V, W, q
  <2>5. y \notin u.extra /\ ~Stands(V, y)
    <3>1. y \notin Fetches(u, b)
      <4>1. q # <<>> => Has(q, Head(q))
        BY <2>3, QueueFacts
      <4>2. y \in Fetches(u, b) => q # <<>> /\ y = Head(q)
        BY <2>2, <2>a DEF Tracked
      <4>3. QED
        BY <2>3, <4>1, <4>2
    <3>2. y \notin u.extra
      BY <1>3, <3>1 DEF Fetches
    <3>3. Stands(V, y) => y \in u.extra
      BY <1>3, <2>2 DEF Tracked
    <3>4. QED
      BY <3>2, <3>3
  <2>6. ~Early(W, x)
    <3>1. Has(V[3], x) /\ ~Ahead(V, x, x)
      BY <1>3, <2>1, <2>2 DEF Tracked
    <3>2. ~Has(V[1], x) /\ ~Has(V[2], x)
      BY <3>1 DEF Ahead, Stages
    <3>3. QED
      BY <2>1, <3>2 DEF Early, Stages
  <2>7. \A z \in Own(b) : ~Ahead(V, z, z)
    BY <2>2 DEF Tracked
  <2>8. \A m \in Stages : ~Has(V[m], y)
    BY <2>5 DEF Stands
  <2>11. Reader(V, W, b, y, q) /\ (q = <<>> => ~Ahead(W, y, <<"wb", b>>))
    <3>1. CASE q = <<>>
      <4>1. Joined(Own(b), V[3], W[3], y)
        BY <1>1, <1>3, <1>w, <2>1, <2>a, <3>1, TailJoins
      <4>2. \A m \in Stages \ {3} : Kept(Own(b), V[m], W[m])
        BY <2>1, NothingMoves
      <4>3. Begun(Own(b), V, W, 3, y)
        BY <1>3, <2>5, <4>1, <4>2, WayBegins DEF Stages
      <4>4. \A z \in Own(b) : ~Ahead(W, z, z)
        BY <2>7, <4>3 DEF Begun
      <4>5. \A z \in Own(b) : Stands(W, z) <=> (Stands(V, z) \/ z = y)
        BY <4>3 DEF Begun
      <4>6. \A z \in Own(b) : \A m \in Stages \ {3} : Has(W[m], z) => Has(V[m], z) /\ z # y
        BY <2>8, <4>3 DEF Begun
      <4>7. \A z \in Own(b) : (Early(W, z) => Early(V, z) /\ z # y) /\ (Has(W[12], z) => Has(V[12], z) /\ z # y)
        BY <4>6 DEF Early, Stages
      <4>8. \A z \in Own(b) : z # y => (Ahead(W, z, <<"wb", b>>) => Ahead(V, z, <<"wb", b>>))
        BY <2>3, <4>3 DEF Begun
      <4>9. ~Ahead(W, y, <<"wb", b>>)
        <5>1. ~Has(V[1], <<"wb", b>>) /\ ~Has(V[2], <<"wb", b>>)
          <6>1. <<"wb", b>> \notin CoreReqs(s)
            BY DEF CoreReqs
          <6>2. QED
            BY <1>1, <2>1, <6>1, QueueFacts
        <5>2. \A m \in Stages : ~(m < 3 /\ Has(V[m], <<"wb", b>>))
          BY <5>1 DEF Stages
        <5>3. ~Ahead(V, y, <<"wb", b>>)
          <6>1. \A m \in Stages : ~Before(V[m], y, <<"wb", b>>)
            BY <2>8 DEF Has, Before
          <6>2. QED
            BY <2>8, <6>1 DEF Ahead
        <5>4. QED
          BY <1>3, <2>3, <4>3, <5>2, <5>3 DEF Begun
      <4>10. QED
        BY <3>1, <4>4, <4>5, <4>7, <4>8, <4>9 DEF Reader
    <3>2. CASE q # <<>>
      <4>1. \A m \in Stages : W[m] = V[m]
        BY <1>w, <2>1, <2>a, <3>2
      <4>2. \A m \in Stages : Kept(Own(b), V[m], W[m])
        BY <4>1, NothingMoves
      <4>3. \A z \in Own(b) : /\ Stands(W, z) <=> Stands(V, z)
                              /\ \A c \in Own(b) : Ahead(W, z, c) => Ahead(V, z, c)
        BY <4>2, WayKept
      <4>4. \A z \in Own(b) : (Early(W, z) => Early(V, z)) /\ (Has(W[12], z) => Has(V[12], z))
        BY <4>1 DEF Early, Stages
      <4>5. ~Early(V, y) /\ ~Has(V[12], y)
        BY <2>8 DEF Early, Stages
      <4>6. QED
        BY <2>3, <2>5, <2>7, <3>2, <4>3, <4>4, <4>5 DEF Reader
    <3>3. QED
      BY <3>1, <3>2
  <2>13. Tracked(W, v, arr, b)
    <3>1. \A n \in Reqs : y = <<"alloc", n>> => n \in arr /\ ~Early(W, <<"req", n>>)
      BY <2>6
    <3>2. \A n \in Reqs : y = <<"req", n>> => n \in u.tracker
      OBVIOUS
    <3>3. NowWaits(u, v, W, arr, b, y, q)
      BY <1>w, <1>3, <2>3, <2>4, <2>5, <2>10, <2>11, <2>a, <3>1, <3>2 DEF NowWaits
    <3>4. QED
      BY <1>3, <2>2, <2>3, <2>11, <3>3, BlockReads
  <2>14. QED
    BY <2>13 DEF W
<1>7. QED
  BY <1>4, <1>5, <1>6 DEF SliceOK

\* A push written as a concatenation.
LEMMA PutLast == ASSUME NEW S, NEW q \in Seq(S), NEW x \in S PROVE q \o <<x>> = Append(q, x)
OBVIOUS

\* The write of wr_miss_wa to its block, as if it were the miss of a bypass.
LEMMA WriteSentOK ==
  ASSUME NEW s \in Subs, NEW u, NEW lat, NEW d, NEW arr, SliceOK(u, s, lat, d, arr), setup \in Setups,
         u.in # <<>>, IsWrite(Head(u.in)), Len(u.missq) < MissQueueSize
  PROVE  LET v == [u EXCEPT !.in = Tail(@), !.missq = Append(@, Head(u.in))]
         IN SliceOK(v, s, lat, d, arr)
<1> DEFINE x == Head(u.in)
           v == [u EXCEPT !.in = Tail(@), !.missq = Append(@, x)]
<1>0. SliceTypes(u, s, arr) /\ DOMAIN u = Fields
  BY SliceSeqs DEF SliceOK
<1>1. /\ DOMAIN v = Fields /\ v.rop = u.rop /\ v.todram = u.todram /\ v.fromdram = u.fromdram
      /\ v.out = u.out /\ v.line = u.line /\ v.mshr = u.mshr /\ v.ready = u.ready
      /\ v.extra = u.extra /\ v.tracker = u.tracker /\ v.fill = u.fill /\ v.data = u.data
      /\ v.in = Tail(u.in) /\ v.missq = Append(u.missq, x)
  BY <1>0 DEF Fields
<1>2. /\ u.in \in Seq(CoreReqs(s)) /\ u.missq \in Seq(OfSlice(s)) /\ Len(u.missq) \in Nat
      /\ Len(u.in) \in Nat /\ Len(u.in) <= InSize
  BY <1>0 DEF SliceTypes
<1>3. x \in CoreReqs(s) /\ x \in OfSlice(s) /\ x \in Mfs
  BY <1>2 DEF OfSlice, CoreReqs
<1> HIDE DEF v, x
<1>4. SliceTypes(v, s, arr)
  <2>1. v.in \in Seq(CoreReqs(s)) /\ Len(v.in) = Len(u.in) - 1
    BY <1>1, <1>2
  <2>2. v.missq \in Seq(OfSlice(s)) /\ Len(v.missq) = Len(u.missq) + 1
    BY <1>1, <1>2, <1>3
  <2>3. Len(v.in) <= InSize /\ Len(v.missq) <= MissQueueSize
    BY <1>2, <2>1, <2>2, Sizes
  <2>4. QED
    BY <1>0, <1>1, <2>1, <2>2, <2>3, FieldsOfSlice DEF SliceTypes
<1>5. x \notin u.extra
  BY <1>0 DEF SliceTypes, x
<1>6. \A b \in Used : HeadGoes(Way(u, lat, d, b), Way(v, lat, d, b), 2, 3, x)
  <2> TAKE b \in Used
  <2> DEFINE V == Way(u, lat, d, b)
             W == Way(v, lat, d, b)
  <2>1. /\ V[1] = u.rop /\ V[2] = u.in /\ V[3] = u.missq /\ V[4] = u.todram /\ V[11] = u.fromdram
        /\ V[12] = u.out
        /\ W[1] = v.rop /\ W[2] = v.in /\ W[3] = v.missq /\ W[4] = v.todram /\ W[11] = v.fromdram
        /\ W[12] = v.out
        /\ \A m \in Stages \ {1, 2, 3, 4, 11, 12} : W[m] = V[m]
    BY WayOfSlice
  <2> HIDE DEF V, W
  <2>2. \A m \in Stages \ {2, 3} : W[m] = V[m]
    BY <1>1, <2>1 DEF Stages
  <2>3. V[2] \in Seq(Mfs) /\ V[3] \in Seq(Mfs)
    BY <1>0, <2>1, SliceSeqs
  <2>4. HeadGoes(V, W, 2, 3, x)
    BY <1>1, <2>1, <2>2, <2>3 DEF HeadGoes, x
  <2>5. QED
    BY <2>4 DEF V, W
<1>b. /\ 2 \in Stages /\ 3 \in Stages /\ 2 < 3
      /\ v.mshr = u.mshr /\ v.extra = u.extra /\ v.ready = u.ready /\ v.tracker = u.tracker
      /\ \A b \in Used : v.line[b] \in {"valid", "modified"} => u.line[b] \in {"valid", "modified"}
  BY <1>1 DEF Stages
<1>7. SliceOK(v, s, lat, d, arr)
  BY <1>3, <1>4, <1>5, <1>6, <1>b, SliceMoves
<1>8. QED
  BY <1>7 DEF v, x

\* The reader of a miss and its block, before the eviction.
Read(u, b, reader, in, missq) ==
  [u EXCEPT !.in = in,
            !.line = [u.line EXCEPT ![b] = "reserved"],
            !.mshr = [u.mshr EXCEPT ![b] = Append(@, reader)],
            !.extra = IF u.mshr[b] = <<>> THEN u.extra \cup {reader} ELSE u.extra,
            !.missq = IF u.mshr[b] = <<>> THEN Append(missq, reader) ELSE missq]
IsRead(u, v, b, y, in, missq) ==
  /\ DOMAIN v = Fields /\ v.rop = u.rop /\ v.todram = u.todram /\ v.fromdram = u.fromdram
  /\ v.out = u.out /\ v.ready = u.ready /\ v.tracker = u.tracker /\ v.fill = u.fill /\ v.data = u.data
  /\ v.in = in
  /\ v.line = [u.line EXCEPT ![b] = "reserved"]
  /\ v.mshr = [u.mshr EXCEPT ![b] = Append(@, y)]
  /\ v.extra = IF u.mshr[b] = <<>> THEN u.extra \cup {y} ELSE u.extra
  /\ v.missq = IF u.mshr[b] = <<>> THEN Append(missq, y) ELSE missq

\* What Read makes of a slice, field by field.
LEMMA ReadFields ==
  ASSUME NEW u, NEW b, NEW y, NEW in, NEW missq, DOMAIN u = Fields
  PROVE  IsRead(u, Read(u, b, y, in, missq), b, y, in, missq)
<1> DEFINE L == [u.line EXCEPT ![b] = "reserved"]
           M == [u.mshr EXCEPT ![b] = Append(@, y)]
           E == IF u.mshr[b] = <<>> THEN u.extra \cup {y} ELSE u.extra
           Q == IF u.mshr[b] = <<>> THEN Append(missq, y) ELSE missq
           v == Read(u, b, y, in, missq)
<1>1. v = [u EXCEPT !.in = in, !.line = L, !.mshr = M, !.extra = E, !.missq = Q]
  BY DEF Read
<1> HIDE DEF L, M, E, Q, v
<1>2. /\ DOMAIN v = Fields /\ v.rop = u.rop /\ v.todram = u.todram /\ v.fromdram = u.fromdram
      /\ v.out = u.out /\ v.ready = u.ready /\ v.tracker = u.tracker /\ v.fill = u.fill /\ v.data = u.data
      /\ v.in = in /\ v.line = L /\ v.mshr = M /\ v.extra = E /\ v.missq = Q
  BY <1>1 DEF Fields
<1>3. IsRead(u, v, b, y, in, missq)
  BY <1>2 DEF L, M, E, Q, IsRead
<1>4. QED
  BY <1>3 DEF v

\* The whole of a miss but for the line it evicts: a read, or a write and the read
\* allocation for it.
LEMMA ReadOK ==
  ASSUME NEW s \in Subs, NEW u, NEW lat, NEW d, NEW arr, SliceOK(u, s, lat, d, arr), setup \in Setups,
         L2On, u.in # <<>>, NEW x, x = Head(u.in), Len(u.missq) < MissQueueSize, IsWrite(x) => Len(u.missq) + 1 < MissQueueSize,
         NEW y, y = IF IsWrite(x) THEN <<"alloc", x[2]>> ELSE x,
         NEW missq, missq = IF IsWrite(x) THEN Append(u.missq, x) ELSE u.missq
  PROVE  SliceOK(Read(u, Block(x), y, Tail(u.in), missq), s, lat, d, arr)
<1> DEFINE b == Block(x)
           w == [u EXCEPT !.in = Tail(@), !.missq = missq]
           v == Read(u, b, y, Tail(u.in), missq)
<1>0. SliceTypes(u, s, arr) /\ DOMAIN u = Fields
  BY SliceSeqs DEF SliceOK
<1>1. /\ DOMAIN v = Fields /\ v.rop = u.rop /\ v.todram = u.todram /\ v.fromdram = u.fromdram
      /\ v.out = u.out /\ v.ready = u.ready /\ v.tracker = u.tracker /\ v.fill = u.fill /\ v.data = u.data
      /\ v.in = Tail(u.in)
      /\ v.line = [u.line EXCEPT ![b] = "reserved"]
      /\ v.mshr = [u.mshr EXCEPT ![b] = Append(@, y)]
      /\ v.extra = IF u.mshr[b] = <<>> THEN u.extra \cup {y} ELSE u.extra
      /\ v.missq = IF u.mshr[b] = <<>> THEN Append(missq, y) ELSE missq
  <2>1. IsRead(u, v, b, y, Tail(u.in), missq)
    BY <1>0, ReadFields
  <2>2. QED
    <3> HIDE DEF v, b
    <3> QED  BY <2>1 DEF IsRead
<1>2. /\ DOMAIN w = Fields /\ w.rop = u.rop /\ w.todram = u.todram /\ w.fromdram = u.fromdram
      /\ w.out = u.out /\ w.ready = u.ready /\ w.tracker = u.tracker /\ w.fill = u.fill /\ w.data = u.data
      /\ w.in = Tail(u.in) /\ w.line = u.line /\ w.mshr = u.mshr /\ w.extra = u.extra /\ w.missq = missq
  BY <1>0 DEF Fields
<1>3. /\ u.in \in Seq(CoreReqs(s)) /\ u.missq \in Seq(OfSlice(s)) /\ Len(u.missq) \in Nat
      /\ u.mshr \in [Blocks -> Seq({z \in OfSlice(s) : ~IsWrite(z)})]
  BY <1>0 DEF SliceTypes
<1>4. x \in CoreReqs(s) /\ x \in OfSlice(s) /\ x \in Mfs /\ Has(u.in, x)
  <2>1. x \in CoreReqs(s) /\ Has(u.in, x)
    BY <1>3, QueueFacts
  <2>2. QED
    BY <2>1 DEF OfSlice, CoreReqs
<1>5. CASE ~IsWrite(x)
  <2>1. Waiting(u, v, x, b)
    BY <1>1, <1>3, <1>5, Sizes DEF Waiting
  <2>2. QED
    BY <1>1, <1>5, <2>1, ReadMissOK
<1>6. CASE IsWrite(x)
  <2>1. w = [u EXCEPT !.in = Tail(@), !.missq = Append(@, x)]
    BY <1>6
  <2>2. SliceOK(w, s, lat, d, arr)
    BY <1>3, <1>6, <2>1, WriteSentOK, Sizes
  <2>3. PICK r \in Reqs : x = <<"req", r>>
    BY <1>4 DEF CoreReqs, OfSlice, Mfs
  <2>4. y = <<"alloc", r>>
    BY <1>6, <2>3
  <2>5. Len(w.missq) < MissQueueSize /\ Has(w.missq, x)
    <3>1. Len(missq) = Len(u.missq) + 1
      BY <1>3, <1>4, <1>6
    <3>2. Len(u.missq) + 1 < MissQueueSize
      BY <1>6
    <3>3. missq[Len(u.missq) + 1] = x /\ Len(u.missq) + 1 \in DOMAIN missq
      BY <1>3, <1>4, <1>6
    <3>4. QED
      BY <1>2, <3>1, <3>2, <3>3 DEF Has
  <2>6. Waiting(w, v, y, b)
    <3> HIDE DEF w, v
    <3> QED  BY <1>1, <1>2, <2>5 DEF Waiting
  <2>7. b \in Used /\ SubOf(b) = s /\ x \in Own(b)
    BY <1>4, OwnBlocks DEF OfSlice
  <2>8. Tracked(Way(u, lat, d, b), u, arr, b)
    BY <2>7 DEF SliceOK
  <2>9. Early(Way(u, lat, d, b), x) /\ Stands(Way(u, lat, d, b), x)
    <3>1. Has(Way(u, lat, d, b)[2], x)
      BY <1>4, WayOfSlice
    <3>2. QED
      BY <3>1 DEF Early, Stands, Stages
  <2>10. r \in arr
    <3>1. r \in u.tracker
      BY <2>3, <2>7, <2>8, <2>9 DEF Tracked
    <3>2. QED
      BY <1>0, <3>1 DEF SliceTypes
  <2>11. ~Has(w.mshr[b], <<"alloc", r>>)
    <3>1. <<"alloc", r>> \in Own(b)
      BY <2>3, <2>7 DEF Own, Mfs, Block
    <3>2. QED
      BY <1>2, <2>3, <2>8, <2>9, <3>1 DEF Tracked
  <2>12. v.in = w.in /\ b = Block(<<"req", r>>) /\ r \in arr
    BY <1>1, <1>2, <2>3, <2>10
  <2>13. SliceOK(v, s, lat, d, arr)
    <3> HIDE DEF w, v, b
    <3> QED  BY <2>2, <2>3, <2>4, <2>5, <2>6, <2>11, <2>12, AllocateOK
  <2>14. QED
    BY <2>13
<1>7. QED
  BY <1>5, <1>6

\* A miss: the reader, and the eviction of the line taken.
LEMMA MissOK ==
  ASSUME NEW s \in Subs, NEW u, NEW lat, NEW d, NEW arr, SliceOK(u, s, lat, d, arr), setup \in Setups,
         L2On, u.in # <<>>, Accepts(u, Head(u.in)), NEW victim \in Victims(u, Block(Head(u.in)))
  PROVE  SliceOK(Miss(u, Head(u.in), victim), s, lat, d, arr)
<1> DEFINE x == Head(u.in)
           b == Block(x)
           y == IF IsWrite(x) THEN <<"alloc", x[2]>> ELSE x
           m == IF IsWrite(x) THEN Append(u.missq, x) ELSE u.missq
           w == Read(u, b, y, Tail(u.in), m)
           dirty == victim # NoReq /\ victim # b /\ u.line[victim] = "modified"
           v == Miss(u, x, victim)
<1>0. SliceTypes(u, s, arr) /\ DOMAIN u = Fields
  BY SliceSeqs DEF SliceOK
<1>1. /\ u.in \in Seq(CoreReqs(s)) /\ u.missq \in Seq(OfSlice(s)) /\ Len(u.missq) \in Nat
      /\ u.mshr \in [Blocks -> Seq({z \in OfSlice(s) : ~IsWrite(z)})]
      /\ u.line \in [Blocks -> {"none", "reserved", "valid", "modified"}] /\ u.data \in Nat /\ u.fill \in Nat
  BY <1>0 DEF SliceTypes
<1>2. x \in CoreReqs(s) /\ x \in OfSlice(s) /\ x \in Mfs
  <2>1. x \in CoreReqs(s)
    BY <1>1
  <2>2. QED
    BY <2>1 DEF OfSlice, CoreReqs
<1>3. b \in Blocks
  BY <1>2, OwnBlocks, SetupTypes
<1>4. y \in Mfs
  BY <1>2 DEF CoreReqs, OfSlice, Mfs
<1>5. Len(u.missq) + 1 < MissQueueSize /\ (IsWrite(x) => Len(u.missq) + 2 < MissQueueSize)
  <2>1. Len(u.missq) + (IF IsWrite(x) THEN 2 ELSE 1) < MissQueueSize
    BY DEF Accepts
  <2> HIDE DEF x
  <2>2. CASE IsWrite(x)
    BY <1>1, <2>1, <2>2, Sizes
  <2>3. CASE ~IsWrite(x)
    BY <1>1, <2>1, <2>3, Sizes
  <2>4. QED
    BY <2>2, <2>3
<1>6. SliceOK(w, s, lat, d, arr)
  <2>1. Len(u.missq) < MissQueueSize /\ (IsWrite(x) => Len(u.missq) + 1 < MissQueueSize)
    BY <1>1, <1>5, Sizes
  <2>2. QED
    BY <2>1, ReadOK
<1>7. /\ DOMAIN w = Fields /\ w.rop = u.rop /\ w.todram = u.todram /\ w.fromdram = u.fromdram
      /\ w.out = u.out /\ w.ready = u.ready /\ w.tracker = u.tracker /\ w.fill = u.fill /\ w.data = u.data
      /\ w.in = Tail(u.in)
      /\ w.line = [u.line EXCEPT ![b] = "reserved"]
      /\ w.mshr = [u.mshr EXCEPT ![b] = Append(@, y)]
      /\ w.extra = IF u.mshr[b] = <<>> THEN u.extra \cup {y} ELSE u.extra
      /\ w.missq = IF u.mshr[b] = <<>> THEN Append(m, y) ELSE m
  <2>1. IsRead(u, w, b, y, Tail(u.in), m)
    BY <1>0, ReadFields
  <2>2. QED
    <3> HIDE DEF w, b, y, m, x
    <3> QED  BY <2>1 DEF IsRead
<1>8. /\ DOMAIN v = Fields /\ v.rop = u.rop /\ v.todram = u.todram /\ v.fromdram = u.fromdram
      /\ v.out = u.out /\ v.ready = u.ready /\ v.tracker = u.tracker /\ v.fill = u.fill
      /\ v.data = IF dirty /\ ~IsWrite(x) THEN LineCycles ELSE u.data
      /\ v.in = Tail(u.in)
      /\ v.line = [c \in Blocks |-> IF c = b THEN "reserved" ELSE IF c = victim THEN "none" ELSE u.line[c]]
      /\ v.mshr = [u.mshr EXCEPT ![b] = Append(@, y)]
      /\ v.extra = IF u.mshr[b] # <<>> THEN u.extra ELSE u.extra \cup {y}
      /\ v.missq = u.missq \o (IF IsWrite(x) THEN <<x>> ELSE <<>>)
                           \o (IF u.mshr[b] # <<>> THEN <<>> ELSE <<y>>)
                           \o (IF dirty THEN << <<"wb", victim>> >> ELSE <<>>)
  BY <1>0 DEF Fields, Miss
<1> HIDE DEF v, w, y
<1>9. m \in Seq(Mfs) /\ w.missq \in Seq(Mfs) /\ Len(w.missq) < MissQueueSize
  <2>1. u.missq \in Seq(Mfs)
    BY <1>0, SliceSeqs
  <2>2. /\ Append(u.missq, x) \in Seq(Mfs) /\ Len(Append(u.missq, x)) = Len(u.missq) + 1
    BY <1>2, <2>1
  <2>3. m \in Seq(Mfs) /\ Len(m) \in Nat /\ (Len(m) = Len(u.missq) \/ (IsWrite(x) /\ Len(m) = Len(u.missq) + 1))
    BY <1>1, <2>1, <2>2
  <2> HIDE DEF m, x
  <2>4. Append(m, y) \in Seq(Mfs) /\ Len(Append(m, y)) = Len(m) + 1
    BY <1>4, <2>3
  <2>5. w.missq \in Seq(Mfs) /\ (Len(w.missq) = Len(m) \/ Len(w.missq) = Len(m) + 1)
    BY <1>7, <2>3, <2>4
  <2>6. Len(m) + 1 < MissQueueSize
    BY <1>1, <1>5, <2>3, Sizes
  <2>7. QED
    BY <2>3, <2>5, <2>6, Sizes
<1>10. v.missq = w.missq \o (IF dirty THEN << <<"wb", victim>> >> ELSE <<>>)
  <2>1. u.missq \in Seq(Mfs)
    BY <1>0, SliceSeqs
  <2>a. \A q \in Seq(Mfs) : q \o <<>> = q
    OBVIOUS
  <2> HIDE DEF x
  <2>2. u.missq \o (IF IsWrite(x) THEN <<x>> ELSE <<>>) = m
    <3>1. CASE IsWrite(x)
      BY <1>2, <2>1, <3>1, PutLast
    <3>2. CASE ~IsWrite(x)
      BY <2>1, <2>a, <3>2
    <3>3. QED
      BY <3>1, <3>2
  <2> HIDE DEF m
  <2>3. m \o (IF u.mshr[b] # <<>> THEN <<>> ELSE <<y>>) = w.missq
    <3>1. CASE u.mshr[b] = <<>>
      BY <1>4, <1>7, <1>9, <3>1, PutLast
    <3>2. CASE u.mshr[b] # <<>>
      BY <1>7, <1>9, <2>a, <3>2
    <3>3. QED
      BY <3>1, <3>2
  <2>4. QED
    BY <1>8, <2>2, <2>3
<1>l. /\ DOMAIN w.line = Blocks /\ \A c \in Blocks : w.line[c] = IF c = b THEN "reserved" ELSE u.line[c]
      /\ v.line = [c \in Blocks |-> IF c = b THEN "reserved" ELSE IF c = victim THEN "none" ELSE u.line[c]]
  <2>1. DOMAIN u.line = Blocks /\ w.line = [u.line EXCEPT ![b] = "reserved"]
    BY <1>1, <1>7
  <2>2. QED
    BY <1>8, <2>1
<1>11. CASE dirty
  <2>1. victim \in Blocks /\ victim # b
    BY <1>11 DEF Victims
  <2>2. w.line[victim] = "modified"
    BY <1>1, <1>7, <1>11, <2>1
  <2>3. v.line = [w.line EXCEPT ![victim] = "none"]
    <3> HIDE DEF b
    <3>1. v.line = [c \in Blocks |-> IF c = victim THEN "none" ELSE w.line[c]]
      BY <1>l, <2>1
    <3>2. QED
      BY <1>l, <2>1, <3>1
  <2>4. v.missq = Append(w.missq, <<"wb", victim>>)
    <3>1. <<"wb", victim>> \in Mfs
      <4>1. SliceTypes(u, s, arr) /\ u.line[victim] # "none"
        BY <1>0, <1>11
      <4>2. victim \in Used
        BY <2>1, <4>1 DEF SliceTypes
      <4>3. QED
        BY <4>2 DEF Mfs
    <3>2. QED
      BY <1>9, <1>10, <1>11, <3>1, PutLast
  <2>5. v.data \in Nat
    BY <1>1, <1>8, Sizes
  <2>6. /\ DOMAIN v = Fields /\ v.rop = w.rop /\ v.in = w.in /\ v.todram = w.todram
        /\ v.fromdram = w.fromdram /\ v.out = w.out /\ v.mshr = w.mshr /\ v.ready = w.ready
        /\ v.extra = w.extra /\ v.tracker = w.tracker /\ v.fill = w.fill
    BY <1>7, <1>8
  <2>7. SliceOK(v, s, lat, d, arr)
    BY <1>6, <1>9, <2>1, <2>2, <2>3, <2>4, <2>5, <2>6, EvictOK
  <2>8. QED
    BY <2>7 DEF v
<1>12. CASE ~dirty
  <2>1. v.missq = w.missq
    <3>1. v.missq = w.missq \o <<>>
      BY <1>10, <1>12
    <3>2. QED
      BY <1>9, <3>1
  <2>2. /\ v.line \in [Blocks -> {"none", "reserved", "valid", "modified"}]
        /\ \A c \in Blocks : v.line[c] # "none" => w.line[c] = v.line[c]
    <3> HIDE DEF b
    <3>1. \A c \in Blocks : u.line[c] \in {"none", "reserved", "valid", "modified"}
      BY <1>1
    <3>2. \A c \in Blocks : v.line[c] \in {"none", "reserved", "valid", "modified"}
      BY <1>l, <3>1
    <3>3. QED
      BY <1>l, <3>2
  <2>3. /\ DOMAIN v = Fields /\ v.rop = w.rop /\ v.in = w.in /\ v.todram = w.todram
        /\ v.fromdram = w.fromdram /\ v.out = w.out /\ v.mshr = w.mshr /\ v.ready = w.ready
        /\ v.extra = w.extra /\ v.tracker = w.tracker /\ v.fill = w.fill /\ v.data = w.data
    BY <1>7, <1>8, <1>12
  <2>4. SliceTypes(v, s, arr)
    <3>1. SliceTypes(w, s, arr)
      BY <1>6 DEF SliceOK
    <3>2. \A c \in Blocks : v.line[c] # "none" => c \in Used /\ SubOf(c) = s
      BY <2>2, <3>1 DEF SliceTypes
    <3>5. QED
      BY <2>1, <2>2, <2>3, <3>1, <3>2, FieldsOfSlice DEF SliceTypes
  <2>5. \A c \in Used : v.line[c] \in {"valid", "modified"} => w.line[c] \in {"valid", "modified"}
    BY <2>2, SetupTypes
  <2>6. SliceOK(v, s, lat, d, arr)
    BY <1>6, <2>1, <2>3, <2>4, <2>5, SliceIdle
  <2>7. QED
    BY <2>6 DEF v
<1>13. QED
  BY <1>11, <1>12

-----------------------------------------------------------------------------
(* The slices in a step.                                                   *)

\* A slice of which nothing is kept but that more requests have arrived.
LEMMA MoreArrive ==
  ASSUME NEW s \in Subs, NEW u, NEW lat, NEW d, NEW arr, NEW more, arr \subseteq more,
         SliceOK(u, s, lat, d, arr)
  PROVE  SliceOK(u, s, lat, d, more)
<1>1. \A b \in Used : Untouched(u, u, b)
  BY NothingMoves DEF Untouched
<1>2. ASSUME NEW b \in Used, SubOf(b) = s PROVE Tracked(Way(u, lat, d, b), u, more, b)
  BY <1>1, <1>2, BlockUntouched DEF SliceOK
<1>3. SliceTypes(u, s, more)
  BY DEF SliceOK, SliceTypes
<1>4. QED
  BY <1>2, <1>3 DEF SliceOK

\* A response of DRAM.
LEMMA ForwardOK ==
  ASSUME NEW s \in Subs, NEW u, NEW lat, NEW d, NEW arr, SliceOK(u, s, lat, d, arr), setup \in Setups
  PROVE  SliceOK(Forward(u), s, lat, d, arr)
<1> DEFINE x == Head(u.fromdram)
           fill == [u EXCEPT !.fromdram = Tail(@), !.extra = @ \ {x}, !.fill = LineCycles,
                             !.line[Block(x)] = IF HasAtomic(u, Block(x)) THEN "modified" ELSE "valid",
                             !.ready = Append(@, Block(x))]
           pass == [u EXCEPT !.fromdram = Tail(@), !.out = Append(@, x)]
<1>1. \/ Forward(u) = u
      \/ u.fromdram # <<>> /\ x \in u.extra /\ Forward(u) = fill
      \/ u.fromdram # <<>> /\ ~(L2On /\ x \in u.extra) /\ ~Full(u.out, OutSize) /\ Forward(u) = pass
  BY DEF Forward
<1>2. u.fromdram # <<>> /\ x \in u.extra => SliceOK(fill, s, lat, d, arr)
  BY FillOK
<1>3. u.fromdram # <<>> /\ ~(L2On /\ x \in u.extra) /\ ~Full(u.out, OutSize) => SliceOK(pass, s, lat, d, arr)
  BY ForwardPassOK
<1>4. QED
  <2> HIDE DEF fill, pass, x
  <2> QED  BY <1>1, <1>2, <1>3

\* A new access, whatever the L2 makes of it.
LEMMA AccessedOK ==
  ASSUME NEW s \in Subs, NEW u, NEW lat, NEW d, NEW arr, SliceOK(u, s, lat, d, arr), setup \in Setups,
         NEW v \in Accessed(u)
  PROVE  SliceOK(v, s, lat, d, arr)
<1> DEFINE x == Head(u.in)
           pass == [u EXCEPT !.in = Tail(@), !.todram = Append(@, Head(u.in))]
<1>1. ForL2(x) => L2On
  BY DEF ForL2, L2On
<1>2. \/ v = u
      \/ u.in # <<>> /\ ~Full(u.todram, TodramSize) /\ v = pass
      \/ /\ u.in # <<>> /\ ~Full(u.out, OutSize) /\ u.line[Block(x)] \in {"valid", "modified"}
         /\ v = Hit(u, x)
      \/ /\ u.in # <<>> /\ ForL2(x) /\ Accepts(u, x)
         /\ \E victim \in Victims(u, Block(x)) : v = Miss(u, x, victim)
  BY DEF Accessed
<1>3. u.in # <<>> /\ ~Full(u.todram, TodramSize) => SliceOK(pass, s, lat, d, arr)
  BY BypassOK
<1>4. u.in # <<>> /\ ~Full(u.out, OutSize) /\ u.line[Block(x)] \in {"valid", "modified"}
      => SliceOK(Hit(u, x), s, lat, d, arr)
  BY HitOK
<1>5. ASSUME u.in # <<>>, ForL2(x), Accepts(u, x), NEW victim \in Victims(u, Block(x))
      PROVE  SliceOK(Miss(u, x, victim), s, lat, d, arr)
  BY <1>1, <1>5, MissOK
<1>6. QED
  <2> HIDE DEF pass, x
  <2> QED  BY <1>2, <1>3, <1>4, <1>5

\* memory_sub_partition::cache_cycle, without and with a new request.
LEMMA CycledCases ==
  ASSUME NEW s \in Subs, NEW ripe, NEW c \in Cycled(s, ripe)
  PROVE  \/ c.r = {} /\ \E v \in Accessed(SendMiss(Forward(Reply(sub[s])))) : c.slice = LeaveRop(v, ripe)
         \/ \E r \in {q \in Arrivals(s) : ~Full(sub[s].in, InSize)} :
              /\ c.r = {r}
              /\ \E v \in Accessed(SendMiss(Forward(Reply(Pushed(sub[s], r))))) : c.slice = LeaveRop(v, ripe)
<1> DEFINE A == {[slice |-> LeaveRop(v, ripe), r |-> {}] : v \in Accessed(SendMiss(Forward(Reply(sub[s]))))}
           B(r) == {[slice |-> LeaveRop(v, ripe), r |-> {r}] :
                v \in Accessed(SendMiss(Forward(Reply(Pushed(sub[s], r)))))}
           N == {q \in Arrivals(s) : ~Full(sub[s].in, InSize)}
<1>1. Cycled(s, ripe) = UNION {A, UNION {B(r) : r \in N}}
  BY DEF Cycled
<1>2. c \in A \/ \E r \in N : c \in B(r)
  <2> HIDE DEF A, B, N
  <2> QED  BY <1>1
<1>3. QED
  BY <1>2

\* A cycle keeps what is kept of a slice.
LEMMA CycledOK ==
  ASSUME NEW s \in Subs, SliceOK(sub[s], s, latency, dram, arrived), setup \in Setups,
         NEW ripe, NEW c \in Cycled(s, ripe)
  PROVE  /\ SliceOK(c.slice, s, latency, dram, arrived \cup c.r) /\ c.r \subseteq Reqs
<1>1. \/ c.r = {} /\ \E v \in Accessed(SendMiss(Forward(Reply(sub[s])))) : c.slice = LeaveRop(v, ripe)
      \/ \E r \in {q \in Arrivals(s) : ~Full(sub[s].in, InSize)} :
           /\ c.r = {r}
           /\ \E v \in Accessed(SendMiss(Forward(Reply(Pushed(sub[s], r))))) : c.slice = LeaveRop(v, ripe)
  BY CycledCases
<1>2. ASSUME NEW u, NEW arr, SliceOK(u, s, latency, dram, arr),
             NEW v \in Accessed(SendMiss(Forward(Reply(u))))
      PROVE  SliceOK(LeaveRop(v, ripe), s, latency, dram, arr)
  <2>1. SliceOK(Reply(u), s, latency, dram, arr)
    BY <1>2, ReplyOK
  <2>2. SliceOK(Forward(Reply(u)), s, latency, dram, arr)
    BY <2>1, ForwardOK
  <2>3. SliceOK(SendMiss(Forward(Reply(u))), s, latency, dram, arr)
    BY <2>2, SendMissOK
  <2>4. SliceOK(v, s, latency, dram, arr)
    BY <2>3, AccessedOK
  <2>5. QED
    BY <2>4, LeaveRopOK
<1>3. CASE c.r = {} /\ \E v \in Accessed(SendMiss(Forward(Reply(sub[s])))) : c.slice = LeaveRop(v, ripe)
  <2>1. arrived \cup c.r = arrived
    BY <1>3
  <2>2. QED
    BY <1>2, <1>3, <2>1
<1>4. ASSUME NEW r \in Arrivals(s), ~Full(sub[s].in, InSize), c.r = {r},
             \E v \in Accessed(SendMiss(Forward(Reply(Pushed(sub[s], r))))) : c.slice = LeaveRop(v, ripe)
      PROVE  /\ SliceOK(c.slice, s, latency, dram, arrived \cup c.r) /\ c.r \subseteq Reqs
  <2>1. r \in Reqs /\ r \notin arrived /\ SubOf(setup.reqs[r].block) = s
    BY DEF Arrivals
  <2>2. SliceOK(Pushed(sub[s], r), s, latency, dram, arrived \cup {r})
    BY <1>4, <2>1, PushedOK
  <2>3. QED
    BY <1>2, <1>4, <2>1, <2>2
<1>5. QED
  BY <1>1, <1>3, <1>4

\* The slices and their requests.
Slices ==
  /\ setup \in Setups
  /\ arrived \subseteq Reqs /\ answered \subseteq arrived
  /\ arrived \ answered = UNION {sub[s].tracker : s \in Subs}
  /\ DOMAIN sub = Subs
  /\ \A s \in Subs : SliceOK(sub[s], s, latency, dram, arrived)

\* The tracker of a slice holds requests of the slice that have arrived.
LEMMA TrackersArrived ==
  ASSUME \A s \in Subs : SliceOK(sub[s], s, latency, dram, arrived)
  PROVE  \A s \in Subs : sub[s].tracker \subseteq {r \in arrived : SubOf(setup.reqs[r].block) = s}
BY DEF SliceOK, SliceTypes

\* The setup never changes, so what is kept of slices speaks of the same requests.
LEMMA SameRequests ==
  ASSUME setup' = setup
  PROVE  /\ Reqs' = Reqs /\ Used' = Used /\ Mfs' = Mfs /\ (L2On' <=> L2On)
         /\ \A y \in Mfs : /\ Block(y)' = Block(y) /\ (IsWrite(y)' <=> IsWrite(y))
                           /\ (IsWriteback(y)' <=> IsWriteback(y))
         /\ \A b \in Blocks : Own(b)' = Own(b)
         /\ \A s \in Subs : /\ OfSlice(s)' = OfSlice(s) /\ CoreReqs(s)' = CoreReqs(s)
                            /\ {y \in OfSlice(s) : ~IsWrite(y)}' = {y \in OfSlice(s) : ~IsWrite(y)}
                            /\ {y \in OfSlice(s) : ~IsWriteback(y)}' = {y \in OfSlice(s) : ~IsWriteback(y)}
BY DEF Reqs, Used, Mfs, Kind, Block, IsWrite, IsWriteback, L2On, Own, OfSlice, CoreReqs

\* What is kept of a block, said of the values after a step.
LEMMA TrackedNext ==
  ASSUME setup' = setup, NEW b \in Blocks, NEW s \in Subs,
         Tracked(Way(sub'[s], latency', dram', b), sub'[s], arrived', b)
  PROVE  Tracked(Way(sub[s], latency, dram, b), sub[s], arrived, b)'
<1>1. Own(b)' = Own(b) /\ Reqs' = Reqs
  BY SameRequests
<1>2. QED
  BY <1>1 DEF Tracked, Fetches

\* The types of a slice, said of the values after a step.
LEMMA SliceTypesNext ==
  ASSUME setup' = setup, NEW s \in Subs, SliceTypes(sub'[s], s, arrived')
  PROVE  SliceTypes(sub[s], s, arrived)'
<1>1. /\ Used' = Used /\ (L2On' <=> L2On) /\ OfSlice(s)' = OfSlice(s) /\ CoreReqs(s)' = CoreReqs(s)
      /\ {y \in OfSlice(s) : ~IsWrite(y)}' = {y \in OfSlice(s) : ~IsWrite(y)}
      /\ {y \in OfSlice(s) : ~IsWriteback(y)}' = {y \in OfSlice(s) : ~IsWriteback(y)}
  BY SameRequests
<1> DEFINE u == sub[s]
           M == {y \in OfSlice(s) : ~IsWrite(y)}
           F == {y \in OfSlice(s) : ~IsWriteback(y)}
<1>3. /\ (DOMAIN u = DOMAIN EmptySlice)'
      /\ (u.rop \in Seq(CoreReqs(s)) /\ u.in \in Seq(CoreReqs(s)) /\ u.out \in Seq(CoreReqs(s)))'
      /\ (u.missq \in Seq(OfSlice(s)) /\ u.todram \in Seq(OfSlice(s)))'
      /\ (u.fill \in Nat /\ u.data \in Nat)'
      /\ (Len(u.in) <= InSize /\ Len(u.out) <= OutSize)'
      /\ (Len(u.todram) <= TodramSize /\ Len(u.fromdram) <= FromdramSize)'
      /\ (Len(u.missq) <= MissQueueSize)'
  BY <1>1 DEF SliceTypes
<1>4. (u.fromdram \in Seq(F))'
  BY <1>1 DEF SliceTypes
<1>5. /\ (u.line \in [Blocks -> {"none", "reserved", "valid", "modified"}])'
      /\ (\A b \in Blocks : u.line[b] # "none" => b \in Used /\ SubOf(b) = s)'
      /\ (u.ready \in Seq({b \in Used : SubOf(b) = s}))'
  BY <1>1 DEF SliceTypes
<1>6. (u.extra \subseteq M /\ (u.extra # {} => L2On))'
  BY <1>1 DEF SliceTypes
<1>7. (u.tracker \subseteq {r \in arrived : SubOf(setup.reqs[r].block) = s})'
  BY DEF SliceTypes
<1>8. (u.mshr \in [Blocks -> Seq(M)])'
  BY <1>1 DEF SliceTypes
<1>9. (\A b \in Blocks : \A i \in DOMAIN u.mshr[b] : Block(u.mshr[b][i]) = b)'
  <2> SUFFICES ASSUME NEW b \in Blocks, NEW i \in DOMAIN sub'[s].mshr[b]
               PROVE  Block(u.mshr[b][i])' = b
    OBVIOUS
  <2> DEFINE y == sub'[s].mshr[b][i]
  <2>1. Block(y) = b
    BY DEF SliceTypes
  <2>2. QED
    BY <2>1 DEF Block
<1>10. QED
  BY <1>3, <1>4, <1>5, <1>6, <1>7, <1>8, <1>9 DEF SliceTypes

\* What is kept of the slices, said of the values after a step.
LEMMA SlicesNext ==
  ASSUME setup' = setup, setup \in Setups, \A s \in Subs : SliceOK(sub'[s], s, latency', dram', arrived')
  PROVE  (\A s \in Subs : SliceOK(sub[s], s, latency, dram, arrived))'
<1> SUFFICES ASSUME NEW s \in Subs PROVE SliceOK(sub[s], s, latency, dram, arrived)'
  OBVIOUS
<1>0. SliceOK(sub'[s], s, latency', dram', arrived')
  OBVIOUS
<1>1. SliceTypes(sub'[s], s, arrived')
  BY <1>0 DEF SliceOK
<1>2. SliceTypes(sub[s], s, arrived)'
  BY <1>1, SliceTypesNext
<1>3. Used' = Used /\ Used \subseteq Blocks
  BY SameRequests, SetupTypes
<1>4. ASSUME NEW b \in Used, SubOf(b) = s
      PROVE  Tracked(Way(sub[s], latency, dram, b), sub[s], arrived, b)'
  <2>1. Tracked(Way(sub'[s], latency', dram', b), sub'[s], arrived', b)
    BY <1>0, <1>4 DEF SliceOK
  <2>2. b \in Blocks
    BY <1>3
  <2>3. QED
    BY <2>1, <2>2, TrackedNext
<1>5. (\A b \in Used : SubOf(b) = s => Tracked(Way(sub[s], latency, dram, b), sub[s], arrived, b))'
  BY <1>3, <1>4
<1>6. QED
  BY <1>2, <1>5 DEF SliceOK

\* After a step, too, the trackers hold requests that have arrived.
LEMMA TrackersNext ==
  ASSUME setup' = setup, setup \in Setups, \A s \in Subs : SliceOK(sub'[s], s, latency', dram', arrived')
  PROVE  \A s \in Subs : sub'[s].tracker \subseteq arrived'
BY DEF SliceOK, SliceTypes

\* A cycle of the L2 clock (memory_sub_partition::cache_cycle of every slice, with the
\* requests the interconnect delivers) keeps what is kept of the slices.
LEMMA L2CycleOK ==
  ASSUME Slices, NEW ripe, L2Cycle(ripe)
  PROVE  Slices'
<1>1. PICK c \in [Subs -> UNION {Cycled(s, s \in ripe) : s \in Subs}] :
       /\ \A s \in Subs : c[s] \in Cycled(s, s \in ripe)
       /\ sub' = [s \in Subs |-> c[s].slice]
       /\ arrived' = arrived \cup UNION {c[s].r : s \in Subs}
       /\ answered' = arrived' \ UNION {c[s].slice.tracker : s \in Subs}
  BY DEF L2Cycle
<1>2. setup' = setup /\ latency' = latency /\ dram' = dram
  BY DEF L2Cycle
<1>3. \A s \in Subs : SliceOK(c[s].slice, s, latency, dram, arrived \cup c[s].r) /\ c[s].r \subseteq Reqs
  BY <1>1, CycledOK DEF Slices
<1>4. \A s \in Subs : SliceOK(sub'[s], s, latency', dram', arrived')
  <2> TAKE s \in Subs
  <2>1. arrived \cup c[s].r \subseteq arrived'
    BY <1>1
  <2>2. SliceOK(c[s].slice, s, latency, dram, arrived')
    BY <1>3, <2>1, MoreArrive
  <2>3. sub'[s] = c[s].slice
    BY <1>1
  <2>4. QED
    BY <1>2, <2>2, <2>3
<1>5. (\A s \in Subs : SliceOK(sub[s], s, latency, dram, arrived))'
  BY <1>2, <1>4, SlicesNext DEF Slices
<1>6. \A s \in Subs : sub'[s].tracker \subseteq arrived'
  BY <1>2, <1>4, TrackersNext DEF Slices
<1>7. Reqs' = Reqs /\ arrived' \subseteq Reqs
  <2>1. Reqs' = Reqs
    BY <1>2, SameRequests
  <2>2. arrived \subseteq Reqs
    BY DEF Slices
  <2>3. UNION {c[s].r : s \in Subs} \subseteq Reqs
    BY <1>3
  <2>4. QED
    BY <1>1, <2>1, <2>2, <2>3
<1>8. /\ answered' \subseteq arrived'
      /\ arrived' \ answered' = UNION {sub'[s].tracker : s \in Subs}
      /\ DOMAIN sub' = Subs
  BY <1>1, <1>6
<1>9. QED
  BY <1>2, <1>5, <1>7, <1>8 DEF Slices

\* memory_sub_partition::pop: the request at the head of the queue to the interconnect
\* is answered.
Popped(u, done) == [u EXCEPT !.out = Tail(@), !.tracker = @ \ done]

\* A slice whose head of the queue to the interconnect is taken, and answered if it is
\* a request of a core.
LEMMA PopOK ==
  ASSUME NEW s \in Subs, NEW u, NEW v, NEW lat, NEW d, NEW arr, SliceOK(u, s, lat, d, arr), setup \in Setups,
         u.out # <<>>, NEW x, x = Head(u.out), NEW done,
         \A r \in u.tracker : r \in done <=> <<"req", r>> = x,
         v = Popped(u, done)
  PROVE  SliceOK(v, s, lat, d, arr)
<1>0. SliceTypes(u, s, arr) /\ DOMAIN u = Fields
  BY SliceSeqs DEF SliceOK
<1>1. /\ DOMAIN v = Fields /\ v.rop = u.rop /\ v.missq = u.missq /\ v.in = u.in
      /\ v.todram = u.todram /\ v.fromdram = u.fromdram /\ v.line = u.line /\ v.mshr = u.mshr
      /\ v.ready = u.ready /\ v.extra = u.extra /\ v.fill = u.fill /\ v.data = u.data
      /\ v.out = Tail(u.out) /\ v.tracker = u.tracker \ done
  BY <1>0 DEF Fields, Popped
<1>2. u.out \in Seq(CoreReqs(s)) /\ Len(u.out) \in Nat /\ Len(u.out) <= OutSize
  BY <1>0 DEF SliceTypes
<1>3. x \in CoreReqs(s) /\ x \in OfSlice(s) /\ x \in Mfs /\ Has(u.out, x)
  <2>1. x \in CoreReqs(s) /\ Has(u.out, x)
    BY <1>2, QueueFacts
  <2>2. QED
    BY <2>1 DEF OfSlice, CoreReqs
<1>4. SliceTypes(v, s, arr)
  <2>1. v.out \in Seq(CoreReqs(s)) /\ Len(v.out) = Len(u.out) - 1
    BY <1>1, <1>2
  <2>2. Len(v.out) <= OutSize
    BY <1>2, <2>1, Sizes
  <2>3. v.tracker \subseteq u.tracker
    BY <1>1
  <2>4. QED
    BY <1>0, <1>1, <2>1, <2>2, <2>3, FieldsOfSlice DEF SliceTypes
<1>5. ASSUME NEW b \in Used, SubOf(b) = s PROVE Tracked(Way(v, lat, d, b), v, arr, b)
  <2> DEFINE V == Way(u, lat, d, b)
             W == Way(v, lat, d, b)
  <2>1. V[12] = u.out /\ W[12] = v.out /\ \A m \in Stages \ {12} : W[m] = V[m]
    <3>1. /\ V[1] = u.rop /\ V[2] = u.in /\ V[3] = u.missq /\ V[4] = u.todram /\ V[11] = u.fromdram
          /\ V[12] = u.out
          /\ W[1] = v.rop /\ W[2] = v.in /\ W[3] = v.missq /\ W[4] = v.todram /\ W[11] = v.fromdram
          /\ W[12] = v.out
          /\ \A m \in Stages \ {1, 2, 3, 4, 11, 12} : W[m] = V[m]
      BY WayOfSlice
    <3> HIDE DEF V, W
    <3>2. QED
      BY <1>1, <3>1 DEF Stages
  <2>2. Tracked(V, u, arr, b)
    BY <1>5 DEF SliceOK
  <2> HIDE DEF V, W
  <2>3. \A m \in Stages \ {12} : Kept(Own(b), V[m], W[m])
    BY <2>1, NothingMoves
  <2>4. SameBooks(u, v, b)
    BY <1>1 DEF SameBooks, Fetches
  <2>5. \A r \in Reqs : <<"req", r>> \in Own(b) =>
           (r \in v.tracker <=> (r \in u.tracker /\ <<"req", r>> # x))
    BY <1>1
  <2>6. CASE x \in Own(b)
    <3>1. Left(Own(b), V[12], W[12], x)
      BY <1>1, <1>2, <2>1, <2>6, HeadLeaves
    <3>2. x \notin u.extra
      <4>1. x \notin Fetches(u, b)
        BY <1>3, <2>1, <2>2 DEF Tracked
      <4>2. QED
        BY <2>6, <4>1 DEF Fetches
    <3>0. 12 \in Stages
      BY DEF Stages
    <3>3. Tracked(W, v, arr, b)
      BY <2>2, <2>3, <2>4, <2>5, <2>6, <3>0, <3>1, <3>2, BlockEnds
    <3>4. QED
      BY <3>3 DEF W
  <2>7. CASE x \notin Own(b)
    <3>1. Kept(Own(b), u.out, v.out)
      BY <1>1, <1>2, <2>7, HeadLeaves
    <3>2. \A r \in Reqs : <<"req", r>> \in Own(b) => (r \in v.tracker <=> r \in u.tracker)
      BY <2>5, <2>7
    <3>3. Untouched(u, v, b)
      BY <1>1, <2>4, <3>1, <3>2, NothingMoves DEF Untouched, SameBooks
    <3>4. QED
      BY <1>5, <3>3, BlockUntouched DEF SliceOK
  <2>8. QED
    BY <2>6, <2>7
<1>6. QED
  BY <1>4, <1>5 DEF SliceOK

\* The head of the queue to the interconnect is a request of the slice that waits for
\* its answer.
LEMMA OutHead ==
  ASSUME NEW s \in Subs, NEW u, NEW lat, NEW d, NEW arr, SliceOK(u, s, lat, d, arr), u.out # <<>>
  PROVE  \E r \in u.tracker : Head(u.out) = <<"req", r>>
<1> DEFINE x == Head(u.out)
<1>1. u.out \in Seq(CoreReqs(s))
  BY DEF SliceOK, SliceTypes
<1>2. x \in CoreReqs(s) /\ Has(u.out, x)
  BY <1>1, QueueFacts
<1>3. PICK r \in Reqs : x = <<"req", r>>
  BY <1>2 DEF CoreReqs, OfSlice, Mfs
<1>4. x \in OfSlice(s)
  BY <1>2 DEF CoreReqs
<1> DEFINE W == Way(u, lat, d, Block(x))
<1>5. W[12] = u.out /\ Tracked(W, u, arr, Block(x)) /\ x \in Own(Block(x))
  BY <1>4, TrackedAt, WayOfSlice
<1> HIDE DEF W, x
<1>6. Stands(W, x)
  BY <1>2, <1>5 DEF Stands, Stages
<1>7. r \in u.tracker
  BY <1>3, <1>5, <1>6 DEF Tracked
<1>8. QED
  BY <1>3, <1>7 DEF x

\* The responses the interconnect takes keep what is kept of the slices.
LEMMA RespondOK ==
  ASSUME Slices, NEW ready \in SUBSET Subs, Respond(ready)
  PROVE  Slices'
<1> DEFINE takes == {s \in ready : sub[s].out # <<>>}
           done  == {Head(sub[s].out)[2] : s \in takes}
           After(s) == Popped(sub[s], done)
<1>1. /\ sub' = [s \in Subs |-> IF s \in takes THEN After(s) ELSE sub[s]]
      /\ answered' = answered \cup done
      /\ setup' = setup /\ arrived' = arrived /\ latency' = latency /\ dram' = dram
  BY DEF Respond, Popped
<1>2. setup \in Setups /\ \A s \in Subs : SliceOK(sub[s], s, latency, dram, arrived)
  BY DEF Slices
<1>3. \A s \in Subs : sub[s].tracker \subseteq {r \in arrived : SubOf(setup.reqs[r].block) = s}
  BY <1>2, TrackersArrived
<1>4. \A s \in takes : \E r \in sub[s].tracker : Head(sub[s].out) = <<"req", r>>
  BY <1>2, OutHead
<1>5. \A s \in takes : \A r \in sub[s].tracker : r \in done <=> <<"req", r>> = Head(sub[s].out)
  <2> TAKE s \in takes
  <2> TAKE r \in sub[s].tracker
  <2>1. CASE r \in done
    <3>1. PICK t \in takes : r = Head(sub[t].out)[2]
      BY <2>1
    <3>2. PICK q \in sub[t].tracker : Head(sub[t].out) = <<"req", q>>
      BY <1>4
    <3>3. q = r /\ t = s
      BY <1>3, <3>1, <3>2
    <3>4. QED
      BY <2>1, <3>2, <3>3
  <2>2. CASE <<"req", r>> = Head(sub[s].out)
    <3>1. Head(sub[s].out)[2] = r
      BY <2>2
    <3>2. QED
      BY <2>2, <3>1
  <2>3. QED
    BY <2>1, <2>2
<1>6. \A s \in Subs \ takes : sub[s].tracker \cap done = {}
  <2> SUFFICES ASSUME NEW s \in Subs \ takes, NEW r \in sub[s].tracker, r \in done PROVE FALSE
    OBVIOUS
  <2>1. PICK t \in takes : r = Head(sub[t].out)[2]
    OBVIOUS
  <2>2. PICK q \in sub[t].tracker : Head(sub[t].out) = <<"req", q>>
    BY <1>4
  <2>3. q = r /\ t = s
    BY <1>3, <2>1, <2>2
  <2>4. QED
    BY <2>3
<1>7. done \subseteq arrived
  <2> SUFFICES ASSUME NEW t \in takes PROVE Head(sub[t].out)[2] \in arrived
    OBVIOUS
  <2>1. PICK q \in sub[t].tracker : Head(sub[t].out) = <<"req", q>>
    BY <1>4
  <2>2. QED
    BY <1>3, <2>1
<1>8. ASSUME NEW s \in Subs PROVE SliceOK(sub'[s], s, latency', dram', arrived')
  <2>1. CASE s \in takes
    <3>1. sub'[s] = After(s)
      BY <1>1, <2>1
    <3>2. SliceOK(sub'[s], s, latency, dram, arrived)
      <4> DEFINE u == sub[s]
                 v == sub'[s]
                 x == Head(u.out)
      <4>1. SliceOK(u, s, latency, dram, arrived) /\ u.out # <<>>
        BY <1>2, <2>1
      <4>2. \A r \in u.tracker : r \in done <=> <<"req", r>> = x
        BY <1>5, <2>1
      <4>3. v = Popped(u, done)
        BY <3>1
      <4> HIDE DEF u, v, x, takes, done
      <4>4. SliceOK(v, s, latency, dram, arrived)
        BY <1>2, <4>1, <4>2, <4>3, PopOK DEF x
      <4>5. QED
        BY <4>4 DEF v
    <3>3. QED
      BY <1>1, <3>2
  <2>2. CASE s \notin takes
    BY <1>1, <1>2, <2>2
  <2>3. QED
    BY <2>1, <2>2
<1>9. (\A s \in Subs : SliceOK(sub[s], s, latency, dram, arrived))'
  BY <1>1, <1>2, <1>8, SlicesNext
<1>10. ASSUME NEW s \in Subs PROVE sub'[s].tracker = sub[s].tracker \ done
  <2>1. CASE s \in takes
    <3>1. sub'[s] = After(s)
      BY <1>1, <2>1
    <3>2. "tracker" \in DOMAIN sub[s]
      <4>1. DOMAIN sub[s] = Fields
        BY <1>2, SliceSeqs DEF SliceOK
      <4>2. QED
        BY <4>1 DEF Fields
    <3>3. QED
      BY <3>1, <3>2 DEF Popped
  <2>2. CASE s \notin takes
    BY <1>1, <1>6, <2>2
  <2>3. QED
    BY <2>1, <2>2
<1>11. DOMAIN sub' = Subs
  BY <1>1
<1>12. arrived' \ answered' = UNION {sub'[s].tracker : s \in Subs}
  <2>1. arrived \ answered = UNION {sub[s].tracker : s \in Subs}
    BY DEF Slices
  <2> HIDE DEF done, takes
  <2>2. arrived' \ answered' = (arrived \ answered) \ done
    BY <1>1
  <2>3. ASSUME NEW r PROVE r \in (arrived \ answered) \ done <=> \E s \in Subs : r \in sub'[s].tracker
    BY <1>10, <2>1
  <2>4. QED
    BY <2>2, <2>3
<1>13. Reqs' = Reqs
  BY <1>1, SameRequests
<1>14. QED
  BY <1>1, <1>7, <1>9, <1>11, <1>12, <1>13 DEF Slices

\* gpgpu_flush_l2_cache.
LEMMA FlushOK ==
  ASSUME Slices, Flush
  PROVE  Slices'
<1> DEFINE v == [sub[0] EXCEPT !.line = EmptySlice.line]
<1>1. /\ sub' = [sub EXCEPT ![0] = v]
      /\ setup' = setup /\ arrived' = arrived /\ answered' = answered /\ latency' = latency /\ dram' = dram
  BY DEF Flush
<1>2. setup \in Setups /\ (\A s \in Subs : SliceOK(sub[s], s, latency, dram, arrived)) /\ DOMAIN sub = Subs
  BY DEF Slices
<1>3. 0 \in Subs
  BY PartitionConstants DEF Subs
<1>4. SliceTypes(sub[0], 0, arrived) /\ DOMAIN sub[0] = Fields
  BY <1>2, <1>3, SliceSeqs DEF SliceOK
<1>5. /\ DOMAIN v = Fields /\ v.rop = sub[0].rop /\ v.missq = sub[0].missq /\ v.in = sub[0].in
      /\ v.todram = sub[0].todram /\ v.fromdram = sub[0].fromdram /\ v.out = sub[0].out
      /\ v.mshr = sub[0].mshr /\ v.ready = sub[0].ready /\ v.extra = sub[0].extra
      /\ v.tracker = sub[0].tracker /\ v.fill = sub[0].fill /\ v.data = sub[0].data
      /\ v.line = [b \in Blocks |-> "none"]
  BY <1>4 DEF Fields, EmptySlice
<1> HIDE DEF v
<1>6. SliceTypes(v, 0, arrived)
  BY <1>4, <1>5, FieldsOfSlice DEF SliceTypes
<1>7. \A b \in Used : v.line[b] \in {"valid", "modified"} => sub[0].line[b] \in {"valid", "modified"}
  BY <1>2, <1>5, SetupTypes
<1>8. SliceOK(v, 0, latency, dram, arrived)
  BY <1>2, <1>3, <1>5, <1>6, <1>7, SliceIdle
<1>9. \A s \in Subs : SliceOK(sub'[s], s, latency', dram', arrived')
  BY <1>1, <1>2, <1>3, <1>8
<1>10. (\A s \in Subs : SliceOK(sub[s], s, latency, dram, arrived))'
  BY <1>1, <1>2, <1>9, SlicesNext
<1>11. DOMAIN sub' = Subs /\ \A s \in Subs : sub'[s].tracker = sub[s].tracker
  BY <1>1, <1>2, <1>3, <1>5
<1>12. UNION {sub'[s].tracker : s \in Subs} = UNION {sub[s].tracker : s \in Subs}
  BY <1>11
<1>13. Reqs' = Reqs
  BY <1>1, SameRequests
<1>14. QED
  BY <1>1, <1>10, <1>11, <1>12, <1>13 DEF Slices

-----------------------------------------------------------------------------
(* The channel.                                                            *)

\* The part of the way through the channel.
Lane(lat, d, b) == Way(EmptySlice, lat, d, b)

\* The six stages of the channel on a way.
LEMMA WayOfLane ==
  ASSUME NEW u, NEW lat, NEW d, NEW b
  PROVE  LET V == Way(u, lat, d, b)
         IN /\ V[5] = lat /\ V[6] = MfsOf(d.mrqq) /\ V[7] = MfsOf(d.queue[BankOfBlock[b]])
            /\ V[8] = ServedBy(d, BankOfBlock[b]) /\ V[9] = OnBus(d.rwq.slots) /\ V[10] = MfsOf(d.returnq)
BY DEF Way

\* The channel is nothing but those six stages of a way.
LEMMA OnlyLane ==
  ASSUME NEW u, NEW lat, NEW d, NEW next, NEW e, NEW b
  PROVE  LET V == Way(u, lat, d, b)
             W == Way(u, next, e, b)
         IN \A m \in Stages \ (5..10) : W[m] = V[m]
BY DEF Way, Stages

\* Of the requests of block b, x goes on from stage k to stage l, if it is one of them,
\* and passes none of them.
PassesOn(V, W, b, k, l, x) ==
  /\ x \in Own(b) => /\ Left(Own(b), V[k], W[k], x) /\ Joined(Own(b), V[l], W[l], x)
                     /\ \A m \in Stages : k < m /\ m < l => \A z \in Own(b) : ~Has(V[m], z)
  /\ x \notin Own(b) => Kept(Own(b), V[k], W[k]) /\ Kept(Own(b), V[l], W[l])
  /\ \A m \in Stages \ {k, l} : Kept(Own(b), V[m], W[m])

\* What is kept of a block stays true when its requests stay in their queues.
LEMMA BlockStays ==
  ASSUME NEW b \in Used, NEW u, NEW v, NEW V, NEW W, NEW arr, Tracked(V, u, arr, b),
         \A m \in Stages : Kept(Own(b), V[m], W[m]), SameBooks(u, v, b),
         \A r \in Reqs : <<"req", r>> \in Own(b) => (r \in v.tracker <=> r \in u.tracker)
  PROVE  Tracked(W, v, arr, b)
<1>1. \A y \in Own(b) : /\ Stands(W, y) <=> Stands(V, y)
                        /\ \A z \in Own(b) : Ahead(W, y, z) => Ahead(V, y, z)
  BY WayKept
<1>2. \A y \in Own(b) : (Early(W, y) => Early(V, y)) /\ (Has(W[12], y) => Has(V[12], y))
  BY DEF Kept, Early, Stages
<1>3. QED
  BY <1>1, <1>2, TrackedKept DEF SameBooks

\* What is kept of a block stays true when a request goes on to a later stage, but for
\* the last.
LEMMA BlockPasses ==
  ASSUME NEW b \in Used, NEW u, NEW v, NEW V, NEW W, NEW arr, Tracked(V, u, arr, b),
         NEW k \in Stages, NEW l \in Stages, k < l, l # 12, NEW x, PassesOn(V, W, b, k, l, x),
         SameBooks(u, v, b),
         \A r \in Reqs : <<"req", r>> \in Own(b) => (r \in v.tracker <=> r \in u.tracker)
  PROVE  Tracked(W, v, arr, b)
<1>1. CASE x \in Own(b)
  <2>1. /\ Left(Own(b), V[k], W[k], x) /\ Joined(Own(b), V[l], W[l], x)
        /\ \A m \in Stages : k < m /\ m < l => \A z \in Own(b) : ~Has(V[m], z)
        /\ \A m \in Stages \ {k, l} : Kept(Own(b), V[m], W[m])
    BY <1>1 DEF PassesOn
  <2>2. QED
    BY <1>1, <2>1, BlockMoves
<1>2. CASE x \notin Own(b)
  <2>1. \A m \in Stages : Kept(Own(b), V[m], W[m])
    BY <1>2 DEF PassesOn
  <2>2. QED
    BY <2>1, BlockStays
<1>3. QED
  BY <1>1, <1>2

\* The slices do not see what moves in the channel.
LEMMA LanePasses ==
  ASSUME NEW s \in Subs, NEW u, NEW lat, NEW d, NEW next, NEW e, NEW arr, SliceOK(u, s, lat, d, arr),
         NEW k \in 5..10, NEW l \in 5..10, k < l, NEW x,
         \A b \in Used : PassesOn(Lane(lat, d, b), Lane(next, e, b), b, k, l, x)
  PROVE  SliceOK(u, s, next, e, arr)
<1> SUFFICES ASSUME NEW b \in Used, SubOf(b) = s PROVE Tracked(Way(u, next, e, b), u, arr, b)
  BY DEF SliceOK
<1> DEFINE V == Way(u, lat, d, b)
           W == Way(u, next, e, b)
           A == Lane(lat, d, b)
           B == Lane(next, e, b)
<1>1. \A m \in 5..10 : A[m] = V[m] /\ B[m] = W[m]
  <2>1. /\ A[5] = V[5] /\ A[6] = V[6] /\ A[7] = V[7] /\ A[8] = V[8] /\ A[9] = V[9] /\ A[10] = V[10]
        /\ B[5] = W[5] /\ B[6] = W[6] /\ B[7] = W[7] /\ B[8] = W[8] /\ B[9] = W[9] /\ B[10] = W[10]
    BY WayOfLane DEF Lane
  <2> HIDE DEF V, W, A, B
  <2>2. QED
    BY <2>1
<1>2. \A m \in Stages \ (5..10) : W[m] = V[m]
  BY OnlyLane
<1>3. PassesOn(A, B, b, k, l, x)
  OBVIOUS
<1>4. Tracked(V, u, arr, b)
  BY DEF SliceOK
<1> HIDE DEF V, W, A, B
<1>5. PassesOn(V, W, b, k, l, x)
  <2>0. k \in Stages /\ l \in Stages /\ \A m \in Stages : k < m /\ m < l => m \in 5..10
    BY DEF Stages
  <2>1. \A m \in Stages \ {k, l} : Kept(Own(b), V[m], W[m])
    <3> TAKE m \in Stages \ {k, l}
    <3>1. CASE m \in 5..10
      BY <1>1, <1>3, <3>1 DEF PassesOn
    <3>2. CASE m \notin 5..10
      BY <1>2, <3>2, NothingMoves
    <3>3. QED
      BY <3>1, <3>2
  <2>2. x \in Own(b) => /\ Left(Own(b), V[k], W[k], x) /\ Joined(Own(b), V[l], W[l], x)
                        /\ \A m \in Stages : k < m /\ m < l => \A z \in Own(b) : ~Has(V[m], z)
    BY <1>1, <1>3, <2>0 DEF PassesOn
  <2>3. x \notin Own(b) => Kept(Own(b), V[k], W[k]) /\ Kept(Own(b), V[l], W[l])
    BY <1>1, <1>3 DEF PassesOn
  <2>4. QED
    BY <2>1, <2>2, <2>3 DEF PassesOn
<1>6. Tracked(W, u, arr, b)
  <2>1. k \in Stages /\ l \in Stages /\ l # 12
    BY DEF Stages
  <2>2. QED
    BY <1>4, <1>5, <2>1, BlockPasses DEF SameBooks
<1>7. QED
  BY <1>6 DEF W

\* What is kept of a slice stays true when its requests stay in the channel.
LEMMA LaneStays ==
  ASSUME NEW s \in Subs, NEW u, NEW lat, NEW d, NEW next, NEW e, NEW arr, SliceOK(u, s, lat, d, arr),
         \A b \in Used : SubOf(b) = s =>
           \A m \in 5..10 : Kept(Own(b), Lane(lat, d, b)[m], Lane(next, e, b)[m])
  PROVE  SliceOK(u, s, next, e, arr)
<1> SUFFICES ASSUME NEW b \in Used, SubOf(b) = s PROVE Tracked(Way(u, next, e, b), u, arr, b)
  BY DEF SliceOK
<1> DEFINE V == Way(u, lat, d, b)
           W == Way(u, next, e, b)
           A == Lane(lat, d, b)
           B == Lane(next, e, b)
<1>1. \A m \in 5..10 : A[m] = V[m] /\ B[m] = W[m]
  <2>1. /\ A[5] = V[5] /\ A[6] = V[6] /\ A[7] = V[7] /\ A[8] = V[8] /\ A[9] = V[9] /\ A[10] = V[10]
        /\ B[5] = W[5] /\ B[6] = W[6] /\ B[7] = W[7] /\ B[8] = W[8] /\ B[9] = W[9] /\ B[10] = W[10]
    BY WayOfLane DEF Lane
  <2> HIDE DEF V, W, A, B
  <2>2. QED
    BY <2>1
<1>2. \A m \in Stages \ (5..10) : W[m] = V[m]
  BY OnlyLane
<1>3. \A m \in 5..10 : Kept(Own(b), A[m], B[m])
  OBVIOUS
<1>4. Tracked(V, u, arr, b)
  BY DEF SliceOK
<1> HIDE DEF V, W, A, B
<1>5. \A m \in Stages : Kept(Own(b), V[m], W[m])
  <2> TAKE m \in Stages
  <2>1. CASE m \in 5..10
    BY <1>1, <1>3, <2>1
  <2>2. CASE m \notin 5..10
    BY <1>2, <2>2, NothingMoves
  <2>3. QED
    BY <2>1, <2>2
<1>6. Tracked(W, u, arr, b)
  BY <1>4, <1>5, BlockStays DEF SameBooks
<1>7. QED
  BY <1>6 DEF W

-----------------------------------------------------------------------------
(* Queues that are not fifos, by the places of their elements.             *)

\* Requests found at the same places of two queues stay.
LEMMA SameAtPlaces ==
  ASSUME NEW Y, NEW q, NEW r,
         \A i \in DOMAIN r : r[i] \in Y => i \in DOMAIN q /\ q[i] = r[i],
         \A i \in DOMAIN q : q[i] \in Y => i \in DOMAIN r /\ r[i] = q[i]
  PROVE  Kept(Y, q, r)
BY DEF Kept, Has, Before

\* A request found at a new place behind the others joins.
LEMMA JoinedAtPlace ==
  ASSUME NEW Y, NEW q, NEW r, DOMAIN r \subseteq Nat, NEW n \in DOMAIN r, NEW x \in Y, r[n] = x,
         \A i \in DOMAIN r \ {n} : r[i] \in Y => i \in DOMAIN q /\ q[i] = r[i] /\ i < n,
         \A i \in DOMAIN q : q[i] \in Y => i \in DOMAIN r \ {n} /\ r[i] = q[i]
  PROVE  Joined(Y, q, r, x)
<1>1. \A y \in Y : Has(r, y) <=> Has(q, y) \/ y = x
  BY DEF Has
<1>2. ASSUME NEW y \in Y, NEW z \in Y, Before(r, y, z) PROVE Before(q, y, z) \/ (z = x /\ Has(q, y))
  <2>1. PICK i \in DOMAIN r, j \in DOMAIN r : i < j /\ r[i] = y /\ r[j] = z
    BY <1>2 DEF Before
  <2>2. i # n
    <3>1. i = n => j # n /\ j < n
      BY <2>1
    <3>2. i \in Nat /\ j \in Nat
      OBVIOUS
    <3>3. QED
      BY <2>1, <3>1, <3>2
  <2>3. i \in DOMAIN q /\ q[i] = y
    BY <2>1, <2>2
  <2>4. QED
    BY <2>1, <2>3 DEF Before, Has
<1>3. QED
  BY <1>1, <1>2 DEF Joined

Shift(n, i) == IF i < n THEN i ELSE i + 1

\* A place taken out of a queue: its request leaves, and the others stay.
LEMMA LeftFromPlace ==
  ASSUME NEW Y, NEW q, NEW r, NEW L \in Nat, DOMAIN q = 1..L, NEW n \in 1..L, DOMAIN r \subseteq Nat,
         \A i \in DOMAIN r : r[i] \in Y => Shift(n, i) \in 1..L /\ q[Shift(n, i)] = r[i],
         \A i \in (1..L) \ {n} : q[i] \in Y => \E j \in DOMAIN r : Shift(n, j) = i /\ r[j] = q[i]
  PROVE  /\ q[n] \notin Y => Kept(Y, q, r)
         /\ q[n] \in Y /\ (\A i \in 1..(n - 1) : q[i] \notin Y) => Left(Y, q, r, q[n])
<1>1. \A i, j \in Nat : i < j => Shift(n, i) < Shift(n, j)
  BY DEF Shift
<1>2. \A i \in Nat : Shift(n, i) # n
  BY DEF Shift
<1>3. \A y \in Y : Has(r, y) => \E i \in (1..L) \ {n} : q[i] = y
  <2> SUFFICES ASSUME NEW y \in Y, Has(r, y) PROVE \E i \in (1..L) \ {n} : q[i] = y
    OBVIOUS
  <2>1. PICK i \in DOMAIN r : r[i] = y
    BY DEF Has
  <2>2. Shift(n, i) \in 1..L /\ q[Shift(n, i)] = y /\ Shift(n, i) # n
    BY <1>2, <2>1
  <2>3. QED
    BY <2>2
<1>4. \A y \in Y : Has(q, y) => Has(r, y) \/ y = q[n]
  BY DEF Has
<1>5. ASSUME NEW y \in Y, NEW z \in Y, Before(r, y, z) PROVE Before(q, y, z)
  <2>1. PICK i \in DOMAIN r, j \in DOMAIN r : i < j /\ r[i] = y /\ r[j] = z
    BY <1>5 DEF Before
  <2>2. Shift(n, i) < Shift(n, j) /\ Shift(n, i) \in DOMAIN q /\ Shift(n, j) \in DOMAIN q
    BY <1>1, <2>1
  <2>3. q[Shift(n, i)] = y /\ q[Shift(n, j)] = z
    BY <2>1
  <2>4. QED
    BY <2>2, <2>3 DEF Before
<1>6. ASSUME q[n] \notin Y PROVE Kept(Y, q, r)
  BY <1>3, <1>4, <1>5, <1>6 DEF Kept, Has
<1>7. ASSUME q[n] \in Y, \A i \in 1..(n - 1) : q[i] \notin Y PROVE Left(Y, q, r, q[n])
  <2>1. ASSUME NEW y \in Y, Has(r, y) PROVE Has(q, y) /\ Before(q, q[n], y)
    <3>1. PICK i \in (1..L) \ {n} : q[i] = y
      BY <1>3, <2>1
    <3>2. n < i
      BY <1>7, <3>1
    <3>3. QED
      BY <3>1, <3>2 DEF Has, Before
  <2>2. Has(q, q[n])
    BY DEF Has
  <2>3. QED
    BY <1>4, <1>5, <1>7, <2>1, <2>2 DEF Left
<1>8. QED
  BY <1>6, <1>7

-----------------------------------------------------------------------------
(* Queues of requests to DRAM.                                             *)

\* The memory requests of a queue of requests to DRAM.
LEMMA MfsFacts ==
  ASSUME NEW q \in Seq(DramReqs)
  PROVE  /\ MfsOf(q) \in Seq(Mfs) /\ Len(MfsOf(q)) = Len(q) /\ (MfsOf(q) = <<>> <=> q = <<>>)
         /\ \A r \in DramReqs : MfsOf(Append(q, r)) = Append(MfsOf(q), r.mf)
         /\ q # <<>> => /\ MfsOf(Tail(q)) = Tail(MfsOf(q)) /\ Head(MfsOf(q)) = Head(q).mf
                        /\ Head(q) \in DramReqs /\ Tail(q) \in Seq(DramReqs)
<1>0. \A r \in DramReqs : r.mf \in Mfs
  BY DEF DramReqs
<1>1. /\ Len(q) \in Nat /\ DOMAIN q = 1..Len(q) /\ \A i \in 1..Len(q) : q[i] \in DramReqs
  OBVIOUS
<1>2. MfsOf(q) \in Seq(Mfs) /\ Len(MfsOf(q)) = Len(q)
  BY <1>0, <1>1 DEF MfsOf
<1>3. MfsOf(q) = <<>> <=> q = <<>>
  BY <1>1, <1>2
<1>4. ASSUME NEW r \in DramReqs PROVE MfsOf(Append(q, r)) = Append(MfsOf(q), r.mf)
  <2> DEFINE a == MfsOf(Append(q, r))
             c == Append(MfsOf(q), r.mf)
  <2>1. DOMAIN a = 1..(Len(q) + 1) /\ DOMAIN c = 1..(Len(q) + 1)
    BY <1>2 DEF MfsOf
  <2>2. \A i \in 1..(Len(q) + 1) : a[i] = c[i]
    BY <1>0, <1>1, <1>2 DEF MfsOf
  <2>3. a \in Seq(Mfs) /\ c \in Seq(Mfs)
    BY <1>0, <1>2 DEF MfsOf
  <2> HIDE DEF a, c
  <2>4. a = c
    BY <2>1, <2>2, <2>3
  <2>5. QED
    BY <2>4 DEF a, c
<1>5. ASSUME q # <<>> PROVE MfsOf(Tail(q)) = Tail(MfsOf(q))
  <2> DEFINE a == MfsOf(Tail(q))
             c == Tail(MfsOf(q))
  <2>0. Len(q) >= 1 /\ MfsOf(q) # <<>>
    BY <1>3, <1>5
  <2>1. DOMAIN a = 1..(Len(q) - 1) /\ DOMAIN c = 1..(Len(q) - 1)
    BY <1>1, <1>2, <2>0 DEF MfsOf
  <2>2. \A i \in 1..(Len(q) - 1) : a[i] = c[i]
    BY <1>1, <1>2, <2>0 DEF MfsOf
  <2>3. a \in Seq(Mfs) /\ c \in Seq(Mfs)
    BY <1>0, <1>2, <2>0 DEF MfsOf
  <2> HIDE DEF a, c
  <2>4. a = c
    BY <2>1, <2>2, <2>3
  <2>5. QED
    BY <2>4 DEF a, c
<1>6. ASSUME q # <<>> PROVE Head(MfsOf(q)) = Head(q).mf /\ Head(q) \in DramReqs /\ Tail(q) \in Seq(DramReqs)
  BY <1>1, <1>2, <1>3, <1>6 DEF MfsOf
<1>7. QED
  BY <1>2, <1>3, <1>4, <1>5, <1>6

\* A request for block b is to its bank and row.
LEMMA OwnRequests ==
  ASSUME NEW r \in DramReqs
  PROVE  /\ r.mf \in Mfs /\ Block(r.mf) \in Used
         /\ \A b \in Used : r.mf \in Own(b) => r.bk = BankOfBlock[b] /\ r.row = RowOfBlock[b]
BY OwnBlocks DEF DramReqs, Own

-----------------------------------------------------------------------------
(* The parts of a cycle of the channel.                                    *)

ChannelFields == {"mrqq", "queue", "lastrow", "bank", "group", "c", "prio", "rw", "rwq", "returnq"}

\* The fields of the channel.
LEMMA FieldsOfChannel == DOMAIN EmptyChannel = ChannelFields
BY DEF EmptyChannel, ChannelFields

\* Of the requests of block b none gets in front of another, and what has come back stays.
OrderKept(b, V, W) ==
  /\ \A y \in Own(b) : Has(V[10], y) => Has(W[10], y)
  /\ \A y, z \in Own(b) : Ahead(W, y, z) => Ahead(V, y, z)

\* The channel goes from lat and d to next and e: what the slices keep stays true, the
\* same requests are in it, and they keep their order.
Carries(lat, d, next, e) ==
  /\ ChannelTypes(next, e)
  /\ \A s \in Subs : \A u, arr : SliceOK(u, s, lat, d, arr) => SliceOK(u, s, next, e, arr)
  /\ \A b \in Used : \A y \in Own(b) : Stands(Lane(next, e, b), y) <=> Stands(Lane(lat, d, b), y)
  /\ \A b \in Used : OrderKept(b, Lane(lat, d, b), Lane(next, e, b))

\* Two parts of a cycle that carry the requests of the channel on carry them on.
LEMMA CarriesOn ==
  ASSUME NEW lat, NEW d, NEW next, NEW e, NEW last, NEW f,
         Carries(lat, d, next, e), Carries(next, e, last, f)
  PROVE  Carries(lat, d, last, f)
BY DEF Carries, OrderKept

\* A part of a cycle in which every request stays in its queue.
LEMMA StayingCarries ==
  ASSUME NEW lat, NEW d, NEW next, NEW e, ChannelTypes(next, e),
         \A b \in Used : \A m \in 5..10 : Kept(Own(b), Lane(lat, d, b)[m], Lane(next, e, b)[m])
  PROVE  Carries(lat, d, next, e)
<1>1. \A s \in Subs : \A u, arr : SliceOK(u, s, lat, d, arr) => SliceOK(u, s, next, e, arr)
  BY LaneStays
<1>2. ASSUME NEW b \in Used
      PROVE  /\ \A y \in Own(b) : Stands(Lane(next, e, b), y) <=> Stands(Lane(lat, d, b), y)
             /\ OrderKept(b, Lane(lat, d, b), Lane(next, e, b))
  <2> DEFINE V == Lane(lat, d, b)
             W == Lane(next, e, b)
  <2>1. \A m \in Stages \ (5..10) : Kept(Own(b), V[m], W[m])
    BY OnlyLane, NothingMoves DEF Lane
  <2>2. \A m \in 5..10 : Kept(Own(b), V[m], W[m])
    OBVIOUS
  <2> HIDE DEF V, W
  <2>3. \A m \in Stages : Kept(Own(b), V[m], W[m])
    BY <2>1, <2>2
  <2>4. \A y \in Own(b) : Has(V[10], y) => Has(W[10], y)
    BY <2>2 DEF Kept
  <2>5. QED
    BY <2>3, <2>4, WayKept DEF V, W, OrderKept
<1>3. QED
  BY <1>1, <1>2 DEF Carries

\* A part of a cycle in which one request goes on to a later stage.
LEMMA PassingCarries ==
  ASSUME NEW lat, NEW d, NEW next, NEW e, ChannelTypes(next, e),
         NEW k \in 5..10, NEW l \in 5..10, k < l, NEW x,
         \A b \in Used : PassesOn(Lane(lat, d, b), Lane(next, e, b), b, k, l, x)
  PROVE  Carries(lat, d, next, e)
<1>1. \A s \in Subs : \A u, arr : SliceOK(u, s, lat, d, arr) => SliceOK(u, s, next, e, arr)
  BY LanePasses
<1>2. ASSUME NEW b \in Used
      PROVE  /\ \A y \in Own(b) : Stands(Lane(next, e, b), y) <=> Stands(Lane(lat, d, b), y)
             /\ OrderKept(b, Lane(lat, d, b), Lane(next, e, b))
  <2> DEFINE V == Lane(lat, d, b)
             W == Lane(next, e, b)
  <2>0. PassesOn(V, W, b, k, l, x) /\ k \in Stages /\ l \in Stages
    BY DEF Stages
  <2> HIDE DEF V, W
  <2>1. CASE x \in Own(b)
    <3>1. /\ Left(Own(b), V[k], W[k], x) /\ Joined(Own(b), V[l], W[l], x)
          /\ \A m \in Stages \ {k, l} : Kept(Own(b), V[m], W[m])
      BY <2>0, <2>1 DEF PassesOn
    <3>2. Moved(Own(b), V, W, k, l, x)
      BY <2>0, <2>1, <3>1, WayMoves
    <3>3. \A y \in Own(b) : Has(V[10], y) => Has(W[10], y)
      BY <2>0, <3>1 DEF Joined, Kept, Stages
    <3>4. \A z \in Own(b) : \A m \in Stages : k < m /\ m < l => ~Has(V[m], z)
      BY <2>0, <2>1 DEF PassesOn
    <3>5. \A y, z \in Own(b) : Ahead(W, y, z) => Ahead(V, y, z)
      BY <3>2, <3>4 DEF Moved
    <3>6. QED
      BY <3>2, <3>3, <3>5 DEF Moved, V, W, OrderKept
  <2>2. CASE x \notin Own(b)
    <3>1. \A m \in Stages : Kept(Own(b), V[m], W[m])
      BY <2>0, <2>2 DEF PassesOn
    <3>2. \A y \in Own(b) : Has(V[10], y) => Has(W[10], y)
      BY <3>1 DEF Kept, Stages
    <3>3. QED
      BY <3>1, <3>2, WayKept DEF V, W, OrderKept
  <2>3. QED
    BY <2>1, <2>2
<1>3. QED
  BY <1>1, <1>2 DEF Carries

\* A part of a cycle in which nothing happens.
LEMMA SameCarries ==
  ASSUME NEW lat, NEW d, ChannelTypes(lat, d) PROVE Carries(lat, d, lat, d)
BY DEF Carries, OrderKept

\* The queues of a block in the channel.
LEMMA LaneOf ==
  ASSUME NEW lat, NEW d, NEW b
  PROVE  LET V == Lane(lat, d, b)
         IN /\ V[5] = lat /\ V[6] = MfsOf(d.mrqq) /\ V[7] = MfsOf(d.queue[BankOfBlock[b]])
            /\ V[8] = ServedBy(d, BankOfBlock[b]) /\ V[9] = OnBus(d.rwq.slots) /\ V[10] = MfsOf(d.returnq)
BY WayOfLane DEF Lane

\* A block is of a bank.
LEMMA BanksOfBlocks == ASSUME setup \in Setups PROVE \A b \in Used : BankOfBlock[b] \in Banks
BY SetupTypes, PartitionConstants

\* The places of a queue something is pushed to.
LEMMA AppendKeeps ==
  ASSUME NEW S, NEW q \in Seq(S), NEW x \in S
  PROVE  /\ \A i \in DOMAIN q : i \in DOMAIN Append(q, x) /\ Append(q, x)[i] = q[i]
         /\ \A i \in DOMAIN Append(q, x) : (i \in DOMAIN q /\ Append(q, x)[i] = q[i]) \/ Append(q, x)[i] = x
OBVIOUS

\* A lane has nothing in the stages outside the channel.
LEMMA LaneElsewhere ==
  ASSUME NEW lat, NEW d, NEW next, NEW e, NEW b
  PROVE  \A m \in Stages \ (5..10) : Lane(next, e, b)[m] = Lane(lat, d, b)[m]
BY OnlyLane DEF Lane

\* A queue of requests to DRAM, as seen by a block, when it is pushed or popped.
LEMMA MfsPopped ==
  ASSUME NEW q \in Seq(DramReqs), q # <<>>, NEW b
  PROVE  IF Head(q).mf \in Own(b) THEN Left(Own(b), MfsOf(q), MfsOf(Tail(q)), Head(q).mf)
                                  ELSE Kept(Own(b), MfsOf(q), MfsOf(Tail(q)))
<1>1. /\ MfsOf(q) \in Seq(Mfs) /\ MfsOf(q) # <<>> /\ MfsOf(Tail(q)) = Tail(MfsOf(q))
      /\ Head(MfsOf(q)) = Head(q).mf
  BY MfsFacts
<1>2. QED
  BY <1>1, HeadLeaves

\* A request pushed to a queue of requests to DRAM.
LEMMA MfsPushed ==
  ASSUME NEW q \in Seq(DramReqs), NEW r \in DramReqs, NEW b
  PROVE  IF r.mf \in Own(b) THEN Joined(Own(b), MfsOf(q), MfsOf(Append(q, r)), r.mf)
                            ELSE Kept(Own(b), MfsOf(q), MfsOf(Append(q, r)))
<1>1. MfsOf(q) \in Seq(Mfs) /\ MfsOf(Append(q, r)) = Append(MfsOf(q), r.mf)
  BY MfsFacts
<1>2. r.mf \in Mfs
  BY DEF DramReqs
<1>3. QED
  BY <1>1, <1>2, TailJoins

\* frfcfs_scheduler::add_req.
LEMMA AddReqCarries ==
  ASSUME NEW lat, NEW d, ChannelTypes(lat, d), setup.sched # "fifo", setup \in Setups
  PROVE  Carries(lat, d, lat, AddReq(d))
<1> DEFINE r == Head(d.mrqq)
           e == [d EXCEPT !.queue[r.bk] = Append(@, r), !.mrqq = Tail(@)]
<1>1. CASE AddReq(d) = d
  BY <1>1, SameCarries
<1>2. CASE d.mrqq # <<>> /\ AddReq(d) = e
  <2>1. /\ d.mrqq \in Seq(DramReqs) /\ d.queue \in [Banks -> Seq(DramReqs)] /\ DOMAIN d = ChannelFields
        /\ Len(d.mrqq) <= MrqqSize
    BY FieldsOfChannel DEF ChannelTypes
  <2>2. r \in DramReqs /\ r.bk \in Banks /\ Tail(d.mrqq) \in Seq(DramReqs)
    <3>1. r \in DramReqs /\ Tail(d.mrqq) \in Seq(DramReqs)
      BY <1>2, <2>1
    <3>2. QED
      BY <3>1 DEF DramReqs, AnyReq
  <2>3. /\ DOMAIN e = ChannelFields /\ e.mrqq = Tail(d.mrqq)
        /\ e.queue = [d.queue EXCEPT ![r.bk] = Append(@, r)]
        /\ e.lastrow = d.lastrow /\ e.bank = d.bank /\ e.prio = d.prio /\ e.rwq = d.rwq /\ e.returnq = d.returnq
    BY <2>1 DEF ChannelFields
  <2> HIDE DEF r, e
  <2>4. \A b \in Banks : e.queue[b] = IF b = r.bk THEN Append(d.queue[b], r) ELSE d.queue[b]
    BY <2>1, <2>3
  <2>5. ChannelTypes(lat, e)
    <3>1. e.queue \in [Banks -> Seq(DramReqs)]
      <4>1. \A b \in Banks : d.queue[b] \in Seq(DramReqs) /\ Append(d.queue[b], r) \in Seq(DramReqs)
        BY <2>1, <2>2
      <4>2. QED
        BY <2>1, <2>3, <2>4, <4>1, Zenon
    <3>2. ASSUME NEW b \in Banks PROVE \A i \in DOMAIN e.queue[b] : e.queue[b][i].bk = b
      <4>1. d.queue[b] \in Seq(DramReqs) /\ \A i \in DOMAIN d.queue[b] : d.queue[b][i].bk = b
        BY <2>1 DEF ChannelTypes
      <4>2. CASE b = r.bk
        <5>1. e.queue[b] = Append(d.queue[b], r)
          BY <2>4, <4>2
        <5> DEFINE q == d.queue[b]
        <5> HIDE DEF q
        <5>2. q \in Seq(DramReqs) /\ (\A i \in DOMAIN q : q[i].bk = b) /\ e.queue[b] = Append(q, r)
          BY <4>1, <5>1 DEF q
        <5>3. QED
          BY <2>2, <4>2, <5>2, AppendKeeps
      <4>3. CASE b # r.bk
        BY <2>4, <4>1, <4>3
      <4>4. QED
        BY <4>2, <4>3
    <3>3. ASSUME NEW b \in Banks, d.lastrow[b] # NoRow PROVE HasRow(e.queue[b], d.lastrow[b])
      <4>1. d.queue[b] \in Seq(DramReqs) /\ HasRow(d.queue[b], d.lastrow[b])
        BY <2>1, <3>3 DEF ChannelTypes
      <4>2. HasRow(Append(d.queue[b], r), d.lastrow[b])
        <5>1. PICK i \in DOMAIN d.queue[b] : d.queue[b][i].row = d.lastrow[b]
          BY <4>1 DEF HasRow
        <5> DEFINE q == d.queue[b]
        <5> HIDE DEF q
        <5>2. q \in Seq(DramReqs) /\ i \in DOMAIN q /\ q[i].row = d.lastrow[b]
          BY <4>1, <5>1 DEF q
        <5>3. i \in DOMAIN Append(q, r) /\ Append(q, r)[i] = q[i]
          BY <2>2, <5>2, AppendKeeps
        <5>4. QED
          BY <5>2, <5>3 DEF HasRow, q
      <4>3. QED
        BY <2>4, <4>1, <4>2
    <3>4. e.mrqq \in Seq(DramReqs) /\ Len(e.mrqq) <= MrqqSize
      BY <1>2, <2>1, <2>2, <2>3 DEF MrqqSize
    <3>5. QED
      BY <2>3, <3>1, <3>2, <3>3, <3>4, FieldsOfChannel DEF ChannelTypes
  <2>6. ASSUME NEW b \in Used PROVE PassesOn(Lane(lat, d, b), Lane(lat, e, b), b, 6, 7, r.mf)
    <3> DEFINE V == Lane(lat, d, b)
               W == Lane(lat, e, b)
               k == BankOfBlock[b]
    <3>0. k \in Banks
      BY BanksOfBlocks
    <3>1. /\ V[5] = lat /\ V[6] = MfsOf(d.mrqq) /\ V[7] = MfsOf(d.queue[k])
          /\ V[8] = ServedBy(d, k) /\ V[9] = OnBus(d.rwq.slots) /\ V[10] = MfsOf(d.returnq)
          /\ W[5] = lat /\ W[6] = MfsOf(e.mrqq) /\ W[7] = MfsOf(e.queue[k])
          /\ W[8] = ServedBy(e, k) /\ W[9] = OnBus(e.rwq.slots) /\ W[10] = MfsOf(e.returnq)
      BY LaneOf
    <3>2. \A m \in Stages \ (5..10) : W[m] = V[m]
      BY LaneElsewhere
    <3> HIDE DEF V, W, k
    <3>3. \A m \in Stages \ {6, 7} : Kept(Own(b), V[m], W[m])
      <4>1. W[8] = V[8]
        BY <2>3, <3>1 DEF ServedBy
      <4>2. W[5] = V[5] /\ W[9] = V[9] /\ W[10] = V[10]
        BY <2>3, <3>1
      <4>3. \A m \in Stages \ {6, 7} : W[m] = V[m]
        BY <3>2, <4>1, <4>2 DEF Stages
      <4>4. QED
        BY <4>3, NothingMoves
    <3>4. IF r.mf \in Own(b) THEN Left(Own(b), V[6], W[6], r.mf) ELSE Kept(Own(b), V[6], W[6])
      BY <1>2, <2>1, <2>3, <3>1, MfsPopped DEF r
    <3>5. CASE r.mf \in Own(b)
      <4>1. r.bk = k
        BY <2>2, <3>5, OwnRequests DEF k
      <4>2. Joined(Own(b), V[7], W[7], r.mf)
        <5>1. d.queue[k] \in Seq(DramReqs)
          BY <2>1, <3>0
        <5>2. W[7] = MfsOf(Append(d.queue[k], r))
          BY <2>4, <3>0, <3>1, <4>1
        <5>3. QED
          BY <2>2, <3>1, <3>5, <5>1, <5>2, MfsPushed
      <4>3. \A m \in Stages : ~(6 < m /\ m < 7)
        BY DEF Stages
      <4>4. QED
        BY <3>3, <3>4, <3>5, <4>2, <4>3 DEF PassesOn, V, W
    <3>6. CASE r.mf \notin Own(b)
      <4>1. Kept(Own(b), V[7], W[7])
        <5>1. d.queue[k] \in Seq(DramReqs)
          BY <2>1, <3>0
        <5>2. Kept(Own(b), MfsOf(d.queue[k]), MfsOf(Append(d.queue[k], r)))
          BY <2>2, <3>6, <5>1, MfsPushed
        <5>3. QED
          BY <2>4, <3>0, <3>1, <5>2, NothingMoves
      <4>2. QED
        BY <3>3, <3>4, <3>6, <4>1 DEF PassesOn, V, W
    <3>7. QED
      BY <3>5, <3>6
  <2>7. 6 \in 5..10 /\ 7 \in 5..10 /\ 6 < 7
    OBVIOUS
  <2>8. Carries(lat, d, lat, e)
    BY <2>5, <2>6, <2>7, PassingCarries
  <2>9. QED
    BY <1>2, <2>8
<1>3. QED
  BY <1>1, <1>2 DEF AddReq

\* The places of a queue one element is removed from.
LEMMA RemoveAtPlaces ==
  ASSUME NEW S, NEW q \in Seq(S), NEW i \in 1..Len(q)
  PROVE  /\ RemoveAt(q, i) \in Seq(S) /\ Len(RemoveAt(q, i)) = Len(q) - 1
         /\ \A j \in 1..(Len(q) - 1) : Shift(i, j) \in 1..Len(q) /\ RemoveAt(q, i)[j] = q[Shift(i, j)]
<1> DEFINE a == SubSeq(q, 1, i - 1)
           c == SubSeq(q, i + 1, Len(q))
<1>0. Len(q) \in Nat /\ \A j \in 1..Len(q) : q[j] \in S
  OBVIOUS
<1>1. /\ a \in Seq(S) /\ c \in Seq(S) /\ Len(a) = i - 1 /\ Len(c) = Len(q) - i
      /\ \A j \in 1..(i - 1) : a[j] = q[j]
      /\ \A j \in 1..(Len(q) - i) : c[j] = q[i + j]
  BY <1>0
<1>2. RemoveAt(q, i) = a \o c
  BY DEF RemoveAt
<1> HIDE DEF a, c
<1>3. Len(a \o c) = Len(q) - 1 /\ a \o c \in Seq(S)
  <2>1. a \o c \in Seq(S) /\ Len(a \o c) = Len(a) + Len(c)
    <3>1. \A x, y \in Seq(S) : x \o y \in Seq(S) /\ Len(x \o y) = Len(x) + Len(y)
      OBVIOUS
    <3>2. a \in Seq(S) /\ c \in Seq(S)
      BY <1>1
    <3>3. QED
      BY <3>1, <3>2
  <2>2. QED
    BY <1>0, <1>1, <2>1
<1>4. ASSUME NEW j \in 1..(Len(q) - 1) PROVE Shift(i, j) \in 1..Len(q) /\ (a \o c)[j] = q[Shift(i, j)]
  <2>1. CASE j < i
    <3>1. (a \o c)[j] = a[j]
      BY <1>0, <1>1, <2>1
    <3>2. QED
      BY <1>0, <1>1, <2>1, <3>1 DEF Shift
  <2>2. CASE ~(j < i)
    <3>1. j - (i - 1) \in 1..(Len(q) - i)
      BY <1>0, <2>2
    <3>2. (a \o c)[j] = c[j - (i - 1)]
      BY <1>0, <1>1, <2>2, <3>1
    <3>3. i + (j - (i - 1)) = j + 1
      BY <1>0
    <3>4. (a \o c)[j] = q[j + 1]
      BY <1>1, <3>1, <3>2, <3>3
    <3>5. QED
      BY <1>0, <2>2, <3>4 DEF Shift
  <2>3. QED
    BY <2>1, <2>2
<1>5. QED
  BY <1>2, <1>3, <1>4

\* The oldest request of the row that is served.
LEMMA RowServed ==
  ASSUME NEW lat, NEW d, ChannelTypes(lat, d), NEW b \in Banks, d.queue[b] # <<>>
  PROVE  LET row == RowOf(d, b)
             q   == d.queue[b]
             i   == SelectInSeq(q, LAMBDA r : r.row = row)
         IN i \in 1..Len(q) /\ q[i].row = row /\ \A j \in 1..(i - 1) : q[j].row # row
<1> DEFINE row == RowOf(d, b)
           q   == d.queue[b]
           i   == SelectInSeq(q, LAMBDA r : r.row = row)
           I   == {j \in 1..Len(q) : q[j].row = row}
<1>1. q \in Seq(DramReqs) /\ Len(q) \in Nat /\ DOMAIN q = 1..Len(q)
  BY DEF ChannelTypes
<1>2. HasRow(q, row)
  <2>1. d.lastrow[b] # NoRow => HasRow(q, d.lastrow[b])
    BY DEF ChannelTypes
  <2>2. HasRow(q, Head(q).row)
    BY <1>1 DEF HasRow
  <2> HIDE DEF q
  <2>3. (row = d.lastrow[b] /\ d.lastrow[b] # NoRow) \/ HasRow(q, row) \/ row = Head(q).row
    BY DEF RowOf, q
  <2>4. QED
    BY <2>1, <2>2, <2>3
<1>3. I # {} /\ I \subseteq Nat
  BY <1>1, <1>2 DEF HasRow
<1>4. i = IF I # {} THEN Min(I) ELSE 0
  BY DEF SelectInSeq
<1>5. i \in I /\ \A j \in I : i <= j
  <2> HIDE DEF I, i
  <2> QED  BY <1>3, <1>4, LeastIsMin
<1>6. \A j \in 1..(i - 1) : q[j].row # row
  <2>1. i \in Nat /\ i <= Len(q)
    BY <1>5, <1>1
  <2> HIDE DEF i, q, row
  <2>2. \A j \in 1..(i - 1) : j \in 1..Len(q) /\ ~(i <= j)
    BY <1>1, <2>1
  <2>3. QED
    BY <1>5, <2>2
<1>7. QED
  BY <1>5, <1>6

\* frfcfs_scheduler::schedule.
LEMMA ServeBankCarries ==
  ASSUME NEW lat, NEW d, ChannelTypes(lat, d), setup.sched # "fifo", setup \in Setups,
         NEW b \in Banks, d.queue[b] # <<>>, d.bank[b].mrq = NoReq
  PROVE  Carries(lat, d, lat, ServeBank(d, b))
<1> DEFINE row  == RowOf(d, b)
           q    == d.queue[b]
           i    == SelectInSeq(q, LAMBDA r : r.row = row)
           rest == RemoveAt(q, i)
           e    == ServeBank(d, b)
           r    == q[i]
<1>1. q \in Seq(DramReqs) /\ Len(q) \in Nat /\ DOMAIN q = 1..Len(q) /\ DOMAIN d = ChannelFields
  BY FieldsOfChannel DEF ChannelTypes
<1>2. i \in 1..Len(q) /\ r.row = row /\ \A j \in 1..(i - 1) : q[j].row # row
  BY RowServed
<1>3. e = [d EXCEPT !.bank[b].mrq = r, !.queue[b] = rest,
                    !.lastrow[b] = IF HasRow(rest, row) THEN row ELSE NoRow, !.prio = (@ + 1) % NumBanks]
  BY DEF ServeBank
<1> HIDE DEF row, i, rest, e, r
<1>4. /\ DOMAIN e = ChannelFields /\ e.mrqq = d.mrqq /\ e.queue = [d.queue EXCEPT ![b] = rest]
      /\ e.lastrow = [d.lastrow EXCEPT ![b] = IF HasRow(rest, row) THEN row ELSE NoRow]
      /\ e.bank = [d.bank EXCEPT ![b].mrq = r] /\ e.prio = (d.prio + 1) % NumBanks
      /\ e.rwq = d.rwq /\ e.returnq = d.returnq
  BY <1>1, <1>3 DEF ChannelFields
<1>5. r \in DramReqs /\ r.bk = b /\ r # NoReq
  <2>1. r \in DramReqs
    BY <1>1, <1>2 DEF r
  <2>2. \A j \in DOMAIN q : q[j].bk = b
    BY DEF ChannelTypes
  <2>3. QED
    BY <1>1, <1>2, <2>1, <2>2, NullIsNoRequest DEF r, DramReqs
<1>6. /\ rest \in Seq(DramReqs) /\ Len(rest) = Len(q) - 1 /\ DOMAIN rest = 1..(Len(q) - 1)
      /\ \A j \in 1..(Len(q) - 1) : Shift(i, j) \in 1..Len(q) /\ rest[j] = q[Shift(i, j)]
  <2>1. /\ rest \in Seq(DramReqs) /\ Len(rest) = Len(q) - 1
        /\ \A j \in 1..(Len(q) - 1) : Shift(i, j) \in 1..Len(q) /\ rest[j] = q[Shift(i, j)]
    BY <1>1, <1>2, RemoveAtPlaces DEF rest
  <2>2. QED
    BY <2>1
<1>7. /\ DOMAIN d.queue = Banks /\ DOMAIN d.lastrow = Banks /\ DOMAIN d.bank = Banks
      /\ \A c \in Banks : DOMAIN d.bank[c] = {"mrq", "tx", "open", "row", "c"}
  BY DEF ChannelTypes
<1>8. /\ \A c \in Banks : e.queue[c] = IF c = b THEN rest ELSE d.queue[c]
      /\ \A c \in Banks \ {b} : e.bank[c] = d.bank[c]
      /\ e.bank[b] = [d.bank[b] EXCEPT !.mrq = r]
      /\ DOMAIN e.queue = Banks /\ DOMAIN e.bank = Banks /\ DOMAIN e.lastrow = Banks
      /\ \A c \in Banks \ {b} : e.lastrow[c] = d.lastrow[c]
      /\ e.lastrow[b] = IF HasRow(rest, row) THEN row ELSE NoRow
  BY <1>4, <1>7
<1>9. ChannelTypes(lat, e)
  <2>1. e.queue \in [Banks -> Seq(DramReqs)]
    <3>1. \A c \in Banks : e.queue[c] \in Seq(DramReqs)
      BY <1>6, <1>8 DEF ChannelTypes
    <3>2. QED
      BY <1>4, <1>7, <3>1, Zenon
  <2>2. \A c \in Banks : \A j \in DOMAIN e.queue[c] : e.queue[c][j].bk = c
    <3>1. \A j \in DOMAIN rest : rest[j].bk = b
      <4>1. \A j \in 1..Len(q) : q[j].bk = b
        BY <1>1 DEF ChannelTypes
      <4>2. QED
        BY <1>6, <4>1
    <3>2. \A c \in Banks : \A j \in DOMAIN d.queue[c] : d.queue[c][j].bk = c
      BY DEF ChannelTypes
    <3> HIDE DEF q
    <3>3. ASSUME NEW c \in Banks PROVE \A j \in DOMAIN e.queue[c] : e.queue[c][j].bk = c
      <4>1. CASE c = b
        <5>1. e.queue[c] = rest
          BY <1>8, <4>1
        <5>2. QED
          BY <3>1, <4>1, <5>1
      <4>2. CASE c # b
        <5>1. e.queue[c] = d.queue[c]
          BY <1>8, <4>2
        <5>2. QED
          BY <3>2, <5>1
      <4>3. QED
        BY <4>1, <4>2
    <3>4. QED
      BY <3>3
  <2>3. \A c \in Banks : e.lastrow[c] # NoRow => HasRow(e.queue[c], e.lastrow[c])
    <3>1. \A c \in Banks : d.lastrow[c] # NoRow => HasRow(d.queue[c], d.lastrow[c])
      BY DEF ChannelTypes
    <3>2. ASSUME NEW c \in Banks, e.lastrow[c] # NoRow PROVE HasRow(e.queue[c], e.lastrow[c])
      <4>1. CASE c = b
        <5>1. e.queue[c] = rest /\ e.lastrow[c] = row /\ HasRow(rest, row)
          BY <1>8, <3>2, <4>1
        <5>2. QED
          BY <5>1
      <4>2. CASE c # b
        <5>1. e.queue[c] = d.queue[c] /\ e.lastrow[c] = d.lastrow[c]
          BY <1>8, <4>2
        <5>2. QED
          BY <3>1, <3>2, <5>1
      <4>3. QED
        BY <4>1, <4>2
    <3>3. QED
      BY <3>2
  <2>4. \A c \in Banks : /\ DOMAIN e.bank[c] = {"mrq", "tx", "open", "row", "c"}
                         /\ e.bank[c].tx \in Nat
                         /\ e.bank[c].mrq # NoReq => e.bank[c].mrq \in DramReqs /\ e.bank[c].mrq.bk = c
    <3>1. e.bank[b].mrq = r /\ e.bank[b].tx = d.bank[b].tx /\ DOMAIN e.bank[b] = DOMAIN d.bank[b]
      BY <1>7, <1>8
    <3>2. \A c \in Banks : /\ DOMAIN d.bank[c] = {"mrq", "tx", "open", "row", "c"}
                           /\ d.bank[c].tx \in Nat
                           /\ d.bank[c].mrq # NoReq => d.bank[c].mrq \in DramReqs /\ d.bank[c].mrq.bk = c
      BY DEF ChannelTypes
    <3>3. ASSUME NEW c \in Banks
          PROVE  /\ DOMAIN e.bank[c] = {"mrq", "tx", "open", "row", "c"}
                 /\ e.bank[c].tx \in Nat
                 /\ e.bank[c].mrq # NoReq => e.bank[c].mrq \in DramReqs /\ e.bank[c].mrq.bk = c
      <4>1. CASE c = b
        BY <1>5, <3>1, <3>2, <4>1
      <4>2. CASE c # b
        <5>1. e.bank[c] = d.bank[c]
          BY <1>8, <4>2
        <5>2. QED
          BY <3>2, <5>1
      <4>3. QED
        BY <4>1, <4>2
    <3>4. QED
      BY <3>3
  <2>5. e.prio \in Nat
    <3>1. d.prio + 1 \in Nat
      BY DEF ChannelTypes
    <3>2. QED
      BY <1>4, <3>1, Remainder
  <2>6. QED
    BY <1>4, <1>8, <2>1, <2>2, <2>3, <2>4, <2>5, FieldsOfChannel DEF ChannelTypes
<1>10. ASSUME NEW c \in Used PROVE PassesOn(Lane(lat, d, c), Lane(lat, e, c), c, 7, 8, r.mf)
  <2> DEFINE V == Lane(lat, d, c)
             W == Lane(lat, e, c)
             k == BankOfBlock[c]
  <2>0. k \in Banks
    BY BanksOfBlocks
  <2>1. /\ V[5] = lat /\ V[6] = MfsOf(d.mrqq) /\ V[7] = MfsOf(d.queue[k])
        /\ V[8] = ServedBy(d, k) /\ V[9] = OnBus(d.rwq.slots) /\ V[10] = MfsOf(d.returnq)
        /\ W[5] = lat /\ W[6] = MfsOf(e.mrqq) /\ W[7] = MfsOf(e.queue[k])
        /\ W[8] = ServedBy(e, k) /\ W[9] = OnBus(e.rwq.slots) /\ W[10] = MfsOf(e.returnq)
    BY LaneOf
  <2>2. \A m \in Stages \ (5..10) : W[m] = V[m]
    BY LaneElsewhere
  <2>3. r.mf \in Own(c) => k = b /\ r.row = RowOfBlock[c]
    BY <1>5, OwnRequests
  <2> HIDE DEF V, W, k
  <2>4. \A m \in Stages \ {7, 8} : Kept(Own(c), V[m], W[m])
    <3>1. \A m \in Stages \ {7, 8} : W[m] = V[m]
      BY <1>4, <2>1, <2>2 DEF Stages
    <3>2. QED
      BY <3>1, NothingMoves
  <2>5. ~ \E m \in Stages : 7 < m /\ m < 8
    BY DEF Stages
  <2>6. CASE k # b
    <3>1. W[7] = V[7] /\ W[8] = V[8]
      BY <1>8, <2>0, <2>1, <2>6 DEF ServedBy
    <3>2. QED
      BY <2>3, <2>4, <2>6, <3>1, NothingMoves DEF PassesOn, V, W
  <2>7. CASE k = b
    <3>1. V[8] = <<>> /\ W[8] = <<r.mf>> /\ V[7] = MfsOf(q) /\ W[7] = MfsOf(rest)
      <4>1. e.bank[b].mrq = r
        BY <1>7, <1>8
      <4>2. QED
        BY <1>5, <1>8, <2>1, <2>7, <4>1 DEF ServedBy
    <3> DEFINE A == MfsOf(q)
               B == MfsOf(rest)
               Y == Own(c)
    <3>2. /\ DOMAIN A = 1..Len(q) /\ DOMAIN B = 1..(Len(q) - 1)
          /\ \A j \in 1..Len(q) : A[j] = q[j].mf
          /\ \A j \in 1..(Len(q) - 1) : B[j] = rest[j].mf
          /\ A[i] = r.mf
      BY <1>1, <1>2, <1>6 DEF MfsOf, r
    <3>3. \A j \in 1..(Len(q) - 1) : Shift(i, j) \in 1..Len(q) /\ A[Shift(i, j)] = B[j]
      BY <1>6, <3>2
    <3>4. \A m \in (1..Len(q)) \ {i} : \E j \in DOMAIN B : Shift(i, j) = m /\ B[j] = A[m]
      <4> TAKE m \in (1..Len(q)) \ {i}
      <4>1. \E j \in 1..(Len(q) - 1) : Shift(i, j) = m
        <5>1. CASE m < i
          BY <1>1, <1>2, <5>1 DEF Shift
        <5>2. CASE m > i
          <6>1. m - 1 \in 1..(Len(q) - 1) /\ ~(m - 1 < i) /\ (m - 1) + 1 = m
            BY <1>1, <1>2, <5>2
          <6>2. QED
            BY <6>1 DEF Shift
        <5>3. QED
          BY <1>1, <1>2, <5>1, <5>2
      <4>2. QED
        BY <3>2, <3>3, <4>1
    <3>5. r.mf \in Y => \A j \in 1..(i - 1) : A[j] \notin Y
      <4> SUFFICES ASSUME r.mf \in Y, NEW j \in 1..(i - 1) PROVE A[j] \notin Y
        OBVIOUS
      <4>1. j \in 1..Len(q) /\ q[j] \in DramReqs /\ q[j].row # RowOfBlock[c]
        BY <1>1, <1>2, <2>3
      <4>2. QED
        BY <3>2, <4>1, OwnRequests
    <3> HIDE DEF A, B
    <3>6. /\ r.mf \notin Y => Kept(Y, A, B)
          /\ r.mf \in Y => Left(Y, A, B, r.mf)
      <4>1. /\ A[i] \notin Y => Kept(Y, A, B)
            /\ A[i] \in Y /\ (\A j \in 1..(i - 1) : A[j] \notin Y) => Left(Y, A, B, A[i])
        <5> HIDE DEF Y
        <5>1. DOMAIN B \subseteq Nat /\ Len(q) \in Nat /\ DOMAIN A = 1..Len(q) /\ i \in 1..Len(q)
          BY <1>1, <1>2, <3>2
        <5>2. \A j \in DOMAIN B : B[j] \in Y => Shift(i, j) \in 1..Len(q) /\ A[Shift(i, j)] = B[j]
          BY <3>2, <3>3
        <5>3. \A m \in (1..Len(q)) \ {i} : A[m] \in Y => \E j \in DOMAIN B : Shift(i, j) = m /\ B[j] = A[m]
          BY <3>4
        <5> DEFINE L == Len(q)
        <5> HIDE DEF L
        <5>4. L \in Nat /\ DOMAIN A = 1..L /\ i \in 1..L /\ DOMAIN B \subseteq Nat
          BY <5>1 DEF L
        <5>5. QED
          BY <5>2, <5>3, <5>4, LeftFromPlace DEF L
      <4>2. QED
        BY <3>2, <3>5, <4>1
    <3>7. /\ r.mf \in Y => Joined(Y, V[8], W[8], r.mf)
          /\ r.mf \notin Y => Kept(Y, V[8], W[8])
      BY <3>1 DEF Joined, Kept, Has, Before
    <3>8. QED
      BY <2>4, <2>5, <3>1, <3>6, <3>7 DEF PassesOn, V, W, A, B
  <2>8. QED
    BY <2>6, <2>7
<1>11. 7 \in 5..10 /\ 8 \in 5..10 /\ 7 < 8
  OBVIOUS
<1>12. Carries(lat, d, lat, e)
  BY <1>9, <1>10, <1>11, PassingCarries
<1>13. QED
  BY <1>12 DEF e

\* The first bank of a set, counted from a turn.
LEMMA FirstOfBanks ==
  ASSUME NEW ok \in SUBSET Banks, ok # {}, NEW n \in Nat
  PROVE  Min(ok) \in ok /\ (Min(ok) + n) % NumBanks \in Banks
<1>1. ok \subseteq Nat
  BY DramConstants DEF Banks
<1>2. Min(ok) \in ok /\ Min(ok) + n \in Nat
  <2>1. ok \in SUBSET Nat
    BY <1>1
  <2>2. Min(ok) \in ok
    BY <2>1, LeastIsMin
  <2>3. Min(ok) \in Nat
    BY <1>1, <2>2
  <2>4. QED
    BY <2>2, <2>3
<1>3. QED
  BY <1>2, Remainder DEF Banks

\* Both requests that mrqq may hold are taken, if there is room behind it.
LEMMA DrainMakesRoom ==
  ASSUME NEW lat, NEW d, ChannelTypes(lat, d), setup.sched # "fifo", setup \in Setups,
         Len(d.mrqq) = MrqqSize => ~DramFull(d, "frfcfs")
  PROVE  Carries(lat, d, lat, Drain(d)) /\ Len(Drain(d).mrqq) < MrqqSize
<1> DEFINE f == AddReq(d)
<1>1. Carries(lat, d, lat, f)
  BY AddReqCarries
<1>2. ChannelTypes(lat, f)
  BY <1>1 DEF Carries
<1>3. Carries(lat, f, lat, AddReq(f))
  BY <1>2, AddReqCarries
<1>4. ASSUME NEW g, ChannelTypes(lat, g)
      PROVE  /\ AddReq(g).mrqq = g.mrqq \/ Len(AddReq(g).mrqq) = Len(g.mrqq) - 1
             /\ g.mrqq # <<>> /\ ~DramFull(g, "frfcfs") => Len(AddReq(g).mrqq) = Len(g.mrqq) - 1
             /\ Len(g.mrqq) \in Nat
  <2>1. g.mrqq \in Seq(DramReqs) /\ DOMAIN g = ChannelFields
    BY <1>4, FieldsOfChannel DEF ChannelTypes
  <2>2. AddReq(g) = g \/ (g.mrqq # <<>> /\ AddReq(g).mrqq = Tail(g.mrqq))
    BY <2>1 DEF AddReq, ChannelFields
  <2>3. g.mrqq # <<>> /\ ~DramFull(g, "frfcfs") => AddReq(g).mrqq = Tail(g.mrqq)
    BY <2>1 DEF AddReq, ChannelFields, DramFull
  <2>4. g.mrqq # <<>> => Len(Tail(g.mrqq)) = Len(g.mrqq) - 1
    BY <2>1
  <2> DEFINE h == AddReq(g)
  <2>5. Len(g.mrqq) \in Nat
    BY <2>1
  <2> HIDE DEF h
  <2>6. h.mrqq = g.mrqq \/ Len(h.mrqq) = Len(g.mrqq) - 1
    BY <2>2, <2>4 DEF h
  <2>7. g.mrqq # <<>> /\ ~DramFull(g, "frfcfs") => Len(h.mrqq) = Len(g.mrqq) - 1
    BY <2>3, <2>4 DEF h
  <2>8. QED
    BY <2>5, <2>6, <2>7 DEF h
<1> HIDE DEF f
<1>5. Len(d.mrqq) <= 2
  BY DEF ChannelTypes, MrqqSize
<1>6. Len(f.mrqq) <= 1 /\ Len(f.mrqq) \in Nat
  <2>1. Len(d.mrqq) = 2 => d.mrqq # <<>> /\ ~DramFull(d, "frfcfs")
    BY DEF MrqqSize
  <2>2. Len(f.mrqq) \in Nat
    BY <1>2, <1>4
  <2>3. /\ f.mrqq = d.mrqq \/ Len(f.mrqq) = Len(d.mrqq) - 1
        /\ d.mrqq # <<>> /\ ~DramFull(d, "frfcfs") => Len(f.mrqq) = Len(d.mrqq) - 1
        /\ Len(d.mrqq) \in Nat
    BY <1>4 DEF f
  <2> DEFINE m == Len(f.mrqq)
             n == Len(d.mrqq)
  <2>4. (m = n \/ m = n - 1) /\ (n = 2 => m = n - 1) /\ n \in Nat /\ m \in Nat /\ n <= 2
    BY <1>5, <2>1, <2>2, <2>3
  <2> HIDE DEF m, n
  <2>5. m <= 1
    BY <2>4
  <2>6. QED
    BY <2>2, <2>5 DEF m
<1>7. Len(AddReq(f).mrqq) < 2
  <2>1. AddReq(f).mrqq = f.mrqq \/ Len(AddReq(f).mrqq) = Len(f.mrqq) - 1
    BY <1>2, <1>4
  <2>2. QED
    BY <1>6, <2>1
<1>8. Carries(lat, d, lat, AddReq(f))
  BY <1>1, <1>3, CarriesOn
<1>9. QED
  BY <1>7, <1>8 DEF Drain, MrqqSize, f

\* scheduler_frfcfs.
LEMMA FrFcfsCarries ==
  ASSUME NEW lat, NEW d, ChannelTypes(lat, d), setup.sched # "fifo", setup \in Setups,
         Len(d.mrqq) = MrqqSize => ~DramFull(d, "frfcfs")
  PROVE  Carries(lat, d, lat, ScheduleFrFcfs(d)) /\ Len(ScheduleFrFcfs(d).mrqq) < MrqqSize
<1> DEFINE g == Drain(d)
           b == FirstFrom(g, LAMBDA j : g.bank[j].mrq = NoReq /\ g.queue[j] # <<>>)
           ok == {i \in Banks : LET j == (i + g.prio) % NumBanks
                                IN g.bank[j].mrq = NoReq /\ g.queue[j] # <<>>}
<1>1. Carries(lat, d, lat, g) /\ ChannelTypes(lat, g) /\ Len(g.mrqq) < MrqqSize
  BY DrainMakesRoom DEF Carries
<1>2. ScheduleFrFcfs(d) = IF b = NoReq THEN g ELSE ServeBank(g, b)
  BY DEF ScheduleFrFcfs
<1>3. b = IF ok = {} THEN NoReq ELSE (Min(ok) + g.prio) % NumBanks
  BY DEF FirstFrom
<1>4. ok # {} => b \in Banks /\ g.bank[b].mrq = NoReq /\ g.queue[b] # <<>>
  <2>1. ok # {} => Min(ok) \in ok /\ (Min(ok) + g.prio) % NumBanks \in Banks
    <3>1. g.prio \in Nat /\ ok \in SUBSET Banks
      BY <1>1 DEF ChannelTypes
    <3>2. QED
      <4> HIDE DEF ok, g
      <4> QED  BY <3>1, FirstOfBanks
  <2>2. \A i \in ok : /\ g.bank[(i + g.prio) % NumBanks].mrq = NoReq
                      /\ g.queue[(i + g.prio) % NumBanks] # <<>>
    OBVIOUS
  <2>3. QED
    <3> HIDE DEF ok, g, b
    <3> QED  BY <1>3, <2>1, <2>2
<1> HIDE DEF g, b, ok
<1>5. CASE ok # {} /\ b # NoReq
  <2>1. Carries(lat, g, lat, ServeBank(g, b))
    BY <1>1, <1>4, <1>5, ServeBankCarries
  <2>2. ServeBank(g, b).mrqq = g.mrqq
    <3>1. DOMAIN g = ChannelFields
      BY <1>1, FieldsOfChannel DEF ChannelTypes
    <3>2. QED
      BY <3>1 DEF ServeBank, ChannelFields
  <2>3. QED
    BY <1>1, <1>2, <1>5, <2>1, <2>2, CarriesOn
<1>6. CASE b = NoReq
  BY <1>1, <1>2, <1>6
<1>7. QED
  BY <1>3, <1>5, <1>6

\* scheduler_fifo.
LEMMA FifoCarries ==
  ASSUME NEW lat, NEW d, ChannelTypes(lat, d), setup.sched = "fifo", setup \in Setups
  PROVE  Carries(lat, d, lat, ScheduleFifo(d))
<1> DEFINE r == Head(d.mrqq)
           e == [d EXCEPT !.bank[r.bk].mrq = r, !.mrqq = Tail(@)]
<1>1. CASE ScheduleFifo(d) = d
  BY <1>1, SameCarries
<1>2. CASE d.mrqq # <<>> /\ d.bank[r.bk].mrq = NoReq /\ ScheduleFifo(d) = e
  <2>1. /\ d.mrqq \in Seq(DramReqs) /\ DOMAIN d = ChannelFields /\ DOMAIN d.bank = Banks
        /\ Len(d.mrqq) <= MrqqSize /\ \A c \in Banks : d.queue[c] = <<>>
        /\ \A c \in Banks : /\ DOMAIN d.bank[c] = {"mrq", "tx", "open", "row", "c"}
                            /\ d.bank[c].tx \in Nat
                            /\ d.bank[c].mrq # NoReq => d.bank[c].mrq \in DramReqs /\ d.bank[c].mrq.bk = c
    BY FieldsOfChannel DEF ChannelTypes
  <2>2. r \in DramReqs /\ r.bk \in Banks /\ Tail(d.mrqq) \in Seq(DramReqs) /\ r # NoReq
    <3>1. r \in DramReqs /\ Tail(d.mrqq) \in Seq(DramReqs)
      BY <1>2, <2>1
    <3>2. QED
      BY <3>1, NullIsNoRequest DEF DramReqs, AnyReq
  <2> DEFINE k == r.bk
  <2>3. /\ DOMAIN e = ChannelFields /\ e.mrqq = Tail(d.mrqq)
        /\ e.bank = [d.bank EXCEPT ![k].mrq = r]
        /\ e.queue = d.queue /\ e.lastrow = d.lastrow /\ e.prio = d.prio /\ e.rwq = d.rwq
        /\ e.returnq = d.returnq
    BY <2>1 DEF ChannelFields
  <2> HIDE DEF e
  <2>4. /\ DOMAIN e.bank = Banks /\ \A c \in Banks \ {k} : e.bank[c] = d.bank[c]
        /\ e.bank[k].mrq = r /\ e.bank[k].tx = d.bank[k].tx /\ DOMAIN e.bank[k] = DOMAIN d.bank[k]
    <3> HIDE DEF r
    <3>1. e.bank[k] = [d.bank[k] EXCEPT !.mrq = r]
      BY <2>1, <2>2, <2>3
    <3>2. QED
      BY <2>1, <2>2, <2>3, <3>1
  <2> HIDE DEF k
  <2>5. ChannelTypes(lat, e)
    <3>1. \A c \in Banks : /\ DOMAIN e.bank[c] = {"mrq", "tx", "open", "row", "c"}
                           /\ e.bank[c].tx \in Nat
                           /\ e.bank[c].mrq # NoReq => e.bank[c].mrq \in DramReqs /\ e.bank[c].mrq.bk = c
      <4> TAKE c \in Banks
      <4>1. CASE c = k
        BY <2>1, <2>2, <2>4, <4>1 DEF k
      <4>2. CASE c # k
        <5>1. e.bank[c] = d.bank[c]
          BY <2>4, <4>2
        <5>2. QED
          BY <2>1, <5>1
      <4>3. QED
        BY <4>1, <4>2
    <3>2. e.mrqq \in Seq(DramReqs) /\ Len(e.mrqq) <= MrqqSize
      BY <1>2, <2>1, <2>2, <2>3 DEF MrqqSize
    <3>3. QED
      BY <2>3, <2>4, <3>1, <3>2, FieldsOfChannel DEF ChannelTypes
  <2>6. ASSUME NEW c \in Used PROVE PassesOn(Lane(lat, d, c), Lane(lat, e, c), c, 6, 8, r.mf)
    <3> DEFINE V == Lane(lat, d, c)
               W == Lane(lat, e, c)
               j == BankOfBlock[c]
               Y == Own(c)
    <3>0. j \in Banks
      BY BanksOfBlocks
    <3>1. /\ V[5] = lat /\ V[6] = MfsOf(d.mrqq) /\ V[7] = MfsOf(d.queue[j])
          /\ V[8] = ServedBy(d, j) /\ V[9] = OnBus(d.rwq.slots) /\ V[10] = MfsOf(d.returnq)
          /\ W[5] = lat /\ W[6] = MfsOf(e.mrqq) /\ W[7] = MfsOf(e.queue[j])
          /\ W[8] = ServedBy(e, j) /\ W[9] = OnBus(e.rwq.slots) /\ W[10] = MfsOf(e.returnq)
      BY LaneOf
    <3>2. \A m \in Stages \ (5..10) : W[m] = V[m]
      BY LaneElsewhere
    <3>3. r.mf \in Y => k = j
      BY <2>2, OwnRequests DEF k
    <3> HIDE DEF V, W, j
    <3>4. \A m \in Stages \ {6, 8} : Kept(Y, V[m], W[m])
      <4>1. \A m \in Stages \ {6, 8} : W[m] = V[m]
        BY <2>3, <3>1, <3>2 DEF Stages
      <4>2. QED
        BY <4>1, NothingMoves
    <3>5. IF r.mf \in Y THEN Left(Y, V[6], W[6], r.mf) ELSE Kept(Y, V[6], W[6])
      BY <1>2, <2>1, <2>3, <3>1, MfsPopped DEF r
    <3>6. \A m \in Stages : 6 < m /\ m < 8 => \A z \in Y : ~Has(V[m], z)
      <4>1. \A m \in Stages : 6 < m /\ m < 8 => m = 7
        BY DEF Stages
      <4>2. d.queue[j] = <<>>
        BY <2>1, <3>0
      <4>3. \A z \in Y : ~Has(V[7], z)
        BY <3>1, <4>2 DEF Has, MfsOf
      <4>4. QED
        BY <4>1, <4>3
    <3>7. /\ r.mf \in Y => Joined(Y, V[8], W[8], r.mf)
          /\ r.mf \notin Y => Kept(Y, V[8], W[8])
      <4>1. CASE k = j
        <5>1. V[8] = <<>> /\ W[8] = <<r.mf>>
          BY <1>2, <2>2, <2>4, <3>1, <4>1 DEF ServedBy, k
        <5>2. QED
          BY <5>1 DEF Joined, Kept, Has, Before
      <4>2. CASE k # j
        <5>1. W[8] = V[8]
          BY <2>4, <3>0, <3>1, <4>2 DEF ServedBy
        <5>2. QED
          BY <3>3, <4>2, <5>1, NothingMoves
      <4>3. QED
        BY <4>1, <4>2
    <3>8. QED
      BY <3>4, <3>5, <3>6, <3>7 DEF PassesOn, V, W
  <2>7. 6 \in 5..10 /\ 8 \in 5..10 /\ 6 < 8
    OBVIOUS
  <2>8. Carries(lat, d, lat, e)
    BY <2>5, <2>6, <2>7, PassingCarries
  <2>9. QED
    BY <1>2, <2>8
<1>3. QED
  BY <1>1, <1>2 DEF ScheduleFifo

-----------------------------------------------------------------------------
(* The data pipeline.                                                      *)

\* A set of numbers up to n has a greatest element, which Max is.
LEMMA GreatestIsMax ==
  ASSUME NEW n \in Nat, NEW S \in SUBSET (0..n), S # {}
  PROVE  Max(S) \in S /\ \A i \in S : i <= Max(S)
<1> DEFINE R == {n - i : i \in S}
           m == n - Min(R)
<1>1. R \in SUBSET Nat /\ R # {}
  <2>1. \A i \in S : n - i \in Nat
    OBVIOUS
  <2>2. QED
    BY <2>1
<1>2. Min(R) \in R /\ \A i \in R : Min(R) <= i
  BY <1>1, LeastIsMin
<1>3. m \in S
  BY <1>2
<1>4. \A i \in S : i <= m
  <2> SUFFICES ASSUME NEW i \in S PROVE i <= m
    OBVIOUS
  <2>1. n - i \in R
    OBVIOUS
  <2>2. Min(R) <= n - i /\ Min(R) \in Nat
    BY <1>1, <1>2, <2>1
  <2> HIDE DEF R
  <2>3. QED
    BY <2>2
<1> HIDE DEF m, R
<1>5. QED
  BY <1>3, <1>4 DEF Max

Transfers == {x \in AnyTransfer : x.req \in DramReqs}
PipeOK(p) ==
  /\ DOMAIN p = {"min", "slots"} /\ p.min \in {CL, WL}
  /\ p.slots \in Seq(Transfers \cup {NoReq}) /\ Len(p.slots) \in p.min..(CL + 1)

\* The data pipeline of the channel is a fifo_pipeline of transfers.
LEMMA PipeOfChannel ==
  ASSUME NEW lat, NEW d, ChannelTypes(lat, d) PROVE PipeOK(d.rwq)
BY DEF ChannelTypes, PipeOK, Transfers

\* The lengths of the data pipeline.
LEMMA PipeLengths == CL \in Nat /\ WL \in Nat /\ 1 <= WL /\ WL <= CL
BY DramConstants

\* fifo_pipeline::set_min_length fills up with empty slots.
LEMMA PaddedPlaces ==
  ASSUME NEW q \in Seq(Transfers \cup {NoReq}), NEW n \in Nat
  PROVE  /\ Padded(q, n) \in Seq(Transfers \cup {NoReq})
         /\ Len(Padded(q, n)) = IF n > Len(q) THEN n ELSE Len(q)
         /\ \A i \in 1..Len(q) : Padded(q, n)[i] = q[i]
         /\ \A i \in DOMAIN Padded(q, n) : i \in 1..Len(q) \/ Padded(q, n)[i] = NoReq
<1> DEFINE S == Transfers \cup {NoReq}
           k == Max({0, n - Len(q)})
           z == [i \in 1..k |-> NoReq]
<1>0. Len(q) \in Nat
  OBVIOUS
<1>1. k = IF n > Len(q) THEN n - Len(q) ELSE 0
  BY <1>0 DEF Max
<1>2. k \in Nat
  BY <1>0, <1>1
<1> HIDE DEF k, S
<1>3. z \in Seq(S) /\ Len(z) = k /\ \A i \in 1..k : z[i] = NoReq
  BY <1>2 DEF S
<1> HIDE DEF z
<1>4. /\ q \o z \in Seq(S) /\ Len(q \o z) = Len(q) + k
      /\ \A i \in 1..Len(q) : (q \o z)[i] = q[i]
      /\ \A i \in 1..(Len(q) + k) : i \in 1..Len(q) \/ (q \o z)[i] = z[i - Len(q)]
  <2>1. \A x, y \in Seq(S) : /\ x \o y \in Seq(S) /\ Len(x \o y) = Len(x) + Len(y)
                             /\ \A i \in 1..Len(x) : (x \o y)[i] = x[i]
                             /\ \A i \in 1..(Len(x) + Len(y)) : i \in 1..Len(x) \/ (x \o y)[i] = y[i - Len(x)]
    OBVIOUS
  <2>2. q \in Seq(S)
    BY DEF S
  <2>3. QED
    BY <1>3, <2>1, <2>2
<1>5. \A i \in 1..(Len(q) + k) : i \in 1..Len(q) \/ (q \o z)[i] = NoReq
  <2> TAKE i \in 1..(Len(q) + k)
  <2>1. CASE i \notin 1..Len(q)
    <3>1. i - Len(q) \in 1..k
      BY <1>0, <1>2, <2>1
    <3>2. QED
      BY <1>3, <1>4, <2>1, <3>1
  <2>2. QED
    BY <2>1
<1>6. Padded(q, n) = q \o z
  BY DEF Padded, z, k
<1>7. DOMAIN (q \o z) = 1..(Len(q) + k)
  BY <1>4
<1>8. Len(q) + k = IF n > Len(q) THEN n ELSE Len(q)
  BY <1>0, <1>1
<1>9. QED
  BY <1>4, <1>5, <1>6, <1>7, <1>8 DEF S

\* The requests in both are the same, in the same slots.
SameSlots(a, c) == /\ \A i \in DOMAIN c : c[i] # NoReq => i \in DOMAIN a /\ a[i] = c[i]
                   /\ \A i \in DOMAIN a : a[i] # NoReq => i \in DOMAIN c /\ c[i] = a[i]

\* fifo_pipeline::set_min_length loses no transfer.
LEMMA SetMinLengthOK ==
  ASSUME NEW p, PipeOK(p), Len(p.slots) <= CL, NEW n \in {CL, WL}
  PROVE  /\ PipeOK(SetMinLength(p, n)) /\ Len(SetMinLength(p, n).slots) <= CL
         /\ SameSlots(p.slots, SetMinLength(p, n).slots)
<1> DEFINE q    == p.slots
           S    == Transfers \cup {NoReq}
           used == {i \in DOMAIN q : q[i] # NoReq}
           m    == Max(used \cup {n})
           e    == SetMinLength(p, n)
<1>0. /\ q \in Seq(S) /\ Len(q) \in Nat /\ DOMAIN q = 1..Len(q) /\ p.min \in Nat /\ n \in Nat /\ 1 <= n
      /\ p.min <= Len(q) /\ Len(q) <= CL /\ n <= CL /\ CL \in Nat
  BY PipeLengths DEF PipeOK
<1>1. CASE n >= p.min
  <2>1. e = [min |-> n, slots |-> Padded(q, n)]
    BY <1>1 DEF SetMinLength
  <2>2. /\ Padded(q, n) \in Seq(S) /\ Len(Padded(q, n)) = IF n > Len(q) THEN n ELSE Len(q)
        /\ \A i \in 1..Len(q) : Padded(q, n)[i] = q[i]
        /\ \A i \in DOMAIN Padded(q, n) : i \in 1..Len(q) \/ Padded(q, n)[i] = NoReq
    BY <1>0, PaddedPlaces
  <2> DEFINE r == Padded(q, n)
  <2> HIDE DEF e, r, q, S
  <2>3. /\ r \in Seq(S) /\ Len(r) = (IF n > Len(q) THEN n ELSE Len(q)) /\ DOMAIN r = 1..Len(r)
    BY <2>2 DEF r
  <2>4. n <= Len(r) /\ Len(r) <= CL /\ Len(q) <= Len(r) /\ Len(r) \in Nat
    BY <1>0, <2>3
  <2>5. Len(r) \in n..(CL + 1)
    BY <1>0, <2>4
  <2>6. SameSlots(q, r)
    <3>1. \A i \in 1..Len(q) : i \in 1..Len(r)
      BY <1>0, <2>4
    <3>2. QED
      BY <1>0, <2>2, <2>3, <3>1 DEF SameSlots, r
  <2>7. e.min = n /\ e.slots = r /\ DOMAIN e = {"min", "slots"}
    BY <2>1 DEF r
  <2>8. QED
    BY <2>3, <2>4, <2>5, <2>6, <2>7 DEF PipeOK, e, q, S
<1>2. CASE ~(n >= p.min)
  <2>1. e = [min |-> n, slots |-> SubSeq(q, 1, m)]
    BY <1>2 DEF SetMinLength
  <2>2. m \in used \cup {n} /\ \A i \in used \cup {n} : i <= m
    <3>1. used \cup {n} \in SUBSET (0..Len(q)) /\ used \cup {n} # {}
      BY <1>0, <1>2
    <3>2. QED
      BY <1>0, <3>1, GreatestIsMax
  <2>3. m \in 1..Len(q) /\ n <= m
    BY <1>0, <1>2, <2>2
  <2> DEFINE r == SubSeq(q, 1, m)
  <2>4. r \in Seq(S) /\ Len(r) = m /\ DOMAIN r = 1..m /\ \A i \in 1..m : r[i] = q[i]
    <3> HIDE DEF m, q, S
    <3> QED  BY <1>0, <2>3
  <2> HIDE DEF r, m, e
  <2>5. SameSlots(q, r)
    <3>1. \A i \in 1..m : i \in 1..Len(q)
      BY <1>0, <2>3
    <3>2. \A i \in 1..Len(q) : q[i] # NoReq => i \in 1..m
      BY <1>0, <2>2, <2>3
    <3> HIDE DEF used, q
    <3>3. QED
      BY <1>0, <2>4, <3>1, <3>2 DEF SameSlots
  <2>6. Len(r) <= CL /\ Len(r) \in n..(CL + 1)
    BY <1>0, <2>3, <2>4
  <2>7. e.min = n /\ e.slots = r /\ DOMAIN e = {"min", "slots"}
    BY <2>1 DEF r
  <2>8. QED
    <3>1. PipeOK(e)
      BY <2>4, <2>6, <2>7 DEF PipeOK
    <3>2. QED
      BY <2>5, <2>6, <2>7, <3>1 DEF e
<1>3. QED
  BY <1>1, <1>2

\* A push takes the last slot, if it is empty, or one more.
LEMMA PipePushOK ==
  ASSUME NEW p, PipeOK(p), Len(p.slots) <= CL, NEW x \in Transfers
  PROVE  LET r == PipePush(p, x).slots
         IN /\ PipeOK(PipePush(p, x))
            /\ \E n \in Nat : /\ n \in DOMAIN r /\ r[n] = x
                              /\ \A i \in DOMAIN r \ {n} : i < n /\ i \in DOMAIN p.slots /\ r[i] = p.slots[i]
                              /\ \A i \in DOMAIN p.slots : p.slots[i] # NoReq => i \in DOMAIN r \ {n}
<1> DEFINE q == p.slots
           S == Transfers \cup {NoReq}
           e == PipePush(p, x)
<1>0. /\ q \in Seq(S) /\ Len(q) \in Nat /\ DOMAIN q = 1..Len(q) /\ p.min \in Nat /\ 1 <= p.min
      /\ p.min <= Len(q) /\ Len(q) <= CL /\ CL \in Nat /\ x \in S /\ DOMAIN p = {"min", "slots"}
      /\ p.min \in {CL, WL}
  BY PipeLengths DEF PipeOK
<1>1. CASE q # <<>> /\ Last(q) = NoReq /\ Len(q) >= p.min
  <2> DEFINE r == [q EXCEPT ![Len(q)] = x]
             n == Len(q)
  <2>1. e = [p EXCEPT !.slots[Len(p.slots)] = x]
    BY <1>1 DEF PipePush
  <2>2. e.slots = r /\ e.min = p.min /\ DOMAIN e = {"min", "slots"}
    BY <1>0, <2>1
  <2> HIDE DEF e, q
  <2>3. n \in 1..Len(q) /\ q[n] = NoReq
    BY <1>0, <1>1 DEF Last
  <2>4. r \in Seq(S) /\ Len(r) = Len(q) /\ DOMAIN r = 1..Len(q) /\ r[n] = x /\ \A i \in (1..Len(q)) \ {n} : r[i] = q[i]
    BY <1>0, <2>3
  <2> HIDE DEF r
  <2>0. Len(q) \in Nat /\ p.min \in Nat /\ CL \in Nat /\ p.min <= Len(q) /\ Len(q) <= CL
    BY <1>0
  <2>5. \A i \in (1..Len(q)) \ {n} : i < n
    BY <2>0
  <2>6. PipeOK(e)
    <3>0. Len(r) = Len(q)
      BY <2>4
    <3>1. Len(r) \in p.min..(CL + 1)
      BY <2>0, <3>0
    <3>2. QED
      BY <1>0, <2>2, <2>4, <3>1 DEF PipeOK
  <2>7. n \in Nat
    BY <1>0
  <2> HIDE DEF n
  <2>8. QED
    BY <1>0, <2>2, <2>3, <2>4, <2>5, <2>6, <2>7 DEF e, q
<1>2. CASE ~(q # <<>> /\ Last(q) = NoReq /\ Len(q) >= p.min)
  <2> DEFINE r == Append(q, x)
             n == Len(q) + 1
  <2>1. e = [p EXCEPT !.slots = Append(@, x)]
    BY <1>2 DEF PipePush
  <2>2. e.slots = r /\ e.min = p.min /\ DOMAIN e = {"min", "slots"}
    BY <1>0, <2>1
  <2> HIDE DEF e, q
  <2>4. r \in Seq(S) /\ Len(r) = n /\ DOMAIN r = 1..n /\ r[n] = x /\ \A i \in 1..Len(q) : r[i] = q[i]
    BY <1>0
  <2> HIDE DEF r
  <2>5. (\A i \in (1..n) \ {n} : i < n /\ i \in 1..Len(q)) /\ (\A i \in 1..Len(q) : i \in (1..n) \ {n})
    BY <1>0
  <2>6. PipeOK(e)
    <3>1. Len(r) \in p.min..(CL + 1)
      BY <1>0, <2>4
    <3>2. QED
      BY <1>0, <2>2, <2>4, <3>1 DEF PipeOK
  <2>7. n \in Nat /\ n \in 1..n
    BY <1>0
  <2> HIDE DEF n
  <2>8. QED
    BY <1>0, <2>2, <2>4, <2>5, <2>6, <2>7 DEF e, q
<1>3. QED
  BY <1>1, <1>2

\* What a block sees of the data bus.
LEMMA OnBusFacts ==
  ASSUME NEW q \in Seq(Transfers \cup {NoReq})
  PROVE  /\ DOMAIN OnBus(q) = DOMAIN q
         /\ \A b : \A i \in DOMAIN q : OnBus(q)[i] \in Own(b) =>
              q[i] # NoReq /\ q[i].atom >= q[i].req.n /\ OnBus(q)[i] = q[i].req.mf
         /\ \A i \in DOMAIN q : q[i] # NoReq /\ q[i].atom >= q[i].req.n => OnBus(q)[i] = q[i].req.mf
<1>1. \A b : <<>> \notin Own(b)
  BY DEF Own, Mfs
<1>2. QED
  BY <1>1 DEF OnBus, Complete

\* Requests in the same slots of the data pipeline stay.
LEMMA BusKept ==
  ASSUME NEW q \in Seq(Transfers \cup {NoReq}), NEW r \in Seq(Transfers \cup {NoReq}),
         SameSlots(q, r), NEW b
  PROVE  Kept(Own(b), OnBus(q), OnBus(r))
<1> DEFINE A == OnBus(q)
           B == OnBus(r)
           Y == Own(b)
<1>1. /\ DOMAIN A = DOMAIN q /\ DOMAIN B = DOMAIN r
      /\ \A i \in DOMAIN q : A[i] \in Y => q[i] # NoReq /\ q[i].atom >= q[i].req.n /\ A[i] = q[i].req.mf
      /\ \A i \in DOMAIN r : B[i] \in Y => r[i] # NoReq /\ r[i].atom >= r[i].req.n /\ B[i] = r[i].req.mf
      /\ \A i \in DOMAIN q : q[i] # NoReq /\ q[i].atom >= q[i].req.n => A[i] = q[i].req.mf
      /\ \A i \in DOMAIN r : r[i] # NoReq /\ r[i].atom >= r[i].req.n => B[i] = r[i].req.mf
  BY OnBusFacts
<1> HIDE DEF A, B, Y
<1>2. \A i \in DOMAIN B : B[i] \in Y => i \in DOMAIN A /\ A[i] = B[i]
  BY <1>1 DEF SameSlots
<1>3. \A i \in DOMAIN A : A[i] \in Y => i \in DOMAIN B /\ B[i] = A[i]
  BY <1>1 DEF SameSlots
<1>4. QED
  BY <1>2, <1>3, SameAtPlaces DEF A, B, Y

\* Nothing but times, rows and turns is changed.
SameRequestsIn(d, e) ==
  /\ DOMAIN e = DOMAIN d /\ e.mrqq = d.mrqq /\ e.queue = d.queue /\ e.lastrow = d.lastrow
  /\ e.rwq = d.rwq /\ e.returnq = d.returnq /\ e.prio \in Nat /\ DOMAIN e.bank = Banks
  /\ \A b \in Banks : /\ DOMAIN e.bank[b] = DOMAIN d.bank[b]
                      /\ e.bank[b].mrq = d.bank[b].mrq /\ e.bank[b].tx = d.bank[b].tx

\* A part of a cycle that changes only times, rows and turns.
LEMMA SameRequestsCarries ==
  ASSUME NEW lat, NEW d, ChannelTypes(lat, d), setup \in Setups, NEW e, SameRequestsIn(d, e)
  PROVE  Carries(lat, d, lat, e)
<1>1. ChannelTypes(lat, e)
  <2>1. ASSUME NEW b \in Banks
        PROVE  /\ DOMAIN e.bank[b] = {"mrq", "tx", "open", "row", "c"}
               /\ e.bank[b].tx \in Nat
               /\ e.bank[b].mrq # NoReq => e.bank[b].mrq \in DramReqs /\ e.bank[b].mrq.bk = b
    <3>1. /\ DOMAIN d.bank[b] = {"mrq", "tx", "open", "row", "c"}
          /\ d.bank[b].tx \in Nat
          /\ d.bank[b].mrq # NoReq => d.bank[b].mrq \in DramReqs /\ d.bank[b].mrq.bk = b
      BY DEF ChannelTypes
    <3>2. e.bank[b].mrq = d.bank[b].mrq /\ e.bank[b].tx = d.bank[b].tx /\ DOMAIN e.bank[b] = DOMAIN d.bank[b]
      BY DEF SameRequestsIn
    <3>3. QED
      BY <3>1, <3>2
  <2>2. QED
    BY <2>1 DEF ChannelTypes, SameRequestsIn
<1>2. ASSUME NEW c \in Used PROVE \A m \in 5..10 : Kept(Own(c), Lane(lat, d, c)[m], Lane(lat, e, c)[m])
  <2> DEFINE V == Lane(lat, d, c)
             W == Lane(lat, e, c)
             k == BankOfBlock[c]
  <2>1. k \in Banks
    BY BanksOfBlocks
  <2>2. /\ V[5] = lat /\ V[6] = MfsOf(d.mrqq) /\ V[7] = MfsOf(d.queue[k])
        /\ V[8] = ServedBy(d, k) /\ V[9] = OnBus(d.rwq.slots) /\ V[10] = MfsOf(d.returnq)
        /\ W[5] = lat /\ W[6] = MfsOf(e.mrqq) /\ W[7] = MfsOf(e.queue[k])
        /\ W[8] = ServedBy(e, k) /\ W[9] = OnBus(e.rwq.slots) /\ W[10] = MfsOf(e.returnq)
    BY LaneOf
  <2> HIDE DEF V, W, k
  <2>3. \A m \in 5..10 : W[m] = V[m]
    <3>1. W[8] = V[8]
      BY <2>1, <2>2 DEF ServedBy, SameRequestsIn
    <3>2. QED
      BY <2>2, <3>1 DEF SameRequestsIn
  <2>4. \A m \in 5..10 : Kept(Own(c), V[m], W[m])
    BY <2>3, NothingMoves
  <2>5. QED
    BY <2>4 DEF V, W
<1>3. QED
  BY <1>1, <1>2, StayingCarries

\* One atom of the request a bank serves goes on the bus; the last one frees the bank.
AtomSent(d, e, b) ==
  /\ DOMAIN e = DOMAIN d /\ e.mrqq = d.mrqq /\ e.queue = d.queue /\ e.lastrow = d.lastrow
  /\ e.returnq = d.returnq /\ e.prio = d.prio /\ DOMAIN e.bank = Banks
  /\ \A c \in Banks \ {b} : e.bank[c] = d.bank[c]
  /\ DOMAIN e.bank[b] = DOMAIN d.bank[b]
  /\ IF d.bank[b].tx + 1 >= d.bank[b].mrq.n
     THEN e.bank[b].tx = 0 /\ e.bank[b].mrq = NoReq
     ELSE e.bank[b].tx = d.bank[b].tx + 1 /\ e.bank[b].mrq = d.bank[b].mrq
  /\ \E p : /\ PipeOK(p) /\ Len(p.slots) <= CL /\ SameSlots(d.rwq.slots, p.slots)
            /\ e.rwq = PipePush(p, [req |-> d.bank[b].mrq, atom |-> d.bank[b].tx + 1])

\* A column command puts one atom of the request being served on the data pipeline.
LEMMA ColumnSends ==
  ASSUME NEW lat, NEW d, ChannelTypes(lat, d), NEW b \in Banks, Len(d.rwq.slots) <= CL, NEW rw
  PROVE  AtomSent(d, ColumnIssued(d, b, rw), b)
<1> DEFINE p    == IF d.rw = rw THEN d.rwq ELSE SetMinLength(d.rwq, IF rw = "read" THEN CL ELSE WL)
           atom == d.bank[b].tx + 1
           done == atom >= d.bank[b].mrq.n
           x    == [req |-> d.bank[b].mrq, atom |-> atom]
           q    == PipePush(p, x)
           k    == IF done THEN 0 ELSE atom
           m    == IF done THEN NoReq ELSE d.bank[b].mrq
           e    == ColumnIssued(d, b, rw)
<1>1. PipeOK(p) /\ Len(p.slots) <= CL /\ SameSlots(d.rwq.slots, p.slots)
  <2>1. PipeOK(d.rwq)
    BY PipeOfChannel
  <2>2. SameSlots(d.rwq.slots, d.rwq.slots)
    BY DEF SameSlots
  <2>3. \A n \in {CL, WL} : /\ PipeOK(SetMinLength(d.rwq, n)) /\ Len(SetMinLength(d.rwq, n).slots) <= CL
                            /\ SameSlots(d.rwq.slots, SetMinLength(d.rwq, n).slots)
    BY <2>1, SetMinLengthOK
  <2>4. p = d.rwq \/ p = SetMinLength(d.rwq, CL) \/ p = SetMinLength(d.rwq, WL)
    OBVIOUS
  <2>5. QED
    <3> HIDE DEF p
    <3> QED  BY <2>1, <2>2, <2>3, <2>4
<1>2. DOMAIN d = ChannelFields /\ DOMAIN d.bank = Banks /\ DOMAIN d.bank[b] = {"mrq", "tx", "open", "row", "c"}
  BY FieldsOfChannel DEF ChannelTypes
<1>3. e = [d EXCEPT !.rw = rw, !.rwq = q, !.bank[b].tx = k, !.bank[b].mrq = m,
                    !.c.CCD = T.CCD, !.group[Group(b)].CCDL = T.CCDL]
  <2>1. e = [d EXCEPT !.rw = rw, !.rwq = q, !.bank[b].tx = k, !.bank[b].mrq = IF done THEN NoReq ELSE @,
                      !.c.CCD = T.CCD, !.group[Group(b)].CCDL = T.CCDL]
    BY DEF ColumnIssued
  <2> HIDE DEF q, k, e, done
  <2>2. QED
    BY <1>2, <2>1 DEF ChannelFields
<1> HIDE DEF q, k, m, e
<1>4. /\ DOMAIN e = DOMAIN d /\ e.mrqq = d.mrqq /\ e.queue = d.queue /\ e.lastrow = d.lastrow
      /\ e.returnq = d.returnq /\ e.prio = d.prio /\ e.rwq = q
  BY <1>2, <1>3 DEF ChannelFields
<1>5. /\ DOMAIN e.bank = Banks /\ DOMAIN e.bank[b] = DOMAIN d.bank[b]
      /\ \A c \in Banks \ {b} : e.bank[c] = d.bank[c]
      /\ e.bank[b].tx = k /\ e.bank[b].mrq = m
  BY <1>2, <1>3 DEF ChannelFields
<1>6. AtomSent(d, e, b)
  <2>1. IF done THEN e.bank[b].tx = 0 /\ e.bank[b].mrq = NoReq
        ELSE e.bank[b].tx = atom /\ e.bank[b].mrq = d.bank[b].mrq
    BY <1>5 DEF k, m
  <2>2. e.rwq = PipePush(p, x)
    BY <1>4 DEF q
  <2> HIDE DEF p
  <2>3. QED
    BY <1>1, <1>4, <1>5, <2>1, <2>2 DEF AtomSent
<1>7. QED
  BY <1>6 DEF e

\* An atom put on the data pipeline carries the request on: with its last atom it
\* goes from its bank to the pipeline.
LEMMA AtomSentCarries ==
  ASSUME NEW lat, NEW d, ChannelTypes(lat, d), setup \in Setups,
         NEW b \in Banks, d.bank[b].mrq # NoReq, NEW e, AtomSent(d, e, b)
  PROVE  Carries(lat, d, lat, e)
<1> DEFINE r == d.bank[b].mrq
           x == [req |-> r, atom |-> d.bank[b].tx + 1]
           done == d.bank[b].tx + 1 >= r.n
<1>1. r \in DramReqs /\ r.bk = b /\ d.bank[b].tx \in Nat
  BY DEF ChannelTypes
<1>2. x \in Transfers
  BY <1>1 DEF Transfers, AnyTransfer, DramReqs
<1>3. PICK p : PipeOK(p) /\ Len(p.slots) <= CL /\ SameSlots(d.rwq.slots, p.slots) /\ e.rwq = PipePush(p, x)
  BY DEF AtomSent
<1> DEFINE q == p.slots
           t == e.rwq.slots
<1>4. PICK n \in Nat : /\ n \in DOMAIN t /\ t[n] = x
                       /\ \A i \in DOMAIN t \ {n} : i < n /\ i \in DOMAIN q /\ t[i] = q[i]
                       /\ \A i \in DOMAIN q : q[i] # NoReq => i \in DOMAIN t \ {n}
  BY <1>2, <1>3, PipePushOK
<1>5. PipeOK(e.rwq)
  BY <1>2, <1>3, PipePushOK
<1>6. x # NoReq
  BY <1>2, NullIsNoRequest DEF Transfers
<1>7. ChannelTypes(lat, e)
  <2>1. ASSUME NEW c \in Banks
        PROVE  /\ DOMAIN e.bank[c] = {"mrq", "tx", "open", "row", "c"}
               /\ e.bank[c].tx \in Nat
               /\ e.bank[c].mrq # NoReq => e.bank[c].mrq \in DramReqs /\ e.bank[c].mrq.bk = c
    <3>1. /\ DOMAIN d.bank[c] = {"mrq", "tx", "open", "row", "c"}
          /\ d.bank[c].tx \in Nat
          /\ d.bank[c].mrq # NoReq => d.bank[c].mrq \in DramReqs /\ d.bank[c].mrq.bk = c
      BY DEF ChannelTypes
    <3>2. CASE c = b
      BY <1>1, <3>1, <3>2 DEF AtomSent
    <3>3. CASE c # b
      <4>1. e.bank[c] = d.bank[c]
        BY <3>3 DEF AtomSent
      <4>2. QED
        BY <3>1, <4>1
    <3>4. QED
      BY <3>2, <3>3
  <2>2. /\ DOMAIN e.rwq = {"min", "slots"} /\ e.rwq.min \in {CL, WL}
        /\ e.rwq.slots \in Seq({y \in AnyTransfer : y.req \in DramReqs} \cup {NoReq})
        /\ Len(e.rwq.slots) \in e.rwq.min..(CL + 1)
    BY <1>5 DEF PipeOK, Transfers
  <2>3. /\ DOMAIN e = DOMAIN d /\ e.mrqq = d.mrqq /\ e.queue = d.queue /\ e.lastrow = d.lastrow
        /\ e.returnq = d.returnq /\ e.prio = d.prio /\ DOMAIN e.bank = Banks
    BY DEF AtomSent
  <2> HIDE DEF done, r, x, t
  <2>4. QED
    BY <2>1, <2>2, <2>3 DEF ChannelTypes
<1>8. ASSUME NEW c \in Used
      PROVE  IF done THEN PassesOn(Lane(lat, d, c), Lane(lat, e, c), c, 8, 9, r.mf)
             ELSE \A m \in Stages : Kept(Own(c), Lane(lat, d, c)[m], Lane(lat, e, c)[m])
  <2> DEFINE V == Lane(lat, d, c)
             W == Lane(lat, e, c)
             k == BankOfBlock[c]
             Y == Own(c)
  <2>0. k \in Banks
    BY BanksOfBlocks
  <2>1. /\ V[5] = lat /\ V[6] = MfsOf(d.mrqq) /\ V[7] = MfsOf(d.queue[k])
        /\ V[8] = ServedBy(d, k) /\ V[9] = OnBus(d.rwq.slots) /\ V[10] = MfsOf(d.returnq)
        /\ W[5] = lat /\ W[6] = MfsOf(e.mrqq) /\ W[7] = MfsOf(e.queue[k])
        /\ W[8] = ServedBy(e, k) /\ W[9] = OnBus(t) /\ W[10] = MfsOf(e.returnq)
    BY LaneOf
  <2>2. \A m \in Stages \ (5..10) : W[m] = V[m]
    BY LaneElsewhere
  <2>3. r.mf \in Y => k = b
    BY <1>1, OwnRequests
  <2> HIDE DEF V, W, k
  <2>4. \A m \in Stages \ {8, 9} : Kept(Y, V[m], W[m])
    <3>1. \A m \in Stages \ {8, 9} : W[m] = V[m]
      BY <2>1, <2>2 DEF Stages, AtomSent
    <3>2. QED
      BY <3>1, NothingMoves
  <2>6. IF done /\ r.mf \in Y THEN Joined(Y, V[9], W[9], r.mf) ELSE Kept(Y, V[9], W[9])
    <3> DEFINE s == d.rwq.slots
               A == OnBus(s)
               B == OnBus(t)
    <3>1. s \in Seq(Transfers \cup {NoReq}) /\ t \in Seq(Transfers \cup {NoReq})
      <4>1. PipeOK(d.rwq)
        BY PipeOfChannel
      <4>2. QED
        BY <1>5, <4>1 DEF PipeOK
    <3>2. /\ DOMAIN A = DOMAIN s /\ DOMAIN B = DOMAIN t /\ DOMAIN t \subseteq Nat
          /\ \A i \in DOMAIN s : A[i] \in Y => s[i] # NoReq /\ s[i].atom >= s[i].req.n /\ A[i] = s[i].req.mf
          /\ \A i \in DOMAIN t : B[i] \in Y => t[i] # NoReq /\ t[i].atom >= t[i].req.n /\ B[i] = t[i].req.mf
          /\ \A i \in DOMAIN s : s[i] # NoReq /\ s[i].atom >= s[i].req.n => A[i] = s[i].req.mf
          /\ \A i \in DOMAIN t : t[i] # NoReq /\ t[i].atom >= t[i].req.n => B[i] = t[i].req.mf
      <4>1. /\ DOMAIN A = DOMAIN s
            /\ \A i \in DOMAIN s : A[i] \in Y => s[i] # NoReq /\ s[i].atom >= s[i].req.n /\ A[i] = s[i].req.mf
            /\ \A i \in DOMAIN s : s[i] # NoReq /\ s[i].atom >= s[i].req.n => A[i] = s[i].req.mf
        BY <3>1, OnBusFacts
      <4>2. /\ DOMAIN B = DOMAIN t
            /\ \A i \in DOMAIN t : B[i] \in Y => t[i] # NoReq /\ t[i].atom >= t[i].req.n /\ B[i] = t[i].req.mf
            /\ \A i \in DOMAIN t : t[i] # NoReq /\ t[i].atom >= t[i].req.n => B[i] = t[i].req.mf
        BY <3>1, OnBusFacts
      <4>3. DOMAIN t \subseteq Nat
        BY <3>1
      <4>4. QED
        BY <4>1, <4>2, <4>3
    <3>3. /\ \A i \in DOMAIN q : q[i] # NoReq => i \in DOMAIN s /\ s[i] = q[i]
          /\ \A i \in DOMAIN s : s[i] # NoReq => i \in DOMAIN q /\ q[i] = s[i]
      BY <1>3 DEF SameSlots
    <3>4. t[n] = x /\ x.atom = d.bank[b].tx + 1 /\ x.req = r
      BY <1>4
    <3> HIDE DEF A, B, s, t, q, x, Y
    <3>5. \A i \in DOMAIN B \ {n} : B[i] \in Y => i \in DOMAIN A /\ A[i] = B[i] /\ i < n
      <4> TAKE i \in DOMAIN B \ {n}
      <4> HAVE B[i] \in Y
      <4>1. t[i] # NoReq /\ t[i].atom >= t[i].req.n /\ B[i] = t[i].req.mf
        BY <3>2
      <4>2. i < n /\ i \in DOMAIN q /\ t[i] = q[i]
        BY <1>4, <3>2
      <4>3. i \in DOMAIN s /\ s[i] = t[i]
        BY <3>3, <4>1, <4>2
      <4>4. QED
        BY <3>2, <4>1, <4>2, <4>3
    <3>6. \A i \in DOMAIN A : A[i] \in Y => i \in DOMAIN B \ {n} /\ B[i] = A[i]
      <4> TAKE i \in DOMAIN A
      <4> HAVE A[i] \in Y
      <4>1. s[i] # NoReq /\ s[i].atom >= s[i].req.n /\ A[i] = s[i].req.mf
        BY <3>2
      <4>2. i \in DOMAIN q /\ q[i] = s[i] /\ i \in DOMAIN t \ {n}
        BY <1>4, <3>2, <3>3, <4>1
      <4>3. t[i] = s[i]
        BY <1>4, <4>2
      <4>4. QED
        BY <3>2, <4>1, <4>2, <4>3
    <3>7. CASE done /\ r.mf \in Y
      <4>1. n \in DOMAIN B /\ B[n] = r.mf
        BY <1>4, <1>6, <3>2, <3>4, <3>7
      <4>2. Joined(Y, A, B, r.mf)
        BY <3>2, <3>5, <3>6, <3>7, <4>1, JoinedAtPlace
      <4>3. QED
        BY <2>1, <3>7, <4>2 DEF A, B, s
    <3>8. CASE ~(done /\ r.mf \in Y)
      <4>1. B[n] \notin Y
        BY <1>4, <3>2, <3>4, <3>8
      <4>2. Kept(Y, A, B)
        <5>1. \A i \in DOMAIN B : B[i] \in Y => i \in DOMAIN A /\ A[i] = B[i]
          BY <3>5, <4>1
        <5>2. \A i \in DOMAIN A : A[i] \in Y => i \in DOMAIN B /\ B[i] = A[i]
          BY <3>6
        <5>3. QED
          BY <5>1, <5>2, SameAtPlaces
      <4>3. QED
        BY <2>1, <3>8, <4>2 DEF A, B, s
    <3>9. QED
      BY <3>7, <3>8
  <2>7. IF done /\ r.mf \in Y THEN Left(Y, V[8], W[8], r.mf) ELSE Kept(Y, V[8], W[8])
    <3>1. CASE k = b
      <4>1. V[8] = <<r.mf>> /\ W[8] = IF done THEN <<>> ELSE V[8]
        BY <2>1, <3>1 DEF ServedBy, AtomSent
      <4>2. CASE done
        <5>1. V[8] \in Seq({r.mf}) /\ V[8] # <<>> /\ Head(V[8]) = r.mf /\ W[8] = Tail(V[8])
          BY <4>1, <4>2
        <5>2. IF r.mf \in Y THEN Left(Y, V[8], W[8], r.mf) ELSE Kept(Y, V[8], W[8])
          BY <5>1, HeadLeaves
        <5>3. QED
          BY <4>2, <5>2
      <4>3. CASE ~done
        BY <4>1, <4>3, NothingMoves
      <4>4. QED
        BY <4>2, <4>3
    <3>2. CASE k # b
      <4>1. W[8] = V[8] /\ r.mf \notin Y
        BY <2>0, <2>1, <2>3, <3>2 DEF ServedBy, AtomSent
      <4>2. QED
        BY <4>1, NothingMoves
    <3>3. QED
      BY <3>1, <3>2
  <2>8. ~ \E m \in Stages : 8 < m /\ m < 9
    BY DEF Stages
  <2>9. CASE done
    <3>1. PassesOn(V, W, c, 8, 9, r.mf)
      BY <2>4, <2>6, <2>7, <2>8, <2>9 DEF PassesOn
    <3>2. QED
      BY <2>9, <3>1 DEF V, W
  <2>10. CASE ~done
    <3>1. \A m \in Stages : Kept(Y, V[m], W[m])
      BY <2>4, <2>6, <2>7, <2>10
    <3>2. QED
      BY <2>10, <3>1 DEF V, W
  <2>11. QED
    BY <2>9, <2>10
<1>9. CASE done
  <2>1. 8 \in 5..10 /\ 9 \in 5..10 /\ 8 < 9
    OBVIOUS
  <2>2. \A c \in Used : PassesOn(Lane(lat, d, c), Lane(lat, e, c), c, 8, 9, r.mf)
    BY <1>8, <1>9
  <2>3. QED
    BY <1>7, <2>1, <2>2, PassingCarries
<1>10. CASE ~done
  <2>1. \A m \in 5..10 : m \in Stages
    BY DEF Stages
  <2>2. \A c \in Used : \A m \in 5..10 : Kept(Own(c), Lane(lat, d, c)[m], Lane(lat, e, c)[m])
    BY <1>8, <1>10, <2>1
  <2>3. QED
    BY <1>7, <2>2, StayingCarries
<1>11. QED
  BY <1>9, <1>10

\* The shape of the channel, as ChannelTypes has it.
LEMMA ShapeOfChannel ==
  ASSUME NEW lat, NEW d, ChannelTypes(lat, d)
  PROVE  /\ DOMAIN d = ChannelFields /\ DOMAIN d.bank = Banks /\ d.prio \in Nat
         /\ \A b \in Banks : DOMAIN d.bank[b] = {"mrq", "tx", "open", "row", "c"}
BY FieldsOfChannel DEF ChannelTypes

\* The guard of a column command has room for it on the bus.
LEMMA ColumnAllowed ==
  ASSUME NEW lat, NEW d, ChannelTypes(lat, d), NEW b, CommandTo(d, b) \in {"read", "write"}
  PROVE  d.bank[b].mrq # NoReq /\ Len(d.rwq.slots) <= CL
<1>1. d.bank[b].mrq # NoReq
  BY DEF CommandTo
<1>2. ~Full(d.rwq.slots, CL + 1)
  BY DEF CommandTo, Column
<1>3. Len(d.rwq.slots) \in Nat /\ CL \in Nat
  BY PipeLengths, PipeOfChannel DEF PipeOK
<1>4. QED
  BY <1>1, <1>2, <1>3 DEF Full

\* A command to a bank.
LEMMA IssueCarries ==
  ASSUME NEW lat, NEW d, ChannelTypes(lat, d), setup \in Setups
  PROVE  Carries(lat, d, lat, Issue(d, Command(d))) /\ Issue(d, Command(d)).mrqq = d.mrqq
<1> DEFINE c == Command(d)
           b == c.bank
           f == Issue(d, c)
<1>1. /\ DOMAIN d = ChannelFields /\ DOMAIN d.bank = Banks /\ d.prio \in Nat
      /\ \A j \in Banks : DOMAIN d.bank[j] = {"mrq", "tx", "open", "row", "c"}
  BY ShapeOfChannel
<1>2. b \in Banks /\ (c.kind # "nop" => c.kind = CommandTo(d, b))
      /\ c.kind \in {"nop", "read", "write", "activate", "precharge"}
  BY <1>1, CommandTold DEF Commands
<1>3. ASSUME NEW rw, c.kind \in {"read", "write"}
      PROVE  LET g == ColumnIssued(d, b, rw)
             IN Carries(lat, d, lat, g) /\ ChannelTypes(lat, g) /\ g.mrqq = d.mrqq
  <2>1. d.bank[b].mrq # NoReq /\ Len(d.rwq.slots) <= CL
    <3> HIDE DEF c
    <3> QED  BY <1>2, <1>3, ColumnAllowed
  <2>2. AtomSent(d, ColumnIssued(d, b, rw), b)
    BY <1>2, <2>1, ColumnSends
  <2>3. QED
    BY <1>2, <2>1, <2>2, AtomSentCarries DEF AtomSent, Carries
<1> HIDE DEF c
<1>4. ASSUME c.kind = "read" PROVE Carries(lat, d, lat, f) /\ f.mrqq = d.mrqq
  <2> DEFINE g == ColumnIssued(d, b, "read")
  <2>1. f = [g EXCEPT !.c.RTW = T.RTW, !.bank[b].c.RTP = T.RTP, !.group[Group(b)].RTPL = T.RTPL]
    BY <1>4 DEF Issue
  <2>2. Carries(lat, d, lat, g) /\ ChannelTypes(lat, g) /\ g.mrqq = d.mrqq
    BY <1>3, <1>4
  <2> HIDE DEF g, f
  <2>3. /\ DOMAIN g = ChannelFields /\ DOMAIN g.bank = Banks /\ g.prio \in Nat
        /\ \A j \in Banks : DOMAIN g.bank[j] = {"mrq", "tx", "open", "row", "c"}
    BY <2>2, ShapeOfChannel
  <2>4. SameRequestsIn(g, f)
    BY <1>2, <2>1, <2>3 DEF SameRequestsIn, ChannelFields
  <2>5. Carries(lat, g, lat, f)
    BY <2>2, <2>4, SameRequestsCarries
  <2>6. f.mrqq = d.mrqq
    BY <2>2, <2>4 DEF SameRequestsIn
  <2>7. QED
    BY <2>2, <2>5, <2>6, CarriesOn
<1>5. ASSUME c.kind = "write" PROVE Carries(lat, d, lat, f) /\ f.mrqq = d.mrqq
  <2> DEFINE g == ColumnIssued(d, b, "write")
  <2>1. f = [g EXCEPT !.c.WTR = T.WTR, !.bank[b].c.WTP = T.WTP]
    BY <1>5 DEF Issue
  <2>2. Carries(lat, d, lat, g) /\ ChannelTypes(lat, g) /\ g.mrqq = d.mrqq
    BY <1>3, <1>5
  <2> HIDE DEF g, f
  <2>3. /\ DOMAIN g = ChannelFields /\ DOMAIN g.bank = Banks /\ g.prio \in Nat
        /\ \A j \in Banks : DOMAIN g.bank[j] = {"mrq", "tx", "open", "row", "c"}
    BY <2>2, ShapeOfChannel
  <2>4. SameRequestsIn(g, f)
    BY <1>2, <2>1, <2>3 DEF SameRequestsIn, ChannelFields
  <2>5. Carries(lat, g, lat, f)
    BY <2>2, <2>4, SameRequestsCarries
  <2>6. f.mrqq = d.mrqq
    BY <2>2, <2>4 DEF SameRequestsIn
  <2>7. QED
    BY <2>2, <2>5, <2>6, CarriesOn
<1>6. (b + 1) % NumBanks \in Nat
  <2>1. b + 1 \in Nat
    BY <1>2, DramConstants DEF Banks
  <2>2. QED
    BY <2>1, Remainder
<1>7. ASSUME c.kind = "activate" PROVE SameRequestsIn(d, f)
  <2>1. PICK x, r, n : /\ n = (b + 1) % NumBanks
                       /\ f = [d EXCEPT !.bank[b].open = TRUE, !.bank[b].row = r, !.bank[b].c = x,
                                        !.c.RRD = T.RRD, !.prio = n]
    <3>1. f = [d EXCEPT !.bank[b].open = TRUE, !.bank[b].row = d.bank[b].mrq.row,
                      !.bank[b].c = [t \in Timers |-> IF t \in {"RCD", "RCDWR", "RAS", "RC"}
                                                           THEN T[t] ELSE @[t]],
                      !.c.RRD = T.RRD, !.prio = (b + 1) % NumBanks]
      BY <1>7 DEF Issue
    <3>2. PICK x, r, n : /\ r = d.bank[b].mrq.row /\ n = (b + 1) % NumBanks
                         /\ x = [t \in Timers |-> IF t \in {"RCD", "RCDWR", "RAS", "RC"}
                                                  THEN T[t] ELSE d.bank[b].c[t]]
      OBVIOUS
    <3>3. f = [d EXCEPT !.bank[b].open = TRUE, !.bank[b].row = r, !.bank[b].c = x, !.c.RRD = T.RRD, !.prio = n]
      <4> HIDE DEF f
      <4> QED  BY <1>1, <1>2, <3>1, <3>2 DEF ChannelFields
    <3>4. QED
      BY <3>2, <3>3
  <2> HIDE DEF f
  <2>2. /\ DOMAIN f = DOMAIN d /\ f.mrqq = d.mrqq /\ f.queue = d.queue /\ f.lastrow = d.lastrow
        /\ f.rwq = d.rwq /\ f.returnq = d.returnq /\ f.prio \in Nat /\ DOMAIN f.bank = Banks
    BY <1>1, <1>2, <1>6, <2>1 DEF ChannelFields
  <2>3. \A j \in Banks : /\ DOMAIN f.bank[j] = DOMAIN d.bank[j]
                          /\ f.bank[j].mrq = d.bank[j].mrq /\ f.bank[j].tx = d.bank[j].tx
    BY <1>1, <1>2, <2>1 DEF ChannelFields
  <2>4. QED
    BY <2>2, <2>3 DEF SameRequestsIn
<1>8. ASSUME c.kind = "precharge" PROVE SameRequestsIn(d, f)
  <2>1. f = [d EXCEPT !.bank[b].open = FALSE, !.bank[b].c.RP = T.RP, !.prio = (b + 1) % NumBanks]
    BY <1>8 DEF Issue
  <2> HIDE DEF f
  <2>2. /\ DOMAIN f = DOMAIN d /\ f.mrqq = d.mrqq /\ f.queue = d.queue /\ f.lastrow = d.lastrow
        /\ f.rwq = d.rwq /\ f.returnq = d.returnq /\ f.prio \in Nat /\ DOMAIN f.bank = Banks
    BY <1>1, <1>2, <1>6, <2>1 DEF ChannelFields
  <2>3. \A j \in Banks : /\ DOMAIN f.bank[j] = DOMAIN d.bank[j]
                          /\ f.bank[j].mrq = d.bank[j].mrq /\ f.bank[j].tx = d.bank[j].tx
    BY <1>1, <1>2, <2>1 DEF ChannelFields
  <2>4. QED
    BY <2>2, <2>3 DEF SameRequestsIn
<1>9. ASSUME c.kind = "nop" PROVE f = d
  BY <1>9 DEF Issue
<1> HIDE DEF f
<1>10. Carries(lat, d, lat, f) /\ f.mrqq = d.mrqq
  <2>1. CASE c.kind \in {"activate", "precharge"}
    <3>1. SameRequestsIn(d, f)
      BY <1>7, <1>8, <2>1
    <3>2. QED
      BY <3>1, SameRequestsCarries DEF SameRequestsIn
  <2>2. CASE c.kind = "nop"
    BY <1>9, <2>2, SameCarries
  <2>3. QED
    BY <1>2, <1>4, <1>5, <2>1, <2>2
<1>11. QED
  BY <1>10 DEF f, c

\* The counters of the channel count down; no request moves.
LEMMA TickCarries ==
  ASSUME NEW lat, NEW d, ChannelTypes(lat, d), setup \in Setups
  PROVE  Carries(lat, d, lat, Tick(d)) /\ Tick(d).mrqq = d.mrqq
<1>1. /\ DOMAIN d = ChannelFields /\ DOMAIN d.bank = Banks /\ d.prio \in Nat
      /\ \A j \in Banks : DOMAIN d.bank[j] = {"mrq", "tx", "open", "row", "c"}
  BY ShapeOfChannel
<1>2. SameRequestsIn(d, Tick(d))
  BY <1>1 DEF SameRequestsIn, ChannelFields, Tick
<1>3. QED
  BY <1>2, SameRequestsCarries DEF SameRequestsIn

\* What follows the transfer in a cycle of the channel.
LEMMA CommandsCarry ==
  ASSUME NEW lat, NEW d, ChannelTypes(lat, d), setup \in Setups, RoomBehind(d)
  PROVE  LET e == Schedule(d, setup.sched)
             f == Tick(Issue(e, Command(e)))
         IN Carries(lat, d, lat, f) /\ (setup.sched = "frfcfs" => Len(f.mrqq) < MrqqSize)
<1> DEFINE e == Schedule(d, setup.sched)
           g == Issue(e, Command(e))
<1>0. setup.sched \in {"frfcfs", "fifo"}
  BY SetupTypes
<1>1. Carries(lat, d, lat, e) /\ (setup.sched = "frfcfs" => Len(e.mrqq) < MrqqSize)
  <2>1. CASE setup.sched = "frfcfs"
    <3>1. Len(d.mrqq) = MrqqSize => ~DramFull(d, "frfcfs")
      BY <2>1 DEF RoomBehind
    <3>2. e = ScheduleFrFcfs(d)
      BY <2>1 DEF Schedule
    <3> HIDE DEF e
    <3>3. QED
      BY <2>1, <3>1, <3>2, FrFcfsCarries
  <2>2. CASE setup.sched = "fifo"
    <3>1. e = ScheduleFifo(d)
      BY <2>2 DEF Schedule
    <3> HIDE DEF e
    <3>2. QED
      BY <2>2, <3>1, FifoCarries
  <2>3. QED
    BY <1>0, <2>1, <2>2
<1> HIDE DEF e
<1>2. Carries(lat, e, lat, g) /\ g.mrqq = e.mrqq
  BY <1>1, IssueCarries DEF Carries
<1> HIDE DEF g
<1>3. Carries(lat, g, lat, Tick(g)) /\ Tick(g).mrqq = g.mrqq
  BY <1>2, TickCarries DEF Carries
<1>4. Carries(lat, d, lat, Tick(g)) /\ (setup.sched = "frfcfs" => Len(Tick(g).mrqq) < MrqqSize)
  BY <1>1, <1>2, <1>3, CarriesOn
<1>5. QED
  BY <1>4 DEF e, g

\* The head of a queue that goes to the next stage passes no request.
LEMMA HeadPasses ==
  ASSUME NEW V, NEW W, NEW k \in Stages, k + 1 \in Stages, NEW x, HeadGoes(V, W, k, k + 1, x), NEW b
  PROVE  PassesOn(V, W, b, k, k + 1, x)
<1>1. IF x \in Own(b) THEN Left(Own(b), V[k], W[k], x) ELSE Kept(Own(b), V[k], W[k])
  BY HeadLeaves DEF HeadGoes
<1>2. x \in Mfs
  BY DEF HeadGoes
<1>3. IF x \in Own(b) THEN Joined(Own(b), V[k + 1], W[k + 1], x) ELSE Kept(Own(b), V[k + 1], W[k + 1])
  <2> DEFINE q == V[k + 1]
             r == W[k + 1]
  <2>1. q \in Seq(Mfs) /\ r = Append(q, x)
    BY DEF HeadGoes
  <2> HIDE DEF q, r
  <2>2. IF x \in Own(b) THEN Joined(Own(b), q, r, x) ELSE Kept(Own(b), q, r)
    BY <1>2, <2>1, TailJoins
  <2>3. QED
    BY <2>2 DEF q, r
<1>4. ~ \E m \in Stages : k < m /\ m < k + 1
  BY DEF Stages
<1>5. \A m \in Stages \ {k, k + 1} : Kept(Own(b), V[m], W[m])
  BY NothingMoves DEF HeadGoes
<1>6. QED
  BY <1>1, <1>3, <1>4, <1>5 DEF PassesOn

\* A request of a slice goes on, between the slice and the channel.
LEMMA SlicePasses ==
  ASSUME NEW s \in Subs, NEW u, NEW v, NEW lat, NEW d, NEW next, NEW e, NEW arr,
         SliceOK(u, s, lat, d, arr), SliceTypes(v, s, arr),
         NEW k \in Stages, NEW l \in Stages, k < l, l # 12, NEW x,
         \A b \in Used : SubOf(b) = s => PassesOn(Way(u, lat, d, b), Way(v, next, e, b), b, k, l, x),
         v.mshr = u.mshr, v.extra = u.extra, v.ready = u.ready, v.line = u.line, v.tracker = u.tracker
  PROVE  SliceOK(v, s, next, e, arr)
<1>1. ASSUME NEW b \in Used, SubOf(b) = s PROVE Tracked(Way(v, next, e, b), v, arr, b)
  <2>1. Tracked(Way(u, lat, d, b), u, arr, b)
    BY <1>1 DEF SliceOK
  <2>2. SameBooks(u, v, b)
    BY DEF SameBooks, Fetches
  <2>3. PassesOn(Way(u, lat, d, b), Way(v, next, e, b), b, k, l, x)
    BY <1>1
  <2>4. QED
    BY <2>1, <2>2, <2>3, BlockPasses
<1>2. QED
  BY <1>1 DEF SliceOK

\* dram_req_t: a request to DRAM is to the bank and the row of its block.
LEMMA DramReqTypes ==
  ASSUME setup \in Setups, NEW y \in Mfs
  PROVE  DramReq(y) \in DramReqs /\ DramReq(y).mf = y /\ DramReq(y).writeback = IsWriteback(y)
<1> DEFINE b == Block(y)
           n == IF y \in sub[SubOf(b)].extra \/ Kind(y) = "wb" THEN LineAtoms ELSE 1
<1>1. y \in AnyMf
  BY SetupTypes DEF Mfs, AnyMf
<1>2. BankOfBlock[b] \in Banks /\ RowOfBlock[b] \in Nat
  BY OwnBlocks, SetupTypes, PartitionConstants
<1>3. n \in Nat
  BY Sizes
<1>4. IsWriteback(y) \in BOOLEAN
  BY DEF IsWriteback
<1>5. DramReq(y) = [mf |-> y, bk |-> BankOfBlock[b], row |-> RowOfBlock[b],
                    rw |-> IF IsWrite(y) THEN "write" ELSE "read", writeback |-> IsWriteback(y), n |-> n]
  BY DEF DramReq
<1> HIDE DEF n, b
<1>6. QED
  BY <1>1, <1>2, <1>3, <1>4, <1>5 DEF DramReqs, AnyReq, b

\* dram_t::push.
LEMMA LeaveLatencyCarries ==
  ASSUME NEW lat, NEW d, ChannelTypes(lat, d), setup \in Setups, lat # <<>>,
         ~DramFull(d, setup.sched), setup.sched = "frfcfs" => Len(d.mrqq) < MrqqSize
  PROVE  LET e == DramPush(d, DramReq(Head(lat)))
         IN Carries(lat, d, Tail(lat), e) /\ RoomBehind(e)
<1> DEFINE x == Head(lat)
           r == DramReq(x)
           e == DramPush(d, r)
           next == Tail(lat)
<1>1. lat \in Seq(Mfs) /\ x \in Mfs /\ next \in Seq(Mfs)
  BY DEF ChannelTypes
<1>2. r \in DramReqs /\ r.mf = x
  BY <1>1, DramReqTypes
<1>3. DOMAIN d = ChannelFields /\ d.mrqq \in Seq(DramReqs) /\ Len(d.mrqq) \in Nat
  BY FieldsOfChannel DEF ChannelTypes
<1> HIDE DEF r, x
<1>4. /\ e.mrqq = Append(d.mrqq, r) /\ DOMAIN e = ChannelFields /\ e.queue = d.queue /\ e.bank = d.bank
      /\ e.lastrow = d.lastrow /\ e.prio = d.prio /\ e.rwq = d.rwq /\ e.returnq = d.returnq
  BY <1>3 DEF DramPush, ChannelFields
<1> HIDE DEF e, next
<1>5. Len(e.mrqq) = Len(d.mrqq) + 1 /\ e.mrqq \in Seq(DramReqs)
  BY <1>2, <1>3, <1>4
<1>6. Len(d.mrqq) < MrqqSize
  <2>1. setup.sched # "frfcfs" => ~Full(d.mrqq, MrqqSize)
    BY DEF DramFull
  <2>2. QED
    BY <1>3, <2>1 DEF Full, MrqqSize
<1>7. ChannelTypes(next, e)
  <2>1. Len(e.mrqq) <= MrqqSize
    BY <1>3, <1>5, <1>6 DEF MrqqSize
  <2>2. QED
    BY <1>1, <1>4, <1>5, <2>1, FieldsOfChannel DEF ChannelTypes
<1>8. RoomBehind(e)
  BY <1>4 DEF RoomBehind, DramFull, Pending
<1>9. ASSUME NEW b \in Used PROVE PassesOn(Lane(lat, d, b), Lane(next, e, b), b, 5, 6, x)
  <2> DEFINE V == Lane(lat, d, b)
             W == Lane(next, e, b)
             k == BankOfBlock[b]
  <2>1. /\ V[5] = lat /\ V[6] = MfsOf(d.mrqq) /\ V[7] = MfsOf(d.queue[k])
        /\ V[8] = ServedBy(d, k) /\ V[9] = OnBus(d.rwq.slots) /\ V[10] = MfsOf(d.returnq)
        /\ W[5] = next /\ W[6] = MfsOf(e.mrqq) /\ W[7] = MfsOf(e.queue[k])
        /\ W[8] = ServedBy(e, k) /\ W[9] = OnBus(e.rwq.slots) /\ W[10] = MfsOf(e.returnq)
    BY LaneOf
  <2>2. \A m \in Stages \ (5..10) : W[m] = V[m]
    BY LaneElsewhere
  <2> HIDE DEF V, W, k
  <2>3. V[6] \in Seq(Mfs) /\ W[6] = Append(V[6], x)
    BY <1>2, <1>3, <1>4, <2>1, MfsFacts
  <2>4. W[8] = V[8]
    BY <1>4, <2>1 DEF ServedBy
  <2>5. \A m \in Stages \ {5, 6} : W[m] = V[m]
    BY <1>4, <2>1, <2>2, <2>4 DEF Stages
  <2>6. HeadGoes(V, W, 5, 5 + 1, x)
    BY <1>1, <2>1, <2>3, <2>5 DEF HeadGoes, x, next
  <2>7. 5 \in Stages /\ 5 + 1 \in Stages
    BY DEF Stages
  <2>8. PassesOn(V, W, b, 5, 5 + 1, x)
    BY <2>6, <2>7, HeadPasses
  <2>9. QED
    BY <2>8 DEF V, W
<1>10. 5 \in 5..10 /\ 6 \in 5..10 /\ 5 < 6
  OBVIOUS
<1>11. Carries(lat, d, next, e)
  BY <1>7, <1>9, <1>10, PassingCarries
<1>12. QED
  BY <1>8, <1>11 DEF e, r, x, next

\* What leaves the data bus.
LEMMA BusPopped ==
  ASSUME NEW p, PipeOK(p)
  PROVE  /\ PipeOK(PipePop(p)) /\ p.slots # <<>>
         /\ \A b : IF OnBus(p.slots)[1] \in Own(b)
                   THEN Left(Own(b), OnBus(p.slots), OnBus(PipePop(p).slots), OnBus(p.slots)[1])
                   ELSE Kept(Own(b), OnBus(p.slots), OnBus(PipePop(p).slots))
<1> DEFINE q == p.slots
           S == Transfers \cup {NoReq}
           L == Len(q)
           r == Padded(Tail(q), p.min)
<1>1. /\ q \in Seq(S) /\ L \in Nat /\ DOMAIN q = 1..L /\ p.min \in Nat /\ 1 <= p.min /\ p.min <= L
      /\ L <= CL + 1 /\ CL \in Nat /\ DOMAIN p = {"min", "slots"} /\ p.min \in {CL, WL}
  BY PipeLengths DEF PipeOK
<1>2. q # <<>> /\ Tail(q) \in Seq(S) /\ Len(Tail(q)) = L - 1 /\ \A i \in 1..(L - 1) : Tail(q)[i] = q[i + 1]
  <2>1. q # <<>>
    BY <1>1
  <2> HIDE DEF S
  <2>2. QED
    BY <1>1, <2>1
<1>3. PipePop(p) = [p EXCEPT !.slots = r]
  BY <1>2 DEF PipePop
<1> HIDE DEF q, L
<1>4. /\ r \in Seq(S) /\ Len(r) = IF p.min > L - 1 THEN p.min ELSE L - 1
      /\ \A i \in 1..(L - 1) : r[i] = Tail(q)[i]
      /\ \A i \in DOMAIN r : i \in 1..(L - 1) \/ r[i] = NoReq
  <2> DEFINE t == Tail(q)
  <2>1. t \in Seq(Transfers \cup {NoReq}) /\ Len(t) = L - 1 /\ p.min \in Nat
    BY <1>1, <1>2
  <2> HIDE DEF t
  <2>2. /\ Padded(t, p.min) \in Seq(Transfers \cup {NoReq})
        /\ Len(Padded(t, p.min)) = IF p.min > Len(t) THEN p.min ELSE Len(t)
        /\ \A i \in 1..Len(t) : Padded(t, p.min)[i] = t[i]
        /\ \A i \in DOMAIN Padded(t, p.min) : i \in 1..Len(t) \/ Padded(t, p.min)[i] = NoReq
    BY <2>1, PaddedPlaces
  <2>3. r = Padded(t, p.min)
    BY DEF t
  <2> HIDE DEF r
  <2>4. QED
    BY <2>1, <2>2, <2>3 DEF t
<1> HIDE DEF r
<1>5. Len(r) \in p.min..(CL + 1) /\ DOMAIN r = 1..Len(r) /\ L - 1 <= Len(r) /\ Len(r) \in Nat
  <2>1. Len(r) = IF p.min > L - 1 THEN p.min ELSE L - 1
    BY <1>4
  <2>2. Len(r) \in Nat /\ p.min <= Len(r) /\ Len(r) <= CL + 1 /\ L - 1 <= Len(r)
    BY <1>1, <2>1
  <2>3. QED
    BY <1>1, <1>4, <2>2
<1>6. PipePop(p).slots = r /\ PipePop(p).min = p.min /\ DOMAIN PipePop(p) = {"min", "slots"}
  BY <1>1, <1>3
<1>7. PipeOK(PipePop(p))
  BY <1>1, <1>4, <1>5, <1>6 DEF PipeOK
<1>8. ASSUME NEW b
      PROVE  IF OnBus(q)[1] \in Own(b) THEN Left(Own(b), OnBus(q), OnBus(r), OnBus(q)[1])
                                       ELSE Kept(Own(b), OnBus(q), OnBus(r))
  <2> DEFINE A == OnBus(q)
             B == OnBus(r)
             Y == Own(b)
  <2>1. /\ DOMAIN A = 1..L /\ DOMAIN B = 1..Len(r)
        /\ \A i \in 1..L : A[i] \in Y => q[i] # NoReq /\ q[i].atom >= q[i].req.n /\ A[i] = q[i].req.mf
        /\ \A i \in 1..Len(r) : B[i] \in Y => r[i] # NoReq /\ r[i].atom >= r[i].req.n /\ B[i] = r[i].req.mf
        /\ \A i \in 1..L : q[i] # NoReq /\ q[i].atom >= q[i].req.n => A[i] = q[i].req.mf
        /\ \A i \in 1..Len(r) : r[i] # NoReq /\ r[i].atom >= r[i].req.n => B[i] = r[i].req.mf
    BY <1>1, <1>4, <1>5, OnBusFacts
  <2> HIDE DEF A, B, Y
  <2>2. \A i \in 1..(L - 1) : /\ i \in 1..Len(r) /\ i + 1 \in 1..L /\ Shift(1, i) = i + 1 /\ r[i] = q[i + 1]
    BY <1>1, <1>2, <1>4, <1>5 DEF Shift
  <2>3. \A i \in DOMAIN B : B[i] \in Y => Shift(1, i) \in 1..L /\ A[Shift(1, i)] = B[i]
    <3> TAKE i \in DOMAIN B
    <3> HAVE B[i] \in Y
    <3>1. i \in 1..(L - 1)
      BY <1>4, <1>5, <2>1
    <3>2. QED
      BY <2>1, <2>2, <3>1
  <2>4. \A i \in (1..L) \ {1} : A[i] \in Y => \E j \in DOMAIN B : Shift(1, j) = i /\ B[j] = A[i]
    <3> TAKE i \in (1..L) \ {1}
    <3> HAVE A[i] \in Y
    <3>1. i - 1 \in 1..(L - 1) /\ (i - 1) + 1 = i
      BY <1>1
    <3>2. i - 1 \in DOMAIN B /\ Shift(1, i - 1) = i /\ r[i - 1] = q[i]
      BY <2>1, <2>2, <3>1
    <3>3. B[i - 1] = A[i]
      BY <2>1, <3>2
    <3>4. QED
      BY <3>2, <3>3
  <2>5. 1 \in 1..L /\ \A i \in 1..(1 - 1) : A[i] \notin Y
    BY <1>1
  <2>6. DOMAIN B \subseteq Nat /\ DOMAIN A = 1..L
    BY <2>1, <1>5
  <2>7. /\ A[1] \notin Y => Kept(Y, A, B)
        /\ A[1] \in Y /\ (\A i \in 1..(1 - 1) : A[i] \notin Y) => Left(Y, A, B, A[1])
    BY <1>1, <2>3, <2>4, <2>5, <2>6, LeftFromPlace
  <2>8. QED
    BY <2>5, <2>7 DEF A, B, Y
<1>9. QED
  BY <1>2, <1>6, <1>7, <1>8 DEF q

-----------------------------------------------------------------------------
(* The end of a transfer.                                                  *)

\* The request that is complete with a transfer.
LEMMA CompletingFacts ==
  ASSUME NEW lat, NEW d, ChannelTypes(lat, d)
  PROVE  LET c == Completing(d)
             x == OnBus(d.rwq.slots)[1]
         IN /\ c # NoReq => c \in DramReqs /\ ~Full(d.returnq, ReturnSize) /\ x = c.mf
            /\ c = NoReq /\ ~Full(d.returnq, ReturnSize) => x = <<>>
<1> DEFINE q == d.rwq.slots
           h == Head(q)
           c == Completing(d)
<1>1. q \in Seq(Transfers \cup {NoReq}) /\ q # <<>>
  BY PipeOfChannel, BusPopped DEF PipeOK
<1>2. h \in Transfers \cup {NoReq} /\ h = q[1] /\ 1 \in DOMAIN q
  BY <1>1
<1>3. h # NoReq => h.req \in DramReqs /\ h.req # NoReq
  BY <1>2, NullIsNoRequest DEF Transfers, DramReqs
<1>4. OnBus(q)[1] = IF h # NoReq /\ h.atom >= h.req.n THEN h.req.mf ELSE <<>>
  BY <1>2 DEF OnBus, Complete
<1> HIDE DEF h
<1>5. c = IF Full(d.returnq, ReturnSize) THEN NoReq
          ELSE IF h # NoReq /\ h.atom >= h.req.n THEN h.req ELSE NoReq
  BY <1>1 DEF Completing, Arriving, h
<1> HIDE DEF c, q
<1>6. QED
  BY <1>3, <1>4, <1>5 DEF c, q

\* The end of a transfer.
LEMMA TransferMoves ==
  ASSUME NEW lat, NEW d, ChannelTypes(lat, d), setup \in Setups
  PROVE  LET c == Completing(d)
             e == Transfer(d)
         IN /\ ChannelTypes(lat, e) /\ e.mrqq = d.mrqq /\ e.queue = d.queue
            /\ c = NoReq \/ ~c.writeback => Carries(lat, d, lat, e)
            /\ c # NoReq /\ c.writeback => \A b \in Used :
                 /\ \A m \in Stages \ {9} : Lane(lat, e, b)[m] = Lane(lat, d, b)[m]
                 /\ IF c.mf \in Own(b) THEN Left(Own(b), Lane(lat, d, b)[9], Lane(lat, e, b)[9], c.mf)
                                       ELSE Kept(Own(b), Lane(lat, d, b)[9], Lane(lat, e, b)[9])
<1> DEFINE c == Completing(d)
           e == Transfer(d)
           q == d.rwq.slots
           x == OnBus(q)[1]
           back == IF c # NoReq /\ ~c.writeback THEN Append(d.returnq, c) ELSE d.returnq
<1>0. /\ c # NoReq => c \in DramReqs /\ ~Full(d.returnq, ReturnSize) /\ x = c.mf
      /\ c = NoReq /\ ~Full(d.returnq, ReturnSize) => x = <<>>
  BY CompletingFacts
<1> HIDE DEF c
<1>1. CASE Full(d.returnq, ReturnSize)
  <2>1. e = d /\ c = NoReq
    BY <1>0, <1>1 DEF Transfer
  <2>2. QED
    BY <2>1, SameCarries DEF c
<1>2. CASE ~Full(d.returnq, ReturnSize)
  <2> DEFINE R == {r \in DramReqs : ~r.writeback}
  <2>1. DOMAIN d = ChannelFields /\ PipeOK(d.rwq) /\ d.returnq \in Seq(R) /\ Len(d.returnq) \in Nat
    <3>1. d.returnq \in Seq(R)
      BY DEF ChannelTypes
    <3>2. QED
      BY <3>1, QueueFacts, FieldsOfChannel, PipeOfChannel DEF ChannelTypes
  <2>2. /\ e.rwq = PipePop(d.rwq) /\ e.returnq = back
        /\ DOMAIN e = ChannelFields /\ e.mrqq = d.mrqq /\ e.queue = d.queue /\ e.bank = d.bank
        /\ e.lastrow = d.lastrow /\ e.prio = d.prio
    BY <1>2, <2>1 DEF Transfer, ChannelFields, c
  <2> HIDE DEF e
  <2> DEFINE t == PipePop(d.rwq).slots
  <2>3. /\ PipeOK(PipePop(d.rwq)) /\ q # <<>>
        /\ \A b : IF x \in Own(b) THEN Left(Own(b), OnBus(q), OnBus(t), x) ELSE Kept(Own(b), OnBus(q), OnBus(t))
    BY <2>1, BusPopped
  <2> HIDE DEF x, t
  <2>4. back \in Seq(R) /\ Len(back) <= ReturnSize
    <3>0. Len(d.returnq) \in Nat /\ ReturnSize \in Nat
      BY <2>1, DramConstants
    <3>1. Len(d.returnq) + 1 <= ReturnSize
      BY <1>2, <3>0 DEF Full
    <3>2. CASE c # NoReq /\ ~c.writeback
      <4>1. c \in R
        BY <1>0, <3>2
      <4>2. back = Append(d.returnq, c)
        BY <3>2
      <4> HIDE DEF R
      <4>3. Len(Append(d.returnq, c)) = Len(d.returnq) + 1 /\ Append(d.returnq, c) \in Seq(R)
        BY <2>1, <4>1
      <4>4. QED
        BY <3>1, <4>2, <4>3
    <3>3. CASE ~(c # NoReq /\ ~c.writeback)
      <4>1. back = d.returnq
        BY <3>3
      <4> HIDE DEF R, back
      <4>2. Len(d.returnq) <= ReturnSize
        BY <3>0, <3>1
      <4>3. QED
        BY <2>1, <4>1, <4>2
    <3>4. QED
      BY <3>2, <3>3
  <2>5. ChannelTypes(lat, e)
    BY <2>2, <2>3, <2>4, FieldsOfChannel DEF ChannelTypes, PipeOK, Transfers
  <2>6. ASSUME NEW b \in Used
        PROVE  /\ \A m \in Stages \ {9, 10} : Lane(lat, e, b)[m] = Lane(lat, d, b)[m]
               /\ Lane(lat, d, b)[9] = OnBus(q) /\ Lane(lat, e, b)[9] = OnBus(t)
               /\ Lane(lat, d, b)[10] = MfsOf(d.returnq) /\ Lane(lat, e, b)[10] = MfsOf(back)
    <3> DEFINE V == Lane(lat, d, b)
               W == Lane(lat, e, b)
               k == BankOfBlock[b]
    <3>1. /\ V[5] = lat /\ V[6] = MfsOf(d.mrqq) /\ V[7] = MfsOf(d.queue[k])
          /\ V[8] = ServedBy(d, k) /\ V[9] = OnBus(q) /\ V[10] = MfsOf(d.returnq)
          /\ W[5] = lat /\ W[6] = MfsOf(e.mrqq) /\ W[7] = MfsOf(e.queue[k])
          /\ W[8] = ServedBy(e, k) /\ W[9] = OnBus(e.rwq.slots) /\ W[10] = MfsOf(e.returnq)
      BY LaneOf
    <3>2. \A m \in Stages \ (5..10) : W[m] = V[m]
      BY LaneElsewhere
    <3> HIDE DEF V, W, k, back
    <3>3. W[8] = V[8]
      BY <2>2, <3>1 DEF ServedBy
    <3>4. \A m \in Stages \ {9, 10} : W[m] = V[m]
      BY <2>2, <3>1, <3>2, <3>3 DEF Stages
    <3>5. QED
      BY <2>2, <3>1, <3>4 DEF V, W, t
  <2>7. ASSUME c # NoReq, ~c.writeback PROVE Carries(lat, d, lat, e)
    <3>1. ASSUME NEW b \in Used PROVE PassesOn(Lane(lat, d, b), Lane(lat, e, b), b, 9, 10, c.mf)
      <4> DEFINE V == Lane(lat, d, b)
                 W == Lane(lat, e, b)
      <4>1. /\ \A m \in Stages \ {9, 10} : W[m] = V[m]
            /\ V[9] = OnBus(q) /\ W[9] = OnBus(t)
            /\ V[10] = MfsOf(d.returnq) /\ W[10] = MfsOf(back)
        BY <2>6
      <4> HIDE DEF V, W, q
      <4>2. IF c.mf \in Own(b) THEN Left(Own(b), V[9], W[9], c.mf) ELSE Kept(Own(b), V[9], W[9])
        BY <1>0, <2>3, <2>7, <4>1
      <4>3. IF c.mf \in Own(b) THEN Joined(Own(b), V[10], W[10], c.mf) ELSE Kept(Own(b), V[10], W[10])
        <5>1. d.returnq \in Seq(DramReqs)
          BY <2>1
        <5>2. back = Append(d.returnq, c)
          BY <2>7
        <5>3. QED
          BY <1>0, <2>7, <4>1, <5>1, <5>2, MfsPushed
      <4>4. ~ \E m \in Stages : 9 < m /\ m < 10
        BY DEF Stages
      <4>5. \A m \in Stages \ {9, 10} : Kept(Own(b), V[m], W[m])
        BY <4>1, NothingMoves
      <4>6. QED
        BY <4>2, <4>3, <4>4, <4>5 DEF PassesOn, V, W
    <3>2. 9 \in 5..10 /\ 10 \in 5..10 /\ 9 < 10
      OBVIOUS
    <3>3. QED
      BY <2>5, <3>1, <3>2, PassingCarries
  <2>8. ASSUME c = NoReq PROVE Carries(lat, d, lat, e)
    <3>1. ASSUME NEW b \in Used PROVE \A m \in 5..10 : Kept(Own(b), Lane(lat, d, b)[m], Lane(lat, e, b)[m])
      <4> DEFINE V == Lane(lat, d, b)
                 W == Lane(lat, e, b)
      <4>1. /\ \A m \in Stages \ {9, 10} : W[m] = V[m]
            /\ V[9] = OnBus(q) /\ W[9] = OnBus(t)
            /\ V[10] = MfsOf(d.returnq) /\ W[10] = MfsOf(back)
        BY <2>6
      <4>2. x \notin Own(b)
        BY <1>0, <1>2, <2>8 DEF Own, Mfs
      <4> HIDE DEF V, W, q
      <4>3. Kept(Own(b), V[9], W[9])
        BY <2>3, <4>1, <4>2
      <4>4. Kept(Own(b), V[10], W[10])
        <5>1. back = d.returnq
          BY <2>8
        <5>2. QED
          BY <4>1, <5>1, NothingMoves
      <4>5. \A m \in 5..10 : m \in Stages
        BY DEF Stages
      <4>6. \A m \in 5..10 : Kept(Own(b), V[m], W[m])
        BY <4>1, <4>3, <4>4, <4>5, NothingMoves
      <4>7. QED
        BY <4>6 DEF V, W
    <3>2. QED
      BY <2>5, <3>1, StayingCarries
  <2>9. ASSUME c # NoReq, c.writeback, NEW b \in Used
        PROVE  /\ \A m \in Stages \ {9} : Lane(lat, e, b)[m] = Lane(lat, d, b)[m]
               /\ IF c.mf \in Own(b) THEN Left(Own(b), Lane(lat, d, b)[9], Lane(lat, e, b)[9], c.mf)
                                     ELSE Kept(Own(b), Lane(lat, d, b)[9], Lane(lat, e, b)[9])
    <3> DEFINE V == Lane(lat, d, b)
               W == Lane(lat, e, b)
    <3>1. /\ \A m \in Stages \ {9, 10} : W[m] = V[m]
          /\ V[9] = OnBus(q) /\ W[9] = OnBus(t)
          /\ V[10] = MfsOf(d.returnq) /\ W[10] = MfsOf(back)
      BY <2>6
    <3>2. back = d.returnq
      BY <2>9
    <3> HIDE DEF V, W, q
    <3>3. \A m \in Stages \ {9} : W[m] = V[m]
      BY <3>1, <3>2
    <3>4. IF c.mf \in Own(b) THEN Left(Own(b), V[9], W[9], c.mf) ELSE Kept(Own(b), V[9], W[9])
      BY <1>0, <2>3, <2>9, <3>1
    <3>5. QED
      BY <3>3, <3>4 DEF V, W
  <2>10. e.mrqq = d.mrqq /\ e.queue = d.queue
    BY <2>2
  <2>11. QED
    BY <2>5, <2>7, <2>8, <2>9, <2>10 DEF e, c
<1>3. QED
  BY <1>1, <1>2

\* A write-back is complete with its last transfer; the others go to returnq.
Completed(u, c, s) ==
  IF c # NoReq /\ c.writeback /\ SubOf(Block(c.mf)) = s
  THEN [u EXCEPT !.tracker = IF Kind(c.mf) = "l1wb" THEN @ \ {c.mf[2]} ELSE @] ELSE u

\* What is kept of a slice stays true when a transfer ends: a write-back that is
\* complete is set_done, and leaves its tracker.
LEMMA TransferOK ==
  ASSUME NEW s \in Subs, NEW u, NEW lat, NEW d, NEW arr, SliceOK(u, s, lat, d, arr),
         ChannelTypes(lat, d), setup \in Setups
  PROVE  SliceOK(Completed(u, Completing(d), s), s, lat, Transfer(d), arr)
<1> DEFINE c == Completing(d)
           e == Transfer(d)
           v == Completed(u, c, s)
           x == c.mf
<1>1. /\ ChannelTypes(lat, e)
      /\ c = NoReq \/ ~c.writeback => Carries(lat, d, lat, e)
      /\ c # NoReq /\ c.writeback => \A b \in Used :
           /\ \A m \in Stages \ {9} : Lane(lat, e, b)[m] = Lane(lat, d, b)[m]
           /\ IF c.mf \in Own(b) THEN Left(Own(b), Lane(lat, d, b)[9], Lane(lat, e, b)[9], c.mf)
                                 ELSE Kept(Own(b), Lane(lat, d, b)[9], Lane(lat, e, b)[9])
  BY TransferMoves
<1>2. c # NoReq => c \in DramReqs
  BY CompletingFacts
<1> HIDE DEF c, e
<1>3. CASE c = NoReq \/ ~c.writeback
  <2>1. v = u
    BY <1>3 DEF Completed
  <2>2. QED
    BY <1>1, <1>3, <2>1 DEF Carries, c, e
<1>4. CASE c # NoReq /\ c.writeback
  <2>1. x \in Mfs /\ IsWriteback(x)
    BY <1>2, <1>4 DEF DramReqs
  <2>2. /\ DOMAIN u = Fields /\ u.extra \subseteq {y \in OfSlice(s) : ~IsWrite(y)}
        /\ u.tracker \subseteq {r \in arr : SubOf(setup.reqs[r].block) = s}
    BY FieldsOfSlice DEF SliceOK, SliceTypes
  <2>3. /\ v.rop = u.rop /\ v.in = u.in /\ v.missq = u.missq /\ v.todram = u.todram
        /\ v.fromdram = u.fromdram /\ v.out = u.out
        /\ v.line = u.line /\ v.mshr = u.mshr /\ v.ready = u.ready /\ v.extra = u.extra
        /\ v.fill = u.fill /\ v.data = u.data /\ DOMAIN v = Fields
        /\ v.tracker \subseteq u.tracker
    BY <2>2 DEF Completed, Fields
  <2>4. SliceTypes(v, s, arr)
    BY <2>2, <2>3, FieldsOfSlice DEF SliceOK, SliceTypes
  <2>5. Kind(x) = "l1wb" => x = <<"req", x[2]>>
    BY <2>1 DEF Mfs, Kind
  <2>6. Kind(x) # "l1wb" => \A r \in Reqs : x # <<"req", r>>
    <3>1. ASSUME NEW r \in Reqs, x = <<"req", r>> PROVE Kind(x) = "l1wb"
      <4>1. Kind(x) \in {"read", "write", "l1wb", "atomic", "texture"}
        BY <3>1, SetupTypes DEF Kind
      <4>2. QED
        BY <2>1, <4>1 DEF IsWriteback
    <3>2. QED
      BY <3>1
  <2>7. \A r \in Reqs : SubOf(Block(x)) = s => (r \in v.tracker <=> r \in u.tracker /\ <<"req", r>> # x)
    <3>1. CASE SubOf(Block(x)) = s /\ Kind(x) = "l1wb"
      <4>1. v.tracker = u.tracker \ {x[2]}
        BY <1>4, <2>2, <3>1 DEF Completed, Fields
      <4>2. QED
        BY <2>5, <3>1, <4>1
    <3>2. CASE SubOf(Block(x)) = s /\ Kind(x) # "l1wb"
      <4>1. v.tracker = u.tracker
        BY <1>4, <2>2, <3>2 DEF Completed, Fields
      <4>2. QED
        BY <2>6, <3>2, <4>1
    <3>3. QED
      BY <3>1, <3>2
  <2>8. SubOf(Block(x)) # s => v = u
    BY DEF Completed
  <2> HIDE DEF v, x
  <2>9. ASSUME NEW b \in Used, SubOf(b) = s PROVE Tracked(Way(v, lat, e, b), v, arr, b)
    <3> DEFINE V == Way(u, lat, d, b)
               W == Way(v, lat, e, b)
               A == Lane(lat, d, b)
               B == Lane(lat, e, b)
               Y == Own(b)
    <3>1. Tracked(V, u, arr, b)
      BY <2>9 DEF SliceOK
    <3>2. /\ \A m \in Stages \ {9} : W[m] = V[m]
          /\ V[9] = A[9] /\ W[9] = B[9]
      <4>1. \A m \in Stages \ {9} : B[m] = A[m]
        BY <1>1, <1>4
      <4>2. \A m \in 5..10 : A[m] = V[m] /\ B[m] = W[m]
        <5>1. /\ A[5] = V[5] /\ A[6] = V[6] /\ A[7] = V[7] /\ A[8] = V[8] /\ A[9] = V[9] /\ A[10] = V[10]
              /\ B[5] = W[5] /\ B[6] = W[6] /\ B[7] = W[7] /\ B[8] = W[8] /\ B[9] = W[9] /\ B[10] = W[10]
          BY WayOfLane DEF Lane
        <5> HIDE DEF V, W, A, B
        <5>2. QED
          BY <5>1
      <4>3. /\ V[1] = u.rop /\ V[2] = u.in /\ V[3] = u.missq /\ V[4] = u.todram
            /\ V[11] = u.fromdram /\ V[12] = u.out
            /\ W[1] = v.rop /\ W[2] = v.in /\ W[3] = v.missq /\ W[4] = v.todram
            /\ W[11] = v.fromdram /\ W[12] = v.out
        BY WayOfSlice
      <4> HIDE DEF V, W, A, B
      <4>4. \A m \in Stages \ (5..10) : W[m] = V[m]
        BY <2>3, <4>3 DEF Stages
      <4>5. QED
        BY <4>1, <4>2, <4>4
    <3>3. SameBooks(u, v, b)
      BY <2>3 DEF SameBooks, Fetches
    <3>4. \A r \in Reqs : r \in v.tracker <=> r \in u.tracker /\ (SubOf(Block(x)) = s => <<"req", r>> # x)
      BY <2>7, <2>8
    <3>5. IF x \in Y THEN Left(Y, A[9], B[9], x) ELSE Kept(Y, A[9], B[9])
      BY <1>1, <1>4 DEF x
    <3>6. 9 \in Stages /\ \A m \in Stages \ {9} : Kept(Y, V[m], W[m])
      BY <3>2, NothingMoves DEF Stages
    <3> HIDE DEF V, W, A, B
    <3>7. CASE x \in Y
      <4>1. Left(Y, V[9], W[9], x)
        BY <3>2, <3>5, <3>7
      <4>2. SubOf(Block(x)) = s
        BY <2>9, <3>7 DEF Own
      <4>3. x \notin u.extra
        BY <2>1, <2>2 DEF IsWriteback, IsWrite
      <4>4. \A r \in Reqs : <<"req", r>> \in Own(b) => (r \in v.tracker <=> (r \in u.tracker /\ <<"req", r>> # x))
        BY <3>4, <4>2
      <4>5. Tracked(W, v, arr, b)
        BY <3>1, <3>3, <3>6, <3>7, <4>1, <4>3, <4>4, BlockEnds
      <4>6. QED
        BY <4>5 DEF W
    <3>8. CASE x \notin Y
      <4>1. \A m \in Stages : Kept(Y, V[m], W[m])
        BY <3>2, <3>5, <3>6, <3>8
      <4>2. \A r \in Reqs : <<"req", r>> \in Own(b) => (r \in v.tracker <=> r \in u.tracker)
        BY <3>4, <3>8
      <4>3. Tracked(W, v, arr, b)
        BY <3>1, <3>3, <4>1, <4>2, BlockStays
      <4>4. QED
        BY <4>3 DEF W
    <3>9. QED
      BY <3>7, <3>8
  <2>10. SliceOK(v, s, lat, e, arr)
    BY <2>4, <2>9 DEF SliceOK
  <2>11. QED
    BY <2>10 DEF v, c, e
<1>5. QED
  BY <1>3, <1>4

-----------------------------------------------------------------------------
(* The parts of a cycle of the DRAM domain.                                *)

\* A block is of a slice.
LEMMA SliceOfUsed == ASSUME setup \in Setups PROVE \A b \in Used : SubOf(b) \in Subs
<1>1. \A b \in Used : BankOfBlock[b] \in Nat
  BY BanksOfBlocks DEF Banks
<1>2. NumSubs \in Nat \ {0}
  BY PartitionConstants
<1>3. \A n \in Nat : n % NumSubs \in 0..(NumSubs - 1)
  BY <1>2
<1>4. QED
  BY <1>1, <1>3 DEF SubOf, Subs

PartFields == {"sub", "latency", "credit", "dram"}
CreditFields == {"private", "shared", "last"}
PartsOK(p, arr) ==
  /\ DOMAIN p = PartFields /\ DOMAIN p.sub = Subs
  /\ DOMAIN p.credit = CreditFields /\ DOMAIN p.credit.private = Subs /\ p.credit.last \in Subs
  /\ ChannelTypes(p.latency, p.dram)
  /\ \A s \in Subs : SliceOK(p.sub[s], s, p.latency, p.dram, arr)

\* Request y is in the channel.
Inside(lat, d, y) == Stands(Lane(lat, d, Block(y)), y)
SameInside(lat, d, next, e) == \A y \in Mfs : Inside(next, e, y) <=> Inside(lat, d, y)
Leaves(lat, d, next, e, x) ==
  /\ x \in Mfs /\ Inside(lat, d, x)
  /\ \A y \in Mfs : Inside(next, e, y) <=> (Inside(lat, d, y) /\ y # x)
Enters(lat, d, next, e, x) ==
  /\ x \in Mfs /\ ~Inside(lat, d, x)
  /\ \A y \in Mfs : Inside(next, e, y) <=> (Inside(lat, d, y) \/ y = x)

\* A part of a cycle that carries the requests on leaves none out and lets none in.
LEMMA CarriesInside ==
  ASSUME NEW lat, NEW d, NEW next, NEW e, Carries(lat, d, next, e)
  PROVE  SameInside(lat, d, next, e)
BY OwnBlocks DEF Carries, SameInside, Inside

\* The lane of a block, and its whole way.
LEMMA LaneInWay ==
  ASSUME NEW u, NEW lat, NEW d, NEW b
  PROVE  LET A == Lane(lat, d, b)
             V == Way(u, lat, d, b)
         IN /\ \A m \in 5..10 : A[m] = V[m]
            /\ \A m \in Stages \ (5..10) : A[m] = <<>>
            /\ \A y, z : Ahead(A, y, z) => Ahead(V, y, z)
            /\ \A y : Stands(A, y) => \E m \in 5..10 : Has(V[m], y)
<1> DEFINE A == Lane(lat, d, b)
           V == Way(u, lat, d, b)
<1>1. \A m \in 5..10 : A[m] = V[m]
  <2>1. A[5] = V[5] /\ A[6] = V[6] /\ A[7] = V[7] /\ A[8] = V[8] /\ A[9] = V[9] /\ A[10] = V[10]
    BY WayOfLane DEF Lane
  <2> HIDE DEF A, V
  <2>2. QED
    BY <2>1
<1>2. \A m \in Stages \ (5..10) : A[m] = <<>>
  <2>1. A[1] = <<>> /\ A[2] = <<>> /\ A[3] = <<>> /\ A[4] = <<>> /\ A[11] = <<>> /\ A[12] = <<>>
    BY DEF Lane, Way, EmptySlice
  <2> HIDE DEF A
  <2>2. QED
    BY <2>1 DEF Stages
<1> HIDE DEF A, V
<1>3. \A m \in Stages : \A y : Has(A[m], y) => m \in 5..10 /\ Has(V[m], y)
  BY <1>1, <1>2 DEF Has
<1>4. \A m \in Stages : \A y, z : Before(A[m], y, z) => Before(V[m], y, z)
  BY <1>1, <1>2 DEF Before
<1>5. \A y, z : Ahead(A, y, z) => Ahead(V, y, z)
  BY <1>3, <1>4 DEF Ahead
<1>6. \A y : Stands(A, y) => \E m \in 5..10 : Has(V[m], y)
  BY <1>3 DEF Stands
<1>7. QED
  BY <1>1, <1>2, <1>5, <1>6 DEF A, V

\* A request is at one place of the channel at most.
LEMMA OnceInLane ==
  ASSUME NEW p, NEW arr, PartsOK(p, arr), setup \in Setups
  PROVE  \A b \in Used : \A y \in Own(b) : ~Ahead(Lane(p.latency, p.dram, b), y, y)
<1> SUFFICES ASSUME NEW b \in Used, NEW y \in Own(b) PROVE ~Ahead(Lane(p.latency, p.dram, b), y, y)
  OBVIOUS
<1>1. SubOf(b) \in Subs
  BY SliceOfUsed
<1>2. Tracked(Way(p.sub[SubOf(b)], p.latency, p.dram, b), p.sub[SubOf(b)], arr, b)
  BY <1>1 DEF PartsOK, SliceOK
<1>3. ~Ahead(Way(p.sub[SubOf(b)], p.latency, p.dram, b), y, y)
  BY <1>2 DEF Tracked
<1>4. QED
  BY <1>3, LaneInWay

\* A request that leaves its stage of the channel leaves the channel.
LEMMA LaneLoses ==
  ASSUME NEW lat, NEW d, NEW next, NEW e, NEW x \in Mfs, NEW k \in Stages,
         \A b \in Used : \A y \in Own(b) : ~Ahead(Lane(lat, d, b), y, y),
         \A b \in Used : IF x \in Own(b) THEN Left(Own(b), Lane(lat, d, b)[k], Lane(next, e, b)[k], x)
                                         ELSE Kept(Own(b), Lane(lat, d, b)[k], Lane(next, e, b)[k]),
         \A b \in Used : \A m \in Stages \ {k} : Lane(next, e, b)[m] = Lane(lat, d, b)[m]
  PROVE  Leaves(lat, d, next, e, x)
<1>1. ASSUME NEW b \in Used
      PROVE  IF x \in Own(b)
             THEN /\ Stands(Lane(lat, d, b), x)
                  /\ \A y \in Own(b) : Stands(Lane(next, e, b), y) <=> (Stands(Lane(lat, d, b), y) /\ y # x)
             ELSE \A y \in Own(b) : Stands(Lane(next, e, b), y) <=> Stands(Lane(lat, d, b), y)
  <2> DEFINE A == Lane(lat, d, b)
             B == Lane(next, e, b)
  <2>1. /\ \A y \in Own(b) : ~Ahead(A, y, y)
        /\ IF x \in Own(b) THEN Left(Own(b), A[k], B[k], x) ELSE Kept(Own(b), A[k], B[k])
        /\ \A m \in Stages \ {k} : B[m] = A[m]
    OBVIOUS
  <2> HIDE DEF A, B
  <2>2. \A m \in Stages \ {k} : Kept(Own(b), A[m], B[m])
    BY <2>1, NothingMoves
  <2>3. CASE x \in Own(b)
    <3>1. Ended(Own(b), A, B, x)
      BY <2>1, <2>2, <2>3, WayEnds
    <3>2. Stands(A, x)
      BY <2>1, <2>3 DEF Left, Stands
    <3>3. QED
      BY <2>3, <3>1, <3>2 DEF Ended, A, B
  <2>4. CASE x \notin Own(b)
    <3>1. \A m \in Stages : Kept(Own(b), A[m], B[m])
      BY <2>1, <2>2, <2>4
    <3>2. \A y \in Own(b) : Stands(B, y) <=> Stands(A, y)
      BY <3>1, WayKept
    <3>3. QED
      BY <2>4, <3>2 DEF A, B
  <2>5. QED
    BY <2>3, <2>4
<1>2. Inside(lat, d, x)
  <2>1. Block(x) \in Used /\ x \in Own(Block(x))
    BY OwnBlocks
  <2>2. QED
    BY <1>1, <2>1 DEF Inside
<1>3. ASSUME NEW y \in Mfs PROVE Inside(next, e, y) <=> (Inside(lat, d, y) /\ y # x)
  <2>1. Block(y) \in Used /\ y \in Own(Block(y))
    BY OwnBlocks
  <2>2. QED
    BY <1>1, <2>1 DEF Inside
<1>4. QED
  BY <1>2, <1>3 DEF Leaves

\* What Return makes of the channel.
TakesBack(lat, d, e, x) ==
  /\ ChannelTypes(lat, e) /\ x \in Mfs /\ ~IsWriteback(x) /\ e.mrqq = d.mrqq /\ e.queue = d.queue
  /\ \A b : /\ Lane(lat, d, b)[10] \in Seq(Mfs) /\ Lane(lat, d, b)[10] # <<>>
            /\ Head(Lane(lat, d, b)[10]) = x /\ Lane(lat, e, b)[10] = Tail(Lane(lat, d, b)[10])
            /\ \A m \in Stages \ {10} : Lane(lat, e, b)[m] = Lane(lat, d, b)[m]

\* The head of returnq leaves the channel and goes back to its slice.
LEMMA ReturnMoves ==
  ASSUME NEW lat, NEW d, ChannelTypes(lat, d), d.returnq # <<>>
  PROVE  TakesBack(lat, d, [d EXCEPT !.returnq = Tail(@)], Head(d.returnq).mf)
<1> DEFINE e == [d EXCEPT !.returnq = Tail(@)]
           q == d.returnq
           x == Head(q).mf
           R == {r \in DramReqs : ~r.writeback}
<1>1. DOMAIN d = ChannelFields /\ q \in Seq(R) /\ q \in Seq(DramReqs) /\ Len(q) <= ReturnSize
  BY FieldsOfChannel DEF ChannelTypes
<1>2. Head(q) \in R /\ Tail(q) \in Seq(R) /\ Len(Tail(q)) = Len(q) - 1 /\ Len(q) \in Nat
  <2> HIDE DEF R
  <2> QED  BY <1>1, QueueFacts
<1>3. x \in Mfs /\ ~IsWriteback(x)
  BY <1>2 DEF DramReqs
<1>4. /\ DOMAIN e = ChannelFields /\ e.returnq = Tail(q) /\ e.mrqq = d.mrqq /\ e.queue = d.queue
      /\ e.bank = d.bank /\ e.lastrow = d.lastrow /\ e.prio = d.prio /\ e.rwq = d.rwq
  BY <1>1 DEF ChannelFields
<1> HIDE DEF e, x, q
<1>5. ChannelTypes(lat, e)
  <2>1. Len(e.returnq) <= ReturnSize
    <3>1. ReturnSize \in Nat
      BY DramConstants
    <3>2. QED
      BY <1>1, <1>2, <1>4, <3>1
  <2>2. QED
    BY <1>2, <1>4, <2>1, FieldsOfChannel DEF ChannelTypes
<1>6. MfsOf(q) \in Seq(Mfs) /\ MfsOf(q) # <<>> /\ MfsOf(Tail(q)) = Tail(MfsOf(q)) /\ Head(MfsOf(q)) = x
  BY <1>1, MfsFacts DEF x, q
<1>7. ASSUME NEW b
      PROVE  /\ Lane(lat, d, b)[10] = MfsOf(q) /\ Lane(lat, e, b)[10] = MfsOf(Tail(q))
             /\ \A m \in Stages \ {10} : Lane(lat, e, b)[m] = Lane(lat, d, b)[m]
  <2> DEFINE V == Lane(lat, d, b)
             W == Lane(lat, e, b)
             k == BankOfBlock[b]
  <2>1. /\ V[5] = lat /\ V[6] = MfsOf(d.mrqq) /\ V[7] = MfsOf(d.queue[k])
        /\ V[8] = ServedBy(d, k) /\ V[9] = OnBus(d.rwq.slots) /\ V[10] = MfsOf(d.returnq)
        /\ W[5] = lat /\ W[6] = MfsOf(e.mrqq) /\ W[7] = MfsOf(e.queue[k])
        /\ W[8] = ServedBy(e, k) /\ W[9] = OnBus(e.rwq.slots) /\ W[10] = MfsOf(e.returnq)
    BY LaneOf
  <2>2. \A m \in Stages \ (5..10) : W[m] = V[m]
    BY LaneElsewhere
  <2> HIDE DEF V, W, k
  <2>3. W[8] = V[8]
    BY <1>4, <2>1 DEF ServedBy
  <2>4. \A m \in Stages \ {10} : W[m] = V[m]
    BY <1>4, <2>1, <2>2, <2>3 DEF Stages
  <2>5. QED
    BY <1>4, <2>1, <2>4 DEF V, W, q
<1>8. QED
  <2>1. TakesBack(lat, d, e, x)
    BY <1>3, <1>4, <1>5, <1>6, <1>7 DEF TakesBack
  <2>2. QED
    BY <2>1 DEF e, x, q

\* What the parts of a cycle make of the requests in the channel and of the credits: a
\* request leaves with a credit, or one enters with one, or nothing.
Returns(p, e) ==
  \/ SameInside(p.latency, p.dram, e.latency, e.dram) /\ e.credit = p.credit
  \/ \E x \in Mfs : /\ Leaves(p.latency, p.dram, e.latency, e.dram, x)
                    /\ e.credit = ReturnCredit(p.credit, SubOf(Block(x)))
Borrows(p, e) ==
  \/ SameInside(p.latency, p.dram, e.latency, e.dram) /\ e.credit = p.credit
  \/ \E x \in Mfs : /\ Enters(p.latency, p.dram, e.latency, e.dram, x)
                    /\ HasCredits(p.credit, SubOf(Block(x)))
                    /\ e.credit = Borrow(p.credit, SubOf(Block(x)))

\* The shape of the credits, returned or borrowed.
LEMMA CreditShape ==
  ASSUME NEW c, DOMAIN c = CreditFields, DOMAIN c.private = Subs, c.last \in Subs, NEW s \in Subs
  PROVE  /\ DOMAIN ReturnCredit(c, s) = CreditFields /\ DOMAIN ReturnCredit(c, s).private = Subs
         /\ ReturnCredit(c, s).last \in Subs
         /\ DOMAIN Borrow(c, s) = CreditFields /\ DOMAIN Borrow(c, s).private = Subs
         /\ Borrow(c, s).last \in Subs
<1>1. DOMAIN ReturnCredit(c, s) = CreditFields /\ DOMAIN ReturnCredit(c, s).private = Subs
      /\ ReturnCredit(c, s).last \in Subs
  BY DEF ReturnCredit, CreditFields
<1>2. DOMAIN Borrow(c, s) = CreditFields /\ DOMAIN Borrow(c, s).private = Subs /\ Borrow(c, s).last \in Subs
  BY DEF Borrow, CreditFields
<1>3. QED
  BY <1>1, <1>2

\* A request goes back to its slice.
LEMMA SliceTakes ==
  ASSUME NEW s \in Subs, NEW u, NEW lat, NEW d, NEW e, NEW arr, SliceOK(u, s, lat, d, arr), setup \in Setups,
         ~Full(u.fromdram, FromdramSize), NEW x \in Mfs, ~IsWriteback(x), SubOf(Block(x)) = s,
         TakesBack(lat, d, e, x)
  PROVE  SliceOK([u EXCEPT !.fromdram = Append(@, x)], s, lat, e, arr)
<1> DEFINE v == [u EXCEPT !.fromdram = Append(@, x)]
           R == {y \in OfSlice(s) : ~IsWriteback(y)}
<1>0. SliceTypes(u, s, arr) /\ DOMAIN u = Fields
  BY SliceSeqs DEF SliceOK
<1>1. /\ DOMAIN v = Fields /\ v.rop = u.rop /\ v.in = u.in /\ v.missq = u.missq /\ v.todram = u.todram
      /\ v.out = u.out /\ v.line = u.line /\ v.mshr = u.mshr /\ v.ready = u.ready
      /\ v.extra = u.extra /\ v.tracker = u.tracker /\ v.fill = u.fill /\ v.data = u.data
      /\ v.fromdram = Append(u.fromdram, x)
  BY <1>0 DEF Fields
<1>2. x \in R /\ u.fromdram \in Seq(R)
  BY <1>0 DEF OfSlice, SliceTypes
<1> HIDE DEF v
<1>3. SliceTypes(v, s, arr)
  <2>1. v.fromdram \in Seq(R) /\ Len(v.fromdram) = Len(u.fromdram) + 1 /\ Len(u.fromdram) \in Nat
    <3> HIDE DEF R
    <3> QED  BY <1>1, <1>2, QueueFacts
  <2>2. FromdramSize \in Nat
    BY Sizes
  <2>3. Len(v.fromdram) <= FromdramSize
    BY <2>1, <2>2 DEF Full
  <2>4. QED
    BY <1>0, <1>1, <2>1, <2>3, FieldsOfSlice DEF SliceTypes
<1>4. ASSUME NEW b \in Used PROVE PassesOn(Way(u, lat, d, b), Way(v, lat, e, b), b, 10, 10 + 1, x)
  <2> DEFINE V == Way(u, lat, d, b)
             W == Way(v, lat, e, b)
             A == Lane(lat, d, b)
             B == Lane(lat, e, b)
  <2>1. /\ V[1] = u.rop /\ V[2] = u.in /\ V[3] = u.missq /\ V[4] = u.todram
        /\ V[11] = u.fromdram /\ V[12] = u.out
        /\ W[1] = v.rop /\ W[2] = v.in /\ W[3] = v.missq /\ W[4] = v.todram
        /\ W[11] = v.fromdram /\ W[12] = v.out
    BY DEF Way
  <2>2. \A m \in 5..10 : A[m] = V[m] /\ B[m] = W[m]
    BY LaneInWay
  <2>3. A[10] \in Seq(Mfs) /\ A[10] # <<>> /\ Head(A[10]) = x /\ B[10] = Tail(A[10])
        /\ \A m \in Stages \ {10} : B[m] = A[m]
    BY DEF TakesBack
  <2>4. u.fromdram \in Seq(Mfs)
    BY <1>0, SliceSeqs
  <2> HIDE DEF V, W, A, B
  <2>5. \A m \in Stages \ {10, 11} : W[m] = V[m]
    <3>1. \A m \in 5..9 : W[m] = V[m]
      BY <2>2, <2>3 DEF Stages
    <3>2. W[1] = V[1] /\ W[2] = V[2] /\ W[3] = V[3] /\ W[4] = V[4] /\ W[12] = V[12]
      BY <1>1, <2>1
    <3>3. QED
      BY <3>1, <3>2 DEF Stages
  <2>6. HeadGoes(V, W, 10, 10 + 1, x)
    <3>1. V[10] = A[10] /\ W[10] = B[10]
      BY <2>2
    <3>2. V[11] = u.fromdram /\ W[11] = Append(u.fromdram, x)
      BY <1>1, <2>1
    <3>3. QED
      BY <2>3, <2>4, <2>5, <3>1, <3>2 DEF HeadGoes
  <2>7. 10 \in Stages /\ 10 + 1 \in Stages
    BY DEF Stages
  <2>8. PassesOn(V, W, b, 10, 10 + 1, x)
    BY <2>6, <2>7, HeadPasses
  <2>9. QED
    BY <2>8 DEF V, W
<1>5. 10 \in Stages /\ 10 + 1 \in Stages /\ 10 < 10 + 1 /\ 10 + 1 # 12
  BY DEF Stages
<1>6. SliceOK(v, s, lat, e, arr)
  BY <1>1, <1>3, <1>4, <1>5, SlicePasses
<1>7. QED
  BY <1>6 DEF v

\* The return of a request from DRAM keeps what is kept of the slices, and gives back a
\* credit if a request leaves the channel.
LEMMA ReturnOK ==
  ASSUME NEW p, NEW arr, PartsOK(p, arr), setup \in Setups
  PROVE  LET e == Return(p)
         IN /\ PartsOK(e, arr) /\ Returns(p, e)
            /\ e.dram.mrqq = p.dram.mrqq /\ e.dram.queue = p.dram.queue
            /\ \A s \in Subs : e.sub[s].tracker = p.sub[s].tracker
<1> DEFINE e == Return(p)
           d == p.dram
           x == Head(d.returnq).mf
           s == SubOf(Block(x))
           f == [d EXCEPT !.returnq = Tail(@)]
           v == [p.sub[s] EXCEPT !.fromdram = Append(@, x)]
<1>1. CASE e = p
  BY <1>1 DEF Returns, SameInside
<1>2. CASE /\ d.returnq # <<>> /\ ~Full(p.sub[s].fromdram, FromdramSize)
           /\ e = [p EXCEPT !.sub[s].fromdram = Append(@, x), !.credit = ReturnCredit(@, s),
                            !.dram.returnq = Tail(@)]
  <2>0. /\ DOMAIN p = PartFields /\ DOMAIN p.sub = Subs /\ ChannelTypes(p.latency, d)
        /\ \A t \in Subs : SliceOK(p.sub[t], t, p.latency, d, arr)
        /\ DOMAIN p.credit = CreditFields /\ DOMAIN p.credit.private = Subs /\ p.credit.last \in Subs
    BY DEF PartsOK
  <2>1. /\ ChannelTypes(p.latency, f) /\ x \in Mfs /\ ~IsWriteback(x)
        /\ f.mrqq = d.mrqq /\ f.queue = d.queue
        /\ \A b : /\ Lane(p.latency, d, b)[10] \in Seq(Mfs) /\ Lane(p.latency, d, b)[10] # <<>>
                  /\ Head(Lane(p.latency, d, b)[10]) = x
                  /\ Lane(p.latency, f, b)[10] = Tail(Lane(p.latency, d, b)[10])
                  /\ \A m \in Stages \ {10} : Lane(p.latency, f, b)[m] = Lane(p.latency, d, b)[m]
    <3> DEFINE c == p.dram
               lat == p.latency
    <3>1. ChannelTypes(lat, c) /\ c.returnq # <<>>
      BY <1>2, <2>0
    <3> HIDE DEF c, lat
    <3>2. TakesBack(lat, c, [c EXCEPT !.returnq = Tail(@)], Head(c.returnq).mf)
      BY <3>1, ReturnMoves
    <3>3. TakesBack(p.latency, d, f, x)
      BY <3>2 DEF c, lat
    <3> HIDE DEF d, f, x
    <3>4. QED
      BY <3>3 DEF TakesBack
  <2>2. s \in Subs
    BY <2>1, OwnBlocks, SliceOfUsed
  <2>3. /\ DOMAIN e = PartFields /\ e.sub = [p.sub EXCEPT ![s] = v] /\ e.latency = p.latency
        /\ e.credit = ReturnCredit(p.credit, s) /\ e.dram = f
    BY <1>2, <2>0 DEF PartFields
  <2> HIDE DEF e, f, v, x, s
  <2>4. DOMAIN e.sub = Subs /\ e.sub[s] = v /\ \A t \in Subs \ {s} : e.sub[t] = p.sub[t]
    BY <2>0, <2>2, <2>3
  <2>5. SliceOK(v, s, p.latency, f, arr)
    <3>1. SliceOK([p.sub[s] EXCEPT !.fromdram = Append(@, x)], s, p.latency, f, arr)
      <4>1. SliceOK(p.sub[s], s, p.latency, d, arr) /\ ~Full(p.sub[s].fromdram, FromdramSize)
        BY <1>2, <2>0, <2>2 DEF s, x
      <4>2. SubOf(Block(x)) = s /\ x \in Mfs /\ ~IsWriteback(x)
        BY <2>1 DEF s
      <4>3. TakesBack(p.latency, d, f, x)
        BY <2>1 DEF TakesBack
      <4>4. QED
        BY <2>2, <4>1, <4>2, <4>3, SliceTakes
    <3>2. QED
      BY <3>1 DEF v
  <2>6. \A b \in Used : IF x \in Own(b)
                        THEN Left(Own(b), Lane(p.latency, d, b)[10], Lane(p.latency, f, b)[10], x)
                        ELSE Kept(Own(b), Lane(p.latency, d, b)[10], Lane(p.latency, f, b)[10])
    <3> TAKE b \in Used
    <3> DEFINE q == Lane(p.latency, d, b)[10]
               r == Lane(p.latency, f, b)[10]
    <3>1. q \in Seq(Mfs) /\ q # <<>> /\ Head(q) = x /\ r = Tail(q)
      BY <2>1
    <3> HIDE DEF q, r
    <3>2. IF x \in Own(b) THEN Left(Own(b), q, r, x) ELSE Kept(Own(b), q, r)
      BY <3>1, HeadLeaves
    <3>3. QED
      BY <3>2 DEF q, r
  <2>7. ASSUME NEW t \in Subs, t # s PROVE SliceOK(p.sub[t], t, p.latency, f, arr)
    <3>1. ASSUME NEW b \in Used, SubOf(b) = t, NEW m \in 5..10
          PROVE  Kept(Own(b), Lane(p.latency, d, b)[m], Lane(p.latency, f, b)[m])
      <4>1. x \notin Own(b)
        BY <2>7, <3>1 DEF Own, s
      <4>2. CASE m = 10
        BY <2>6, <4>1, <4>2
      <4>3. CASE m # 10
        <5>1. Lane(p.latency, f, b)[m] = Lane(p.latency, d, b)[m]
          BY <2>1, <4>3 DEF Stages
        <5>2. QED
          BY <5>1, NothingMoves
      <4>4. QED
        BY <4>2, <4>3
    <3>2. SliceOK(p.sub[t], t, p.latency, d, arr)
      BY <2>0
    <3>3. QED
      BY <3>1, <3>2, LaneStays
  <2>8. /\ DOMAIN e.credit = CreditFields /\ DOMAIN e.credit.private = Subs /\ e.credit.last \in Subs
    BY <2>0, <2>2, <2>3, CreditShape
  <2>9. PartsOK(e, arr)
    <3>1. \A t \in Subs : SliceOK(e.sub[t], t, e.latency, e.dram, arr)
      BY <2>3, <2>4, <2>5, <2>7
    <3>2. QED
      BY <2>1, <2>3, <2>4, <2>8, <3>1 DEF PartsOK
  <2>10. Leaves(p.latency, d, p.latency, f, x)
    <3>1. \A b \in Used : \A y \in Own(b) : ~Ahead(Lane(p.latency, d, b), y, y)
      BY OnceInLane
    <3>2. \A b \in Used : \A m \in Stages \ {10} : Lane(p.latency, f, b)[m] = Lane(p.latency, d, b)[m]
      BY <2>1
    <3>3. 10 \in Stages
      BY DEF Stages
    <3>4. QED
      BY <2>1, <2>6, <3>1, <3>2, <3>3, LaneLoses
  <2>11. Returns(p, e)
    BY <2>1, <2>3, <2>10 DEF Returns, s
  <2>12. \A t \in Subs : e.sub[t].tracker = p.sub[t].tracker
    <3>1. v.tracker = p.sub[s].tracker
      BY DEF v
    <3>2. QED
      BY <2>4, <3>1
  <2>13. QED
    BY <2>1, <2>3, <2>9, <2>11, <2>12 DEF e
<1>3. QED
  BY <1>1, <1>2 DEF Return

\* What dram_t::cycle makes of the partition, field by field.
LEMMA DramRecord ==
  ASSUME NEW p, DOMAIN p = PartFields, DOMAIN p.sub = Subs, DOMAIN p.credit = CreditFields, setup \in Setups,
         Completing(p.dram) # NoReq => Completing(p.dram) \in DramReqs
  PROVE  LET e == Dram(p)
             c == Completing(p.dram)
         IN /\ DOMAIN e = PartFields /\ DOMAIN e.sub = Subs /\ e.latency = p.latency
            /\ e.dram = DramCycled(p.dram, setup.sched)
            /\ \A s \in Subs : e.sub[s] = Completed(p.sub[s], c, s)
            /\ e.credit = IF c # NoReq /\ c.writeback THEN ReturnCredit(p.credit, SubOf(Block(c.mf)))
                          ELSE p.credit
<1> DEFINE e == Dram(p)
           c == Completing(p.dram)
           f == DramCycled(p.dram, setup.sched)
           t == SubOf(Block(c.mf))
           l == Kind(c.mf) = "l1wb"
           n == c.mf[2]
<1>1. CASE c = NoReq
  <2>1. e = [p EXCEPT !.dram = f]
    BY <1>1 DEF Dram
  <2> HIDE DEF e, c, f
  <2>2. QED
    BY <1>1, <2>1 DEF PartFields, Completed, e, c, f
<1>2. CASE c # NoReq /\ ~c.writeback
  <2>1. e = [p EXCEPT !.dram = f]
    BY <1>2 DEF Dram
  <2> HIDE DEF e, c, f
  <2>2. QED
    BY <1>2, <2>1 DEF PartFields, Completed, e, c, f
<1>3. CASE c # NoReq /\ c.writeback
  <2>0. t \in Subs
    BY <1>3, OwnRequests, SliceOfUsed
  <2>1. e = [[p EXCEPT !.dram = f] EXCEPT !.credit = ReturnCredit(@, t),
                                          !.sub[t].tracker = IF l THEN @ \ {n} ELSE @]
    BY <1>3 DEF Dram
  <2> HIDE DEF e, c, f, l, n, t
  <2>2. /\ DOMAIN e = PartFields /\ DOMAIN e.sub = Subs /\ e.latency = p.latency /\ e.dram = f
        /\ e.credit = ReturnCredit(p.credit, t)
        /\ e.sub = [p.sub EXCEPT ![t].tracker = IF l THEN @ \ {n} ELSE @]
    BY <2>1 DEF PartFields
  <2>3. ASSUME NEW s \in Subs PROVE e.sub[s] = Completed(p.sub[s], c, s)
    <3>1. CASE s = t
      <4>1. e.sub[t] = [p.sub[t] EXCEPT !.tracker = IF l THEN @ \ {n} ELSE @]
        BY <2>0, <2>2
      <4>2. QED
        BY <1>3, <3>1, <4>1 DEF Completed, l, n, t
    <3>2. CASE s # t
      <4>1. e.sub[s] = p.sub[s]
        BY <2>0, <2>2, <3>2
      <4>2. QED
        BY <3>2, <4>1 DEF Completed, t
    <3>3. QED
      BY <3>1, <3>2
  <2>4. QED
    BY <1>3, <2>2, <2>3 DEF e, c, f, t
<1>4. QED
  BY <1>1, <1>2, <1>3

\* dram_t::cycle in the partition.
LEMMA DramOK ==
  ASSUME NEW p, NEW arr, PartsOK(p, arr), setup \in Setups, RoomBehind(p.dram)
  PROVE  LET e == Dram(p)
         IN /\ PartsOK(e, arr) /\ Returns(p, e)
            /\ setup.sched = "frfcfs" => Len(e.dram.mrqq) < MrqqSize
            /\ \A s \in Subs : e.sub[s].tracker \subseteq p.sub[s].tracker
<1> DEFINE e == Dram(p)
           d == p.dram
           c == Completing(d)
           g == Transfer(d)
           f == DramCycled(d, setup.sched)
           lat == p.latency
<1>0. /\ DOMAIN p = PartFields /\ DOMAIN p.sub = Subs /\ ChannelTypes(lat, d)
      /\ \A t \in Subs : SliceOK(p.sub[t], t, lat, d, arr)
      /\ DOMAIN p.credit = CreditFields /\ DOMAIN p.credit.private = Subs /\ p.credit.last \in Subs
  BY DEF PartsOK
<1>1. c # NoReq => c \in DramReqs
  BY <1>0, CompletingFacts
<1>2. /\ DOMAIN e = PartFields /\ DOMAIN e.sub = Subs /\ e.latency = lat /\ e.dram = f
      /\ \A s \in Subs : e.sub[s] = Completed(p.sub[s], c, s)
      /\ e.credit = IF c # NoReq /\ c.writeback THEN ReturnCredit(p.credit, SubOf(Block(c.mf)))
                    ELSE p.credit
  BY <1>0, <1>1, DramRecord
<1>3. /\ ChannelTypes(lat, g) /\ g.mrqq = d.mrqq /\ g.queue = d.queue
      /\ c = NoReq \/ ~c.writeback => Carries(lat, d, lat, g)
      /\ c # NoReq /\ c.writeback => \A b \in Used :
           /\ \A m \in Stages \ {9} : Lane(lat, g, b)[m] = Lane(lat, d, b)[m]
           /\ IF c.mf \in Own(b) THEN Left(Own(b), Lane(lat, d, b)[9], Lane(lat, g, b)[9], c.mf)
                                 ELSE Kept(Own(b), Lane(lat, d, b)[9], Lane(lat, g, b)[9])
  BY <1>0, TransferMoves
<1>4. \A s \in Subs : SliceOK(Completed(p.sub[s], c, s), s, lat, g, arr)
  BY <1>0, TransferOK
<1>5. RoomBehind(g)
  BY <1>3 DEF RoomBehind, DramFull, Pending
<1>6. f = LET h == Schedule(g, setup.sched) IN Tick(Issue(h, Command(h)))
  BY DEF DramCycled
<1> HIDE DEF e, c, g, f, d, lat
<1>7. Carries(lat, g, lat, f) /\ (setup.sched = "frfcfs" => Len(f.mrqq) < MrqqSize)
  BY <1>3, <1>5, <1>6, CommandsCarry
<1>8. DOMAIN e.credit = CreditFields /\ DOMAIN e.credit.private = Subs /\ e.credit.last \in Subs
  <2>1. CASE c # NoReq /\ c.writeback
    <3>1. SubOf(Block(c.mf)) \in Subs
      BY <1>1, <2>1, OwnRequests, SliceOfUsed
    <3>2. e.credit = ReturnCredit(p.credit, SubOf(Block(c.mf)))
      BY <1>2, <2>1
    <3>3. QED
      BY <1>0, <3>1, <3>2, CreditShape
  <2>2. CASE ~(c # NoReq /\ c.writeback)
    BY <1>0, <1>2, <2>2
  <2>3. QED
    BY <2>1, <2>2
<1>9. PartsOK(e, arr)
  <2>1. \A s \in Subs : SliceOK(e.sub[s], s, lat, f, arr)
    BY <1>2, <1>4, <1>7 DEF Carries
  <2>2. ChannelTypes(lat, f)
    BY <1>7 DEF Carries
  <2>3. QED
    BY <1>2, <1>8, <2>1, <2>2 DEF PartsOK
<1>10. Returns(p, e)
  <2>1. CASE c # NoReq /\ c.writeback
    <3>1. c.mf \in Mfs
      BY <1>1, <2>1, OwnRequests
    <3>2. \A b \in Used : \A y \in Own(b) : ~Ahead(Lane(lat, d, b), y, y)
      BY OnceInLane DEF lat, d
    <3>3. 9 \in Stages
      BY DEF Stages
    <3>4. Leaves(lat, d, lat, g, c.mf)
      BY <1>3, <2>1, <3>1, <3>2, <3>3, LaneLoses
    <3>5. SameInside(lat, g, lat, f)
      BY <1>7, CarriesInside
    <3>6. Leaves(lat, d, lat, f, c.mf)
      BY <3>4, <3>5 DEF Leaves, SameInside
    <3>7. QED
      BY <1>2, <2>1, <3>1, <3>6 DEF Returns, lat, d
  <2>2. CASE ~(c # NoReq /\ c.writeback)
    <3>1. Carries(lat, d, lat, f)
      BY <1>3, <1>7, <2>2, CarriesOn
    <3>2. SameInside(lat, d, lat, f)
      BY <3>1, CarriesInside
    <3>3. QED
      BY <1>2, <2>2, <3>2 DEF Returns, lat, d
  <2>3. QED
    BY <2>1, <2>2
<1>11. \A s \in Subs : e.sub[s].tracker \subseteq p.sub[s].tracker
  <2> TAKE s \in Subs
  <2>1. DOMAIN p.sub[s] = Fields
    BY <1>0, SliceSeqs DEF SliceOK
  <2>2. Completed(p.sub[s], c, s).tracker \subseteq p.sub[s].tracker
    BY <2>1 DEF Completed, Fields
  <2>3. QED
    BY <1>2, <2>2
<1>12. QED
  BY <1>2, <1>7, <1>9, <1>10, <1>11 DEF e

\* A request comes to the latency queue.
LEMMA LatencyGains ==
  ASSUME NEW lat \in Seq(Mfs), NEW d, NEW x \in Mfs, ~Inside(lat, d, x)
  PROVE  Enters(lat, d, Append(lat, x), d, x)
<1> DEFINE next == Append(lat, x)
<1>1. ASSUME NEW b \in Used
      PROVE  \A y \in Own(b) : Stands(Lane(next, d, b), y) <=> (Stands(Lane(lat, d, b), y) \/ y = x)
  <2> DEFINE A == Lane(lat, d, b)
             B == Lane(next, d, b)
  <2>1. A[5] = lat /\ B[5] = next /\ B[6] = A[6] /\ B[7] = A[7] /\ B[8] = A[8] /\ B[9] = A[9] /\ B[10] = A[10]
    <3> HIDE DEF next
    <3> QED  BY LaneOf
  <2>2. \A m \in Stages \ (5..10) : B[m] = A[m]
    BY LaneElsewhere
  <2>3. \A y \in Own(b) : Has(next, y) <=> Has(lat, y) \/ y = x
    <3>1. IF x \in Own(b) THEN Joined(Own(b), lat, next, x) ELSE Kept(Own(b), lat, next)
      BY TailJoins
    <3>2. QED
      BY <3>1 DEF Joined, Kept
  <2> HIDE DEF A, B, next
  <2>4. \A m \in Stages \ {5} : B[m] = A[m]
    BY <2>1, <2>2 DEF Stages
  <2>5. 5 \in Stages
    BY DEF Stages
  <2>6. \A y \in Own(b) : Stands(B, y) <=> (Stands(A, y) \/ y = x)
    BY <2>1, <2>3, <2>4, <2>5 DEF Stands
  <2>7. QED
    BY <2>6 DEF A, B, next
<1>2. \A y \in Mfs : Inside(next, d, y) <=> (Inside(lat, d, y) \/ y = x)
  BY <1>1, OwnBlocks DEF Inside
<1>3. QED
  BY <1>2 DEF Enters

\* A slice sends a request to DRAM.
LEMMA SliceSends ==
  ASSUME NEW s \in Subs, NEW u, NEW lat, NEW d, NEW arr, SliceOK(u, s, lat, d, arr), ChannelTypes(lat, d),
         setup \in Setups, u.todram # <<>>
  PROVE  LET x == Head(u.todram)
         IN /\ x \in Mfs /\ SubOf(Block(x)) = s /\ ~Inside(lat, d, x)
            /\ SliceOK([u EXCEPT !.todram = Tail(@)], s, Append(lat, x), d, arr)
<1> DEFINE x == Head(u.todram)
           v == [u EXCEPT !.todram = Tail(@)]
           next == Append(lat, x)
<1>0. SliceTypes(u, s, arr) /\ DOMAIN u = Fields /\ lat \in Seq(Mfs)
  BY SliceSeqs DEF SliceOK, ChannelTypes
<1>1. /\ DOMAIN v = Fields /\ v.rop = u.rop /\ v.in = u.in /\ v.missq = u.missq /\ v.fromdram = u.fromdram
      /\ v.out = u.out /\ v.line = u.line /\ v.mshr = u.mshr /\ v.ready = u.ready
      /\ v.extra = u.extra /\ v.tracker = u.tracker /\ v.fill = u.fill /\ v.data = u.data
      /\ v.todram = Tail(u.todram)
  BY <1>0 DEF Fields
<1>2. u.todram \in Seq(OfSlice(s)) /\ u.todram \in Seq(Mfs) /\ Len(u.todram) <= TodramSize
  BY <1>0, SliceSeqs DEF SliceTypes
<1>3. /\ x \in OfSlice(s) /\ Has(u.todram, x) /\ Tail(u.todram) \in Seq(OfSlice(s))
      /\ Len(Tail(u.todram)) = Len(u.todram) - 1 /\ Len(u.todram) \in Nat
  BY <1>2, QueueFacts
<1>4. x \in Mfs /\ SubOf(Block(x)) = s
  BY <1>3 DEF OfSlice
<1> HIDE DEF v, x, next
<1>5. SliceTypes(v, s, arr)
  <2>1. TodramSize \in Nat
    BY Sizes
  <2>2. Len(v.todram) <= TodramSize
    BY <1>1, <1>2, <1>3, <2>1
  <2>3. QED
    BY <1>0, <1>1, <1>3, <2>2, FieldsOfSlice DEF SliceTypes
<1>6. ASSUME NEW b \in Used PROVE PassesOn(Way(u, lat, d, b), Way(v, next, d, b), b, 4, 4 + 1, x)
  <2> DEFINE V == Way(u, lat, d, b)
             W == Way(v, next, d, b)
  <2>1. /\ V[1] = u.rop /\ V[2] = u.in /\ V[3] = u.missq /\ V[4] = u.todram /\ V[5] = lat
        /\ V[11] = u.fromdram /\ V[12] = u.out
        /\ W[1] = v.rop /\ W[2] = v.in /\ W[3] = v.missq /\ W[4] = v.todram /\ W[5] = next
        /\ W[11] = v.fromdram /\ W[12] = v.out
        /\ W[6] = V[6] /\ W[7] = V[7] /\ W[8] = V[8] /\ W[9] = V[9] /\ W[10] = V[10]
    BY DEF Way
  <2> HIDE DEF V, W
  <2>2. \A m \in Stages \ {4, 5} : W[m] = V[m]
    BY <1>1, <2>1 DEF Stages
  <2>3. HeadGoes(V, W, 4, 4 + 1, x)
    <3>1. V[4] \in Seq(Mfs) /\ V[4] # <<>> /\ x = Head(V[4]) /\ W[4] = Tail(V[4])
      BY <1>1, <1>2, <2>1 DEF x
    <3>2. V[5] \in Seq(Mfs) /\ W[5] = Append(V[5], x)
      BY <1>0, <2>1 DEF next
    <3>3. 4 + 1 = 5
      OBVIOUS
    <3>4. QED
      BY <2>2, <3>1, <3>2, <3>3 DEF HeadGoes
  <2>4. 4 \in Stages /\ 4 + 1 \in Stages
    BY DEF Stages
  <2>5. PassesOn(V, W, b, 4, 4 + 1, x)
    BY <2>3, <2>4, HeadPasses
  <2>6. QED
    BY <2>5 DEF V, W
<1>7. 4 \in Stages /\ 4 + 1 \in Stages /\ 4 < 4 + 1 /\ 4 + 1 # 12
  BY DEF Stages
<1>8. SliceOK(v, s, next, d, arr)
  BY <1>1, <1>5, <1>6, <1>7, SlicePasses
<1>9. ~Inside(lat, d, x)
  <2> DEFINE b == Block(x)
             V == Way(u, lat, d, b)
  <2>1. b \in Used /\ x \in Own(b) /\ SubOf(b) = s
    BY <1>4, OwnBlocks
  <2>2. Tracked(V, u, arr, b)
    BY <2>1 DEF SliceOK
  <2>3. V[4] = u.todram
    BY DEF Way
  <2>4. Stands(Lane(lat, d, b), x) => \E m \in 5..10 : Has(V[m], x)
    BY LaneInWay
  <2> HIDE DEF V, b
  <2>5. ~Ahead(V, x, x)
    BY <2>1, <2>2 DEF Tracked
  <2>6. 4 \in Stages /\ \A m \in 5..10 : m \in Stages /\ 4 < m
    BY DEF Stages
  <2>7. \A m \in 5..10 : ~Has(V[m], x)
    BY <1>3, <2>3, <2>5, <2>6 DEF Ahead
  <2>8. QED
    BY <2>4, <2>7 DEF Inside, b
<1>10. QED
  BY <1>4, <1>8, <1>9 DEF x, v, next

\* What the arbitration does: nothing, or one slice with a request and a credit sends it.
Sent(p, s) == [p EXCEPT !.sub[s].todram = Tail(@), !.latency = Append(@, Head(p.sub[s].todram)),
                        !.credit = Borrow(@, s)]

\* What the arbitration does: nothing, or it sends the head of the queue to DRAM of the
\* next slice that has one and a credit, for a credit of its own or a shared one.
LEMMA ArbitrateCases ==
  ASSUME NEW p, p.credit.last \in Subs
  PROVE  \/ Arbitrate(p) = p
         \/ \E s \in Subs : p.sub[s].todram # <<>> /\ HasCredits(p.credit, s) /\ Arbitrate(p) = Sent(p, s)
<1> DEFINE e == Arbitrate(p)
           d == p.dram
           May(i) == LET s == (p.credit.last + i) % NumSubs
                     IN /\ p.sub[s].todram # <<>>
                        /\ HasCredits(p.credit, s) /\ ~Full(p.sub[s].fromdram, FromdramSize)
           ok == {i \in 1..NumSubs : May(i)}
           t  == (p.credit.last + Min(ok)) % NumSubs
<1>1. CASE DramFull(d, setup.sched) \/ ok = {}
  BY <1>1 DEF Arbitrate
<1>2. CASE ~(DramFull(d, setup.sched) \/ ok = {})
  <2>1. e = Sent(p, t)
    BY <1>2 DEF Arbitrate, Sent
  <2>2. Min(ok) \in ok
    <3>1. ok \in SUBSET Nat
      <4> HIDE DEF May
      <4> QED  OBVIOUS
    <3>2. ok # {}
      BY <1>2
    <3> HIDE DEF ok
    <3>3. QED
      BY <3>1, <3>2, LeastIsMin
  <2>3. p.sub[t].todram # <<>> /\ HasCredits(p.credit, t)
    BY <2>2
  <2>4. t \in Subs
    <3>0. ok \subseteq Nat /\ NumSubs \in Nat
      BY PartitionConstants
    <3>1. Min(ok) \in Nat /\ p.credit.last \in Nat
      <4> DEFINE l == p.credit.last
      <4>1. l \in Subs
        OBVIOUS
      <4> HIDE DEF ok, l
      <4>2. Min(ok) \in Nat
        BY <2>2, <3>0
      <4>3. l \in Nat
        BY <3>0, <4>1 DEF Subs
      <4>4. QED
        BY <4>2, <4>3 DEF l
    <3> DEFINE n == p.credit.last + Min(ok)
    <3>2. n \in Nat
      <4> DEFINE l == p.credit.last
                 m == Min(ok)
      <4>1. l \in Nat /\ m \in Nat
        BY <3>1
      <4> HIDE DEF l, m
      <4>2. l + m \in Nat
        BY <4>1
      <4>3. QED
        BY <4>2 DEF l, m
    <3> HIDE DEF n
    <3>3. n % NumSubs \in 0..(NumSubs - 1)
      BY <3>2, PartitionConstants
    <3>4. QED
      BY <3>3 DEF n, Subs
  <2> HIDE DEF t, ok
  <2>5. QED
    BY <2>1, <2>3, <2>4
<1> HIDE DEF ok, t
<1>3. QED
  BY <1>1, <1>2 DEF e, d

\* The arbitration keeps what is kept of the slices, and borrows a credit if it lets a
\* request into the channel.
LEMMA ArbitrateOK ==
  ASSUME NEW p, NEW arr, PartsOK(p, arr), setup \in Setups
  PROVE  LET e == Arbitrate(p)
         IN /\ PartsOK(e, arr) /\ Borrows(p, e) /\ e.dram = p.dram
            /\ \A s \in Subs : e.sub[s].tracker = p.sub[s].tracker
<1> DEFINE e == Arbitrate(p)
           d == p.dram
           lat == p.latency
<1>0. /\ DOMAIN p = PartFields /\ DOMAIN p.sub = Subs /\ ChannelTypes(lat, d)
      /\ \A t \in Subs : SliceOK(p.sub[t], t, lat, d, arr)
      /\ DOMAIN p.credit = CreditFields /\ DOMAIN p.credit.private = Subs /\ p.credit.last \in Subs
  BY DEF PartsOK
<1>1. \/ e = p
      \/ \E s \in Subs : p.sub[s].todram # <<>> /\ HasCredits(p.credit, s) /\ e = Sent(p, s)
  BY <1>0, ArbitrateCases
<1>2. CASE e = p
  BY <1>2 DEF Borrows, SameInside
<1>3. ASSUME NEW s \in Subs, p.sub[s].todram # <<>>, HasCredits(p.credit, s), e = Sent(p, s)
      PROVE  /\ PartsOK(e, arr) /\ Borrows(p, e) /\ e.dram = p.dram
             /\ \A t \in Subs : e.sub[t].tracker = p.sub[t].tracker
  <2> DEFINE u == p.sub[s]
             x == Head(u.todram)
             v == [u EXCEPT !.todram = Tail(@)]
             next == Append(lat, x)
  <2>1. /\ DOMAIN e = PartFields /\ e.sub = [p.sub EXCEPT ![s] = v] /\ e.latency = next
        /\ e.credit = Borrow(p.credit, s) /\ e.dram = d
    BY <1>0, <1>3 DEF PartFields, Sent
  <2>2. x \in Mfs /\ SubOf(Block(x)) = s /\ ~Inside(lat, d, x) /\ SliceOK(v, s, next, d, arr)
    BY <1>0, <1>3, SliceSends
  <2>3. v.tracker = u.tracker
    OBVIOUS
  <2> HIDE DEF e, v, x, next, lat, d, u
  <2>4. DOMAIN e.sub = Subs /\ e.sub[s] = v /\ \A t \in Subs \ {s} : e.sub[t] = p.sub[t]
    BY <1>0, <2>1
  <2>5. lat \in Seq(Mfs)
    BY <1>0 DEF ChannelTypes
  <2>6. ChannelTypes(next, d)
    <3>1. next \in Seq(Mfs)
      BY <2>2, <2>5 DEF next
    <3>2. QED
      BY <1>0, <3>1 DEF ChannelTypes
  <2>7. ASSUME NEW t \in Subs, t # s PROVE SliceOK(p.sub[t], t, next, d, arr)
    <3>1. ASSUME NEW b \in Used, SubOf(b) = t, NEW m \in 5..10
          PROVE  Kept(Own(b), Lane(lat, d, b)[m], Lane(next, d, b)[m])
      <4> DEFINE A == Lane(lat, d, b)
                 B == Lane(next, d, b)
      <4>1. x \notin Own(b)
        BY <2>2, <2>7, <3>1 DEF Own
      <4>2. /\ A[5] = lat /\ B[5] = next /\ B[6] = A[6] /\ B[7] = A[7] /\ B[8] = A[8] /\ B[9] = A[9]
            /\ B[10] = A[10]
        BY LaneOf
      <4> HIDE DEF A, B
      <4>3. Kept(Own(b), lat, next)
        BY <2>2, <2>5, <4>1, TailJoins DEF next
      <4>4. Kept(Own(b), A[m], B[m])
        <5>1. CASE m = 5
          BY <4>2, <4>3, <5>1
        <5>2. CASE m # 5
          <6>1. B[m] = A[m]
            BY <4>2, <5>2
          <6>2. QED
            BY <6>1, NothingMoves
        <5>3. QED
          BY <5>1, <5>2
      <4>5. QED
        BY <4>4 DEF A, B
    <3>2. SliceOK(p.sub[t], t, lat, d, arr)
      BY <1>0
    <3>3. QED
      BY <3>1, <3>2, LaneStays
  <2>8. DOMAIN e.credit = CreditFields /\ DOMAIN e.credit.private = Subs /\ e.credit.last \in Subs
    BY <1>0, <2>1, CreditShape
  <2>9. PartsOK(e, arr)
    <3>1. \A t \in Subs : SliceOK(e.sub[t], t, next, d, arr)
      BY <2>2, <2>4, <2>7
    <3>2. QED
      BY <2>1, <2>4, <2>6, <2>8, <3>1 DEF PartsOK
  <2>10. Borrows(p, e)
    <3>1. Enters(lat, d, next, d, x)
      BY <2>2, <2>5, LatencyGains DEF next
    <3>2. QED
      BY <1>3, <2>1, <2>2, <3>1 DEF Borrows, lat, d
  <2>11. QED
    BY <2>1, <2>3, <2>4, <2>9, <2>10 DEF d, u
<1>4. QED
  BY <1>1, <1>2, <1>3

\* dram_t::push in the partition.
LEMMA LeaveLatencyOK ==
  ASSUME NEW p, NEW arr, PartsOK(p, arr), setup \in Setups, NEW ripe,
         setup.sched = "frfcfs" => Len(p.dram.mrqq) < MrqqSize
  PROVE  LET e == LeaveLatency(p, ripe)
         IN /\ PartsOK(e, arr) /\ RoomBehind(e.dram) /\ e.credit = p.credit /\ e.sub = p.sub
            /\ SameInside(p.latency, p.dram, e.latency, e.dram)
<1> DEFINE e == LeaveLatency(p, ripe)
           d == p.dram
           lat == p.latency
           f == DramPush(d, DramReq(Head(lat)))
<1>0. /\ DOMAIN p = PartFields /\ DOMAIN p.sub = Subs /\ ChannelTypes(lat, d)
      /\ \A t \in Subs : SliceOK(p.sub[t], t, lat, d, arr)
      /\ DOMAIN p.credit = CreditFields /\ DOMAIN p.credit.private = Subs /\ p.credit.last \in Subs
  BY DEF PartsOK
<1>1. CASE e = p
  <2>1. RoomBehind(d)
    <3>1. Len(d.mrqq) \in Nat
      BY <1>0 DEF ChannelTypes
    <3>2. QED
      BY <3>1 DEF RoomBehind, MrqqSize
  <2>2. QED
    BY <1>1, <2>1 DEF SameInside
<1>2. CASE lat # <<>> /\ ~DramFull(d, setup.sched) /\ e = [p EXCEPT !.latency = Tail(@), !.dram = f]
  <2>1. DOMAIN e = PartFields /\ e.sub = p.sub /\ e.latency = Tail(lat) /\ e.credit = p.credit /\ e.dram = f
    BY <1>0, <1>2 DEF PartFields
  <2>2. Carries(lat, d, Tail(lat), f) /\ RoomBehind(f)
    BY <1>0, <1>2, LeaveLatencyCarries
  <2> HIDE DEF e, f, lat, d
  <2>3. SameInside(lat, d, Tail(lat), f)
    BY <2>2, CarriesInside
  <2>4. PartsOK(e, arr)
    BY <1>0, <2>1, <2>2 DEF PartsOK, Carries
  <2>5. QED
    BY <2>1, <2>2, <2>3, <2>4 DEF e, lat, d
<1>3. QED
  BY <1>1, <1>2 DEF LeaveLatency

\* What the partition keeps about its requests.
CreditTypes == DOMAIN credit = CreditFields /\ DOMAIN credit.private = Subs /\ credit.last \in Subs
Tracking == Slices /\ ChannelTypes(latency, dram) /\ RoomBehind(dram) /\ CreditTypes

\* The record dram_cycle works on, before and after it.
Now == [sub |-> sub, latency |-> latency, credit |-> credit, dram |-> dram]
Cycle(ripe) == LeaveLatency(Arbitrate(Dram(Return(Now))), ripe)

\* The partition before the cycle is as its invariant has it.
LEMMA NowOK == ASSUME Tracking PROVE PartsOK(Now, arrived) /\ RoomBehind(Now.dram) /\ setup \in Setups
<1>1. /\ DOMAIN Now = PartFields /\ Now.sub = sub /\ Now.latency = latency /\ Now.credit = credit
      /\ Now.dram = dram
  BY DEF Now, PartFields
<1>2. QED
  BY <1>1 DEF PartsOK, Tracking, Slices, CreditTypes

\* dram_cycle, part by part.
LEMMA CycleParts ==
  ASSUME Tracking, NEW ripe
  PROVE  LET r == Return(Now)
             d == Dram(r)
             a == Arbitrate(d)
             e == Cycle(ripe)
         IN /\ Returns(Now, r) /\ Returns(r, d) /\ Borrows(d, a)
            /\ SameInside(a.latency, a.dram, e.latency, e.dram) /\ e.credit = a.credit
            /\ PartsOK(e, arrived) /\ RoomBehind(e.dram)
            /\ \A s \in Subs : e.sub[s].tracker \subseteq sub[s].tracker
<1> DEFINE p == Now
           r == Return(p)
           d == Dram(r)
           a == Arbitrate(d)
           e == LeaveLatency(a, ripe)
<1>0. PartsOK(p, arrived) /\ RoomBehind(p.dram) /\ setup \in Setups /\ p.sub = sub
  BY NowOK DEF Now
<1> HIDE DEF p
<1>1. /\ PartsOK(r, arrived) /\ Returns(p, r)
      /\ r.dram.mrqq = p.dram.mrqq /\ r.dram.queue = p.dram.queue
      /\ \A s \in Subs : r.sub[s].tracker = p.sub[s].tracker
  BY <1>0, ReturnOK
<1> HIDE DEF r
<1>2. RoomBehind(r.dram)
  BY <1>0, <1>1 DEF RoomBehind, DramFull, Pending
<1>3. /\ PartsOK(d, arrived) /\ Returns(r, d)
      /\ setup.sched = "frfcfs" => Len(d.dram.mrqq) < MrqqSize
      /\ \A s \in Subs : d.sub[s].tracker \subseteq r.sub[s].tracker
  BY <1>0, <1>1, <1>2, DramOK
<1> HIDE DEF d
<1>4. /\ PartsOK(a, arrived) /\ Borrows(d, a) /\ a.dram = d.dram
      /\ \A s \in Subs : a.sub[s].tracker = d.sub[s].tracker
  BY <1>0, <1>3, ArbitrateOK
<1> HIDE DEF a
<1>5. /\ PartsOK(e, arrived) /\ RoomBehind(e.dram) /\ e.credit = a.credit /\ e.sub = a.sub
      /\ SameInside(a.latency, a.dram, e.latency, e.dram)
  BY <1>0, <1>3, <1>4, LeaveLatencyOK
<1> HIDE DEF e
<1>6. \A s \in Subs : e.sub[s].tracker \subseteq sub[s].tracker
  BY <1>0, <1>1, <1>3, <1>4, <1>5
<1>7. e = Cycle(ripe)
  BY DEF Cycle, e, a, d, r, p
<1>8. QED
  BY <1>1, <1>3, <1>4, <1>5, <1>6, <1>7 DEF a, d, r, p

\* dram_cycle is the four parts in their order.
LEMMA CycleIs ==
  ASSUME NEW ripe, DramCycle(ripe)
  PROVE  LET e == Cycle(ripe)
         IN /\ sub' = e.sub /\ latency' = e.latency /\ credit' = e.credit /\ dram' = e.dram
            /\ answered' = answered \cup UNION {sub[s].tracker \ e.sub[s].tracker : s \in Subs}
            /\ setup' = setup /\ arrived' = arrived
BY Zenon DEF DramCycle, Cycle, Now

\* The types of the channel, said of the values after a step.
LEMMA ChannelTypesNext ==
  ASSUME setup' = setup, ChannelTypes(latency', dram'), RoomBehind(dram')
  PROVE  ChannelTypes(latency, dram)' /\ RoomBehind(dram)'
<1>1. Mfs' = Mfs /\ \A y \in Mfs : Block(y)' = Block(y) /\ (IsWriteback(y)' <=> IsWriteback(y))
  BY SameRequests
<1>2. DramReqs' = DramReqs
  <2>1. \A r \in AnyReq : r \in DramReqs' <=> r \in DramReqs
    <3> SUFFICES ASSUME NEW r \in AnyReq, r.mf \in Mfs
                 PROVE  r \in DramReqs' <=> r \in DramReqs
      BY <1>1 DEF DramReqs
    <3> DEFINE y == r.mf
    <3>1. Block(y)' = Block(y) /\ (IsWriteback(y)' <=> IsWriteback(y))
      BY <1>1
    <3>2. IsWriteback(y) \in BOOLEAN /\ IsWriteback(y)' \in BOOLEAN
      BY DEF IsWriteback
    <3>3. QED
      BY <1>1, <3>1, <3>2 DEF DramReqs
  <2>2. DramReqs \subseteq AnyReq /\ DramReqs' \subseteq AnyReq
    BY DEF DramReqs
  <2>3. QED
    BY <2>1, <2>2
<1>3. RoomBehind(dram)'
  BY DEF RoomBehind
<1>4. QED
  BY <1>1, <1>2, <1>3 DEF ChannelTypes

\* dram_cycle keeps the invariant.
LEMMA DramCycleOK ==
  ASSUME Tracking, NEW ripe, DramCycle(ripe)
  PROVE  Tracking'
<1> DEFINE e == Cycle(ripe)
<1>1. /\ sub' = e.sub /\ latency' = e.latency /\ credit' = e.credit /\ dram' = e.dram
      /\ answered' = answered \cup UNION {sub[s].tracker \ e.sub[s].tracker : s \in Subs}
      /\ setup' = setup /\ arrived' = arrived
  BY CycleIs
<1>2. PartsOK(e, arrived) /\ RoomBehind(e.dram) /\ \A s \in Subs : e.sub[s].tracker \subseteq sub[s].tracker
  BY CycleParts
<1> HIDE DEF e
<1>3. /\ DOMAIN e.sub = Subs /\ DOMAIN e.credit = CreditFields /\ DOMAIN e.credit.private = Subs
      /\ e.credit.last \in Subs /\ ChannelTypes(e.latency, e.dram)
      /\ \A s \in Subs : SliceOK(e.sub[s], s, e.latency, e.dram, arrived)
  BY <1>2 DEF PartsOK
<1>4. /\ setup \in Setups /\ arrived \subseteq Reqs /\ answered \subseteq arrived
      /\ arrived \ answered = UNION {sub[s].tracker : s \in Subs} /\ DOMAIN sub = Subs
      /\ \A s \in Subs : SliceOK(sub[s], s, latency, dram, arrived)
  BY DEF Tracking, Slices
<1>5. (\A s \in Subs : SliceOK(sub[s], s, latency, dram, arrived))'
  <2>1. \A s \in Subs : SliceOK(sub'[s], s, latency', dram', arrived')
    BY <1>1, <1>3
  <2>2. QED
    BY <1>1, <1>4, <2>1, SlicesNext
<1>6. \A s \in Subs : sub[s].tracker \subseteq {r \in arrived : SubOf(setup.reqs[r].block) = s}
  BY <1>4, TrackersArrived
<1>7. arrived' \ answered' = UNION {sub'[s].tracker : s \in Subs} /\ answered' \subseteq arrived'
  <2> DEFINE O(s) == sub[s].tracker
             N(s) == e.sub[s].tracker
  <2>1. \A s \in Subs : N(s) \subseteq O(s) /\ O(s) \subseteq {r \in arrived : SubOf(setup.reqs[r].block) = s}
    BY <1>2, <1>6
  <2>2. arrived \ answered = UNION {O(s) : s \in Subs} /\ answered \subseteq arrived
    BY <1>4
  <2> HIDE DEF O, N
  <2>3. \A s, t \in Subs : \A r : r \in N(s) /\ r \in O(t) => s = t
    BY <2>1
  <2>4. /\ arrived \ (answered \cup UNION {O(s) \ N(s) : s \in Subs}) = UNION {N(s) : s \in Subs}
        /\ answered \cup UNION {O(s) \ N(s) : s \in Subs} \subseteq arrived
    <3>1. ASSUME NEW r PROVE r \in UNION {O(s) \ N(s) : s \in Subs} <=> \E s \in Subs : r \in O(s) /\ r \notin N(s)
      OBVIOUS
    <3>2. ASSUME NEW r PROVE r \in UNION {N(s) : s \in Subs} <=> \E s \in Subs : r \in N(s)
      OBVIOUS
    <3>3. ASSUME NEW r PROVE r \in arrived /\ r \notin answered <=> \E s \in Subs : r \in O(s)
      BY <2>2
    <3> DEFINE A == UNION {O(s) \ N(s) : s \in Subs}
               B == UNION {N(s) : s \in Subs}
    <3> HIDE DEF A, B
    <3>4. ASSUME NEW r PROVE r \in B <=> r \in arrived /\ r \notin answered /\ r \notin A
      <4>1. r \in B => r \in arrived /\ r \notin answered /\ r \notin A
        BY <2>1, <2>3, <3>1, <3>2, <3>3 DEF A, B
      <4>2. r \in arrived /\ r \notin answered /\ r \notin A => r \in B
        BY <3>1, <3>2, <3>3 DEF A, B
      <4>3. QED
        BY <4>1, <4>2
    <3>5. A \subseteq arrived
      BY <3>1, <3>3 DEF A
    <3>6. arrived \ (answered \cup A) = B
      BY <3>4
    <3>7. QED
      BY <2>2, <3>5, <3>6 DEF A, B
  <2>5. QED
    BY <1>1, <2>4 DEF O, N
<1>8. ChannelTypes(latency, dram)' /\ RoomBehind(dram)'
  <2>1. ChannelTypes(latency', dram') /\ RoomBehind(dram')
    BY <1>1, <1>2, <1>3
  <2>2. QED
    BY <1>1, <2>1, ChannelTypesNext
<1>9. Reqs' = Reqs
  BY <1>1, SameRequests
<1>10. Slices'
  BY <1>1, <1>3, <1>4, <1>5, <1>7, <1>9 DEF Slices
<1>11. CreditTypes'
  BY <1>1, <1>3 DEF CreditTypes
<1>12. QED
  BY <1>8, <1>10, <1>11 DEF Tracking

-----------------------------------------------------------------------------
(* The invariant holds initially, and every step keeps it.                 *)

\* The data pipeline is empty at first.
LEMMA EmptyBus ==
  LET q == EmptyChannel.rwq.slots
  IN /\ q \in Seq(Transfers \cup {NoReq}) /\ Len(q) = CL /\ EmptyChannel.rwq.min = CL
     /\ DOMAIN EmptyChannel.rwq = {"min", "slots"}
     /\ \A b : \A y \in Own(b) : ~Has(OnBus(q), y)
<1> DEFINE z == <<>>
           q == Padded(z, CL)
<1>1. EmptyChannel.rwq = [min |-> CL, slots |-> q]
  BY DEF EmptyChannel
<1>2. z \in Seq(Transfers \cup {NoReq}) /\ Len(z) = 0 /\ CL \in Nat
  BY PipeLengths
<1> HIDE DEF z
<1>3. /\ q \in Seq(Transfers \cup {NoReq}) /\ Len(q) = IF CL > Len(z) THEN CL ELSE Len(z)
      /\ \A i \in DOMAIN q : i \in 1..Len(z) \/ q[i] = NoReq
  BY <1>2, PaddedPlaces
<1>4. Len(q) = CL /\ \A i \in DOMAIN q : q[i] = NoReq
  BY <1>2, <1>3
<1> HIDE DEF q
<1>5. \A b : \A y \in Own(b) : ~Has(OnBus(q), y)
  BY <1>3, <1>4, OnBusFacts DEF Has
<1>6. QED
  BY <1>1, <1>3, <1>4, <1>5

\* The channel is empty at first, and has room behind mrqq.
LEMMA EmptyChannelOK == ChannelTypes(<<>>, EmptyChannel) /\ RoomBehind(EmptyChannel)
<1> DEFINE d == EmptyChannel
<1>1. /\ d.mrqq = <<>> /\ d.queue = [b \in Banks |-> <<>>] /\ d.lastrow = [b \in Banks |-> NoRow]
      /\ d.bank = [b \in Banks |-> [mrq |-> NoReq, tx |-> 0, open |-> FALSE, row |-> 0,
                                    c |-> [t \in Timers |-> 0]]]
      /\ d.prio = 0 /\ d.returnq = <<>>
  BY DEF EmptyChannel
<1>2. /\ d.rwq.slots \in Seq(Transfers \cup {NoReq}) /\ Len(d.rwq.slots) = CL /\ d.rwq.min = CL
      /\ DOMAIN d.rwq = {"min", "slots"}
  BY EmptyBus
<1>3. CL \in Nat /\ ReturnSize \in Nat
  BY PipeLengths, DramConstants
<1> HIDE DEF d
<1>4. \A S : <<>> \in Seq(S) /\ Len(<<>>) = 0 /\ DOMAIN <<>> = {}
  OBVIOUS
<1>5. d.queue \in [Banks -> Seq(DramReqs)]
  BY <1>1, <1>4
<1>6. \A b \in Banks : /\ DOMAIN d.bank[b] = {"mrq", "tx", "open", "row", "c"}
                       /\ d.bank[b].tx \in Nat /\ d.bank[b].mrq = NoReq
  BY <1>1
<1>7. DOMAIN d.bank = Banks /\ DOMAIN d.lastrow = Banks /\ \A b \in Banks : d.lastrow[b] = NoRow /\ d.queue[b] = <<>>
  BY <1>1
<1>8. Len(d.rwq.slots) \in d.rwq.min..(CL + 1)
  BY <1>2, <1>3
<1>9. Len(d.mrqq) <= MrqqSize /\ Len(d.returnq) <= ReturnSize /\ Len(d.mrqq) # MrqqSize /\ d.prio \in Nat
  BY <1>1, <1>3, <1>4 DEF MrqqSize
<1>10. ChannelTypes(<<>>, d)
  <2>1. d.mrqq \in Seq(DramReqs) /\ d.returnq \in Seq({r \in DramReqs : ~r.writeback})
    BY <1>1, <1>4
  <2>2. <<>> \in Seq(Mfs)
    OBVIOUS
  <2>3. \A b \in Banks : \A i \in DOMAIN d.queue[b] : d.queue[b][i].bk = b
    BY <1>4, <1>7
  <2>4. d.rwq.slots \in Seq({x \in AnyTransfer : x.req \in DramReqs} \cup {NoReq})
    BY <1>2 DEF Transfers
  <2>5. DOMAIN d = DOMAIN EmptyChannel
    BY DEF d
  <2>6. QED
    BY <1>2, <1>5, <1>6, <1>7, <1>8, <1>9, <2>1, <2>2, <2>3, <2>4, <2>5 DEF ChannelTypes
<1>11. RoomBehind(d)
  BY <1>9 DEF RoomBehind
<1>12. QED
  BY <1>10, <1>11 DEF d

\* A slice without requests keeps its account.
LEMMA EmptySliceOK ==
  ASSUME NEW s \in Subs, setup \in Setups PROVE SliceOK(EmptySlice, s, <<>>, EmptyChannel, {})
<1> DEFINE u == EmptySlice
<1>1. /\ u.rop = <<>> /\ u.in = <<>> /\ u.todram = <<>> /\ u.fromdram = <<>> /\ u.out = <<>>
      /\ u.line = [b \in Blocks |-> "none"] /\ u.mshr = [b \in Blocks |-> <<>>] /\ u.ready = <<>>
      /\ u.extra = {} /\ u.missq = <<>> /\ u.fill = 0 /\ u.data = 0 /\ u.tracker = {}
  BY DEF EmptySlice
<1>2. \A S : <<>> \in Seq(S) /\ Len(<<>>) = 0 /\ DOMAIN <<>> = {}
  OBVIOUS
<1> HIDE DEF u
<1>3. SliceTypes(u, s, {})
  <2>1. DOMAIN u = DOMAIN EmptySlice
    BY DEF u
  <2>2. /\ u.rop \in Seq(CoreReqs(s)) /\ u.in \in Seq(CoreReqs(s)) /\ u.out \in Seq(CoreReqs(s))
        /\ u.missq \in Seq(OfSlice(s)) /\ u.todram \in Seq(OfSlice(s))
        /\ u.fromdram \in Seq({y \in OfSlice(s) : ~IsWriteback(y)})
        /\ u.ready \in Seq({b \in Used : SubOf(b) = s})
    BY <1>1, <1>2
  <2>3. /\ Len(u.in) <= InSize /\ Len(u.out) <= OutSize /\ Len(u.todram) <= TodramSize
        /\ Len(u.fromdram) <= FromdramSize /\ Len(u.missq) <= MissQueueSize
    BY <1>1, <1>2, Sizes
  <2>4. u.mshr \in [Blocks -> Seq({y \in OfSlice(s) : ~IsWrite(y)})]
    <3> DEFINE S == Seq({y \in OfSlice(s) : ~IsWrite(y)})
    <3>1. <<>> \in S
      BY <1>2
    <3> HIDE DEF S
    <3>2. u.mshr \in [Blocks -> S]
      BY <1>1, <3>1
    <3>3. QED
      BY <3>2 DEF S
  <2>5. \A b \in Blocks : u.mshr[b] = <<>> /\ u.line[b] = "none"
    BY <1>1
  <2>6. \A b \in Blocks : \A i \in DOMAIN u.mshr[b] : Block(u.mshr[b][i]) = b
    BY <1>2, <2>5
  <2>7. u.line \in [Blocks -> {"none", "reserved", "valid", "modified"}]
    BY <1>1
  <2>8. u.extra = {} /\ u.tracker = {} /\ u.fill \in Nat /\ u.data \in Nat
    BY <1>1
  <2>9. QED
    BY <2>1, <2>2, <2>3, <2>4, <2>5, <2>6, <2>7, <2>8 DEF SliceTypes
<1>4. ASSUME NEW b \in Used PROVE Tracked(Way(u, <<>>, EmptyChannel, b), u, {}, b)
  <2> DEFINE W == Way(u, <<>>, EmptyChannel, b)
             k == BankOfBlock[b]
             q == EmptyChannel.rwq.slots
             Y == Own(b)
  <2>0. k \in Banks /\ b \in Blocks
    BY BanksOfBlocks, SetupTypes
  <2>1. /\ W[1] = u.rop /\ W[2] = u.in /\ W[3] = u.missq /\ W[4] = u.todram /\ W[5] = <<>>
        /\ W[6] = MfsOf(EmptyChannel.mrqq) /\ W[7] = MfsOf(EmptyChannel.queue[k])
        /\ W[8] = ServedBy(EmptyChannel, k) /\ W[9] = OnBus(q)
        /\ W[10] = MfsOf(EmptyChannel.returnq) /\ W[11] = u.fromdram /\ W[12] = u.out
    BY DEF Way
  <2>2. /\ EmptyChannel.mrqq = <<>> /\ EmptyChannel.queue[k] = <<>> /\ EmptyChannel.returnq = <<>>
        /\ EmptyChannel.bank[k].mrq = NoReq
    BY <2>0 DEF EmptyChannel
  <2>3. MfsOf(<<>>) = <<>>
    BY DEF MfsOf
  <2>4. \A y \in Y : ~Has(OnBus(q), y)
    BY EmptyBus
  <2> HIDE DEF W, k, q, Y
  <2>5. W[1] = <<>> /\ W[2] = <<>> /\ W[3] = <<>> /\ W[4] = <<>> /\ W[5] = <<>> /\ W[6] = <<>>
        /\ W[7] = <<>> /\ W[8] = <<>> /\ W[10] = <<>> /\ W[11] = <<>> /\ W[12] = <<>>
    BY <1>1, <2>1, <2>2, <2>3 DEF ServedBy
  <2>6. \A y : ~Has(<<>>, y)
    BY <1>2 DEF Has
  <2>7. \A m \in Stages : \A y \in Y : ~Has(W[m], y)
    <3>1. \A m \in Stages \ {9} : W[m] = <<>>
      BY <2>5 DEF Stages
    <3>2. QED
      BY <2>1, <2>4, <2>6, <3>1
  <2>8. \A y \in Y : ~Stands(W, y) /\ \A z \in Y : ~Ahead(W, y, z)
    BY <2>7 DEF Stands, Ahead, Before, Has
  <2>9. /\ u.mshr[b] = <<>> /\ u.extra = {} /\ u.ready = <<>> /\ u.tracker = {} /\ u.line[b] = "none"
    BY <1>1, <2>0
  <2>10. \A y, z : ~Before(<<>>, y, z)
    BY <1>2 DEF Before
  <2>11. Fetches(u, b) = {}
    BY <2>9 DEF Fetches
  <2>12. Tracked(W, u, {}, b)
    BY <2>6, <2>8, <2>9, <2>10, <2>11 DEF Tracked, Y
  <2>13. QED
    BY <2>12 DEF W
<1>5. QED
  BY <1>3, <1>4 DEF SliceOK, u

\* The invariant holds when nothing has arrived.
LEMMA InitTracking == ASSUME Init PROVE Tracking
<1>1. /\ setup \in Setups /\ arrived = {} /\ answered = {} /\ latency = <<>>
      /\ sub = [s \in Subs |-> EmptySlice]
      /\ credit = [private |-> [s \in Subs |-> 0], shared |-> 0, last |-> NumSubs - 1]
      /\ dram = EmptyChannel
  BY DEF Init
<1>2. ChannelTypes(latency, dram) /\ RoomBehind(dram)
  BY <1>1, EmptyChannelOK
<1>3. \A s \in Subs : SliceOK(sub[s], s, latency, dram, arrived)
  BY <1>1, EmptySliceOK
<1>4. \A s \in Subs : sub[s].tracker = {}
  BY <1>1 DEF EmptySlice
<1>5. Slices
  BY <1>1, <1>3, <1>4 DEF Slices
<1>6. CreditTypes
  <2>1. NumSubs - 1 \in Subs
    BY PartitionConstants DEF Subs
  <2>2. QED
    BY <1>1, <2>1 DEF CreditTypes, CreditFields
<1>7. QED
  BY <1>2, <1>5, <1>6 DEF Tracking

\* Every step keeps the invariant.
LEMMA StepTracking == ASSUME Tracking, [Next]_vars PROVE Tracking'
<1>0. Slices /\ setup \in Setups /\ ChannelTypes(latency, dram) /\ RoomBehind(dram) /\ CreditTypes
  BY DEF Tracking, Slices
<1>1. ASSUME Slices', setup' = setup, latency' = latency, dram' = dram, credit' = credit PROVE Tracking'
  <2>1. ChannelTypes(latency, dram)' /\ RoomBehind(dram)'
    <3>1. ChannelTypes(latency', dram') /\ RoomBehind(dram')
      BY <1>0, <1>1
    <3>2. QED
      BY <1>1, <3>1, ChannelTypesNext
  <2>2. CreditTypes'
    BY <1>0, <1>1 DEF CreditTypes
  <2>3. QED
    BY <1>1, <2>1, <2>2 DEF Tracking
<1>2. CASE Flush
  <2>1. setup' = setup /\ latency' = latency /\ dram' = dram /\ credit' = credit
    BY <1>2 DEF Flush
  <2>2. QED
    BY <1>0, <1>1, <1>2, <2>1, FlushOK
<1>3. ASSUME NEW ripe, L2Cycle(ripe) PROVE Tracking'
  <2>1. setup' = setup /\ latency' = latency /\ dram' = dram /\ credit' = credit
    BY <1>3 DEF L2Cycle
  <2>2. QED
    BY <1>0, <1>1, <1>3, <2>1, L2CycleOK
<1>4. ASSUME NEW ready \in SUBSET Subs, Respond(ready) PROVE Tracking'
  <2>1. setup' = setup /\ latency' = latency /\ dram' = dram /\ credit' = credit
    BY <1>4 DEF Respond
  <2>2. QED
    BY <1>0, <1>1, <1>4, <2>1, RespondOK
<1>5. ASSUME NEW ripe, DramCycle(ripe) PROVE Tracking'
  BY <1>5, DramCycleOK
<1>6. CASE UNCHANGED vars
  <2>1. /\ setup' = setup /\ arrived' = arrived /\ sub' = sub /\ latency' = latency /\ credit' = credit
        /\ dram' = dram /\ answered' = answered
    BY <1>6 DEF vars
  <2>2. (\A s \in Subs : SliceOK(sub[s], s, latency, dram, arrived))'
    <3>1. \A s \in Subs : SliceOK(sub'[s], s, latency', dram', arrived')
      BY <1>0, <2>1 DEF Slices
    <3>2. QED
      BY <1>0, <2>1, <3>1, SlicesNext
  <2>3. Reqs' = Reqs
    BY <2>1, SameRequests
  <2>4. Slices'
    BY <1>0, <2>1, <2>2, <2>3 DEF Slices
  <2>5. QED
    BY <1>1, <2>1, <2>4
<1>7. QED
  BY <1>2, <1>3, <1>4, <1>5, <1>6 DEF Next

\* Every request is on its way through the partition, once, or waits in the MSHR entry
\* of its block, and every queue keeps within its length.
THEOREM TrackingHolds == Spec => []Tracking
<1>1. Init => Tracking
  BY InitTracking
<1>2. Tracking /\ [Next]_vars => Tracking'
  BY StepTracking
<1>3. QED
  BY <1>1, <1>2, PTL DEF Spec

\* A set whose members are equal has one at most.
LEMMA AtMostOne ==
  ASSUME NEW S, \A x, y \in S : x = y PROVE IsFiniteSet(S) /\ Cardinality(S) \in Nat /\ Cardinality(S) <= 1
<1>1. CASE S = {}
  BY <1>1, FS_EmptySet
<1>2. CASE S # {}
  <2>1. PICK x \in S : TRUE
    BY <1>2
  <2>2. S = {x}
    BY <2>1
  <2>3. IsFiniteSet({x}) /\ Cardinality({x}) = 1
    BY FS_Singleton
  <2>4. QED
    BY <2>2, <2>3
<1>3. QED
  BY <1>1, <1>2

\* What the set of the requests in the channel holds.
RequestsIn(lat, d) ==
  SeqSet(lat) \cup SeqSet(MfsOf(d.mrqq)) \cup SeqSet(MfsOf(d.returnq))
  \cup {d.rwq.slots[i].req.mf : i \in Complete(d.rwq.slots)}
  \cup UNION {SeqSet(ServedBy(d, b)) \cup SeqSet(MfsOf(d.queue[b])) : b \in Banks}

\* They are those the lanes of the channel hold.
LEMMA RequestsInside ==
  ASSUME NEW lat, NEW d, ChannelTypes(lat, d), setup \in Setups
  PROVE  RequestsIn(lat, d) = {y \in Mfs : Inside(lat, d, y)}
<1> DEFINE bus1 == {d.rwq.slots[i].req.mf : i \in Complete(d.rwq.slots)}
           banks == UNION {SeqSet(ServedBy(d, b)) \cup SeqSet(MfsOf(d.queue[b])) : b \in Banks}
           I == RequestsIn(lat, d)
<1>1. I = SeqSet(lat) \cup SeqSet(MfsOf(d.mrqq)) \cup SeqSet(MfsOf(d.returnq)) \cup bus1 \cup banks
  BY DEF RequestsIn
<1>2. \A q, y : y \in SeqSet(q) <=> Has(q, y)
  BY DEF SeqSet, Has
<1>3. /\ lat \in Seq(Mfs) /\ d.mrqq \in Seq(DramReqs) /\ d.returnq \in Seq({r \in DramReqs : ~r.writeback})
      /\ d.queue \in [Banks -> Seq(DramReqs)] /\ d.rwq.slots \in Seq(Transfers \cup {NoReq})
      /\ \A b \in Banks : \A i \in DOMAIN d.queue[b] : d.queue[b][i].bk = b
      /\ \A b \in Banks : d.bank[b].mrq # NoReq => d.bank[b].mrq \in DramReqs /\ d.bank[b].mrq.bk = b
  BY DEF ChannelTypes, Transfers
<1>4. \A y : Has(MfsOf(d.mrqq), y) \/ Has(MfsOf(d.returnq), y) => y \in Mfs
  <2>1. d.returnq \in Seq(DramReqs)
    BY <1>3
  <2>2. MfsOf(d.mrqq) \in Seq(Mfs) /\ MfsOf(d.returnq) \in Seq(Mfs)
    BY <1>3, <2>1, MfsFacts
  <2>3. QED
    BY <2>2, QueueFacts
<1>5. \A y : Has(lat, y) => y \in Mfs
  BY <1>3, QueueFacts
<1>6. \A y : y \in bus1 <=> y \in Mfs /\ Has(OnBus(d.rwq.slots), y)
  <2> DEFINE q == d.rwq.slots
             C == {i \in DOMAIN q : q[i] # NoReq /\ q[i].atom >= q[i].req.n}
  <2>1. bus1 = {q[i].req.mf : i \in C}
    BY DEF Complete
  <2>2. q \in Seq(Transfers \cup {NoReq})
    BY <1>3
  <2> HIDE DEF q
  <2>3. \A i \in C : q[i].req.mf \in Mfs
    <3>1. \A i \in C : q[i] \in Transfers
      BY <2>2
    <3>2. QED
      BY <3>1 DEF Transfers, DramReqs
  <2>4. /\ DOMAIN OnBus(q) = DOMAIN q
        /\ \A b : \A i \in DOMAIN q : OnBus(q)[i] \in Own(b) => i \in C /\ OnBus(q)[i] = q[i].req.mf
        /\ \A i \in C : OnBus(q)[i] = q[i].req.mf
    BY <2>2, OnBusFacts
  <2> HIDE DEF C, bus1
  <2>5. C \subseteq DOMAIN q
    BY DEF C
  <2>6. ASSUME NEW y \in bus1 PROVE y \in Mfs /\ Has(OnBus(q), y)
    <3>1. PICK i \in C : y = q[i].req.mf
      BY <2>1
    <3>2. QED
      BY <2>3, <2>4, <2>5, <3>1 DEF Has
  <2>7. ASSUME NEW y \in Mfs, Has(OnBus(q), y) PROVE y \in bus1
    <3>1. PICK i \in DOMAIN q : OnBus(q)[i] = y
      BY <2>4, <2>7 DEF Has
    <3>2. y \in Own(Block(y))
      BY OwnBlocks
    <3>3. i \in C /\ y = q[i].req.mf
      BY <2>4, <3>1, <3>2
    <3>4. QED
      BY <2>1, <3>3
  <2>8. QED
    BY <2>6, <2>7 DEF q
<1>7. \A y : y \in banks <=> /\ y \in Mfs
                             /\ \/ Has(MfsOf(d.queue[BankOfBlock[Block(y)]]), y)
                                \/ Has(ServedBy(d, BankOfBlock[Block(y)]), y)
  <2>2. \A y : y \in banks <=> \E b \in Banks : Has(ServedBy(d, b), y) \/ Has(MfsOf(d.queue[b]), y)
    <3>1. \A y : y \in banks <=> \E b \in Banks : y \in SeqSet(ServedBy(d, b)) \cup SeqSet(MfsOf(d.queue[b]))
      OBVIOUS
    <3> HIDE DEF banks
    <3>2. QED
      BY <1>2, <3>1
  <2> HIDE DEF banks
  <2>3. ASSUME NEW b \in Banks, NEW y, Has(ServedBy(d, b), y)
        PROVE  y \in Mfs /\ b = BankOfBlock[Block(y)]
    <3>1. d.bank[b].mrq # NoReq /\ y = d.bank[b].mrq.mf
      BY <2>3 DEF ServedBy, Has
    <3>2. d.bank[b].mrq \in DramReqs /\ d.bank[b].mrq.bk = b
      BY <1>3, <3>1
    <3>3. QED
      BY <3>1, <3>2 DEF DramReqs
  <2>4. ASSUME NEW b \in Banks, NEW y, Has(MfsOf(d.queue[b]), y)
        PROVE  y \in Mfs /\ b = BankOfBlock[Block(y)]
    <3> DEFINE q == d.queue[b]
    <3>1. q \in Seq(DramReqs) /\ \A i \in DOMAIN q : q[i].bk = b
      BY <1>3
    <3> HIDE DEF q
    <3>2. PICK i \in DOMAIN q : q[i].mf = y
      BY <2>4 DEF Has, MfsOf, q
    <3>3. q[i] \in DramReqs /\ q[i].bk = b
      BY <3>1, <3>2
    <3>4. QED
      BY <3>2, <3>3 DEF DramReqs
  <2>5. \A y \in Mfs : BankOfBlock[Block(y)] \in Banks
    BY OwnBlocks, BanksOfBlocks
  <2>6. QED
    BY <2>2, <2>3, <2>4, <2>5
<1>8. ASSUME NEW y \in Mfs
      PROVE  Inside(lat, d, y) <=>
               \/ Has(lat, y) \/ Has(MfsOf(d.mrqq), y) \/ Has(MfsOf(d.queue[BankOfBlock[Block(y)]]), y)
               \/ Has(ServedBy(d, BankOfBlock[Block(y)]), y) \/ Has(OnBus(d.rwq.slots), y)
               \/ Has(MfsOf(d.returnq), y)
  <2> DEFINE b == Block(y)
             V == Lane(lat, d, b)
  <2>1. /\ V[5] = lat /\ V[6] = MfsOf(d.mrqq) /\ V[7] = MfsOf(d.queue[BankOfBlock[b]])
        /\ V[8] = ServedBy(d, BankOfBlock[b]) /\ V[9] = OnBus(d.rwq.slots) /\ V[10] = MfsOf(d.returnq)
    BY LaneOf
  <2>2. \A m \in Stages \ (5..10) : ~Has(V[m], y)
    <3>1. V[1] = <<>> /\ V[2] = <<>> /\ V[3] = <<>> /\ V[4] = <<>> /\ V[11] = <<>> /\ V[12] = <<>>
      BY DEF Lane, Way, EmptySlice
    <3>2. ~Has(<<>>, y)
      BY DEF Has
    <3> HIDE DEF V
    <3>3. QED
      BY <3>1, <3>2 DEF Stages
  <2> HIDE DEF V, b
  <2>3. Stands(V, y) <=> Has(V[5], y) \/ Has(V[6], y) \/ Has(V[7], y) \/ Has(V[8], y) \/ Has(V[9], y) \/ Has(V[10], y)
    BY <2>2 DEF Stands, Stages
  <2>4. QED
    BY <2>1, <2>3 DEF Inside, V, b
<1> HIDE DEF bus1, banks, I
<1>9. \A y : y \in I <=> y \in Mfs /\ Inside(lat, d, y)
  BY <1>1, <1>2, <1>4, <1>5, <1>6, <1>7, <1>8
<1>10. QED
  BY <1>9 DEF I

\* The channel as it is.
LEMMA InChannelIs == ASSUME Tracking PROVE InChannel = {y \in Mfs : Inside(latency, dram, y)}
<1>1. \A b \in Banks : Served(b) = ServedBy(dram, b)
  BY DEF Served, ServedBy
<1>2. InChannel = RequestsIn(latency, dram)
  BY <1>1 DEF InChannel, RequestsIn
<1>3. QED
  BY <1>2, RequestsInside DEF Tracking, Slices

\* The stage of a queue of a slice.
StageOf == [q \in Queues |-> CASE q = "rop" -> 1 [] q = "in" -> 2 [] q = "missq" -> 3 [] q = "todram" -> 4
                               [] q = "fromdram" -> 11 [] q = "out" -> 12]

\* The queues of a slice, as stages of a way.
LEMMA QueueStage ==
  ASSUME NEW u, NEW lat, NEW d, NEW b
  PROVE  /\ \A q \in Queues : /\ StageOf[q] \in Stages \ (5..10)
                              /\ Way(u, lat, d, b)[StageOf[q]] = u[q]
                              /\ \A r \in Queues : StageOf[r] = StageOf[q] => r = q
         /\ \A m \in Stages \ (5..10) : \E q \in Queues : StageOf[q] = m
<1> DEFINE V == Way(u, lat, d, b)
<1>1. /\ V[1] = u.rop /\ V[2] = u.in /\ V[3] = u.missq /\ V[4] = u.todram /\ V[11] = u.fromdram /\ V[12] = u.out
  BY DEF Way
<1>2. /\ StageOf["rop"] = 1 /\ StageOf["in"] = 2 /\ StageOf["missq"] = 3 /\ StageOf["todram"] = 4
      /\ StageOf["fromdram"] = 11 /\ StageOf["out"] = 12
  BY DEF StageOf, Queues
<1> HIDE DEF V
<1>3. QED
  BY <1>1, <1>2 DEF Queues, Stages, V

\* A request is in one place, and that is on its way.
LEMMA PlacesOnWay ==
  ASSUME Tracking, NEW y \in Mfs
  PROVE  LET b == Block(y)
             u == sub[SubOf(b)]
             W == Way(u, latency, dram, b)
         IN /\ (Places(y) # {} <=> Stands(W, y))
            /\ (Waits(y) # {} <=> Has(u.mshr[b], y))
            /\ Cardinality(Places(y)) <= 1 /\ Cardinality(Waits(y)) <= 1
<1> DEFINE b == Block(y)
           s == SubOf(b)
           u == sub[s]
           W == Way(u, latency, dram, b)
<1>0. b \in Used /\ y \in Own(b) /\ setup \in Setups /\ s \in Subs
  BY OwnBlocks, SliceOfUsed DEF Tracking, Slices
<1>1. SliceTypes(u, s, arrived) /\ Tracked(W, u, arrived, b)
  BY <1>0 DEF Tracking, Slices, SliceOK
<1>2. ~Ahead(W, y, y) /\ ~Before(u.mshr[b], y, y)
  BY <1>0, <1>1 DEF Tracked
<1>3. /\ \A q \in Queues : /\ StageOf[q] \in Stages \ (5..10) /\ W[StageOf[q]] = u[q]
                           /\ \A r \in Queues : StageOf[r] = StageOf[q] => r = q
      /\ \A m \in Stages \ (5..10) : \E q \in Queues : StageOf[q] = m
  BY QueueStage
<1>4. \A q \in Queues : DOMAIN u[q] = 1..Len(u[q])
  <2>1. /\ u.rop \in Seq(Mfs) /\ u.in \in Seq(Mfs) /\ u.missq \in Seq(Mfs) /\ u.todram \in Seq(Mfs)
        /\ u.fromdram \in Seq(Mfs) /\ u.out \in Seq(Mfs)
    BY <1>1, SliceSeqs
  <2>2. QED
    BY <2>1 DEF Queues
<1>5. y \in InChannel <=> Inside(latency, dram, y)
  BY InChannelIs
<1>6. Inside(latency, dram, y) <=> \E m \in 5..10 : Has(W[m], y)
  <2> DEFINE A == Lane(latency, dram, b)
  <2>1. \A m \in 5..10 : A[m] = W[m]
    BY LaneInWay
  <2>2. Stands(A, y) => \E m \in 5..10 : Has(W[m], y)
    BY LaneInWay
  <2>3. 5..10 \subseteq Stages
    BY DEF Stages
  <2> HIDE DEF A, W
  <2>4. (\E m \in 5..10 : Has(W[m], y)) => Stands(A, y)
    BY <2>1, <2>3 DEF Stands
  <2>5. QED
    BY <2>2, <2>4 DEF Inside, A, b
<1> DEFINE Q(q) == {j \in DOMAIN u[q] : u[q][j] = y}
           chan == IF y \in InChannel THEN {<<"channel", 0>>} ELSE {}
<1>7. \A z : z \in Places(y) <=> \/ \E q \in Queues : \E i \in Q(q) : z = <<q, i>>
                                 \/ y \in InChannel /\ z = <<"channel", 0>>
  <2> DEFINE S(q) == {<<q, i>> : i \in Q(q)}
             P == UNION {S(q) : q \in Queues}
  <2>1. Places(y) = P \cup chan
    BY Zenon DEF Places, Q, u, s
  <2>2. \A z : z \in chan <=> y \in InChannel /\ z = <<"channel", 0>>
    OBVIOUS
  <2> HIDE DEF Q, chan, P
  <2>3. \A z : \A q \in Queues : z \in S(q) <=> \E i \in Q(q) : z = <<q, i>>
    OBVIOUS
  <2> HIDE DEF S
  <2>4. \A z : z \in P <=> \E q \in Queues : z \in S(q)
    BY DEF P
  <2>6. QED
    BY <2>1, <2>2, <2>3, <2>4
<1>8. \A q \in Queues : \A i \in Q(q) : i \in DOMAIN W[StageOf[q]] /\ W[StageOf[q]][i] = y
  BY <1>3
<1>9. \A q \in Queues : Q(q) # {} <=> Has(W[StageOf[q]], y)
  BY <1>3 DEF Has
<1>10. \A q \in Queues : \A i \in Q(q) : i \in Nat
  BY <1>4
<1> HIDE DEF W, u, s, Q
<1>11. Places(y) # {} <=> Stands(W, y)
  <2>1. ASSUME Places(y) # {} PROVE Stands(W, y)
    <3>1. PICK z : z \in Places(y)
      BY <2>1
    <3>2. (\E q \in Queues : Has(W[StageOf[q]], y)) \/ y \in InChannel
      BY <1>7, <1>9, <3>1
    <3>3. 5..10 \subseteq Stages
      BY DEF Stages
    <3>4. QED
      BY <1>3, <1>5, <1>6, <3>2, <3>3 DEF Stands
  <2>2. ASSUME Stands(W, y) PROVE Places(y) # {}
    <3>1. PICK m \in Stages : Has(W[m], y)
      BY <2>2 DEF Stands
    <3>2. CASE m \in 5..10
      BY <1>5, <1>6, <1>7, <3>1, <3>2
    <3>3. CASE m \notin 5..10
      <4>1. PICK q \in Queues : StageOf[q] = m
        BY <1>3, <3>3
      <4>2. PICK i : i \in Q(q)
        BY <1>9, <3>1, <4>1
      <4>3. QED
        BY <1>7, <4>2
    <3>4. QED
      BY <3>2, <3>3
  <2>3. QED
    BY <2>1, <2>2
<1>12. \A x, z \in Places(y) : x = z
  <2>1. ASSUME NEW q \in Queues, NEW r \in Queues, NEW i \in Q(q), NEW j \in Q(r) PROVE q = r /\ i = j
    <3> DEFINE m == StageOf[q]
               n == StageOf[r]
    <3>1. m \in Stages /\ n \in Stages /\ Has(W[m], y) /\ Has(W[n], y)
      BY <1>3, <1>9
    <3>2. m = n
      <4>1. ~(m < n) /\ ~(n < m)
        <5> HIDE DEF m, n
        <5> QED  BY <1>2, <3>1 DEF Ahead
      <4>2. m \in Nat /\ n \in Nat
        BY <3>1 DEF Stages
      <4> HIDE DEF m, n
      <4>3. QED
        BY <4>1, <4>2
    <3>3. q = r
      BY <1>3, <3>2
    <3>4. i \in DOMAIN W[m] /\ W[m][i] = y /\ j \in DOMAIN W[m] /\ W[m][j] = y /\ i \in Nat /\ j \in Nat
      BY <1>8, <1>10, <3>3
    <3> HIDE DEF m, n
    <3>5. ~(i < j) /\ ~(j < i)
      BY <1>2, <3>1, <3>4 DEF Ahead, Before
    <3>6. QED
      BY <3>3, <3>4, <3>5
  <2>2. ASSUME y \in InChannel, NEW q \in Queues, NEW i \in Q(q) PROVE FALSE
    <3> DEFINE m == StageOf[q]
    <3>1. m \in Stages \ (5..10) /\ Has(W[m], y)
      BY <1>3, <1>9
    <3>2. PICK n \in 5..10 : Has(W[n], y)
      BY <1>5, <1>6, <2>2
    <3> HIDE DEF m
    <3>3. m \in Stages /\ n \in Stages /\ (m < n \/ n < m)
      BY <3>1 DEF Stages
    <3>4. QED
      BY <1>2, <3>1, <3>2, <3>3 DEF Ahead
  <2>3. TAKE x \in Places(y), z \in Places(y)
  <2>4. \/ \E q \in Queues : \E i \in Q(q) : x = <<q, i>>
        \/ y \in InChannel /\ x = <<"channel", 0>>
    BY <1>7
  <2>5. \/ \E q \in Queues : \E i \in Q(q) : z = <<q, i>>
        \/ y \in InChannel /\ z = <<"channel", 0>>
    BY <1>7
  <2>6. QED
    BY <2>1, <2>2, <2>4, <2>5
<1>13. Cardinality(Places(y)) <= 1
  BY <1>12, AtMostOne
<1>14. Waits(y) = {i \in DOMAIN u.mshr[b] : u.mshr[b][i] = y}
  BY DEF Waits, u, s
<1>15. DOMAIN u.mshr[b] \subseteq Nat
  <2>1. b \in Blocks /\ u.mshr \in [Blocks -> Seq({x \in OfSlice(s) : ~IsWrite(x)})]
    BY <1>0, <1>1, SetupTypes DEF SliceTypes
  <2> DEFINE S == {x \in OfSlice(s) : ~IsWrite(x)}
             q == u.mshr[b]
  <2>2. q \in Seq(S)
    BY <2>1
  <2> HIDE DEF S, q
  <2>3. DOMAIN q \subseteq Nat
    BY <2>2
  <2>4. QED
    BY <2>3 DEF q
<1>16. Waits(y) # {} <=> Has(u.mshr[b], y)
  BY <1>14 DEF Has
<1>17. \A i, j \in Waits(y) : i = j
  <2> TAKE i, j \in Waits(y)
  <2>1. i \in Nat /\ j \in Nat /\ ~(i < j) /\ ~(j < i)
    BY <1>2, <1>14, <1>15 DEF Before
  <2>2. QED
    BY <2>1
<1>18. Cardinality(Waits(y)) <= 1
  BY <1>17, AtMostOne
<1>19. QED
  BY <1>11, <1>13, <1>16, <1>18 DEF W, u, s

\* The invariant says that the tracker is exact.
LEMMA TrackingExact == ASSUME Tracking PROVE TrackerExact
<1>1. ASSUME NEW y \in Mfs
      PROVE  LET b == Block(y)
                 u == sub[SubOf(b)]
                 W == Way(u, latency, dram, b)
             IN b \in Used /\ y \in Own(b) /\ Tracked(W, u, arrived, b)
  <2>1. Block(y) \in Used /\ y \in Own(Block(y)) /\ SubOf(Block(y)) \in Subs
    BY OwnBlocks, SliceOfUsed DEF Tracking, Slices
  <2>2. QED
    BY <2>1 DEF Tracking, Slices, SliceOK
<1>2. ASSUME NEW y \in Mfs
      PROVE  /\ Cardinality(Places(y)) <= 1 /\ Cardinality(Waits(y)) <= 1
             /\ Waits(y) # {} => (Places(y) # {} <=> y \in sub[SubOf(Block(y))].extra)
  <2> DEFINE b == Block(y)
             u == sub[SubOf(b)]
             W == Way(u, latency, dram, b)
  <2>1. /\ (Places(y) # {} <=> Stands(W, y)) /\ (Waits(y) # {} <=> Has(u.mshr[b], y))
        /\ Cardinality(Places(y)) <= 1 /\ Cardinality(Waits(y)) <= 1
    BY PlacesOnWay
  <2>2. y \in Own(b) /\ Tracked(W, u, arrived, b)
    BY <1>1
  <2> HIDE DEF W
  <2>3. Has(u.mshr[b], y) => (Stands(W, y) <=> y \in u.extra)
    BY <2>2 DEF Tracked
  <2>4. QED
    BY <2>1, <2>3
<1>3. \A s \in Subs : sub[s].tracker \subseteq {r \in arrived : SubOf(setup.reqs[r].block) = s}
  BY TrackersArrived DEF Tracking, Slices
<1>4. arrived \ answered = UNION {sub[s].tracker : s \in Subs} /\ arrived \subseteq Reqs
  BY DEF Tracking, Slices
<1>5. ASSUME NEW r \in Reqs
      PROVE  r \in sub[SubOf(Block(<<"req", r>>))].tracker
               <=> r \in arrived \ answered /\ (Places(<<"req", r>>) # {} \/ Waits(<<"req", r>>) # {})
  <2> DEFINE y == <<"req", r>>
             b == Block(y)
             u == sub[SubOf(b)]
             W == Way(u, latency, dram, b)
  <2>0. y \in Mfs
    BY DEF Mfs
  <2>1. (Places(y) # {} <=> Stands(W, y)) /\ (Waits(y) # {} <=> Has(u.mshr[b], y))
    BY <2>0, PlacesOnWay
  <2>2. y \in Own(b) /\ Tracked(W, u, arrived, b) /\ b \in Used
    BY <1>1, <2>0
  <2>3. SubOf(b) \in Subs
    BY <2>2, SliceOfUsed DEF Tracking, Slices
  <2> HIDE DEF W
  <2>4. r \in u.tracker <=> (Stands(W, y) \/ Has(u.mshr[b], y))
    BY <2>2 DEF Tracked
  <2>5. r \in u.tracker => r \in arrived \ answered
    BY <1>4, <2>3
  <2>6. QED
    BY <2>1, <2>4, <2>5
<1>6. \A r \in arrived \ answered : r \in sub[SubOf(setup.reqs[r].block)].tracker
  BY <1>3, <1>4
<1>7. QED
  BY <1>2, <1>5, <1>6 DEF TrackerExact

\* However requests miss, merge, are refused and forwarded, each is in exactly one place
\* of the partition, or in an MSHR entry that a fetch is under way for or has answered;
\* and the tracker, by which busy() keeps the simulation going, holds those of the cores.
THEOREM TrackerExactHolds == Spec => []TrackerExact
<1>1. Tracking => TrackerExact
  BY TrackingExact
<1>2. QED
  BY <1>1, TrackingHolds, PTL

-----------------------------------------------------------------------------
(* The credits.                                                            *)

\* An image is no larger.
LEMMA ImageFinite ==
  ASSUME NEW S, IsFiniteSet(S), NEW U, NEW f \in [S -> U], \A t \in U : \E x \in S : f[x] = t
  PROVE  IsFiniteSet(U) /\ Cardinality(U) <= Cardinality(S)
<1>1. f \in Surjection(S, U)
  BY DEF Surjection
<1>2. QED
  BY <1>1, FS_Surjection

\* The requests there can be.
LEMMA MfsFinite == ASSUME setup \in Setups PROVE IsFiniteSet(Mfs)
<1> DEFINE R == [kind : {"read", "write", "l1wb", "atomic", "texture"}, block : Blocks]
           q == setup.reqs
<1>1. q \in Seq(R)
  BY PartitionConstants
<1> HIDE DEF R, q
<1>2. DOMAIN q = 1..Len(q) /\ Len(q) \in Int
  BY <1>1
<1>3. IsFiniteSet(Reqs)
  BY <1>2, FS_Interval DEF Reqs, q
<1>4. IsFiniteSet(Used)
  <2> DEFINE f == [r \in Reqs |-> setup.reqs[r].block]
  <2>1. f \in [Reqs -> Used] /\ \A t \in Used : \E r \in Reqs : f[r] = t
    BY DEF Used
  <2> HIDE DEF f
  <2>2. QED
    BY <1>3, <2>1, ImageFinite
<1>5. IsFiniteSet({"req", "alloc"}) /\ IsFiniteSet({"wb"})
  <2>1. IsFiniteSet({"req"}) /\ IsFiniteSet({"alloc"}) /\ IsFiniteSet({"wb"})
    BY FS_Singleton
  <2>2. IsFiniteSet({"req"} \cup {"alloc"})
    BY <2>1, FS_Union
  <2>3. {"req", "alloc"} = {"req"} \cup {"alloc"}
    OBVIOUS
  <2>4. QED
    BY <2>1, <2>2, <2>3
<1>6. IsFiniteSet({"req", "alloc"} \X Reqs) /\ IsFiniteSet({"wb"} \X Used)
  BY <1>3, <1>4, <1>5, FS_Product
<1>7. QED
  BY <1>6, FS_Union DEF Mfs

\* The credits, and the requests they were borrowed for.
Lent(c) == {s \in Subs : c.private[s] = 1}
CreditsFor(c, I) ==
  /\ DOMAIN c = CreditFields /\ c.private \in [Subs -> 0..1] /\ c.shared \in Nat
  /\ (SharedLimit # 0 => c.shared <= SharedLimit)
  /\ I \subseteq Mfs /\ c.shared + Cardinality(Lent(c)) = Cardinality(I)
  /\ \A s \in Lent(c) : \E y \in I : SubOf(Block(y)) = s

\* The shared limit is a number (partition_credit_config, l2cache.cc).
LEMMA LimitIsNumber == SharedLimit \in Nat
<1>1. SchedSize \in Nat /\ ReturnSize \in Nat /\ NumSubs \in Nat /\ SchedSize + ReturnSize - (NumSubs - 1) >= 0
  BY DramConstants, PartitionConstants
<1>2. QED
  BY <1>1 DEF SharedLimit

\* There are finitely many private credits.
LEMMA LentFinite == ASSUME NEW c PROVE IsFiniteSet(Lent(c)) /\ Cardinality(Lent(c)) \in Nat
<1>1. IsFiniteSet(Subs)
  BY FS_Interval, PartitionConstants DEF Subs
<1>2. Lent(c) \in SUBSET Subs
  BY DEF Lent
<1>3. QED
  BY <1>1, <1>2, FS_Subset, FS_CardinalityType

\* A request that leaves the channel gives back the private credit of its slice if it is
\* lent, a shared one if not, and keeps the account: with no private credit lent, one of
\* the requests is on a shared one.
LEMMA CreditReturned ==
  ASSUME setup \in Setups, NEW c, NEW I, CreditsFor(c, I), NEW x \in I
  PROVE  CreditsFor(ReturnCredit(c, SubOf(Block(x))), I \ {x})
<1> DEFINE s == SubOf(Block(x))
           e == ReturnCredit(c, s)
           J == I \ {x}
<1>0. s \in Subs /\ IsFiniteSet(I) /\ Cardinality(I) \in Nat
  <2>1. x \in Mfs /\ I \in SUBSET Mfs
    BY DEF CreditsFor
  <2>2. s \in Subs
    BY <2>1, OwnBlocks, SliceOfUsed
  <2>3. IsFiniteSet(I)
    BY <2>1, MfsFinite, FS_Subset
  <2>4. QED
    BY <2>2, <2>3, FS_CardinalityType
<1>1. IsFiniteSet(J) /\ Cardinality(J) = Cardinality(I) - 1 /\ J \subseteq Mfs
  BY <1>0, FS_RemoveElement DEF CreditsFor
<1>2. IsFiniteSet(Lent(c)) /\ Cardinality(Lent(c)) \in Nat
  BY LentFinite
<1>3. CASE c.private[s] = 1
  <2>1. e = [c EXCEPT !.private[s] = @ - 1]
    BY <1>3 DEF ReturnCredit
  <2>2. /\ DOMAIN e = CreditFields /\ e.private = [c.private EXCEPT ![s] = c.private[s] - 1]
        /\ e.shared = c.shared
    BY <2>1 DEF CreditsFor, CreditFields
  <2> HIDE DEF e, s
  <2>3. /\ e.private \in [Subs -> 0..1] /\ e.private[s] = 0 /\ \A t \in Subs \ {s} : e.private[t] = c.private[t]
    BY <1>0, <1>3, <2>2 DEF CreditsFor
  <2>4. Lent(e) = Lent(c) \ {s} /\ s \in Lent(c)
    BY <1>0, <1>3, <2>3 DEF Lent
  <2>5. Cardinality(Lent(e)) = Cardinality(Lent(c)) - 1
    BY <1>2, <2>4, FS_RemoveElement
  <2>6. \A t \in Lent(e) : \E y \in J : SubOf(Block(y)) = t
    BY <2>4 DEF CreditsFor, s
  <2>7. e.shared + Cardinality(Lent(e)) = Cardinality(J)
    <3>1. c.shared + Cardinality(Lent(c)) = Cardinality(I) /\ c.shared \in Nat
      BY DEF CreditsFor
    <3>2. QED
      BY <1>0, <1>1, <1>2, <2>2, <2>5, <3>1
  <2>8. CreditsFor(e, J)
    BY <1>1, <2>2, <2>3, <2>6, <2>7 DEF CreditsFor
  <2>9. QED
    BY <2>8 DEF e, s
<1>4. CASE c.private[s] # 1
  <2>0. c.private[s] = 0
    BY <1>0, <1>4 DEF CreditsFor
  <2>1. e = [c EXCEPT !.shared = @ - 1]
    BY <2>0 DEF ReturnCredit
  <2>2. DOMAIN e = CreditFields /\ e.private = c.private /\ e.shared = c.shared - 1 /\ Lent(e) = Lent(c)
    BY <2>1 DEF CreditsFor, CreditFields, Lent
  <2>3. \A t \in Lent(c) : \E y \in J : SubOf(Block(y)) = t
    BY <1>4 DEF CreditsFor, Lent
  <2> HIDE DEF e, s, J
  <2>4. Cardinality(Lent(c)) <= Cardinality(J)
    <3> DEFINE K == {y \in J : SubOf(Block(y)) \in Lent(c)}
               f == [y \in K |-> SubOf(Block(y))]
    <3>1. f \in [K -> Lent(c)] /\ \A t \in Lent(c) : \E y \in K : f[y] = t
      BY <2>3
    <3>2. K \in SUBSET J
      OBVIOUS
    <3> HIDE DEF K, f
    <3>3. IsFiniteSet(K) /\ Cardinality(K) <= Cardinality(J)
      BY <1>1, <3>2, FS_Subset
    <3>4. Cardinality(Lent(c)) <= Cardinality(K)
      BY <3>1, <3>3, ImageFinite
    <3>5. Cardinality(K) \in Nat /\ Cardinality(J) \in Nat
      BY <1>1, <3>3, FS_CardinalityType
    <3>6. QED
      BY <1>2, <3>3, <3>4, <3>5
  <2>5. c.shared + Cardinality(Lent(c)) = Cardinality(I) /\ c.shared \in Nat
    BY DEF CreditsFor
  <2>6. e.shared \in Nat /\ e.shared <= c.shared /\ e.shared + Cardinality(Lent(e)) = Cardinality(J)
    BY <1>0, <1>1, <1>2, <2>2, <2>4, <2>5
  <2>7. SharedLimit # 0 => e.shared <= SharedLimit
    <3>1. SharedLimit # 0 => c.shared <= SharedLimit
      BY DEF CreditsFor
    <3>2. QED
      BY <2>5, <2>6, <3>1, LimitIsNumber
  <2>8. c.private \in [Subs -> 0..1]
    BY DEF CreditsFor
  <2>9. CreditsFor(e, J)
    BY <1>1, <2>2, <2>3, <2>6, <2>7, <2>8 DEF CreditsFor
  <2>10. QED
    BY <2>9 DEF e, s, J
<1>5. QED
  BY <1>3, <1>4

\* A request that enters the channel borrows a credit its slice has, and keeps the
\* account.
LEMMA CreditBorrowed ==
  ASSUME setup \in Setups, NEW c, NEW I, CreditsFor(c, I), NEW x \in Mfs, x \notin I,
         HasCredits(c, SubOf(Block(x)))
  PROVE  CreditsFor(Borrow(c, SubOf(Block(x))), I \cup {x})
<1> DEFINE s == SubOf(Block(x))
           e == Borrow(c, s)
           J == I \cup {x}
<1>0. s \in Subs /\ IsFiniteSet(I) /\ Cardinality(I) \in Nat
  <2>1. I \in SUBSET Mfs
    BY DEF CreditsFor
  <2>2. s \in Subs
    BY OwnBlocks, SliceOfUsed
  <2>3. IsFiniteSet(I)
    BY <2>1, MfsFinite, FS_Subset
  <2>4. QED
    BY <2>2, <2>3, FS_CardinalityType
<1>1. Cardinality(J) = Cardinality(I) + 1 /\ J \subseteq Mfs
  BY <1>0, FS_AddElement DEF CreditsFor
<1>2. IsFiniteSet(Lent(c)) /\ Cardinality(Lent(c)) \in Nat
  BY LentFinite
<1>3. /\ c.shared + Cardinality(Lent(c)) = Cardinality(I) /\ c.shared \in Nat
      /\ c.private \in [Subs -> 0..1]
      /\ SharedLimit # 0 => c.shared <= SharedLimit
  BY DEF CreditsFor
<1>4. CASE c.private[s] < 1
  <2>0. c.private[s] = 0
    BY <1>0, <1>3, <1>4
  <2>1. e = [c EXCEPT !.private[s] = @ + 1, !.last = s]
    BY <1>4 DEF Borrow
  <2>2. /\ DOMAIN e = CreditFields /\ e.private = [c.private EXCEPT ![s] = c.private[s] + 1]
        /\ e.shared = c.shared
    BY <2>1 DEF CreditsFor, CreditFields
  <2> HIDE DEF e, s, J
  <2>3. /\ e.private \in [Subs -> 0..1] /\ e.private[s] = 1 /\ \A t \in Subs \ {s} : e.private[t] = c.private[t]
    BY <1>0, <1>3, <2>0, <2>2
  <2>4. Lent(e) = Lent(c) \cup {s} /\ s \notin Lent(c)
    BY <1>0, <2>0, <2>3 DEF Lent
  <2>5. Cardinality(Lent(e)) = Cardinality(Lent(c)) + 1
    BY <1>2, <2>4, FS_AddElement
  <2>6. \A t \in Lent(e) : \E y \in J : SubOf(Block(y)) = t
    BY <2>4 DEF CreditsFor, s, J
  <2>7. e.shared + Cardinality(Lent(e)) = Cardinality(J)
    BY <1>0, <1>1, <1>2, <1>3, <2>2, <2>5
  <2>8. CreditsFor(e, J)
    BY <1>1, <1>3, <2>2, <2>3, <2>6, <2>7 DEF CreditsFor
  <2>9. QED
    BY <2>8 DEF e, s, J
<1>5. CASE ~(c.private[s] < 1)
  <2>1. e = [c EXCEPT !.shared = @ + 1, !.last = s]
    BY <1>5 DEF Borrow
  <2>2. DOMAIN e = CreditFields /\ e.private = c.private /\ e.shared = c.shared + 1 /\ Lent(e) = Lent(c)
    BY <2>1 DEF CreditsFor, CreditFields, Lent
  <2>3. SharedLimit = 0 \/ c.shared < SharedLimit
    BY <1>5 DEF HasCredits
  <2> HIDE DEF e, s, J
  <2>4. SharedLimit # 0 => e.shared <= SharedLimit
    BY <1>3, <2>2, <2>3, LimitIsNumber
  <2>5. \A t \in Lent(e) : \E y \in J : SubOf(Block(y)) = t
    BY <2>2 DEF CreditsFor, J
  <2>6. e.shared \in Nat /\ e.shared + Cardinality(Lent(e)) = Cardinality(J)
    BY <1>0, <1>1, <1>2, <1>3, <2>2
  <2>7. CreditsFor(e, J)
    BY <1>1, <1>3, <2>2, <2>4, <2>5, <2>6 DEF CreditsFor
  <2>8. QED
    BY <2>7 DEF e, s, J
<1>6. QED
  BY <1>4, <1>5

-----------------------------------------------------------------------------
(* Every part of a cycle keeps the account, and so does every step.        *)

\* The requests in a channel.
Held(lat, d) == {y \in Mfs : Inside(lat, d, y)}

\* A part of a cycle that may give a credit back keeps the account.
LEMMA ReturnsKept ==
  ASSUME setup \in Setups, NEW p, NEW e, Returns(p, e), CreditsFor(p.credit, Held(p.latency, p.dram))
  PROVE  CreditsFor(e.credit, Held(e.latency, e.dram))
<1> DEFINE I == Held(p.latency, p.dram)
           J == Held(e.latency, e.dram)
<1>1. CASE SameInside(p.latency, p.dram, e.latency, e.dram) /\ e.credit = p.credit
  <2>1. J = I
    BY <1>1 DEF SameInside, Held
  <2>2. QED
    BY <1>1, <2>1
<1>2. ASSUME NEW x \in Mfs, Leaves(p.latency, p.dram, e.latency, e.dram, x),
             e.credit = ReturnCredit(p.credit, SubOf(Block(x)))
      PROVE  CreditsFor(e.credit, J)
  <2>1. x \in I /\ J = I \ {x}
    BY <1>2 DEF Leaves, Held
  <2> HIDE DEF I, J
  <2>2. CreditsFor(p.credit, I)
    BY DEF I
  <2>3. CreditsFor(ReturnCredit(p.credit, SubOf(Block(x))), I \ {x})
    BY <2>1, <2>2, CreditReturned
  <2>4. QED
    BY <1>2, <2>1, <2>3
<1>3. QED
  BY <1>1, <1>2 DEF Returns

\* So does the part that may borrow one.
LEMMA BorrowsKept ==
  ASSUME setup \in Setups, NEW p, NEW e, Borrows(p, e), CreditsFor(p.credit, Held(p.latency, p.dram))
  PROVE  CreditsFor(e.credit, Held(e.latency, e.dram))
<1> DEFINE I == Held(p.latency, p.dram)
           J == Held(e.latency, e.dram)
<1>1. CASE SameInside(p.latency, p.dram, e.latency, e.dram) /\ e.credit = p.credit
  <2>1. J = I
    BY <1>1 DEF SameInside, Held
  <2>2. QED
    BY <1>1, <2>1
<1>2. ASSUME NEW x \in Mfs, Enters(p.latency, p.dram, e.latency, e.dram, x),
             HasCredits(p.credit, SubOf(Block(x))), e.credit = Borrow(p.credit, SubOf(Block(x)))
      PROVE  CreditsFor(e.credit, J)
  <2>1. x \notin I /\ J = I \cup {x}
    BY <1>2 DEF Enters, Held
  <2> HIDE DEF I, J
  <2>2. CreditsFor(p.credit, I)
    BY DEF I
  <2>3. CreditsFor(Borrow(p.credit, SubOf(Block(x))), I \cup {x})
    BY <1>2, <2>1, <2>2, CreditBorrowed
  <2>4. QED
    BY <1>2, <2>1, <2>3
<1>3. QED
  BY <1>1, <1>2 DEF Borrows

\* The account of the credits, as it is.
Credits == CreditsFor(credit, Held(latency, dram))

\* The account after a step is the one of the values after it.
LEMMA CreditsNext ==
  ASSUME setup' = setup, CreditsFor(credit', Held(latency', dram')) PROVE Credits'
<1>1. /\ Mfs' = Mfs /\ \A y \in Mfs : Block(y)' = Block(y)
  BY SameRequests
<1> DEFINE I == Held(latency', dram')
<1>2. Held(latency, dram)' = I
  <2>1. \A y \in Mfs : Inside(latency, dram, y)' <=> Inside(latency', dram', y)
    BY <1>1 DEF Inside
  <2>2. QED
    BY <1>1, <2>1 DEF Held
<1>3. I \subseteq Mfs /\ CreditsFor(credit', I)
  BY DEF CreditsFor
<1> HIDE DEF I
<1>4. CreditsFor(credit, Held(latency, dram))'
  BY <1>1, <1>2, <1>3 DEF CreditsFor, Lent
<1>5. QED
  BY <1>4 DEF Credits

\* dram_cycle keeps the account.
LEMMA DramCycleCredits ==
  ASSUME Tracking, Credits, NEW ripe, DramCycle(ripe) PROVE Credits'
<1> DEFINE p == Now
           r == Return(p)
           d == Dram(r)
           a == Arbitrate(d)
           e == Cycle(ripe)
<1>1. /\ Returns(p, r) /\ Returns(r, d) /\ Borrows(d, a)
      /\ SameInside(a.latency, a.dram, e.latency, e.dram) /\ e.credit = a.credit
  BY CycleParts
<1>2. latency' = e.latency /\ credit' = e.credit /\ dram' = e.dram /\ setup' = setup
  BY CycleIs
<1>3. setup \in Setups /\ p.latency = latency /\ p.dram = dram /\ p.credit = credit
  BY DEF Tracking, Slices, Now
<1> HIDE DEF p, r, d, a, e
<1>4. CreditsFor(p.credit, Held(p.latency, p.dram))
  BY <1>3 DEF Credits
<1>5. CreditsFor(r.credit, Held(r.latency, r.dram))
  BY <1>1, <1>3, <1>4, ReturnsKept
<1>6. CreditsFor(d.credit, Held(d.latency, d.dram))
  BY <1>1, <1>3, <1>5, ReturnsKept
<1>7. CreditsFor(a.credit, Held(a.latency, a.dram))
  BY <1>1, <1>3, <1>6, BorrowsKept
<1>8. Held(e.latency, e.dram) = Held(a.latency, a.dram)
  BY <1>1 DEF SameInside, Held
<1>9. CreditsFor(e.credit, Held(e.latency, e.dram))
  BY <1>1, <1>7, <1>8
<1>10. QED
  BY <1>2, <1>9, CreditsNext

\* No credit is lent in an empty channel.
LEMMA InitCredits == ASSUME Init PROVE Credits
<1>1. /\ setup \in Setups /\ latency = <<>> /\ dram = EmptyChannel
      /\ credit = [private |-> [s \in Subs |-> 0], shared |-> 0, last |-> NumSubs - 1]
  BY DEF Init
<1>2. ASSUME NEW y \in Mfs PROVE ~Inside(<<>>, EmptyChannel, y)
  <2> DEFINE b == Block(y)
             k == BankOfBlock[b]
             V == Lane(<<>>, EmptyChannel, b)
             q == EmptyChannel.rwq.slots
  <2>1. b \in Used /\ k \in Banks /\ y \in Own(b)
    BY <1>1, OwnBlocks, BanksOfBlocks
  <2>2. /\ V[5] = <<>> /\ V[6] = MfsOf(EmptyChannel.mrqq) /\ V[7] = MfsOf(EmptyChannel.queue[k])
        /\ V[8] = ServedBy(EmptyChannel, k) /\ V[9] = OnBus(q) /\ V[10] = MfsOf(EmptyChannel.returnq)
    BY LaneOf
  <2>3. /\ EmptyChannel.mrqq = <<>> /\ EmptyChannel.queue[k] = <<>> /\ EmptyChannel.returnq = <<>>
        /\ EmptyChannel.bank[k].mrq = NoReq
    BY <2>1 DEF EmptyChannel
  <2>4. MfsOf(<<>>) = <<>> /\ ~Has(<<>>, y)
    BY DEF MfsOf, Has
  <2>5. ~Has(OnBus(q), y)
    BY <2>1, EmptyBus
  <2>6. V[1] = <<>> /\ V[2] = <<>> /\ V[3] = <<>> /\ V[4] = <<>> /\ V[11] = <<>> /\ V[12] = <<>>
    BY DEF Lane, Way, EmptySlice
  <2> HIDE DEF V, k, q
  <2>7. \A m \in Stages : ~Has(V[m], y)
    BY <2>2, <2>3, <2>4, <2>5, <2>6 DEF Stages, ServedBy
  <2>8. QED
    BY <2>7 DEF Inside, Stands, V
<1>3. Held(latency, dram) = {}
  BY <1>1, <1>2 DEF Held
<1>4. DOMAIN credit = CreditFields /\ credit.private = [s \in Subs |-> 0] /\ credit.shared = 0
  BY <1>1 DEF CreditFields
<1>5. Lent(credit) = {} /\ credit.private \in [Subs -> 0..1]
  BY <1>4 DEF Lent
<1>6. Cardinality({}) = 0
  BY FS_EmptySet
<1>7. SharedLimit # 0 => 0 <= SharedLimit
  BY LimitIsNumber
<1>8. QED
  BY <1>3, <1>4, <1>5, <1>6, <1>7 DEF Credits, CreditsFor

\* Every step keeps the account.
LEMMA StepCredits == ASSUME Tracking, Credits, [Next]_vars PROVE Credits'
<1>1. CASE setup' = setup /\ latency' = latency /\ dram' = dram /\ credit' = credit
  BY <1>1, CreditsNext DEF Credits
<1>2. CASE Flush
  BY <1>1, <1>2 DEF Flush
<1>3. ASSUME NEW ripe, L2Cycle(ripe) PROVE Credits'
  BY <1>1, <1>3 DEF L2Cycle
<1>4. ASSUME NEW ready \in SUBSET Subs, Respond(ready) PROVE Credits'
  BY <1>1, <1>4 DEF Respond
<1>5. ASSUME NEW ripe, DramCycle(ripe) PROVE Credits'
  BY <1>5, DramCycleCredits
<1>6. CASE UNCHANGED vars
  BY <1>1, <1>6 DEF vars
<1>7. QED
  BY <1>2, <1>3, <1>4, <1>5, <1>6 DEF Next

\* The queues, as the invariant types them.
LEMMA TypesKept == ASSUME Tracking PROVE TypeOK
<1>1. /\ setup \in Setups /\ arrived \subseteq Reqs /\ answered \subseteq arrived
      /\ \A s \in Subs : SliceTypes(sub[s], s, arrived)
      /\ ChannelTypes(latency, dram)
  BY DEF Tracking, Slices, SliceOK
<1>2. ASSUME NEW s \in Subs
      PROVE  /\ Len(sub[s].in) <= InSize /\ Len(sub[s].out) <= OutSize
             /\ Len(sub[s].todram) <= TodramSize /\ Len(sub[s].fromdram) <= FromdramSize
             /\ Len(sub[s].missq) <= MissQueueSize
             /\ sub[s].line \in [Blocks -> {"none", "reserved", "valid", "modified"}]
             /\ SeqSet(sub[s].missq) \cup sub[s].extra \subseteq Mfs
  <2> DEFINE u == sub[s]
             q == sub[s].missq
  <2>1. SliceTypes(u, s, arrived)
    BY <1>1
  <2>2. OfSlice(s) \subseteq Mfs
    BY DEF OfSlice
  <2>3. q \in Seq(OfSlice(s)) /\ u.extra \subseteq {y \in OfSlice(s) : ~IsWrite(y)}
    BY <2>1 DEF SliceTypes
  <2>4. SeqSet(q) \subseteq OfSlice(s)
    <3> HIDE DEF q
    <3> QED  BY <2>3 DEF SeqSet
  <2>5. SeqSet(q) \cup u.extra \subseteq Mfs
    BY <2>2, <2>3, <2>4
  <2>6. QED
    BY <2>1, <2>5 DEF SliceTypes
<1>3. /\ Len(dram.mrqq) <= MrqqSize /\ Len(dram.returnq) <= ReturnSize
      /\ Len(dram.rwq.slots) \in dram.rwq.min..(CL + 1) /\ latency \in Seq(Mfs)
  BY <1>1 DEF ChannelTypes
<1>4. SeqSet(latency) \subseteq Mfs
  BY <1>3 DEF SeqSet
<1>5. QED
  BY <1>1, <1>2, <1>3, <1>4 DEF TypeOK

\* The queues stay within their lengths and no credit is lost or returned twice.
THEOREM ResourcesExactHolds == Spec => []ResourcesExact
<1>1. Init => Tracking /\ Credits
  BY InitTracking, InitCredits
<1>2. (Tracking /\ Credits) /\ [Next]_vars => (Tracking /\ Credits)'
  BY StepTracking, StepCredits
<1>3. Tracking /\ Credits => ResourcesExact
  <2> SUFFICES ASSUME Tracking, Credits PROVE ResourcesExact
    OBVIOUS
  <2>1. InChannel = Held(latency, dram)
    BY InChannelIs DEF Held
  <2>2. CreditsExact
    BY <2>1 DEF Credits, CreditsFor, Lent, CreditsExact
  <2>3. QED
    BY <2>2, TypesKept DEF ResourcesExact
<1>4. QED
  BY <1>1, <1>2, <1>3, PTL DEF Spec
=============================================================================
