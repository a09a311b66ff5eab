-------------------------- MODULE MCMemoryPartition --------------------------
(* Instances of MemoryPartition for TLC.                                   *)
EXTENDS MemoryPartition, AddressDecoding, TLC

\* Three channels of two slices, lines of one column.  Of the blocks, all in channel
\* 0, a and c are in one row of bank 0, b in another; d and e are in two rows of
\* bank 1.
Mapping(channels, subs, dramid, chip, bk, row, col) ==
  [channels |-> channels, subs |-> subs, dramid |-> dramid, chip |-> chip, bk |-> bk, row |-> row, col |-> col]
MCMapping == Mapping(3, 2, 2, {}, {1}, {2, 3}, {0})
Address  == ("a" :> 12) @@ ("b" :> 24) @@ ("c" :> 13) @@ ("d" :> 14) @@ ("e" :> 26)
MCBlocks == DOMAIN Address
Place    == [b \in MCBlocks |-> addrdec_tlx(MCMapping, Address[b])]
MCRows   == [b \in MCBlocks |-> Place[b].row]
MCBanks  == [b \in MCBlocks |-> Place[b].bk]

\* Channels a power of two or not, one, two or four slices, scattered banks, a
\* channel named by its bits: seven bits within a channel, and those of the channel.
Mappings ==
  {Mapping(n, s, d, {}, {1, 4, 5}, {2, 6}, {0, 3}) : n \in 1..6, s \in {1, 2, 4}, d \in {1, 4}}
  \cup {Mapping(4, 2, ByMask, {2, 5}, {1, 7}, {4, 6, 8}, {0, 3})}
Width == 10
Addresses(m) ==
  0..((IF m.dramid = ByMask THEN 2^Cardinality(m.chip \cup m.bk \cup m.row \cup m.col)
       ELSE m.channels * 2^Cardinality(m.bk \cup m.row \cup m.col)) - 1)

\* "ensure that two linear addresses are not mapped to the same raw address"
\* (addrdec.cc, sweep_test): neither to one place of the DRAM, nor to one address of
\* a slice; and the numbers of channel and slice are in range.
ASSUME NoAliases ==
  \A m \in Mappings :
    LET A == Addresses(m)
        place(a) == addrdec_tlx(m, a)
    IN  /\ Accepted(m)
        /\ Cardinality({place(a) : a \in A}) = Cardinality(A)
        /\ Cardinality({<<place(a).sub_partition, partition_address(m, a, Width)>> : a \in A}) = Cardinality(A)
        /\ \A a \in A : /\ place(a).chip < m.channels
                        /\ place(a).sub_partition < m.channels * m.subs

\* BL / data_command_freq_ratio = 1, CDLR = 1, WR = 1.
MCTiming == [CCD |-> 1, CCDL |-> 2, RRD |-> 2, RCD |-> 2, RCDWR |-> 1, RAS |-> 3, RP |-> 1,
             RC |-> 5, WTR |-> 3, RTW |-> 4, WTP |-> 2, RTP |-> 1, RTPL |-> 2]

Req(k, b) == [kind |-> k, block |-> b]
Setup(l2, sched, requests) == [l2 |-> l2, sched |-> sched, reqs |-> requests, flush |-> FALSE]
MCSetups == {
  \* A row that is hit behind one that is not, and the other bank.
  Setup("all", "frfcfs", <<Req("read", "a"), Req("read", "b"), Req("atomic", "c"), Req("read", "d")>>),
  \* Write-allocation, merging, a dirty victim.
  Setup("all", "frfcfs", <<Req("write", "a"), Req("write", "a"), Req("read", "b"),
                           Req("read", "c")>>),
  \* Write-backs of an L1, one behind a read of its block.
  Setup("all", "frfcfs", <<Req("read", "a"), Req("l1wb", "a"), Req("l1wb", "c")>>),
  \* No L2: reads and writes take turns on the bus.
  Setup("off", "frfcfs", <<Req("write", "a"), Req("read", "a"), Req("l1wb", "b")>>),
  Setup("off", "fifo", <<Req("write", "a"), Req("write", "b"), Req("read", "d")>>),
  \* More requests than credits.
  Setup("off", "frfcfs", <<Req("read", "a"), Req("read", "b"), Req("read", "c"), Req("read", "b")>>),
  \* An L2 for textures only.
  Setup("texture", "frfcfs", <<Req("texture", "a"), Req("write", "a"), Req("texture", "a")>>),
  \* Flushed between reads.
  [Setup("all", "frfcfs", <<Req("read", "a"), Req("read", "a")>>) EXCEPT !.flush = TRUE]}

\* A write-back of an L1 is all that is left when the L2 is flushed.
MCFlushed == {[Setup("all", "frfcfs", <<Req("l1wb", "a"), Req("read", "a")>>) EXCEPT !.flush = TRUE]}
=============================================================================
