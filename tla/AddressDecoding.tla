--------------------------- MODULE AddressDecoding ---------------------------
(* linear_to_raw_address_translation (addrdec.cc): where an address lies in *)
(* DRAM.  A mapping is a record: channels and slices per channel, the bit   *)
(* the channel is inserted at (dramid, or ByMask if the mapping names the   *)
(* channel's bits), and the positions of the bits that make up channel,     *)
(* bank, row and column.  A mask is the set of its bits.  The burst, part   *)
(* of the column and read nowhere, is left out.                             *)
EXTENDS Integers, FiniteSets, FiniteSetsExt

ByMask == -1

\* addrdec_packbits(): the bits of v under the mask, moved together.
Packed(mask, v) ==
  MapThenSumSet(LAMBDA i : ((v \div 2^i) % 2) * 2^Cardinality({j \in mask : j < i}), mask)

\* Number of bits for n values, and whether their number is no power of two.
ChipBits(n) == CHOOSE k \in 0..n : 2^k >= n /\ \A j \in 0..(k - 1) : 2^j < n
Gap(m) == m.channels # 2^ChipBits(m.channels)

\* init(): a mapping it accepts.
Accepted(m) == /\ m.dramid = ByMask => ~Gap(m)
               /\ m.subs = 2^ChipBits(m.subs)

\* The bits of the channel come between those of the other masks, unless it
\* is found by division or named.
Raised(mask, m) == {IF i < m.dramid THEN i ELSE i + ChipBits(m.channels) : i \in mask}
Masks(m) ==
  IF Gap(m) \/ m.dramid = ByMask THEN m
  ELSE [m EXCEPT !.bk = Raised(@, m), !.row = Raised(@, m), !.col = Raised(@, m),
                 !.chip = @ \cup {m.dramid + i : i \in 0..(ChipBits(m.channels) - 1)}]

\* The lowest bits of the bank, which say the slice.
SliceBits(m) ==
  LET bk == Masks(m).bk
  IN  {i \in bk : Cardinality({j \in bk : j < i}) < ChipBits(m.subs)}

\* With a gap: the address inside the channel, the channel being a remainder.
Rest(m, addr) ==
  LET s == 2^m.dramid IN (((addr \div s) \div m.channels) * s) + (addr % s)

addrdec_tlx(m, addr) ==
  LET k    == Masks(m)
      a    == IF Gap(m) THEN Rest(m, addr) ELSE addr
      chip == IF Gap(m) THEN (addr \div 2^m.dramid) % m.channels ELSE Packed(k.chip, addr)
      bank == Packed(k.bk, a)
  IN  [chip |-> chip, bk |-> bank, row |-> Packed(k.row, a), col |-> Packed(k.col, a),
       sub_partition |-> (chip * m.subs) + (bank % m.subs)]

\* The address inside a slice; width is the number of address bits.
partition_address(m, addr, width) ==
  IF Gap(m) THEN Packed((0..(width - 1)) \ SliceBits(m), Rest(m, addr))
  ELSE Packed((0..(width - 1)) \ (Masks(m).chip \cup SliceBits(m)), addr)
=============================================================================
