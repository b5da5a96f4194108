----------------------------- MODULE AddressMap -----------------------------
(***************************************************************************)
(* The address space of the bus as the code describes it in many places:   *)
(* the regions in the coverpoint trans_addr, in addr_to_index and in the   *)
(* table addr_maps of ubus_target_addr_dir_seqf; where a burst of 8 is     *)
(* allowed in the constraints of packet, in the cross and in the functions *)
(* of ubus_coverage, twice in ubus_target_addr_dir_seqf, and in            *)
(* ubus_coverage_closure_vseq, which nothing starts.  Each is written down *)
(* from its own source; nothing in the code derives one from another.      *)
(***************************************************************************)
EXTENDS Naturals

AddrSpace == 0 .. 65535          \* bit [15:0] addr
CodeSizes == {1, 2, 4, 8}        \* constraint c_size

\* Constraint global_legality: no burst of 8 in the peripheral registers.
Legal(addr, size) == ~(addr \in 16384 .. 20479 /\ size = 8)

\* The bins of the coverpoint trans_addr, in their order.
AddrBins == [i \in 0 .. 5 |->
  CASE i = 0 -> 0     .. 4095
    [] i = 1 -> 4096  .. 10239
    [] i = 2 -> 10240 .. 16383
    [] i = 3 -> 16384 .. 20479
    [] i = 4 -> 20480 .. 40959
    [] i = 5 -> 40960 .. 65535]

\* Fault: the limit of the first region is excluded.
AddrToIndexBelow(addr) ==
  IF addr < 4095 THEN 0 ELSE
  IF addr <= 10239 THEN 1 ELSE
  IF addr <= 16383 THEN 2 ELSE
  IF addr <= 20479 THEN 3 ELSE
  IF addr <= 40959 THEN 4 ELSE 5

\* addr_to_index and size_to_index; the latter has 0 for any other size.
AddrToIndex(addr) ==
  IF addr <= 4095 THEN 0 ELSE
  IF addr <= 10239 THEN 1 ELSE
  IF addr <= 16383 THEN 2 ELSE
  IF addr <= 20479 THEN 3 ELSE
  IF addr <= 40959 THEN 4 ELSE 5

SizeToIndex(size) == CASE size = 2 -> 1 [] size = 4 -> 2 [] size = 8 -> 3 [] OTHER -> 0

\* The start and end addresses of addr_maps.
AddrMaps == [i \in 0 .. 5 |->
  CASE i = 0 -> 0     .. 4095
    [] i = 1 -> 4096  .. 10239
    [] i = 2 -> 10240 .. 16383
    [] i = 3 -> 16384 .. 20479
    [] i = 4 -> 20480 .. 40959
    [] i = 5 -> 40960 .. 65535]

\* ignore_bins of the cross: the bins of trans_addr that meet the peripheral
\* registers, with size 8.
IgnoredRegions == {i \in 0 .. 5 : AddrBins[i] \cap 16384 .. 20479 # {}}
IgnoredInCross(i, size) == i \in IgnoredRegions /\ size = 8

\* The bins that write does not record and that is_covered always accepts.
Ignored(b) == b[1] = 3 /\ b[3] = 3

\* Fault: do_transaction draws a burst of 8 in every region.
SizeArrayAll(i) == CodeSizes

\* The sizes do_transaction draws from in region i, and those body runs through.
SizeArray(i) == IF i = 3 THEN {1, 2, 4} ELSE CodeSizes
SizeMap(i) == IF i = 3 THEN {1, 2, 4} ELSE CodeSizes

\* The regions ubus_coverage_closure_vseq leaves out, for their bursts of 8.
SkippedRegions == {0, 3}

-----------------------------------------------------------------------------
(* Properties of an address and a size *)

\* An address is in region i of the sequence's table exactly when it is in bin
\* i of the coverpoint and addr_to_index gives i: an item drawn for a missing
\* bin is recorded in that bin, whatever address is drawn (addr_maps of the
\* sequence, trans_addr and addr_to_index of the subscriber are three tables).
SameRegion(addr) ==
  \A i \in 0 .. 5 :
    /\ addr \in AddrMaps[i] <=> AddrToIndex(addr) = i
    /\ addr \in AddrBins[i] <=> AddrToIndex(addr) = i

\* A size is legal at an address exactly when do_transaction may draw it there,
\* so that randomize() cannot fail; when body has it among its targets, so that
\* no bin a legal packet falls into is left out; and when neither the cross nor
\* covered_bins ignores it, so that the packet is counted in both.
SameSizes(addr, size) ==
  LET i == AddrToIndex(addr)
  IN  /\ Legal(addr, size) <=> size \in SizeArray(i)
      /\ Legal(addr, size) <=> size \in SizeMap(i)
      /\ Legal(addr, size) <=> ~IgnoredInCross(i, size)
      /\ Legal(addr, size) <=> ~Ignored(<<i, 0, SizeToIndex(size)>>)

\* The regions ubus_coverage_closure_vseq skips because "size=8 is illegal in
\* this region" (36-41) are those where a burst of 8 is illegal, and region 0,
\* where it is legal and the comment is wrong.
SkippedToo(addr) ==
  LET i == AddrToIndex(addr)
  IN  /\ i \in SkippedRegions <=> ~Legal(addr, 8) \/ i = 0
      /\ i = 0 => Legal(addr, 8)
=============================================================================
