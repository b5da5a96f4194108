-------------------------- MODULE AddressMapProofs --------------------------
(***************************************************************************)
(* The tables of the address space agree at each of its 65536 addresses,   *)
(* and so at every step of the walk of MCAddressMap.                       *)
(***************************************************************************)
EXTENDS MCAddressMap, TLAPS

\* addr_to_index in terms of the limits of the regions.
LEMMA IndexLimits ==
  ASSUME NEW addr \in Nat
  PROVE  /\ AddrToIndex(addr) = 0 <=> addr <= 4095
         /\ AddrToIndex(addr) = 1 <=> 4096 <= addr /\ addr <= 10239
         /\ AddrToIndex(addr) = 2 <=> 10240 <= addr /\ addr <= 16383
         /\ AddrToIndex(addr) = 3 <=> 16384 <= addr /\ addr <= 20479
         /\ AddrToIndex(addr) = 4 <=> 20480 <= addr /\ addr <= 40959
         /\ AddrToIndex(addr) = 5 <=> 40960 <= addr
  BY SMT DEF AddrToIndex

\* Membership in a range, for the ranges of the tables.
LEMMA InRange ==
  \A x, m, n \in Nat : x \in m .. n <=> m <= x /\ x <= n
  OBVIOUS

\* The constraint on a burst of 8, in terms of the limits of region 3.
LEMMA LegalLimits ==
  ASSUME NEW addr \in Nat, NEW size
  PROVE  Legal(addr, size) <=> ~(16384 <= addr /\ addr <= 20479 /\ size = 8)
  BY SMTT(60) DEF Legal

\* The limits of the regions in the sequence's table.
LEMMA TableLimits ==
  ASSUME NEW addr \in Nat
  PROVE  /\ addr \in AddrMaps[0] <=> addr <= 4095
         /\ addr \in AddrMaps[1] <=> 4096 <= addr /\ addr <= 10239
         /\ addr \in AddrMaps[2] <=> 10240 <= addr /\ addr <= 16383
         /\ addr \in AddrMaps[3] <=> 16384 <= addr /\ addr <= 20479
         /\ addr \in AddrMaps[4] <=> 20480 <= addr /\ addr <= 40959
         /\ addr \in AddrMaps[5] <=> 40960 <= addr /\ addr <= 65535
  <1>1. AddrMaps[0] = 0 .. 4095 BY SMT DEF AddrMaps
  <1>2. AddrMaps[1] = 4096 .. 10239 BY SMT DEF AddrMaps
  <1>3. AddrMaps[2] = 10240 .. 16383 BY SMT DEF AddrMaps
  <1>4. AddrMaps[3] = 16384 .. 20479 BY SMT DEF AddrMaps
  <1>5. AddrMaps[4] = 20480 .. 40959 BY SMT DEF AddrMaps
  <1>6. AddrMaps[5] = 40960 .. 65535 BY SMT DEF AddrMaps
  <1>7. addr \in AddrMaps[0] <=> addr <= 4095
    BY <1>1, InRange, SMTT(30)
  <1>8. addr \in AddrMaps[1] <=> 4096 <= addr /\ addr <= 10239
    BY <1>2, InRange, SMTT(30)
  <1>9. addr \in AddrMaps[2] <=> 10240 <= addr /\ addr <= 16383
    BY <1>3, InRange, SMTT(30)
  <1>10. addr \in AddrMaps[3] <=> 16384 <= addr /\ addr <= 20479
    BY <1>4, InRange, SMTT(30)
  <1>11. addr \in AddrMaps[4] <=> 20480 <= addr /\ addr <= 40959
    BY <1>5, InRange, SMTT(30)
  <1>12. addr \in AddrMaps[5] <=> 40960 <= addr /\ addr <= 65535
    BY <1>6, InRange, SMTT(30)
  <1> QED BY <1>7, <1>8, <1>9, <1>10, <1>11, <1>12

\* The limits of the address space.
LEMMA SpaceLimits ==
  ASSUME NEW addr \in Nat
  PROVE  addr \in AddrSpace <=> addr <= 65535
  <1> DEFINE last == 65535
  <1>1. last \in Nat BY SMT
  <1>2. AddrSpace = 0 .. last BY SMT DEF AddrSpace
  <1> HIDE DEF last
  <1>3. addr \in 0 .. last <=> addr <= last BY <1>1, SMT
  <1>4. addr \in AddrSpace <=> addr <= last BY <1>2, <1>3, Zenon
  <1> QED BY <1>4, SMT DEF last

\* The sequence's table, the coverpoint and addr_to_index agree on every
\* address of the bus.
THEOREM EveryAddressSameRegion == \A addr \in AddrSpace : SameRegion(addr)
  <1> SUFFICES ASSUME NEW addr \in AddrSpace, NEW i \in 0 .. 5
               PROVE  /\ addr \in AddrMaps[i] <=> AddrToIndex(addr) = i
                      /\ addr \in AddrBins[i] <=> AddrToIndex(addr) = i
    BY SMT DEF SameRegion
  <1>1. i = 0 \/ i = 1 \/ i = 2 \/ i = 3 \/ i = 4 \/ i = 5
    OBVIOUS
  <1>2. addr \in Nat /\ addr <= 65535
    BY SMT DEF AddrSpace
  <1>3. AddrMaps = AddrBins
    BY SMT DEF AddrMaps, AddrBins
  <1>4. addr \in AddrMaps[i] <=> AddrToIndex(addr) = i
    BY <1>1, <1>2, IndexLimits, TableLimits, SMT
  <1> QED BY <1>3, <1>4

\* The bins that ignore_bins takes out of the cross are those of region 3.
LEMMA CrossLimits == \A i \in 0 .. 5 : i \in IgnoredRegions <=> i = 3
  <1> SUFFICES ASSUME NEW i \in 0 .. 5
               PROVE  AddrBins[i] \cap 16384 .. 20479 # {} <=> i = 3
    BY DEF IgnoredRegions
  <1> DEFINE first == 16384  last == 20479
  <1>1. AddrMaps = AddrBins
    BY SMT DEF AddrMaps, AddrBins
  <1>2. first \in Nat /\ last \in Nat
    BY SMT
  <1>3. ASSUME NEW x \in AddrBins[i] \cap first .. last
        PROVE  i = 3
    <2>1. x \in AddrMaps[i] /\ x \in first .. last
      BY <1>1, <1>3
    <2> HIDE DEF first, last
    <2>3. x \in Nat /\ first <= x /\ x <= last
      BY <1>2, <2>1, SMT
    <2> USE DEF first, last
    <2>2. i = 0 \/ i = 1 \/ i = 2 \/ i = 3 \/ i = 4 \/ i = 5
      OBVIOUS
    <2> QED BY <2>1, <2>2, <2>3, TableLimits, SMT
  <1>4. i = 3 => first \in AddrBins[i] \cap first .. last
    <2>1. first \in AddrMaps[3]
      BY <1>2, TableLimits, SMT
    <2>2. first \in first .. last
      BY SMT
    <2> QED BY <1>1, <2>1, <2>2
  <1> HIDE DEF first, last
  <1>5. AddrBins[i] \cap first .. last # {} <=> i = 3
    BY <1>3, <1>4
  <1> QED BY <1>5, SMT DEF first, last

\* A size is legal at an address exactly when it is drawn, targeted and counted
\* in the address's region.
THEOREM EverySizeLegal ==
  \A addr \in AddrSpace, size \in CodeSizes : SameSizes(addr, size)
  <1> SUFFICES ASSUME NEW addr \in AddrSpace, NEW size \in CodeSizes
               PROVE  SameSizes(addr, size)
    OBVIOUS
  <1> DEFINE i == AddrToIndex(addr)
  <1>1. addr \in Nat
    BY SMT DEF AddrSpace
  <1>2. i \in 0 .. 5
    BY <1>1, SMT DEF AddrToIndex
  <1>3. Legal(addr, size) <=> ~(i = 3 /\ size = 8)
    BY <1>1, IndexLimits, LegalLimits
  <1> HIDE DEF i
  <1>4. size \in SizeArray(i) <=> ~(i = 3 /\ size = 8)
    BY SMT DEF CodeSizes, SizeArray
  <1>5. size \in SizeMap(i) <=> ~(i = 3 /\ size = 8)
    BY SMT DEF CodeSizes, SizeMap
  <1>6. IgnoredInCross(i, size) <=> i = 3 /\ size = 8
    BY <1>2, CrossLimits DEF IgnoredInCross
  <1>7. Ignored(<<i, 0, SizeToIndex(size)>>) <=> i = 3 /\ size = 8
    BY SMT DEF Ignored, SizeToIndex, CodeSizes
  <1> QED BY <1>3, <1>4, <1>5, <1>6, <1>7, Zenon DEF SameSizes, i

\* What ubus_coverage_closure_vseq skips is what is illegal, and region 0.
THEOREM EverySkipStated == \A addr \in AddrSpace : SkippedToo(addr)
  <1> SUFFICES ASSUME NEW addr \in AddrSpace
               PROVE  SkippedToo(addr)
    OBVIOUS
  <1> DEFINE i == AddrToIndex(addr)
  <1>1. addr \in Nat
    BY SMT DEF AddrSpace
  <1>2. Legal(addr, 8) <=> i # 3
    BY <1>1, IndexLimits, LegalLimits
  <1> HIDE DEF i
  <1>3. i \in SkippedRegions <=> i = 3 \/ i = 0
    BY DEF SkippedRegions
  <1>4. i = 0 => i # 3
    BY SMT
  <1> QED BY <1>2, <1>3, <1>4, Zenon DEF SkippedToo, i

-----------------------------------------------------------------------------
(* The walk over the addresses *)

\* The walk does not leave the address space.
LEMMA WalkInSpace == WalkSpec => [](walk \in AddrSpace)
  <1>1. WalkInit => walk \in AddrSpace
    BY SMTT(30) DEF WalkInit, AddrSpace
  <1>2. walk \in AddrSpace /\ [WalkNext]_walk => (walk \in AddrSpace)'
    <2>1. SUFFICES ASSUME walk \in AddrSpace, WalkNext PROVE walk' \in AddrSpace
      OBVIOUS
    <2>2. walk \in Nat /\ walk <= 65535
      BY <2>1, SMTT(30) DEF AddrSpace
    <2>3. (walk + 1) % 65536 \in Nat /\ (walk + 1) % 65536 <= 65535
      BY <2>2, SMTT(30)
    <2>4. walk' \in Nat /\ walk' <= 65535
      BY <2>1, <2>3 DEF WalkNext
    <2> QED BY <2>4, SpaceLimits
  <1> QED BY <1>1, <1>2, PTL DEF WalkSpec

\* At every address the walk comes to, the three tables of regions agree.
THEOREM WalkRegions == WalkSpec => []RegionsAgree
  <1>1. walk \in AddrSpace => RegionsAgree
    BY EveryAddressSameRegion DEF RegionsAgree
  <1> QED BY <1>1, WalkInSpace, PTL

\* At every address the walk comes to, the same sizes are legal, drawn, targeted
\* and counted, and region 0 alone is skipped without a reason.
THEOREM WalkSizes == WalkSpec => []SizesAgree
  <1>1. walk \in AddrSpace => SizesAgree
    BY EverySizeLegal, EverySkipStated DEF SizesAgree
  <1> QED BY <1>1, WalkInSpace, PTL
=============================================================================
