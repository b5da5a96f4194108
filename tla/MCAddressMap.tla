---------------------------- MODULE MCAddressMap ----------------------------
(***************************************************************************)
(* A walk over the whole address space, to evaluate the properties of      *)
(* AddressMap at every address of the code.                                *)
(***************************************************************************)
EXTENDS AddressMap

VARIABLE walk   \* the address looked at

WalkInit == walk = 0
WalkNext == walk' = (walk + 1) % 65536
WalkSpec == WalkInit /\ [][WalkNext]_walk

\* At the address of the walk the three tables of regions agree.
RegionsAgree == SameRegion(walk)

\* At the address of the walk the same sizes are legal, drawn, targeted and
\* counted: the constraint of packet, the two size arrays of the closure sequence,
\* ignore_bins and the tests of write and is_covered agree.  The list of
\* ubus_coverage_closure_vseq, which nothing starts, does not agree with them:
\* it calls a burst of 8 illegal in region 0 as well.
SizesAgree ==
  /\ \A size \in CodeSizes : SameSizes(walk, size)
  /\ SkippedToo(walk)
=============================================================================
