---------------------------- MODULE UbusCoverage ----------------------------
(***************************************************************************)
(* class ubus_coverage: the array covered_bins that the subscriber keeps   *)
(* of the packets of the master monitor, as the set of the bins that are   *)
(* 1.  The covergroup sampled in the same call only feeds the report; its  *)
(* cross has the bins of the array.                                        *)
(***************************************************************************)
EXTENDS UbusPacket, AddressMap

ASSUME CoverageAssumption == Addr \subseteq AddrSpace /\ Sizes \subseteq CodeSizes

VARIABLE covered   \* covered_bins

DirIndex(dir) == IF dir = "read" THEN 1 ELSE 0

\* The bin a packet falls into.
Bin(t) == <<AddrToIndex(t.addr), DirIndex(t.dir), SizeToIndex(t.size)>>

Bins == (0 .. 5) \X {0, 1} \X (0 .. 3)

CoverageInit == covered = {}

CoverageType == covered \subseteq Bins

\* Fault: the last packet replaces what was recorded of its region.
CoverageWriteForgetting(t) ==
  covered' = {b \in covered : b[1] # AddrToIndex(t.addr)} \cup {Bin(t)}

\* Fault: an index is taken for another.
CoverageWriteShifted(t) == covered' = covered \cup {<<Bin(t)[1], Bin(t)[2], Bin(t)[3] + 1>>}

\* write: a packet of the master monitor is recorded.
CoverageWrite(t) ==
  covered' = IF Ignored(Bin(t)) THEN covered ELSE covered \cup {Bin(t)}

\* Fault: any size of the region and direction will do.
IsCoveredAnySize(b) == Ignored(b) \/ \E c \in covered : c[1] = b[1] /\ c[2] = b[2]

IsCovered(b) == Ignored(b) \/ b \in covered
=============================================================================
