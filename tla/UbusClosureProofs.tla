------------------------- MODULE UbusClosureProofs --------------------------
(***************************************************************************)
(* The coverage that the closure sequence asks for, for every value of the *)
(* constants: the array is behind by at most one item, closing it is       *)
(* earned, and two clocks of drain are enough.                             *)
(***************************************************************************)
EXTENDS UbusClosureInvariant, UbusTransferProofs, AddressMapProofs

-----------------------------------------------------------------------------
(* Bins and combinations *)

\* The bin of a packet is one of the 48, and the sequence's tables give the same.
LEMMA PacketBin ==
  ASSUME NEW p \in Packet
  PROVE  Bin(p) \in Bins /\ Combination(p) = Bin(p)
  <1>1. p.addr \in AddrSpace /\ p.size \in CodeSizes /\ p.dir \in Dir
    BY PacketFields, CoverageAssumption
  <1>2. AddrToIndex(p.addr) \in 0 .. 5
    BY SMT DEF AddrToIndex
  <1>3. (CHOOSE i \in 0 .. 5 : p.addr \in AddrMaps[i]) = AddrToIndex(p.addr)
    <2>1. \A i \in 0 .. 5 : p.addr \in AddrMaps[i] <=> AddrToIndex(p.addr) = i
      BY <1>1, EveryAddressSameRegion DEF SameRegion
    <2> QED BY <1>2, <2>1
  <1>4. SizeToIndex(p.size) \in 0 .. 3
    BY <1>1 DEF CodeSizes, SizeToIndex
  <1>5. (CASE p.size = 1 -> 0 [] p.size = 2 -> 1 [] p.size = 4 -> 2 [] p.size = 8 -> 3)
          = SizeToIndex(p.size)
    BY <1>1 DEF CodeSizes, SizeToIndex
  <1>6. DirIndex(p.dir) \in {0, 1}
    BY DEF DirIndex
  <1> QED BY <1>2, <1>3, <1>4, <1>5, <1>6 DEF Bin, Bins, Combination, DirIndex

\* Packets with the same header fall into the same bin.
LEMMA SameHeaderSameBin ==
  ASSUME NEW p, NEW q, HdrOf(p) = HdrOf(q)
  PROVE  Bin(p) = Bin(q)
  BY DEF HdrOf, Bin

\* A legal packet does not fall into the combination that is ignored.
LEMMA LegalNotIgnored ==
  ASSUME NEW p \in Packet, Legal(p.addr, p.size)
  PROVE  ~Ignored(Bin(p))
  <1>1. p.addr \in Nat /\ p.size \in CodeSizes
    BY PacketFields, CoverageAssumption, ConstantsAssumption
  <1>2. ~(AddrToIndex(p.addr) = 3 /\ p.size = 8)
    BY <1>1, IndexLimits, LegalLimits
  <1>3. SizeToIndex(p.size) = 3 => p.size = 8
    BY <1>1 DEF SizeToIndex, CodeSizes
  <1> QED BY <1>2, <1>3 DEF Ignored, Bin

\* The sequence targets none of what is ignored.
LEMMA TargetsNotIgnored ==
  ASSUME NEW b \in Targets
  PROVE  b \in Bins /\ ~Ignored(b) /\ Rank(b) \in Nat
  <1>1. b \in Regions \X {0, 1} \X (0 .. 3)
    BY DEF Targets
  <1>2. b \in Bins
    BY <1>1, ClosureAssumption DEF Bins
  <1>3. b[1] \in 0 .. 5 /\ b[2] \in {0, 1} /\ b[3] \in 0 .. 3
    BY <1>2 DEF Bins
  <1>4. PICK size \in SizeMap(b[1]) \cap Sizes : b[3] = SizeToIndex(size)
    BY DEF Targets
  <1>5. b[1] = 3 => size \in {1, 2, 4}
    BY <1>4 DEF SizeMap
  <1>6. b[1] = 3 => b[3] # 3
    BY <1>4, <1>5 DEF SizeToIndex
  <1> QED BY <1>2, <1>3, <1>6 DEF Ignored, Rank

-----------------------------------------------------------------------------
(* The order of the loops: there is a first one of what is missing *)

\* A set of numbers of 0 .. 5 that is not empty has a least element.
LEMMA LeastOf ==
  ASSUME NEW S \in SUBSET (0 .. 5), S # {}
  PROVE  \E n \in S : \A k \in S : n <= k
  <1>1. CASE 0 \in S
    BY <1>1
  <1>2. CASE 0 \notin S /\ 1 \in S
    BY <1>2
  <1>3. CASE 0 \notin S /\ 1 \notin S /\ 2 \in S
    BY <1>3
  <1>4. CASE 0 \notin S /\ 1 \notin S /\ 2 \notin S /\ 3 \in S
    BY <1>4
  <1>5. CASE 0 \notin S /\ 1 \notin S /\ 2 \notin S /\ 3 \notin S
    <2>1. CASE 4 \in S
      BY <1>5, <2>1
    <2>2. CASE 4 \notin S
      <3>1. \A k \in S : k \in 0 .. 5 /\ k # 0 /\ k # 1 /\ k # 2 /\ k # 3 /\ k # 4
        BY <1>5, <2>2
      <3>2. \A k \in S : k = 5
        BY <3>1
      <3>3. PICK n \in S : TRUE
        OBVIOUS
      <3> QED BY <3>2, <3>3
    <2> QED BY <2>1, <2>2
  <1> QED BY <1>1, <1>2, <1>3, <1>4, <1>5

\* The first combination of a set is one of its elements.
LEMMA FirstOf ==
  ASSUME NEW S \in SUBSET Bins, S # {}
  PROVE  First(S) \in S
  <1>1. \A b \in S : b = <<b[1], b[2], b[3]>> /\ b[1] \in 0 .. 5 /\ b[2] \in 0 .. 5 /\ b[3] \in 0 .. 5
                     /\ b[2] <= 1 /\ b[3] <= 3
    BY DEF Bins
  <1>2. PICK i \in {b[1] : b \in S} : \A k \in {b[1] : b \in S} : i <= k
    BY <1>1, LeastOf
  <1> DEFINE D == {b[2] : b \in {c \in S : c[1] = i}}
  <1>3. D # {} /\ D \in SUBSET (0 .. 5)
    BY <1>1, <1>2
  <1>4. PICK d \in D : \A k \in D : d <= k
    BY <1>3, LeastOf
  <1> DEFINE N == {b[3] : b \in {c \in S : c[1] = i /\ c[2] = d}}
  <1>5. N # {} /\ N \in SUBSET (0 .. 5)
    BY <1>1, <1>4
  <1>6. PICK n \in N : \A k \in N : n <= k
    BY <1>5, LeastOf
  <1>7. PICK b \in S : b[1] = i /\ b[2] = d /\ b[3] = n
    BY <1>6
  <1>8. ASSUME NEW c \in S PROVE Rank(b) <= Rank(c)
    <2>1. i <= c[1] /\ (c[1] = i => d <= c[2]) /\ (c[1] = i /\ c[2] = d => n <= c[3])
      BY <1>2, <1>4, <1>6
    <2> QED BY <1>1, <1>7, <2>1 DEF Rank
  <1> QED BY <1>7, <1>8 DEF First

\* So the loops ask for a combination that is one of their targets.
LEMMA FirstMissing ==
  ASSUME NEW r, Missing(r) # {}
  PROVE  First(Missing(r)) \in Targets
  <1>1. Missing(r) \in SUBSET Bins
    BY TargetsNotIgnored DEF Missing
  <1> QED BY <1>1, FirstOf DEF Missing

-----------------------------------------------------------------------------
(* The bus inside the simulation *)

\* Every step of the simulation is a step of the agents, or leaves them alone.
LEMMA ClosureIsBus == [ClosureNext]_closureVars => [Next]_vars
  <1> SUFFICES ASSUME [ClosureNext]_closureVars PROVE [Next]_vars
    OBVIOUS
  <1>1. CASE Seek
    BY <1>1 DEF Seek
  <1>2. CASE Send
    <2>1. Request
      BY <1>2 DEF Send, Request
    <2> QED BY <2>1 DEF Next
  <1>3. CASE Respond
    <2>1. MasterDrives
      BY <1>3 DEF Respond, MasterDrives, MDStep
    <2> QED BY <2>1 DEF Next, Step, Silent
  <1>4. CASE Cover
    BY <1>4 DEF Cover, Next, Step
  <1>5. CASE Clock
    BY <1>5 DEF Clock, Next, Step, Silent
  <1>6. CASE Proceed
    BY <1>6 DEF Proceed, Next, Step, Silent
  <1>7. CASE UNCHANGED closureVars
    BY <1>7 DEF closureVars
  <1> QED BY <1>1, <1>2, <1>3, <1>4, <1>5, <1>6, <1>7 DEF ClosureNext

\* So the agents keep their invariant.
LEMMA ClosureBus == ClosureSpec => []BusInv
  <1>1. ClosureInit => BusInv
    BY BusInit DEF ClosureInit
  <1>2. BusInv /\ [ClosureNext]_closureVars => BusInv'
    BY ClosureIsBus, BusNext
  <1> QED BY <1>1, <1>2, PTL DEF ClosureSpec

\* Under the closure sequence the agents still do one transfer at a time.
THEOREM ClosureImplementsTransfer == ClosureSpec => ImplementsTransfer
  <1>1. ClosureInit => Init
    BY DEF ClosureInit
  <1> QED BY <1>1, ClosureIsBus, BusRefines, PTL DEF ClosureSpec

-----------------------------------------------------------------------------
(* Types *)

\* What the subscriber, the sequence and the virtual sequence may store; the
\* passes are counted below the limit as long as the sequence runs.
ClosureTypeInv ==
  /\ CoverageType /\ ClosureSequenceType
  /\ drain \in 0 .. DrainClocks /\ hit \subseteq Bins
  /\ cspc # "ended" => max_attempts < MaxAttempts

\* The simulation starts with values of the right type.
LEMMA ClosureTypeInit == ClosureInit => ClosureTypeInv
  <1>1. MaxAttempts \in Nat /\ 0 < MaxAttempts /\ DrainClocks \in Nat
    BY ClosureAssumption, DrainAssumption
  <1>2. <<0, 0, 0>> \in Bins
    BY DEF Bins
  <1>3. ASSUME ClosureInit PROVE covered = {} /\ hit = {} /\ target \in Bins /\ cspc = "scan"
    BY <1>2, <1>3 DEF ClosureInit, CoverageInit, ClosureSequenceInit
  <1>4. ASSUME ClosureInit PROVE pos = 0 /\ max_attempts = 0 /\ drain = 0
    BY <1>4 DEF ClosureInit, ClosureSequenceInit
  <1>5. ASSUME ClosureInit PROVE all_covered \in BOOLEAN
    BY <1>5 DEF ClosureInit, ClosureSequenceInit
  <1> QED BY <1>1, <1>3, <1>4, <1>5 DEF ClosureTypeInv, CoverageType, ClosureSequenceType

\* Asking for a target keeps the types, and the passes are counted up to the limit.
LEMMA SeekType == ClosureTypeInv /\ Seek => ClosureTypeInv'
  <1> SUFFICES ASSUME ClosureTypeInv, Seek PROVE ClosureTypeInv'
    OBVIOUS
  <1>1. MaxAttempts \in Nat /\ max_attempts \in Nat /\ max_attempts < MaxAttempts
    BY ClosureAssumption DEF ClosureTypeInv, ClosureSequenceType, Seek, Scan, ScanOn, NextPass, ScanEnds
  <1>2. UNCHANGED <<covered, drain, hit>>
    BY DEF Seek
  <1>3. ASSUME NEW r, Missing(r) # {}, Ask(First(Missing(r)))
        PROVE  cspc' = "grant" /\ target' \in Bins /\ pos' \in Nat /\ all_covered' \in BOOLEAN
    <2>1. First(Missing(r)) \in Bins /\ Rank(First(Missing(r))) \in Nat
      BY <1>3, FirstMissing, TargetsNotIgnored
    <2>2. pos' \in Nat
      BY <1>3, <2>1 DEF Ask
    <2>3. cspc' = "grant" /\ target' \in Bins /\ all_covered' \in BOOLEAN
      BY <1>3, <2>1 DEF Ask
    <2> QED BY <2>2, <2>3
  <1>4. CASE ScanOn
    BY <1>1, <1>2, <1>3, <1>4
       DEF ScanOn, ClosureTypeInv, CoverageType, ClosureSequenceType
  <1>5. CASE NextPass
    <2>1. max_attempts' = max_attempts + 1 /\ max_attempts' < MaxAttempts
      BY <1>5 DEF NextPass
    <2>2. cspc' = "grant" /\ target' \in Bins /\ pos' \in Nat /\ all_covered' \in BOOLEAN
      BY <1>3, <1>5 DEF NextPass
    <2> QED BY <1>1, <1>2, <2>1, <2>2 DEF ClosureTypeInv, CoverageType, ClosureSequenceType
  <1>6. CASE ScanEnds
    <2>1. cspc' = "ended" /\ max_attempts' \in 0 .. MaxAttempts /\ all_covered' \in BOOLEAN
      BY <1>1, <1>6 DEF ScanEnds
    <2> QED BY <1>2, <1>6, <2>1 DEF ScanEnds, ClosureTypeInv, CoverageType, ClosureSequenceType
  <1> QED BY <1>4, <1>5, <1>6 DEF Seek, Scan

\* Every step keeps the types.
LEMMA ClosureTypeNext ==
  BusInv /\ ClosureTypeInv /\ [ClosureNext]_closureVars => ClosureTypeInv'
  <1> SUFFICES ASSUME BusInv, ClosureTypeInv, [ClosureNext]_closureVars PROVE ClosureTypeInv'
    OBVIOUS
  <1> USE DEF ClosureTypeInv, CoverageType, ClosureSequenceType
  <1>1. CASE Seek
    BY <1>1, SeekType
  <1>2. CASE Send
    BY <1>2 DEF Send
  <1>3. CASE Respond
    <2>1. tr \in Packet
      BY <1>3 DEF Respond, ItemDone, BusInv, TypeInv, HoldsPacket
    <2>2. Combination(tr) \in Bins
      BY <2>1, PacketBin
    <2> QED BY <1>3, <2>2 DEF Respond
  <1>4. CASE Cover
    <2>1. mmreq \in Packet
      BY <1>4 DEF Cover, MasterPublishes, MMPublish, BusInv, TypeInv, HoldsPacket
    <2>2. HdrOf(MMSampled) = HdrOf(mmreq)
      BY <2>1 DEF MMSampled, HdrOf, Packet
    <2>3. Bin(MMSampled) \in Bins
      BY <2>1, <2>2, PacketBin, SameHeaderSameBin
    <2>4. covered' \subseteq Bins
      BY <1>4, <2>3 DEF Cover, CoverageWrite
    <2> QED BY <1>4, <2>4 DEF Cover, cs
  <1>5. CASE Clock
    <2>1. drain' \in 0 .. DrainClocks
      BY <1>5, DrainAssumption DEF Clock
    <2> QED BY <1>5, <2>1 DEF Clock, cs
  <1>6. CASE Proceed
    BY <1>6 DEF Proceed, cs
  <1>7. CASE UNCHANGED closureVars
    BY <1>7 DEF closureVars, cs
  <1> QED BY <1>1, <1>2, <1>3, <1>4, <1>5, <1>6, <1>7 DEF ClosureNext

\* Every variable of the simulation holds a value of its type.
THEOREM ClosureTypeCorrect == ClosureSpec => []ClosureTypeOK
  <1>1. ClosureSpec => []ClosureTypeInv
    BY ClosureBus, ClosureTypeInit, ClosureTypeNext, PTL DEF ClosureSpec
  <1>2. BusInv /\ ClosureTypeInv => ClosureTypeOK
    BY DEF BusInv, TypeInv, ClosureTypeInv, ClosureTypeOK
  <1> QED BY <1>1, <1>2, ClosureBus, PTL

-----------------------------------------------------------------------------
(* ClosureInv is inductive: the handshake with the driver *)

\* The driver's steps inside an item keep the item's header.
LEMMA DriverKeepsHeader ==
  ASSUME TypeInv, MDStep, mdpc' # "get"
  PROVE  mdpc # "get" /\ HdrOf(tr') = HdrOf(tr) /\ Bin(tr') = Bin(tr)
  <1>1. mdpc # "get"
    BY DEF MDStep, DriveAddr, ReleaseAddr, FirstBeat, NextBeat, EndWrite, ItemDone
  <1>2. tr \in Packet
    BY <1>1 DEF TypeInv, HoldsPacket
  <1>3. tr' = tr \/ \E i, b : tr' = [tr EXCEPT !.data[i] = b]
    BY DEF MDStep, DriveAddr, ReleaseAddr, FirstBeat, NextBeat, EndWrite, ItemDone, WriteBeat, ReadBeat
  <1>4. HdrOf(tr') = HdrOf(tr)
    BY <1>2, <1>3 DEF HdrOf, Packet
  <1> QED BY <1>1, <1>4, SameHeaderSameBin

\* The sequence waits for its response exactly while the driver has its item.
LEMMA HandshakeNext ==
  BusInv /\ ClosureTypeInv /\ ClosureInv /\ [ClosureNext]_closureVars => Handshake'
  <1> SUFFICES ASSUME BusInv, ClosureInv, [ClosureNext]_closureVars PROVE Handshake'
    OBVIOUS
  <1>0. Handshake
    BY DEF ClosureInv
  <1>1. CASE Seek
    <2>1. cspc' # "sent" /\ cspc = "scan"
      BY <1>1 DEF Seek, Scan, ScanOn, NextPass, ScanEnds, Ask
    <2>2. mdpc' = mdpc /\ tr' = tr /\ hit' = hit
      BY <1>1 DEF Seek, vars, md
    <2> QED BY <1>0, <2>1, <2>2 DEF Handshake
  <1>2. CASE Send
    <2>1. PICK p \in Items : Drawable(p) /\ GetNextItem(p)
      BY <1>2 DEF Send
    <2>2. p \in Packet /\ Legal(p.addr, p.size)
      BY <2>1, ItemsAssumption DEF Drawable
    <2>3. ~Ignored(Bin(p))
      BY <2>2, LegalNotIgnored
    <2>4. mdpc' = "addr" /\ tr' = p /\ cspc' = "sent" /\ hit' = hit
      BY <1>2, <2>1 DEF Send, GetNextItem
    <2> QED BY <1>0, <2>3, <2>4 DEF Handshake
  <1>3. CASE Respond
    <2>1. mdpc # "get" /\ mdpc' = "get" /\ tr' = NoItem /\ cspc' = "scan"
          /\ hit' = hit \cup {Combination(tr)}
      BY <1>3 DEF Respond, ItemDone
    <2>2. Combination(tr) = Bin(tr)
      BY <2>1, PacketBin DEF BusInv, TypeInv, HoldsPacket
    <2> QED BY <1>0, <2>1, <2>2 DEF Handshake
  <1>4. CASE Cover \/ Clock \/ UNCHANGED closureVars
    <2>1. UNCHANGED <<mdpc, tr, cspc, hit>>
      BY <1>4 DEF Cover, MasterPublishes, Clock, Posedge, closureVars, vars, md, cs
    <2> QED BY <1>0, <2>1 DEF Handshake
  <1>5. CASE Proceed
    <2>1. cspc' = cspc /\ hit' = hit
      BY <1>5 DEF Proceed, cs
    <2>2. CASE MasterDrives /\ mdpc' # "get"
      <3>1. mdpc # "get" /\ Bin(tr') = Bin(tr)
        BY <2>2, DriverKeepsHeader DEF BusInv, MasterDrives
      <3> QED BY <1>0, <2>1, <2>2, <3>1 DEF Handshake
    <2>3. CASE ~(MasterDrives /\ mdpc' # "get")
      <3>1. UNCHANGED <<mdpc, tr>>
        BY <1>5, <2>3 DEF Proceed, Commit, MasterWatches, SlaveWatches, SlavePublishes, SlaveServes,
                          SlaveDrives, md
      <3> QED BY <1>0, <2>1, <3>1 DEF Handshake
    <2> QED BY <2>2, <2>3
  <1> QED BY <1>1, <1>2, <1>3, <1>4, <1>5 DEF ClosureNext

-----------------------------------------------------------------------------
(* ... and what is recorded *)

\* Between slots the master monitor is free while the address is shown.
LEMMA FreeAtHeader ==
  ASSUME BusInv, due = {}, mdpc = "ctrl"
  PROVE  mmpc = "idle"
  <1>1. MdPhase = "ctrl"
    BY DEF MdPhase
  <1>2. ~Busy(mmpc, mmreq, mmi, "mmon")
    BY <1>1 DEF BusInv, InStep, MonitorInStep
  <1>3. mmpc = "beat" => mmreq.size \in Nat /\ mmi \in 0 .. mmreq.size - 1
    BY PacketFields DEF BusInv, TypeInv, HoldsPacket, InStep, MonitorOK
  <1> QED BY <1>2, <1>3 DEF Busy, Coming

\* A step of the master monitor before it publishes: it takes up the current
\* item, when all earlier ones are recorded, or stays with its packet.
LEMMA WatchedItem ==
  ASSUME BusInv, MMStep
  PROVE  \/ UNCHANGED <<mmpc, mmreq>>
         \/ mmpc # "idle" /\ mmpc' # "idle" /\ HdrOf(mmreq') = HdrOf(mmreq)
         \/ /\ mmpc = "idle" /\ mmpc' # "idle" /\ HdrOf(mmreq') = HdrOf(tr)
            /\ mdpc = "wait" \/ (mdpc = "ctrl" /\ "mdrv" \in due)
  <1>1. CASE MMIdle
    BY <1>1 DEF MMIdle, mm
  <1>2. CASE MMDetect
    <2>1. mmpc = "idle" /\ mmpc' # "idle" /\ mmreq' = NewReq(bus.hdr) /\ bus.hdr # NoHdr /\ due # {}
      BY <1>2 DEF MMDetect, MMAccept, AfterWhile, Edge
    <2>2. bus.hdr = HdrOf(tr) /\ (mdpc = "wait" \/ (mdpc = "ctrl" /\ "mdrv" \in due))
      BY <2>1 DEF BusInv, InStep, HeaderVisible
    <2>3. HdrOf(mmreq') = HdrOf(tr)
      BY <2>1, <2>2 DEF HdrOf, NewReq
    <2> QED BY <2>1, <2>2, <2>3
  <1>3. CASE MMWait \/ MMLeaveWait \/ MMBeat
    <2>1. mmpc # "idle" /\ mmpc' # "idle" /\ mmreq \in Packet
      BY <1>3 DEF MMWait, MMLeaveWait, MMBeat, AfterWhile, BusInv, TypeInv, HoldsPacket
    <2>2. HdrOf(mmreq') = HdrOf(mmreq)
      BY <1>3, <2>1 DEF MMWait, MMLeaveWait, MMBeat, MMSampled, HdrOf, Packet
    <2> QED BY <2>1, <2>2
  <1> QED BY <1>1, <1>2, <1>3 DEF MMStep

\* Taking an item and asking for one change nothing that is recorded.
LEMMA RecordedSend ==
  ASSUME ClosureInv, Seek \/ Send \/ UNCHANGED closureVars
  PROVE  Recorded'
  <1>1. CASE Seek \/ UNCHANGED closureVars
    <2>1. UNCHANGED <<mmpc, mmreq, mdpc, tr, due, covered, hit>>
      BY <1>1 DEF Seek, closureVars, vars, mm, md, wires
    <2> QED BY <2>1 DEF ClosureInv, Recorded, HeldFromLast
  <1>2. CASE Send
    <2>1. mdpc = "get" /\ mdpc' = "addr" /\ UNCHANGED <<mmpc, mmreq, due, covered, hit>>
      BY <1>2 DEF Send, GetNextItem, mm, wires
    <2>2. HeldFromLast' <=> HeldFromLast
      BY <2>1 DEF HeldFromLast
    <2>3. mmpc # "idle" => HeldFromLast
      BY <2>1 DEF HeldFromLast
    <2> QED BY <2>1, <2>2, <2>3 DEF ClosureInv, Recorded
  <1> QED BY <1>1, <1>2

\* A completed item is recorded, or the monitor still has it.
LEMMA RecordedRespond ==
  ASSUME BusInv, ClosureInv, Respond
  PROVE  Recorded'
  <1>1. mdpc \in {"beat", "tail"} /\ mdpc' = "get" /\ UNCHANGED <<mmpc, mmreq, covered>>
        /\ hit' = hit \cup {Combination(tr)}
    BY DEF Respond, ItemDone, mm
  <1>2. Combination(tr) = Bin(tr)
    BY <1>1, PacketBin DEF BusInv, TypeInv, HoldsPacket
  <1>3. ~HeldFromLast /\ (HeldFromLast' <=> mmpc # "idle")
    BY <1>1 DEF HeldFromLast
  <1>4. CASE mmpc = "idle"
    BY <1>1, <1>2, <1>3, <1>4 DEF ClosureInv, Recorded
  <1>5. CASE mmpc # "idle"
    <2>1. covered = hit /\ HdrOf(mmreq) = HdrOf(tr)
      BY <1>3, <1>5 DEF ClosureInv, Recorded
    <2>2. Bin(mmreq) = Bin(tr)
      BY <2>1, SameHeaderSameBin
    <2> QED BY <1>1, <1>2, <1>3, <1>5, <2>1, <2>2 DEF Recorded
  <1> QED BY <1>4, <1>5

\* The monitor's publication closes the gap.
LEMMA RecordedCover ==
  ASSUME BusInv, ClosureInv, Cover
  PROVE  Recorded'
  <1>1. MMPublish /\ UNCHANGED <<mdpc, tr, hit>> /\ mmpc = "beat"
        /\ ("mdrv" \in due' <=> "mdrv" \in due)
    BY DEF Cover, MasterPublishes, MMPublish, Edge, md
  <1>2. mmreq \in Packet
    BY <1>1 DEF BusInv, TypeInv, HoldsPacket
  <1>3. bus.hdr = NoHdr
    BY <1>1, MasterPublishSeesNoHeader DEF BusInv
  <1>4. mmpc' = "idle"
    BY <1>1, <1>3 DEF MMPublish
  <1>5. HdrOf(MMSampled) = HdrOf(mmreq)
    BY <1>2 DEF MMSampled, HdrOf, Packet
  <1>6. Bin(MMSampled) = Bin(mmreq)
    BY <1>5, SameHeaderSameBin
  <1>7. ~(mdpc = "wait" \/ (mdpc = "ctrl" /\ "mdrv" \in due))
    <2>1. ~Detecting(mmpc, "mmon") /\ ~Busy(mmpc, mmreq, mmi, "mmon")
      BY <1>1, <1>2, PacketFields DEF MMPublish, Edge, Detecting, Busy, Coming
    <2>2. MdPhase # "wait"
      BY <2>1 DEF BusInv, InStep, MonitorInStep
    <2> QED BY <2>2 DEF MdPhase
  <1>8. CASE HeldFromLast
    <2>1. covered \subseteq hit /\ hit \subseteq covered \cup {Bin(mmreq)} /\ Bin(mmreq) \in hit
      BY <1>8 DEF ClosureInv, Recorded
    <2>2. ~Ignored(Bin(mmreq))
      BY <2>1 DEF ClosureInv, Handshake
    <2>3. covered' = hit
      BY <1>6, <2>1, <2>2 DEF Cover, CoverageWrite
    <2>4. mdpc \notin {"beat", "tail"}
      BY <1>8 DEF HeldFromLast
    <2> QED BY <1>1, <1>4, <2>3, <2>4 DEF Recorded, HeldFromLast
  <1>9. CASE ~HeldFromLast
    <2>1. covered = hit /\ HdrOf(mmreq) = HdrOf(tr)
      BY <1>1, <1>9 DEF ClosureInv, Recorded
    <2>2. mdpc # "get"
      BY <1>1, <1>9 DEF HeldFromLast
    <2>3. Bin(mmreq) = Bin(tr) /\ ~Ignored(Bin(tr))
      BY <2>1, <2>2, SameHeaderSameBin DEF ClosureInv, Handshake
    <2>4. covered' = hit \cup {Bin(tr)}
      BY <1>6, <2>1, <2>3 DEF Cover, CoverageWrite
    <2>5. mdpc \in {"beat", "tail"}
      BY <1>1, <1>7, <1>9 DEF HeldFromLast, BusInv, TypeInv, TypeOK, MDType
    <2> QED BY <1>1, <1>4, <2>4, <2>5 DEF Recorded, HeldFromLast
  <1> QED BY <1>8, <1>9

\* At the edge that releases the address the monitor has published all
\* earlier items.
LEMMA RecordedClock ==
  ASSUME BusInv, ClosureInv, Clock
  PROVE  Recorded'
  <1>1. due = {} /\ UNCHANGED <<mmpc, mmreq, mdpc, tr, covered, hit>>
    BY DEF Clock, Posedge, AtRest, ActiveDone, mm, md
  <1>2. CASE mdpc = "ctrl"
    <2>1. mmpc = "idle"
      BY <1>1, <1>2, FreeAtHeader
    <2> QED BY <1>1, <1>2, <2>1 DEF ClosureInv, Recorded, HeldFromLast
  <1>3. CASE mdpc # "ctrl"
    <2>1. HeldFromLast' <=> HeldFromLast
      BY <1>1, <1>3 DEF HeldFromLast
    <2> QED BY <1>1, <2>1 DEF ClosureInv, Recorded
  <1> QED BY <1>2, <1>3

\* The driver goes through the item: its first beat finds the monitor in it.
LEMMA RecordedDrives ==
  ASSUME BusInv, ClosureInv, MasterDrives, mdpc' # "get", UNCHANGED <<covered, hit>>
  PROVE  Recorded'
  <1>1. MDStep /\ UNCHANGED <<mmpc, mmreq>>
    BY DEF MasterDrives, mm
  <1>2. mdpc # "get" /\ HdrOf(tr') = HdrOf(tr) /\ Bin(tr') = Bin(tr)
    BY <1>1, DriverKeepsHeader DEF BusInv
  <1>3. CASE DriveAddr
    <2>1. mdpc = "addr" /\ mdpc' = "ctrl" /\ "mdrv" \notin due'
      BY <1>3 DEF DriveAddr, Edge
    <2> QED BY <1>1, <1>2, <2>1 DEF ClosureInv, Recorded, HeldFromLast
  <1>4. CASE ReleaseAddr
    <2>1. mdpc = "ctrl" /\ "mdrv" \in due /\ mdpc' = "wait"
      BY <1>4 DEF ReleaseAddr, Edge
    <2> QED BY <1>1, <1>2, <2>1 DEF ClosureInv, Recorded, HeldFromLast
  <1>5. CASE FirstBeat
    <2>1. mdpc = "wait" /\ mdpc' = "beat" /\ bus.wait = 0
      BY <1>5 DEF FirstBeat
    <2>2. MdPhase = "wait" /\ due = {}
      BY <2>1 DEF MdPhase, BusInv, InStep, WaitLow
    <2>3. mmpc # "idle"
      BY <2>2 DEF BusInv, InStep, MonitorInStep, Detecting, Busy
    <2> QED BY <1>1, <1>2, <2>1, <2>3 DEF ClosureInv, Recorded, HeldFromLast
  <1>6. CASE NextBeat \/ EndWrite
    <2>1. mdpc = "beat" /\ mdpc' \in {"beat", "tail"}
      BY <1>6 DEF NextBeat, EndWrite
    <2> QED BY <1>1, <1>2, <2>1 DEF ClosureInv, Recorded, HeldFromLast
  <1>7. CASE ItemDone
    BY <1>7 DEF ItemDone
  <1> QED BY <1>1, <1>3, <1>4, <1>5, <1>6, <1>7 DEF MDStep

\* The rest of the agents' steps.
LEMMA RecordedProceed ==
  ASSUME BusInv, ClosureInv, Proceed
  PROVE  Recorded'
  <1>1. UNCHANGED <<covered, hit>>
    BY DEF Proceed
  <1>2. CASE MasterDrives /\ mdpc' # "get"
    BY <1>1, <1>2, RecordedDrives
  <1>3. CASE MasterWatches
    <2>1. MMStep /\ UNCHANGED <<mdpc, tr>>
      BY <1>3 DEF MasterWatches, md
    <2>2. "mdrv" \in due' <=> "mdrv" \in due
      BY <2>1 DEF MMStep, MMIdle, MMDetect, MMWait, MMLeaveWait, MMBeat, Edge, wires
    <2>3. CASE UNCHANGED <<mmpc, mmreq>>
      BY <1>1, <2>1, <2>2, <2>3 DEF ClosureInv, Recorded, HeldFromLast
    <2>4. CASE mmpc # "idle" /\ mmpc' # "idle" /\ HdrOf(mmreq') = HdrOf(mmreq)
      <3>1. Bin(mmreq') = Bin(mmreq)
        BY <2>4, SameHeaderSameBin
      <3> QED BY <1>1, <2>1, <2>2, <2>4, <3>1 DEF ClosureInv, Recorded, HeldFromLast
    <2>5. CASE /\ mmpc = "idle" /\ mmpc' # "idle" /\ HdrOf(mmreq') = HdrOf(tr)
               /\ mdpc = "wait" \/ (mdpc = "ctrl" /\ "mdrv" \in due)
      BY <1>1, <2>1, <2>2, <2>5 DEF ClosureInv, Recorded, HeldFromLast
    <2> QED BY <2>1, <2>3, <2>4, <2>5, WatchedItem
  <1>4. CASE Commit \/ SlaveWatches \/ SlavePublishes \/ SlaveServes \/ SlaveDrives
    <2>1. UNCHANGED <<mmpc, mmreq, mdpc, tr>>
      BY <1>4 DEF Commit, SlaveWatches, SlavePublishes, SlaveServes, SlaveDrives, mm, md
    <2>2. "mdrv" \in due' <=> "mdrv" \in due
      BY <1>4 DEF Commit, CommitNba, SlaveWatches, SMStep, SMIdle, SMDetect, SMWait, SMLeaveWait,
                  SMBeat, SlavePublishes, SMPublish, SlaveServes, Serve, SlaveDrives, SDStep,
                  SDGet, SDWait, SDBeat, SDEndRead, SDEndWrite, SDTail, Edge, wires
    <2> QED BY <1>1, <2>1, <2>2 DEF ClosureInv, Recorded, HeldFromLast
  <1> QED BY <1>2, <1>3, <1>4 DEF Proceed

-----------------------------------------------------------------------------
(* ... and the drain *)

\* What the drain finds after its first edge, and from the second one on.
Released == /\ ~Busy(mmpc, mmreq, mmi, "mmon") /\ ~Busy(smpc, smreq, smi, "smon")
            /\ SdPhase = "free"
Quiet == mmpc = "idle" /\ smpc = "idle" /\ rsp = NoItem

\* A monitor that is not inside a transfer between slots is at the top of its loop.
LEMMA NotBusyIsIdle ==
  ASSUME NEW pc, NEW req, NEW i, NEW p, due = {}, ~Busy(pc, req, i, p), MonitorOK(pc, req, i),
         pc # "idle" => req \in Packet
  PROVE  pc = "idle"
  <1>1. pc = "beat" => req.size \in Nat /\ i \in 0 .. req.size - 1
    BY PacketFields DEF MonitorOK
  <1> QED BY <1>1 DEF Busy, Coming

\* With no item under way, a monitor that is still inside a transfer at an edge
\* takes its last byte with that edge.
LEMMA LastByte ==
  ASSUME NEW pc, NEW req, NEW i, NEW p, due = {}, MdPhase = "free", p \in due',
         MonitorInStep(pc, req, i, p), MonitorOK(pc, req, i),
         pc \in {"idle", "wait1", "wait0", "beat"}, pc # "idle" => req \in Packet
  PROVE  pc = "idle" \/ (pc = "beat" /\ i + 1 = req.size)
  <1>1. CASE pc = "idle"
    BY <1>1
  <1>2. CASE pc # "idle"
    <2>1. req.size \in Nat /\ 1 <= req.size
      BY <1>2, PacketFields
    <2>2. pc = "beat" => i \in 0 .. req.size - 1
      BY DEF MonitorOK
    <2>3. Busy(pc, req, i, p)
      BY <1>2, <2>1, <2>2 DEF Busy, Coming
    <2>4. Seen(pc, req, i, p) = req.size
      BY <2>3 DEF MonitorInStep
    <2>5. pc = "beat"
      BY <1>2, <2>1, <2>4 DEF Seen
    <2>6. req.size = i \/ req.size = i + 1
      BY <2>1, <2>2, <2>4, <2>5 DEF Seen, Coming
    <2> QED BY <2>1, <2>2, <2>5, <2>6
  <1> QED BY <1>1, <1>2

\* The edge after the end of the sequence releases the monitors and the slave.
LEMMA EdgeReleases ==
  ASSUME BusInv, Posedge, mdpc = "get"
  PROVE  Released'
  <1>1. due = {} /\ due' = AtClock /\ MdPhase = "free"
        /\ UNCHANGED <<mmpc, mmreq, mmi, smpc, smreq, smi, sdpc, sdi, rsp>>
    BY DEF Posedge, AtRest, ActiveDone, MdPhase, mm, sm, sd, sqr
  <1>2. ~Busy(mmpc, mmreq, mmi, "mmon")'
    <2>1. CASE mmpc \in {"idle", "beat"}
      <3>1. "mmon" \in due'
        BY <1>1, <2>1 DEF AtClock, Procs, MMAtClock
      <3>2. mmpc = "idle" \/ (mmpc = "beat" /\ mmi + 1 = mmreq.size)
        BY <1>1, <3>1, LastByte DEF BusInv, TypeInv, TypeOK, MMType, HoldsPacket, InStep
      <3> QED BY <1>1, <3>1, <3>2 DEF Busy, Coming
    <2>2. CASE mmpc \in {"wait1", "wait0"}
      <3>1. mmreq.size \in Nat /\ 1 <= mmreq.size
        BY <2>2, PacketFields DEF BusInv, TypeInv, HoldsPacket
      <3>2. Busy(mmpc, mmreq, mmi, "mmon") /\ Seen(mmpc, mmreq, mmi, "mmon") = 0
        BY <1>1, <2>2 DEF Busy, Seen
      <3> QED BY <1>1, <3>1, <3>2 DEF BusInv, InStep, MonitorInStep
    <2> QED BY <2>1, <2>2 DEF BusInv, TypeInv, TypeOK, MMType
  <1>3. ~Busy(smpc, smreq, smi, "smon")'
    <2>1. CASE smpc \in {"idle", "beat"}
      <3>1. "smon" \in due'
        BY <1>1, <2>1 DEF AtClock, Procs, SMAtClock
      <3>2. smpc = "idle" \/ (smpc = "beat" /\ smi + 1 = smreq.size)
        BY <1>1, <3>1, LastByte DEF BusInv, TypeInv, TypeOK, SMType, HoldsPacket, InStep
      <3> QED BY <1>1, <3>1, <3>2 DEF Busy, Coming
    <2>2. CASE smpc \in {"wait1", "wait0"}
      <3>1. smreq.size \in Nat /\ 1 <= smreq.size
        BY <2>2, PacketFields DEF BusInv, TypeInv, HoldsPacket
      <3>2. Busy(smpc, smreq, smi, "smon") /\ Seen(smpc, smreq, smi, "smon") = 0
        BY <1>1, <2>2 DEF Busy, Seen
      <3> QED BY <1>1, <3>1, <3>2 DEF BusInv, InStep, MonitorInStep
    <2> QED BY <2>1, <2>2 DEF BusInv, TypeInv, TypeOK, SMType
  <1>4. SdPhase' = "free"
    <2>1. SdPhase \in {"free", "tail"}
      BY <1>1 DEF BusInv, InStep, SlaveInStep
    <2>2. sdpc = "beat" => sdi \in Nat /\ rsp.size \in Nat /\ sdi <= rsp.size
      BY PacketFields DEF BusInv, TypeInv, HoldsPacket, InStep, Counters
    <2>3. sdpc # "beat"
      BY <1>1, <2>1, <2>2 DEF SdPhase, SdCount, Coming
    <2>4. sdpc # "wait"
      BY <1>1, <2>1 DEF SdPhase
    <2>5. CASE sdpc = "get"
      BY <1>1, <2>1, <2>5 DEF SdPhase
    <2>6. CASE sdpc = "tail"
      <3>1. "sdrv" \in due'
        BY <1>1, <2>6 DEF AtClock, Procs, SDAtClock
      <3> QED BY <1>1, <2>6, <3>1 DEF SdPhase
    <2> QED BY <2>3, <2>4, <2>5, <2>6 DEF BusInv, TypeInv, TypeOK, SDType
  <1> QED BY <1>2, <1>3, <1>4 DEF Released

\* What is released at the end of a slot is quiet in the next one.
LEMMA RestIsQuiet ==
  ASSUME BusInv, due = {}, Released
  PROVE  Quiet
  <1>1. mmpc = "idle" /\ smpc = "idle"
    BY NotBusyIsIdle DEF Released, BusInv, TypeInv, HoldsPacket, InStep
  <1>2. sdpc = "beat" => sdi \in Nat /\ rsp.size \in Nat /\ sdi <= rsp.size
    BY PacketFields DEF BusInv, TypeInv, HoldsPacket, InStep, Counters
  <1>3. sdpc # "beat"
    BY <1>2 DEF Released, SdPhase, SdCount, Coming
  <1>4. sdpc = "get" /\ rsp = NoItem
    BY <1>3 DEF Released, SdPhase, BusInv, TypeInv, TypeOK, SDType
  <1> QED BY <1>1, <1>4 DEF Quiet

\* With no item under way the processes take their edges and nothing else.
LEMMA StaysReleased ==
  ASSUME BusInv, mdpc = "get", Released,
         Commit \/ MasterWatches \/ MasterPublishes \/ SlaveWatches \/ SlavePublishes
           \/ SlaveServes \/ SlaveDrives
  PROVE  Released' /\ (Quiet => Quiet')
  <1>1. MdPhase = "free" /\ request_fifo = <<>> /\ bus.hdr = NoHdr
    BY DEF MdPhase, BusInv, InStep, SlaveInStep, HeaderVisible
  <1>2. mmpc = "beat" => mmreq.size \in Nat /\ mmi \in 0 .. mmreq.size - 1
    BY PacketFields DEF BusInv, TypeInv, HoldsPacket, InStep, MonitorOK
  <1>3. smpc = "beat" => smreq.size \in Nat /\ smi \in 0 .. smreq.size - 1
    BY PacketFields DEF BusInv, TypeInv, HoldsPacket, InStep, MonitorOK
  <1>4. CASE Commit
    BY <1>4 DEF Commit, CommitNba, Released, Quiet, Busy, Coming, SdPhase, SdCount, mm, sm, sd, sqr
  <1>5. CASE MasterWatches \/ MasterPublishes
    <2>1. UNCHANGED <<smpc, smreq, smi, sdpc, sdi, rsp>>
      BY <1>5 DEF MasterWatches, MasterPublishes, sm, sd, sqr
    <2>2. mmpc' = "idle" /\ ("smon" \in due' <=> "smon" \in due) /\ ("sdrv" \in due' <=> "sdrv" \in due)
      <3>1. CASE MasterPublishes
        BY <1>1, <3>1 DEF MasterPublishes, MMPublish, Edge
      <3>2. CASE MasterWatches
        <4>1. ~MMDetect
          BY <1>1 DEF MMDetect
        <4>2. mmpc = "idle" \/ (mmpc = "beat" /\ mmi + Coming("mmon") = mmreq.size)
          BY DEF Released, Busy
        <4>3. ~MMBeat /\ ~MMWait /\ ~MMLeaveWait
          BY <1>2, <4>2 DEF MMBeat, MMWait, MMLeaveWait, Edge, Coming
        <4> QED BY <3>2, <4>1, <4>3 DEF MasterWatches, MMStep, MMIdle, Edge, mm
      <3> QED BY <1>5, <3>1, <3>2
    <2> QED BY <2>1, <2>2 DEF Released, Quiet, Busy, Coming, SdPhase, SdCount
  <1>6. CASE SlaveWatches \/ SlavePublishes
    <2>1. UNCHANGED <<mmpc, mmreq, mmi, sdpc, sdi>>
      BY <1>6 DEF SlaveWatches, SlavePublishes, mm, sd
    <2>2. smpc' = "idle" /\ rsp' = rsp
          /\ ("mmon" \in due' <=> "mmon" \in due) /\ ("sdrv" \in due' <=> "sdrv" \in due)
      <3>1. CASE SlavePublishes
        BY <3>1 DEF SlavePublishes, SMPublish, Edge
      <3>2. CASE SlaveWatches
        <4>1. ~SMDetect
          BY <1>1 DEF SMDetect
        <4>2. smpc = "idle" \/ (smpc = "beat" /\ smi + Coming("smon") = smreq.size)
          BY DEF Released, Busy
        <4>3. ~SMBeat /\ ~SMWait /\ ~SMLeaveWait
          BY <1>3, <4>2 DEF SMBeat, SMWait, SMLeaveWait, Edge, Coming
        <4> QED BY <3>2, <4>1, <4>3 DEF SlaveWatches, SMStep, SMIdle, Edge, sm, sqr
      <3> QED BY <1>6, <3>1, <3>2
    <2> QED BY <2>1, <2>2 DEF Released, Quiet, Busy, Coming, SdPhase, SdCount
  <1>7. CASE SlaveServes
    BY <1>1, <1>7 DEF SlaveServes, Serve
  <1>8. CASE SlaveDrives
    <2>1. UNCHANGED <<mmpc, mmreq, mmi, smpc, smreq, smi>>
      BY <1>8 DEF SlaveDrives, mm, sm
    <2>2. sdpc = "beat" => sdi \in Nat /\ rsp.size \in Nat /\ sdi <= rsp.size /\ rsp.dir \in Dir
      BY PacketFields DEF BusInv, TypeInv, HoldsPacket, InStep, Counters
    <2>3. ~SDGet /\ ~SDWait /\ ~SDBeat /\ ~SDEndRead
      BY <2>2 DEF Released, SdPhase, SdCount, Coming, SDGet, SDWait, SDBeat, SDEndRead, Edge
    <2>4. (SDEndWrite \/ SDTail) /\ SDDone
      BY <1>8, <2>3 DEF SlaveDrives, SDStep, SDEndWrite, SDTail
    <2>5. SdPhase' = "free" /\ rsp' = NoItem
      BY <2>4 DEF SDDone, SdPhase
    <2>6. ("mmon" \in due' <=> "mmon" \in due) /\ ("smon" \in due' <=> "smon" \in due)
      BY <2>4 DEF SDEndWrite, SDTail, Edge
    <2> QED BY <2>1, <2>5, <2>6 DEF Released, Quiet, Busy, Coming
  <1> QED BY <1>4, <1>5, <1>6, <1>7, <1>8

\* Each clock of the drain finds the agents as Drained says.
LEMMA DrainedNext ==
  BusInv /\ ClosureTypeInv /\ ClosureInv /\ [ClosureNext]_closureVars => Drained'
  <1> SUFFICES ASSUME BusInv, ClosureTypeInv, ClosureInv, [ClosureNext]_closureVars PROVE Drained'
    OBVIOUS
  <1>1. drain \in Nat
    BY DEF ClosureTypeInv
  <1>2. /\ drain > 0 => cspc = "ended" /\ mdpc = "get" /\ Released
        /\ drain > 1 => Quiet
    BY DEF ClosureInv, Drained, Handshake, Released, Quiet
  <1> SUFFICES (drain' > 0 => cspc' = "ended" /\ Released') /\ (drain' > 1 => Quiet')
    BY DEF Drained, Released, Quiet
  <1>3. CASE Seek \/ Send \/ Respond
    <2>1. drain' = drain /\ cspc # "ended"
      BY <1>3 DEF Seek, Scan, ScanOn, NextPass, ScanEnds, Send, Respond
    <2>2. ~(drain > 0)
      BY <1>2, <2>1
    <2> QED BY <1>1, <2>1, <2>2
  <1>4. CASE Clock
    <2>1. CASE cspc = "ended"
      <3>1. mdpc = "get" /\ Posedge /\ cspc' = "ended" /\ drain' = drain + 1 /\ due = {}
        BY <1>4, <2>1 DEF Clock, ClosureInv, Handshake, cs, Posedge, AtRest, ActiveDone
      <3>2. Released'
        BY <3>1, EdgeReleases
      <3>3. drain > 0 => Quiet
        BY <1>2, <3>1, RestIsQuiet
      <3>4. Quiet => Quiet'
        BY <3>1 DEF Posedge, Quiet, mm, sm, sqr
      <3> QED BY <1>1, <3>1, <3>2, <3>3, <3>4
    <2>2. CASE cspc # "ended"
      <3>1. drain' = drain /\ ~(drain > 0)
        BY <1>2, <1>4, <2>2 DEF Clock
      <3> QED BY <1>1, <3>1
    <2> QED BY <2>1, <2>2
  <1>5. CASE Cover \/ Proceed
    <2>1. drain' = drain /\ cspc' = cspc
      BY <1>5 DEF Cover, Proceed, cs
    <2>2. CASE drain > 0
      <3>1. mdpc = "get" /\ Released
        BY <1>2, <2>2
      <3>2. Commit \/ MasterWatches \/ MasterPublishes \/ SlaveWatches \/ SlavePublishes
              \/ SlaveServes \/ SlaveDrives
        <4>1. ~(MasterDrives /\ mdpc' # "get")
          BY <3>1, DriverKeepsHeader DEF BusInv, MasterDrives
        <4> QED BY <1>5, <4>1 DEF Cover, Proceed
      <3> QED BY <1>2, <2>1, <3>1, <3>2, StaysReleased
    <2>3. CASE ~(drain > 0)
      BY <1>1, <2>1, <2>3
    <2> QED BY <2>2, <2>3
  <1>6. CASE UNCHANGED closureVars
    <2>1. Released' = Released /\ Quiet' = Quiet /\ drain' = drain /\ cspc' = cspc
      BY <1>6 DEF closureVars, vars, wires, sqr, mm, sm, sd, cs, Released, Quiet, Busy, Coming,
                  SdPhase, SdCount
    <2> QED BY <1>2, <2>1
  <1> QED BY <1>3, <1>4, <1>5, <1>6 DEF ClosureNext

-----------------------------------------------------------------------------
(* ... and what the end of the sequence claims *)

\* all_covered is kept by a pass that found nothing missing, and what is
\* recorded stays recorded.
LEMMA ClaimedNext ==
  ClosureTypeInv /\ ClosureInv /\ [ClosureNext]_closureVars => Claimed'
  <1> SUFFICES ASSUME ClosureTypeInv, ClosureInv, [ClosureNext]_closureVars PROVE Claimed'
    OBVIOUS
  <1>1. Claimed
    BY DEF ClosureInv
  <1>2. CASE Seek
    <2>1. covered' = covered
      BY <1>2 DEF Seek
    <2>2. CASE ScanOn \/ NextPass
      BY <2>2 DEF ScanOn, NextPass, Ask, Claimed
    <2>3. CASE ScanEnds
      <3>1. all_covered' => max_attempts + 1 # MaxAttempts
        <4>1. all_covered' = (max_attempts + 1 < MaxAttempts)
          BY <2>3 DEF ScanEnds
        <4>2. max_attempts + 1 < MaxAttempts => max_attempts + 1 # MaxAttempts
          BY ClosureAssumption DEF ClosureTypeInv, ClosureSequenceType
        <4> QED BY <4>1, <4>2, Zenon
      <3>2. all_covered' => Missing(0) = {}
        BY <2>3, <3>1 DEF ScanEnds
      <3>3. ASSUME NEW b \in Targets, Missing(0) = {} PROVE b \in covered
        <4>1. Rank(b) >= 0 /\ ~Ignored(b)
          BY TargetsNotIgnored
        <4> QED BY <3>3, <4>1 DEF Missing, IsCovered
      <3>4. Targets' = Targets
        BY DEF Targets
      <3> QED BY <2>1, <3>2, <3>3, <3>4 DEF Claimed
    <2> QED BY <1>2, <2>2, <2>3 DEF Seek, Scan
  <1>3. CASE Send \/ Respond
    BY <1>3 DEF Send, Respond, Claimed
  <1>4. CASE Cover \/ Clock \/ Proceed \/ UNCHANGED closureVars
    <2>1. UNCHANGED <<cspc, all_covered>> /\ covered \subseteq covered'
      BY <1>4 DEF Cover, CoverageWrite, Clock, Proceed, closureVars, cs
    <2>2. Targets' = Targets
      BY DEF Targets
    <2> QED BY <1>1, <2>1, <2>2 DEF Claimed
  <1> QED BY <1>2, <1>3, <1>4 DEF ClosureNext

-----------------------------------------------------------------------------
(* The theorems *)

\* The simulation starts with nothing recorded and nothing sent.
LEMMA ClosureInvInit == ClosureInit => ClosureInv
  <1> SUFFICES ASSUME ClosureInit PROVE ClosureInv
    OBVIOUS
  <1>1. cspc = "scan" /\ mdpc = "get" /\ tr = NoItem /\ mmpc = "idle" /\ covered = {} /\ hit = {}
    BY DEF ClosureInit, ClosureSequenceInit, CoverageInit, Init, MDInit, MMInit
  <1>2. drain = 0
    BY DEF ClosureInit
  <1>3. Handshake
    BY <1>1 DEF Handshake
  <1>4. Recorded
    BY <1>1 DEF Recorded, HeldFromLast
  <1>5. Drained
    BY <1>2 DEF Drained
  <1>6. Claimed
    BY <1>1 DEF Claimed
  <1> QED BY <1>3, <1>4, <1>5, <1>6 DEF ClosureInv

\* Every step keeps the invariant.
LEMMA ClosureInvNext ==
  BusInv /\ ClosureTypeInv /\ ClosureInv /\ [ClosureNext]_closureVars => ClosureInv'
  <1> SUFFICES ASSUME BusInv, ClosureTypeInv, ClosureInv, [ClosureNext]_closureVars PROVE ClosureInv'
    OBVIOUS
  <1>1. Handshake' /\ Drained' /\ Claimed'
    BY HandshakeNext, DrainedNext, ClaimedNext
  <1>2. Recorded'
    BY RecordedSend, RecordedRespond, RecordedCover, RecordedClock, RecordedProceed DEF ClosureNext
  <1> QED BY <1>1, <1>2 DEF ClosureInv

\* The sequence, the driver, the monitors and the subscriber keep the invariant
\* from which the properties below follow.
THEOREM ClosureInvariant == ClosureSpec => []ClosureInv
  <1>1. ClosureSpec => []ClosureTypeInv
    BY ClosureBus, ClosureTypeInit, ClosureTypeNext, PTL DEF ClosureSpec
  <1> QED BY <1>1, ClosureBus, ClosureInvInit, ClosureInvNext, PTL DEF ClosureSpec

\* The coverage is behind the items sent, or ahead of the responses, by at
\* most one item.
THEOREM CoverageIsNear == ClosureSpec => []CoverageLag
  <1>1. BusInv /\ ClosureInv => CoverageLag
    <2> SUFFICES ASSUME BusInv, ClosureInv PROVE CoverageLag
      OBVIOUS
    <2>1. CASE HeldFromLast
      <3>1. covered \subseteq hit /\ hit \subseteq covered \cup {Bin(mmreq)} /\ mmpc # "idle"
        BY <2>1 DEF ClosureInv, Recorded, HeldFromLast
      <3> QED BY <3>1 DEF CoverageLag
    <2>2. CASE ~HeldFromLast
      <3>1. CASE mmpc = "idle" /\ mdpc \in {"beat", "tail"}
        <4>1. covered = hit \cup {Bin(tr)}
          BY <3>1 DEF ClosureInv, Recorded
        <4>2. tr # NoItem
          BY <3>1, ConstantsAssumption DEF BusInv, TypeInv, HoldsPacket
        <4> QED BY <4>1, <4>2 DEF CoverageLag
      <3>2. CASE ~(mmpc = "idle" /\ mdpc \in {"beat", "tail"})
        <4>1. covered = hit
          BY <2>2, <3>2 DEF ClosureInv, Recorded
        <4> QED BY <4>1 DEF CoverageLag
      <3> QED BY <3>1, <3>2
    <2> QED BY <2>1, <2>2
  <1> QED BY <1>1, ClosureBus, ClosureInvariant, PTL

\* What is found missing although it was transferred is the item the master
\* monitor is still collecting.
THEOREM OnlyTheLastIsAskedAgain == ClosureSpec => AsksAgainForLastOnly
  <1>1. ASSUME CoverageLag, ClosureNext, cspc = "scan", cspc' = "grant", target' \in hit
        PROVE  mmpc # "idle" /\ target' = Bin(mmreq)
    <2>1. Seek
      BY <1>1 DEF ClosureNext, Seek, Send, Respond, Cover, Clock, Proceed, cs
    <2>2. PICK r : Missing(r) # {} /\ target' = First(Missing(r))
      BY <1>1, <2>1 DEF Seek, Scan, ScanOn, NextPass, ScanEnds, Ask
    <2>3. Missing(r) \in SUBSET Bins
      BY TargetsNotIgnored DEF Missing
    <2>4. target' \notin covered
      BY <2>2, <2>3, FirstOf DEF Missing, IsCovered
    <2> QED BY <1>1, <2>4 DEF CoverageLag
  <1>2. CoverageLag /\ [ClosureNext]_closureVars =>
          [(cspc = "scan" /\ cspc' = "grant" /\ target' \in hit) =>
             mmpc # "idle" /\ target' = Bin(mmreq)]_closureVars
    BY <1>1
  <1> QED BY <1>2, CoverageIsNear, PTL DEF ClosureSpec, AsksAgainForLastOnly

\* Without a warning at its end the sequence has transferred all it targets.
THEOREM ClosureIsEarned == ClosureSpec => []ClosedMeansSent
  <1>1. ClosureInv => ClosedMeansSent
    <2> SUFFICES ASSUME ClosureInv, cspc = "ended", all_covered PROVE Targets \subseteq hit
      BY DEF ClosedMeansSent
    <2>1. Targets \subseteq covered /\ mdpc = "get"
      BY DEF ClosureInv, Claimed, Handshake
    <2>2. covered \subseteq hit
      BY <2>1 DEF ClosureInv, Recorded, HeldFromLast
    <2> QED BY <2>1, <2>2
  <1> QED BY <1>1, ClosureInvariant, PTL

\* However many clocks of drain there are beyond one: at the end of the phase
\* nothing is under way and everything that was sent is recorded.
THEOREM DrainIsEnough == ClosureSpec => []EndDrained
  <1>1. BusInv /\ ClosureInv => EndDrained
    <2> SUFFICES ASSUME BusInv, ClosureInv, drain = DrainClocks
                 PROVE  /\ mmpc = "idle" /\ smpc = "idle" /\ covered = hit
                        /\ tr = NoItem /\ rsp = NoItem /\ request_fifo = <<>>
      BY DEF EndDrained
    <2>1. drain > 1
      BY DrainAssumption
    <2>2. cspc = "ended" /\ mmpc = "idle" /\ smpc = "idle" /\ rsp = NoItem
      BY <2>1, DrainAssumption DEF ClosureInv, Drained
    <2>3. mdpc = "get" /\ tr = NoItem
      BY <2>2 DEF ClosureInv, Handshake
    <2>4. covered = hit
      BY <2>2, <2>3 DEF ClosureInv, Recorded
    <2>5. request_fifo = <<>>
      BY <2>3 DEF BusInv, InStep, SlaveInStep, MdPhase
    <2> QED BY <2>2, <2>3, <2>4, <2>5
  <1> QED BY <1>1, ClosureBus, ClosureInvariant, PTL
=============================================================================
