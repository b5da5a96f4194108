------------------------- MODULE UbusTransferProofs -------------------------
(***************************************************************************)
(* The agents implement UbusTransfer, for every value of the constants:    *)
(* each step of UbusBus is a step of the abstract transfer or leaves it    *)
(* alone.                                                                  *)
(***************************************************************************)
EXTENDS UbusBusTransfer, UbusLockStepProofs

TransferInv == BusInv /\ HeaderShown

absVars == <<Stage, Current, BeatNumber, Unpublished>>

-----------------------------------------------------------------------------
(* The abstract state in terms of the concrete one *)

\* A visible header belongs to the master's item, in its address phase.
LEMMA VisibleHeader ==
  ASSUME BusInv, bus.hdr # NoHdr
  PROVE  mdpc \in {"ctrl", "wait"} /\ bus.hdr = HdrOf(tr) /\ bus.wait # 0
  BY DEF BusInv, InStep, HeaderVisible

\* Between the address phase and the last beat the stage follows the master.
LEMMA StageIs ==
  ASSUME BusInv
  PROVE  /\ bus.hdr # NoHdr => Stage = "address"
         /\ (bus.hdr = NoHdr /\ mdpc = "wait") => Stage = "pending"
         /\ MdPhase = "beat" => Stage = "data" /\ mdpc = "beat" /\ bus.hdr = NoHdr
         /\ (bus.hdr = NoHdr /\ mdpc # "wait" /\ MdPhase # "beat") => Stage = "free"
  <1>1. MdPhase = "beat" => mdpc = "beat"
    BY DEF MdPhase, BusInv, TypeInv, TypeOK, MDType
  <1> QED BY <1>1, VisibleHeader DEF Stage

\* The header a monitor holds outlives the slot.
LEMMA SlotEndHeader ==
  ASSUME NEW pc \in {"wait1", "wait0", "beat"}, NEW req \in Packet, NEW i, NEW p
  PROVE  HdrOf(AtSlotEnd(pc, req, i, p)[2]) = HdrOf(req)
  BY DEF AtSlotEnd, HdrOf, Packet

\* Monitors that are both inside a transfer are inside the same one.
LEMMA SameHeader ==
  ASSUME BusInv, mmpc # "idle", smpc # "idle"
  PROVE  HdrOf(mmreq) = HdrOf(smreq)
  <1>1. /\ mmpc \in {"wait1", "wait0", "beat"} /\ mmreq \in Packet
        /\ smpc \in {"wait1", "wait0", "beat"} /\ smreq \in Packet
    BY DEF BusInv, TypeInv, TypeOK, MMType, SMType, HoldsPacket
  <1> QED BY <1>1, SlotEndHeader DEF BusInv, Mirror

\* A packet's header is a header.
LEMMA ItemHeader ==
  ASSUME BusInv, mdpc # "get"
  PROVE  HdrOf(tr) \in Hdr /\ HdrOf(tr) # NoHdr /\ HdrOf(tr).size = tr.size /\ tr.size \in Nat
  <1>1. tr \in Packet
    BY DEF BusInv, TypeInv, HoldsPacket
  <1> QED BY <1>1, PacketFields, ConstantsAssumption DEF HdrOf

-----------------------------------------------------------------------------
(* Steps that the abstract transfer does not see *)

\* The abstract state depends on the header, the master driver and the
\* monitors only.
LEMMA AbsKept ==
  ASSUME UNCHANGED <<md, mm, sm>>, bus'.hdr = bus.hdr, MdPhase' = MdPhase, MdCount' = MdCount
  PROVE  UNCHANGED absVars
  BY DEF absVars, Stage, Current, BeatNumber, Unpublished, Announced, md, mm, sm

\* The slave's side without its monitor.
LEMMA SlaveUnseen ==
  ASSUME BusInv, SlaveServes \/ SlaveDrives
  PROVE  UNCHANGED absVars
  <1>1. UNCHANGED <<md, mm, sm, bus>> /\ ("mdrv" \in due' <=> "mdrv" \in due)
    BY DEF SlaveServes, Serve, SlaveDrives, SDStep, SDGet, SDWait, SDBeat, SDEndRead,
           SDEndWrite, SDTail, SDDone, Edge, wires
  <1>2. MdPhase' = MdPhase /\ MdCount' = MdCount
    BY <1>1 DEF MdPhase, MdCount, Coming, md
  <1> QED BY <1>1, <1>2, AbsKept

\* A monitor that does not publish keeps the header it holds.
LEMMA MonitorUnseen ==
  ASSUME BusInv, MasterWatches \/ SlaveWatches
  PROVE  UNCHANGED absVars
  <1>1. UNCHANGED <<md, bus>> /\ ("mdrv" \in due' <=> "mdrv" \in due)
    BY DEF MasterWatches, MMStep, MMIdle, MMDetect, MMWait, MMLeaveWait, MMBeat,
           SlaveWatches, SMStep, SMIdle, SMDetect, SMWait, SMLeaveWait, SMBeat, Edge, wires
  <1>2. MdPhase' = MdPhase /\ MdCount' = MdCount /\ Stage' = Stage
    BY <1>1 DEF MdPhase, MdCount, Coming, md, Stage
  <1>3. AfterWhile # "idle"
    BY DEF AfterWhile
  <1>4. CASE MasterWatches
    <2>1. UNCHANGED sm /\ (bus.hdr = NoHdr => (mmpc' # "idle" <=> mmpc # "idle"))
      BY <1>3, <1>4 DEF MasterWatches, MMStep, MMIdle, MMDetect, MMWait, MMLeaveWait, MMBeat, mm
    <2>2. (bus.hdr = NoHdr /\ mmpc # "idle") => HdrOf(mmreq') = HdrOf(mmreq)
      <3>1. mmpc # "idle" => mmreq \in Packet
        BY DEF BusInv, TypeInv, HoldsPacket
      <3> QED BY <1>4, <3>1 DEF MasterWatches, MMStep, MMIdle, MMDetect, MMWait, MMLeaveWait,
                                MMBeat, MMSampled, mm, HdrOf, Packet
    <2> QED BY <1>1, <1>2, <2>1, <2>2, StageIs
            DEF absVars, Current, BeatNumber, Unpublished, Announced, md, sm, Stage
  <1>5. CASE SlaveWatches
    <2>1. UNCHANGED mm /\ (bus.hdr = NoHdr => (smpc' # "idle" <=> smpc # "idle"))
      BY <1>3, <1>5 DEF SlaveWatches, SMStep, SMIdle, SMDetect, SMWait, SMLeaveWait, SMBeat, sm
    <2>2. (bus.hdr = NoHdr /\ smpc # "idle") => HdrOf(smreq') = HdrOf(smreq)
      <3>1. smpc # "idle" => smreq \in Packet
        BY DEF BusInv, TypeInv, HoldsPacket
      <3> QED BY <1>5, <3>1 DEF SlaveWatches, SMStep, SMIdle, SMDetect, SMWait, SMLeaveWait,
                                SMBeat, SMSampled, SMUpdate, sm, HdrOf, Packet
    <2> QED BY <1>1, <1>2, <2>1, <2>2, StageIs
            DEF absVars, Current, BeatNumber, Unpublished, Announced, md, mm, Stage
  <1> QED BY <1>4, <1>5

\* Driver steps that do not change the phase, the beat or the header.
LEMMA DriverUnseen ==
  ASSUME TransferInv, DriveAddr \/ ReleaseAddr \/ NextBeat \/ EndWrite \/ ItemDone,
         UNCHANGED <<mm, sm>>
  PROVE  UNCHANGED absVars
  <1>1. bus' = bus /\ "mdrv" \in due /\ "mdrv" \notin due'
    BY DEF DriveAddr, ReleaseAddr, NextBeat, EndWrite, ItemDone, Edge
  <1>2. mdpc # "get" /\ tr \in Packet /\ tr.size \in Nat /\ tr.dir \in {"read", "write"} /\ mdi \in Nat
    BY PacketFields, ConstantsAssumption
    DEF DriveAddr, ReleaseAddr, NextBeat, EndWrite, ItemDone, TransferInv, BusInv, TypeInv,
        TypeOK, MDType, HoldsPacket, Dir
  <1>3. CASE DriveAddr
    <2>1. bus.hdr = NoHdr
      BY <1>3, VisibleHeader DEF DriveAddr, TransferInv
    <2>2. mdpc = "addr" /\ mdpc' = "ctrl" /\ MdPhase = "ctrl" /\ MdPhase' = "ctrl"
      BY <1>1, <1>3 DEF DriveAddr, MdPhase
    <2> QED BY <1>1, <2>1, <2>2
            DEF absVars, Stage, Current, BeatNumber, Unpublished, Announced, mm, sm
  <1>4. CASE ReleaseAddr
    <2>1. bus.hdr # NoHdr
      BY <1>1, <1>4 DEF ReleaseAddr, TransferInv, HeaderShown
    <2> QED BY <1>1, <2>1
            DEF absVars, Stage, Current, BeatNumber, Unpublished, Announced
  <1>5. CASE NextBeat
    <2>1. HdrOf(tr') = HdrOf(tr) /\ tr'.size = tr.size
      BY <1>2, <1>5 DEF NextBeat, WriteBeat, ReadBeat, HdrOf, Packet
    <2>2. mdpc = "beat" /\ mdpc' = "beat" /\ MdCount' = MdCount /\ MdPhase = "beat" /\ MdPhase' = "beat"
      BY <1>1, <1>2, <1>5, <2>1 DEF NextBeat, MdPhase, MdCount, Coming
    <2> QED BY <1>1, <2>1, <2>2
            DEF absVars, Stage, Current, BeatNumber, Unpublished, Announced, mm, sm
  <1>6. CASE EndWrite \/ ItemDone
    <2>1. mdpc \in {"beat", "tail"} /\ mdpc' \in {"tail", "get"} /\ MdPhase # "beat" /\ MdPhase' # "beat"
      BY <1>1, <1>2, <1>6 DEF EndWrite, ItemDone, MdPhase, MdCount, Coming
    <2> QED BY <1>1, <2>1
            DEF absVars, Stage, Current, BeatNumber, Unpublished, Announced, mm, sm
  <1> QED BY <1>3, <1>4, <1>5, <1>6

\* The next item does not show before the address phase.
LEMMA RequestUnseen ==
  ASSUME BusInv, Request
  PROVE  UNCHANGED absVars
  <1>1. UNCHANGED <<bus, due, mm, sm>> /\ mdpc = "get" /\ mdpc' = "addr" /\ due = {}
    BY DEF Request, GetNextItem, wires
  <1>2. MdPhase = "free" /\ MdPhase' = "free"
    BY <1>1 DEF MdPhase
  <1>3. bus.hdr = NoHdr
    BY <1>1, VisibleHeader
  <1> QED BY <1>1, <1>2, <1>3
          DEF absVars, Stage, Current, BeatNumber, Unpublished, Announced, mm, sm

-----------------------------------------------------------------------------
(* Steps of the abstract transfer *)

\* wait (ubus_wait == 0) returns: the first beat.
LEMMA FirstBeatAnswers ==
  ASSUME TransferInv, FirstBeat, UNCHANGED <<mm, sm>>
  PROVE  Abs!Answer
  <1>1. mdpc = "wait" /\ bus.wait = 0 /\ mdpc' = "beat" /\ mdi' = 1 /\ UNCHANGED <<bus, due>>
    BY DEF FirstBeat
  <1>2. bus.hdr = NoHdr /\ MdPhase = "wait"
    BY <1>1, VisibleHeader DEF TransferInv, MdPhase
  <1>3. due = {}
    BY <1>1, <1>2 DEF TransferInv, BusInv, InStep, WaitLow
  <1>4. tr \in Packet /\ tr.size \in Nat /\ 1 <= tr.size
    BY <1>1, PacketFields DEF TransferInv, BusInv, TypeInv, HoldsPacket
  <1>5. HdrOf(tr') = HdrOf(tr) /\ tr'.size = tr.size
    BY <1>4 DEF FirstBeat, WriteBeat, ReadBeat, HdrOf, Packet
  <1>6. MdCount' = 1 /\ MdPhase' = "beat"
    BY <1>1, <1>3, <1>4, <1>5 DEF MdCount, MdPhase, Coming
  <1>7. mmpc # "idle" /\ smpc # "idle"
    BY <1>2, <1>3 DEF TransferInv, BusInv, InStep, MonitorInStep, Detecting, Busy
  <1>8. Stage = "pending" /\ Stage' = "data"
    BY <1>1, <1>2, <1>6 DEF Stage
  <1>9. Current' = Current /\ BeatNumber' = 1
    BY <1>5, <1>6, <1>8 DEF Current, BeatNumber
  <1>10. Unpublished' = Unpublished
    BY <1>1, <1>7 DEF Unpublished, Announced, mm, sm
  <1> QED BY <1>8, <1>9, <1>10 DEF Abs!Answer

\* The NBA region shows a header, takes it off, or leaves the signal alone.
LEMMA CommitShows ==
  ASSUME TransferInv, Commit
  PROVE  \/ HdrOf(tr) \in Hdr /\ Abs!Begin(HdrOf(tr))
         \/ Abs!Pend
         \/ UNCHANGED absVars
  <1>1. UNCHANGED <<due, md, mm, sm>> /\ due = {} /\ bus'.hdr = Updated(bus.hdr, nba.hdr)
    BY DEF Commit, ActiveDone, CommitNba
  <1>2. bus'.hdr = IF mdpc = "ctrl" THEN HdrOf(tr) ELSE NoHdr
    BY <1>1 DEF TransferInv, BusInv, InStep, Signals
  <1>3. MdPhase' = MdPhase /\ MdCount' = MdCount
    BY <1>1 DEF MdPhase, MdCount, Coming, md
  <1>4. CASE bus'.hdr = bus.hdr
    BY <1>1, <1>3, <1>4, AbsKept
  <1>5. CASE bus'.hdr # bus.hdr /\ mdpc = "ctrl"
    <2>1. HdrOf(tr) \in Hdr /\ HdrOf(tr) # NoHdr /\ bus'.hdr = HdrOf(tr)
      BY <1>2, <1>5, ItemHeader DEF TransferInv
    <2>2. bus.hdr = NoHdr
      BY <1>2, <1>5, VisibleHeader DEF TransferInv
    <2>3. MdPhase = "ctrl"
      BY <1>1, <1>5 DEF MdPhase
    <2>4. mmpc = "idle"
      <3>1. ~Busy(mmpc, mmreq, mmi, "mmon")
        BY <2>3 DEF TransferInv, BusInv, InStep, MonitorInStep
      <3> QED BY <1>1, <3>1, ConstantsAssumption, PacketFields
              DEF Busy, Coming, InStep, MonitorOK, TransferInv, BusInv, TypeInv, TypeOK, MMType, HoldsPacket
    <2>5. smpc = "idle"
      <3>1. ~Busy(smpc, smreq, smi, "smon")
        BY <2>3 DEF TransferInv, BusInv, InStep, MonitorInStep
      <3> QED BY <1>1, <3>1, ConstantsAssumption, PacketFields
              DEF Busy, Coming, InStep, MonitorOK, TransferInv, BusInv, TypeInv, TypeOK, SMType, HoldsPacket
    <2>6. Stage = "free" /\ Unpublished = {} /\ BeatNumber = 0
      BY <1>5, <2>2, <2>3, <2>4, <2>5 DEF Stage, Unpublished, Announced, BeatNumber
    <2>7. Stage' = "address" /\ Current' = HdrOf(tr) /\ BeatNumber' = 0
          /\ Unpublished' = {"master", "slave"}
      BY <2>1 DEF Stage, Current, BeatNumber, Unpublished, Announced
    <2> QED BY <2>1, <2>6, <2>7 DEF Abs!Begin, Abs!Monitors
  <1>6. CASE bus'.hdr # bus.hdr /\ mdpc # "ctrl"
    <2>1. bus'.hdr = NoHdr /\ bus.hdr # NoHdr
      BY <1>2, <1>6
    <2>2. mdpc = "wait" /\ mdpc' = "wait" /\ bus.hdr = HdrOf(tr) /\ tr' = tr
      BY <1>1, <1>6, <2>1, VisibleHeader DEF TransferInv, md
    <2>3. Stage = "address" /\ Stage' = "pending"
      BY <2>1, <2>2 DEF Stage
    <2>4. UNCHANGED <<Current, BeatNumber, Unpublished>>
      BY <2>1, <2>2, <2>3 DEF Current, BeatNumber, Unpublished, Announced
    <2> QED BY <2>3, <2>4 DEF Abs!Pend
  <1> QED BY <1>4, <1>5, <1>6

\* A clock edge in the master's loop starts the next beat or ends the last.
LEMMA PosedgeCounts ==
  ASSUME TransferInv, Posedge
  PROVE  Abs!NextByte \/ Abs!Finish \/ UNCHANGED absVars
  <1>1. UNCHANGED <<bus, md, mm, sm>> /\ due = {} /\ nba = NoNba /\ due' = AtClock
    BY DEF Posedge, AtRest, ActiveDone
  <1>2. "mdrv" \in due' <=> MDAtClock
    BY <1>1 DEF AtClock, Procs
  <1>3. CASE mdpc # "beat"
    <2>1. mdpc = "ctrl" => bus.hdr # NoHdr
      BY <1>1, ItemHeader DEF TransferInv, BusInv, InStep, Signals, NoNba, Updated
    <2>2. MdPhase # "beat" /\ MdPhase' # "beat"
      BY <1>1, <1>3 DEF MdPhase, md, TransferInv, BusInv, TypeInv, TypeOK, MDType
    <2> QED BY <1>1, <1>3, <2>1, <2>2
            DEF absVars, Stage, Current, BeatNumber, Unpublished, Announced, md, mm, sm
  <1>4. CASE mdpc = "beat"
    <2>1. tr \in Packet /\ tr.size \in Nat /\ mdi \in Nat /\ mdi <= tr.size
      BY <1>4, PacketFields, ConstantsAssumption
      DEF TransferInv, BusInv, TypeInv, TypeOK, MDType, HoldsPacket, InStep, Counters
    <2>2. MdCount = mdi /\ MdPhase = "beat" /\ MdCount' = mdi + 1
      BY <1>1, <1>2, <1>4, <2>1 DEF MdCount, MdPhase, Coming, MDAtClock, md
    <2>3. bus.hdr = NoHdr /\ Stage = "data" /\ Current = HdrOf(tr) /\ BeatNumber = mdi
      BY <2>2, StageIs DEF TransferInv, Current, BeatNumber
    <2>4. HdrOf(tr).size = tr.size
      BY <1>4, ItemHeader DEF TransferInv
    <2>5. Unpublished' = Unpublished
      BY <1>1 DEF Unpublished, Announced, md, mm, sm
    <2>6. CASE mdi < tr.size
      <3>1. MdPhase' = "beat"
        BY <1>1, <1>4, <2>1, <2>2, <2>6 DEF MdPhase, md
      <3>2. Stage' = "data" /\ Current' = HdrOf(tr) /\ BeatNumber' = mdi + 1
        BY <1>1, <1>4, <2>2, <2>3, <3>1 DEF Stage, Current, BeatNumber, md
      <3> QED BY <2>3, <2>4, <2>5, <2>6, <3>2 DEF Abs!NextByte
    <2>7. CASE mdi = tr.size
      <3>1. MdPhase' # "beat"
        BY <1>1, <1>4, <2>1, <2>2, <2>7 DEF MdPhase, md
      <3>2. Stage' = "free" /\ BeatNumber' = 0
        BY <1>1, <1>4, <2>3, <3>1 DEF Stage, BeatNumber, md
      <3>3. mmpc # "idle" /\ HdrOf(mmreq) = HdrOf(tr)
        BY <2>2 DEF TransferInv, BusInv, InStep, MonitorInStep, Busy
      <3>4. Current' = Current
        BY <1>1, <2>3, <3>2, <3>3 DEF Current, mm
      <3> QED BY <2>3, <2>4, <2>5, <2>7, <3>2, <3>4 DEF Abs!Finish
    <2> QED BY <2>1, <2>6, <2>7
  <1> QED BY <1>3, <1>4

\* A monitor that publishes is the one that owes a packet of this transfer.
LEMMA MonitorPublishes ==
  ASSUME BusInv, MasterPublishes \/ SlavePublishes
  PROVE  \E m \in {"master", "slave"} : Abs!Publish(m)
  <1>1. UNCHANGED <<md, bus>> /\ ("mdrv" \in due' <=> "mdrv" \in due)
    BY DEF MasterPublishes, MMPublish, SlavePublishes, SMPublish, Edge
  <1>2. MdPhase' = MdPhase /\ MdCount' = MdCount /\ Stage' = Stage
    BY <1>1 DEF MdPhase, MdCount, Coming, md, Stage
  <1>3. bus.hdr = NoHdr
    BY MasterPublishSeesNoHeader, SlavePublishSeesNoHeader
    DEF BusInv, MasterPublishes, SlavePublishes
  <1>4. CASE MasterPublishes
    <2>1. mmreq.size \in Nat
      BY <1>4, PacketFields DEF MasterPublishes, MMPublish, BusInv, TypeInv, HoldsPacket
    <2>2. ~Detecting(mmpc, "mmon") /\ ~Busy(mmpc, mmreq, mmi, "mmon")
      BY <1>4, <2>1 DEF MasterPublishes, MMPublish, Edge, Detecting, Busy, Coming
    <2>3. MdPhase # "wait" /\ MdPhase # "beat"
      BY <2>2 DEF BusInv, InStep, MonitorInStep
    <2>4. mdpc # "wait" /\ Stage = "free"
      BY <1>3, <2>3, StageIs DEF MdPhase
    <2>5. mmpc # "idle" /\ mmpc' = "idle" /\ UNCHANGED sm
      BY <1>3, <1>4 DEF MasterPublishes, MMPublish
    <2>6. "master" \in Unpublished /\ Unpublished' = Unpublished \ {"master"}
      BY <1>1, <1>3, <2>4, <2>5 DEF Unpublished, Announced, md, sm
    <2>7. Unpublished = {"master"} <=> smpc = "idle"
      BY <1>3, <2>4, <2>5 DEF Unpublished, Announced
    <2>8. Current' = IF Unpublished = {"master"} THEN NoHdr ELSE Current
      BY <1>2, <2>4, <2>5, <2>7, SameHeader DEF Current, sm
    <2>9. BeatNumber' = BeatNumber
      BY <1>2 DEF BeatNumber
    <2> QED BY <1>2, <2>4, <2>6, <2>8, <2>9 DEF Abs!Publish
  <1>5. CASE SlavePublishes
    <2>1. smreq.size \in Nat
      BY <1>5, PacketFields DEF SlavePublishes, SMPublish, BusInv, TypeInv, HoldsPacket
    <2>2. ~Detecting(smpc, "smon") /\ ~Busy(smpc, smreq, smi, "smon")
      BY <1>5, <2>1 DEF SlavePublishes, SMPublish, Edge, Detecting, Busy, Coming
    <2>3. MdPhase # "wait" /\ MdPhase # "beat"
      BY <2>2 DEF BusInv, InStep, MonitorInStep
    <2>4. mdpc # "wait" /\ Stage = "free"
      BY <1>3, <2>3, StageIs DEF MdPhase
    <2>5. smpc # "idle" /\ smpc' = "idle" /\ UNCHANGED mm
      BY <1>5 DEF SlavePublishes, SMPublish
    <2>6. "slave" \in Unpublished /\ Unpublished' = Unpublished \ {"slave"}
      BY <1>1, <1>3, <2>4, <2>5 DEF Unpublished, Announced, md, mm
    <2>7. Unpublished = {"slave"} <=> mmpc = "idle"
      BY <1>3, <2>4, <2>5 DEF Unpublished, Announced
    <2>8. Current' = IF Unpublished = {"slave"} THEN NoHdr ELSE Current
      BY <1>2, <2>4, <2>5, <2>7 DEF Current, mm
    <2>9. BeatNumber' = BeatNumber
      BY <1>2 DEF BeatNumber
    <2> QED BY <1>2, <2>4, <2>6, <2>8, <2>9 DEF Abs!Publish
  <1> QED BY <1>4, <1>5

-----------------------------------------------------------------------------
(* The refinement *)

\* The header becomes visible before the edge that ends the address phase.
LEMMA ShownNext ==
  ASSUME TransferInv, [Next]_vars
  PROVE  HeaderShown'
  <1> SUFFICES ASSUME mdpc' = "ctrl", "mdrv" \in due' PROVE bus'.hdr # NoHdr
    BY DEF HeaderShown
  <1>1. CASE Posedge
    <2>1. mdpc = "ctrl" /\ nba = NoNba /\ bus' = bus
      BY <1>1 DEF Posedge, AtRest, md
    <2> QED BY <2>1, ItemHeader DEF TransferInv, BusInv, InStep, Signals, NoNba, Updated
  <1>2. CASE Commit
    BY <1>2 DEF Commit, ActiveDone, CommitNba
  <1>3. CASE Request \/ MasterDrives
    <2>1. mdpc = "ctrl" /\ "mdrv" \in due /\ bus' = bus
      BY <1>3 DEF Request, GetNextItem, MasterDrives, MDStep, DriveAddr, ReleaseAddr, FirstBeat,
                  NextBeat, EndWrite, ItemDone, Edge, wires
    <2> QED BY <2>1 DEF TransferInv, HeaderShown
  <1>4. CASE MasterWatches \/ MasterPublishes \/ SlaveWatches \/ SlavePublishes \/ SlaveServes
             \/ SlaveDrives \/ UNCHANGED vars
    <2>1. UNCHANGED <<bus, mdpc>> /\ due' \subseteq due
      BY <1>4 DEF MasterWatches, MMStep, MMIdle, MMDetect, MMWait, MMLeaveWait, MMBeat,
                  MasterPublishes, MMPublish, SlaveWatches, SMStep, SMIdle, SMDetect, SMWait,
                  SMLeaveWait, SMBeat, SlavePublishes, SMPublish, SlaveServes, Serve, SlaveDrives,
                  SDStep, SDGet, SDWait, SDBeat, SDEndRead, SDEndWrite, SDTail, SDDone, Edge,
                  vars, wires, md
    <2> QED BY <2>1 DEF TransferInv, HeaderShown
  <1> QED BY <1>1, <1>2, <1>3, <1>4 DEF Next, Step, Silent

\* Every step of the bus is a step of the transfer or a stutter.
LEMMA StepImplements ==
  ASSUME TransferInv, [Next]_vars
  PROVE  [Abs!TransferNext]_(Abs!transferVars)
  <1>1. UNCHANGED absVars => UNCHANGED Abs!transferVars
    BY DEF absVars, Abs!transferVars
  <1>2. CASE Commit
    BY <1>1, <1>2, CommitShows DEF Abs!TransferNext, Abs!Continue
  <1>3. CASE Posedge
    BY <1>1, <1>3, PosedgeCounts DEF Abs!TransferNext, Abs!Continue
  <1>4. CASE MasterDrives
    <2>1. UNCHANGED <<mm, sm>>
      BY <1>4 DEF MasterDrives
    <2>2. CASE FirstBeat
      BY <2>1, <2>2, FirstBeatAnswers DEF Abs!TransferNext, Abs!Continue
    <2>3. CASE DriveAddr \/ ReleaseAddr \/ NextBeat \/ EndWrite \/ ItemDone
      BY <1>1, <2>1, <2>3, DriverUnseen
    <2> QED BY <1>4, <2>2, <2>3 DEF MasterDrives, MDStep
  <1>5. CASE MasterPublishes \/ SlavePublishes
    BY <1>5, MonitorPublishes DEF TransferInv, Abs!TransferNext, Abs!Continue, Abs!Monitors
  <1>6. CASE Request
    BY <1>1, <1>6, RequestUnseen DEF TransferInv
  <1>7. CASE MasterWatches \/ SlaveWatches
    BY <1>1, <1>7, MonitorUnseen DEF TransferInv
  <1>8. CASE SlaveServes \/ SlaveDrives
    BY <1>1, <1>8, SlaveUnseen DEF TransferInv
  <1>9. CASE UNCHANGED vars
    <2>1. UNCHANGED <<md, mm, sm, bus, due>>
      BY <1>9 DEF vars, wires
    <2>2. MdPhase' = MdPhase /\ MdCount' = MdCount
      BY <2>1 DEF MdPhase, MdCount, Coming, md
    <2> QED BY <1>1, <2>1, <2>2, AbsKept
  <1> QED BY <1>2, <1>3, <1>4, <1>5, <1>6, <1>7, <1>8, <1>9 DEF Next, Step, Silent

\* The refinement without the fairness of the processes, for the modules that
\* compose the bus with other components.
LEMMA BusRefines == Init /\ [][Next]_vars => ImplementsTransfer
  <1>1. Init => TransferInv
    BY BusInit DEF TransferInv, HeaderShown, Init, WiresInit
  <1>2. Init => Abs!TransferInit
    BY DEF Init, WiresInit, MDInit, MMInit, SMInit, Abs!TransferInit, Stage, Current, BeatNumber,
           Unpublished, Announced, MdPhase
  <1>3. TransferInv /\ [Next]_vars => TransferInv'
    BY BusNext, ShownNext DEF TransferInv
  <1>4. TransferInv /\ [Next]_vars => [Abs!TransferNext]_(Abs!transferVars)
    BY StepImplements
  <1> QED BY <1>1, <1>2, <1>3, <1>4, PTL DEF ImplementsTransfer, Abs!TransferSafety

\* The agents, which agree on nothing but the signals, do one transfer at a
\* time: header, answer, as many beats as the header says, and one packet with
\* that header from each monitor before the next header.
THEOREM BusImplementsTransfer == Spec => ImplementsTransfer
  BY BusRefines, PTL DEF Spec
=============================================================================
