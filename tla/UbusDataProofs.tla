--------------------------- MODULE UbusDataProofs ---------------------------
(***************************************************************************)
(* Where every byte of a transfer is and how far the bus is from the end   *)
(* of a slot and of an item, for every value of the constants.             *)
(*                                                                         *)
(* The bytes of a transfer are in tr or rsp, on the bus, and in what the   *)
(* monitors have collected.  DataInv speaks of the master monitor at the   *)
(* end of the slot (MmEnd), which no process changes within a slot; the    *)
(* clock edge, where the bus moves on, carries the argument (EdgeCollects).*)
(* The same phases give the two measures: SlotLeft falls with every step   *)
(* of a slot, ClocksLeft by one with every edge (ClocksPosedge).           *)
(***************************************************************************)
EXTENDS UbusBusProgress, UbusLockStepProofs

-----------------------------------------------------------------------------
(* The master monitor at the end of the slot *)

\* A monitor that will be in its data loop is in the transfer now, and its
\* index, corrected by the beat it is late, is the number of beats it has seen.
LEMMA EndSeen ==
  ASSUME TypeInv, InStep, MmEnd[1] = "beat"
  PROVE  /\ Busy(mmpc, mmreq, mmi, "mmon")
         /\ Seen(mmpc, mmreq, mmi, "mmon") = MmEnd[3] + Late(MmEnd[2])
         /\ mmreq \in Packet /\ MmEnd[2] \in Packet
         /\ HdrOf(MmEnd[2]) = HdrOf(mmreq)
         /\ MmEnd[3] \in 0 .. mmreq.size - 1
  <1>1. MonitorOK(mmpc, mmreq, mmi) /\ HeaderVisible /\ Counters
    BY DEF InStep
  <1>2. MMType /\ WiresType /\ (mmpc # "idle" => mmreq \in Packet)
    BY DEF TypeInv, TypeOK, HoldsPacket
  <1>3. mmpc # "idle" => /\ mmreq.size \in Nat /\ 1 <= mmreq.size
                         /\ mmreq.wait_state \in Nat /\ mmi \in Nat
    BY <1>2, PacketFields DEF MMType
  <1>4. CASE "mmon" \in due /\ mmpc = "idle" /\ bus.hdr # NoHdr
    <2>1. bus.wait # 0
      BY <1>1, <1>4 DEF HeaderVisible
    <2>2. AfterWhile # "beat"
      BY <2>1 DEF AfterWhile
    <2> QED BY <1>4, <2>2 DEF MmEnd, AtSlotEnd
  <1>5. CASE "mmon" \in due /\ mmpc = "wait1"
    <2>1. MmEnd = <<AfterWhile, [mmreq EXCEPT !.wait_state = @ + 1], mmi>>
      BY <1>5 DEF MmEnd, AtSlotEnd
    <2>2. bus.wait = 0 /\ mmi = 0
      BY <1>1, <1>5, <2>1 DEF AfterWhile, MonitorOK
    <2>3. [mmreq EXCEPT !.wait_state = @ + 1] \in Packet
      BY <1>2, <1>5 DEF Packet
    <2>4. mmreq.wait_state + 1 # 0
      BY <1>3, <1>5
    <2>5. Late(MmEnd[2]) = 1 /\ HdrOf(MmEnd[2]) = HdrOf(mmreq)
      BY <1>2, <1>5, <2>1, <2>4 DEF Late, HdrOf, Packet
    <2> QED BY <1>2, <1>3, <1>5, <2>1, <2>2, <2>3, <2>5 DEF Busy, Seen
  <1>6. CASE "mmon" \in due /\ mmpc = "beat"
    <2>1. mmi < mmreq.size - 1
      BY <1>6 DEF MmEnd, AtSlotEnd
    <2>2. MmEnd = <<"beat", MMSampled, mmi + 1>>
      BY <1>6, <2>1 DEF MmEnd, AtSlotEnd, MMSampled
    <2>3. MMSampled \in Packet
      BY <1>2, <1>6, SampleIsByte, StoreByte, NbaFields DEF MMSampled
    <2>4. /\ Late(MMSampled) = Late(mmreq) /\ HdrOf(MMSampled) = HdrOf(mmreq)
      BY <1>2, <1>6 DEF Late, MMSampled, Packet, HdrOf
    <2> QED BY <1>2, <1>3, <1>6, <2>1, <2>2, <2>3, <2>4 DEF Busy, Seen, Coming, Late
  <1>7. CASE "mmon" \notin due /\ mmpc = "wait0" /\ bus.wait = 0
    <2>1. MmEnd = <<"beat", mmreq, mmi>>
      BY <1>7 DEF MmEnd, AtSlotEnd
    <2>2. mmi = 0 /\ mmreq.wait_state = 0
      BY <1>1, <1>7 DEF MonitorOK
    <2> QED BY <1>2, <1>3, <1>7, <2>1, <2>2 DEF Busy, Seen, Late
  <1>8. CASE /\ ~("mmon" \in due /\ mmpc = "idle" /\ bus.hdr # NoHdr)
             /\ ~("mmon" \in due /\ mmpc = "wait1") /\ ~("mmon" \in due /\ mmpc = "beat")
             /\ ~("mmon" \notin due /\ mmpc = "wait0" /\ bus.wait = 0)
    <2>1. MmEnd = <<mmpc, mmreq, mmi>>
      BY <1>8 DEF MmEnd, AtSlotEnd
    <2>2. mmpc = "beat" /\ "mmon" \notin due /\ mmi \in 0 .. mmreq.size - 1
      BY <1>1, <1>8, <2>1 DEF MonitorOK
    <2> QED BY <1>2, <1>3, <2>1, <2>2 DEF Busy, Seen, Coming, Late
  <1> QED BY <1>4, <1>5, <1>6, <1>7, <1>8

\* Where the master is while the monitor is in its data loop.
LEMMA EndPhase ==
  ASSUME TypeInv, InStep, MmEnd[1] = "beat"
  PROVE  /\ MdPhase = "wait" => /\ MmEnd[3] = 0 /\ HdrOf(MmEnd[2]) = HdrOf(tr)
         /\ MdPhase = "beat" => /\ MmEnd[3] + Late(MmEnd[2]) + 1 = MdCount
                                /\ HdrOf(MmEnd[2]) = HdrOf(tr)
         /\ MdPhase \in {"free", "tail"} =>
              MmEnd[3] = MmEnd[2].size - 1 /\ Late(MmEnd[2]) = 1
         /\ MdPhase \in {"wait", "beat", "free", "tail"}
  <1>1. /\ Busy(mmpc, mmreq, mmi, "mmon")
        /\ Seen(mmpc, mmreq, mmi, "mmon") = MmEnd[3] + Late(MmEnd[2])
        /\ HdrOf(MmEnd[2]) = HdrOf(mmreq) /\ MmEnd[3] \in 0 .. mmreq.size - 1
        /\ mmreq.size \in Nat
    BY EndSeen, PacketFields
  <1>2. Late(MmEnd[2]) \in {0, 1} /\ MmEnd[2].size = mmreq.size
    BY <1>1 DEF Late, HdrOf
  <1>3. ~Detecting(mmpc, "mmon")
    BY <1>1 DEF Busy, Detecting
  <1>4. MonitorInStep(mmpc, mmreq, mmi, "mmon") /\ MdPhase \in {"free", "ctrl", "wait", "beat", "tail"}
    BY MdPhases DEF InStep, TypeInv, TypeOK
  <1> QED BY <1>1, <1>2, <1>3, <1>4 DEF MonitorInStep

\* The end of the slot stays what it is in every step but a clock edge and an
\* NBA region.
LEMMA EndKept ==
  ASSUME TypeInv, InStep, [Next]_vars, ~Posedge, ~Commit
  PROVE  MmEnd' = MmEnd
  <1>1. CASE MasterWatches \/ MasterPublishes
    BY <1>1, MasterMonitorKept DEF MasterWatches, MasterPublishes, MmEnd
  <1>2. CASE SlaveWatches \/ SlavePublishes
    <2>1. (SMStep \/ SMPublish) /\ UNCHANGED mm
      BY <1>2 DEF SlaveWatches, SlavePublishes
    <2> QED BY <2>1, SlaveMonitorKept DEF MmEnd, AtSlotEnd, AfterWhile, mm
  <1>3. CASE Request \/ MasterDrives \/ SlaveServes \/ SlaveDrives \/ UNCHANGED vars
    <2>1. UNCHANGED <<bus, mm>>
      BY <1>3 DEF Request, GetNextItem, MasterDrives, MDStep, DriveAddr, ReleaseAddr, FirstBeat,
                  NextBeat, EndWrite, ItemDone, SlaveServes, Serve, SlaveDrives, SDStep, SDGet,
                  SDWait, SDBeat, SDEndRead, SDEndWrite, SDTail, SDDone, vars, wires
    <2>2. "mmon" \in due' <=> "mmon" \in due
      BY <1>3 DEF Request, GetNextItem, MasterDrives, MDStep, DriveAddr, ReleaseAddr, FirstBeat,
                  NextBeat, EndWrite, ItemDone, SlaveServes, Serve, SlaveDrives, SDStep, SDGet,
                  SDWait, SDBeat, SDEndRead, SDEndWrite, SDTail, SDDone, Edge, vars, wires
    <2> QED BY <2>1, <2>2 DEF MmEnd, AtSlotEnd, AfterWhile, mm
  <1> QED BY <1>1, <1>2, <1>3 DEF Next, Step, Silent

\* A step of the monitors changes nothing the invariant says of the drivers.
LEMMA DriversFrame ==
  ASSUME DataInv, UNCHANGED <<md, sd, rsp, bus, nba, was>>, MmEnd' = MmEnd,
         "mdrv" \in due' <=> "mdrv" \in due, "sdrv" \in due' <=> "sdrv" \in due
  PROVE  /\ Source' /\ Collected' /\ Released' /\ WaitsCounted'
         /\ BeforeFirstByte' /\ Sampled'
  <1>1. /\ MdPhase' = MdPhase /\ SdPhase' = SdPhase
    BY PhasesKept
  <1>2. NextData' = NextData /\ Coming("sdrv")' = Coming("sdrv")
    BY DEF NextData, Coming
  <1>3. Source' /\ Collected'
    BY <1>1 DEF DataInv, Source, Collected, Moved, Late, md
  <1>4. Released' /\ WaitsCounted'
    BY <1>1, <1>2 DEF DataInv, Released, WaitsCounted, md, sd
  <1>5. BeforeFirstByte'
    BY <1>2 DEF DataInv, BeforeFirstByte, md, sd
  <1>6. Sampled'
    BY <1>1 DEF DataInv, Sampled, md
  <1> QED BY <1>3, <1>4, <1>5, <1>6

\* A step of the master monitor.
LEMMA DataMasterMonitor ==
  TypeInv /\ InStep /\ DataInv /\ (MasterWatches \/ MasterPublishes) => DataInv'
  <1> SUFFICES ASSUME TypeInv, InStep, DataInv, MasterWatches \/ MasterPublishes
               PROVE  DataInv'
    OBVIOUS
  <1>1. (MMStep \/ MMPublish) /\ UNCHANGED <<sqr, md, sm, sd, m_mem>>
    BY DEF MasterWatches, MasterPublishes
  <1>2. /\ UNCHANGED <<bus, nba, was>>
        /\ \A p \in {"mdrv", "sdrv"} : p \in due' <=> p \in due
    BY <1>1 DEF MMStep, MMIdle, MMDetect, MMWait, MMLeaveWait, MMBeat, MMPublish, Edge, wires
  <1>3. MmEnd' = MmEnd
    BY <1>1, MasterMonitorKept DEF MmEnd
  <1>4. /\ Source' /\ Collected' /\ Released' /\ WaitsCounted'
        /\ BeforeFirstByte' /\ Sampled'
    BY <1>1, <1>2, <1>3, DriversFrame DEF sqr
  <1>5. UnknownOnce'
    <2>1. mmpc' # "wait0" => bus.wait # 2 \/ mmreq' = NoItem
      <3>1. CASE MMIdle
        BY <3>1 DEF MMIdle, mm, DataInv, UnknownOnce
      <3>2. CASE MMDetect
        BY <3>2 DEF MMDetect, MMAccept, AfterWhile
      <3>3. CASE MMWait
        BY <3>3 DEF MMWait, AfterWhile
      <3>4. CASE MMLeaveWait
        BY <3>4 DEF MMLeaveWait
      <3>5. CASE MMBeat \/ MMPublish
        <4>1. mmpc = "beat" /\ mmreq \in Packet
          BY <3>5 DEF MMBeat, MMPublish, TypeInv, HoldsPacket
        <4> QED BY <4>1, ConstantsAssumption DEF DataInv, UnknownOnce
      <3> QED BY <1>1, <3>1, <3>2, <3>3, <3>4, <3>5 DEF MMStep
    <2> QED BY <1>2, <2>1 DEF UnknownOnce
  <1>6. Served'
    BY <1>1 DEF DataInv, Served, MemoryForgets, sqr
  <1> QED BY <1>4, <1>5, <1>6 DEF DataInv

\* A step of the slave monitor.
LEMMA DataSlaveMonitor ==
  TypeInv /\ InStep /\ DataInv /\ (SlaveWatches \/ SlavePublishes) => DataInv'
  <1> SUFFICES ASSUME TypeInv, InStep, DataInv, SlaveWatches \/ SlavePublishes
               PROVE  DataInv'
    OBVIOUS
  <1>1. (SMStep \/ SMPublish) /\ UNCHANGED <<md, mm, sd, m_mem>>
    BY DEF SlaveWatches, SlavePublishes
  <1>2. /\ UNCHANGED <<bus, nba, was, rsp>>
        /\ \A p \in {"mdrv", "sdrv", "mmon"} : p \in due' <=> p \in due
    BY <1>1 DEF SMStep, SMIdle, SMDetect, SMWait, SMLeaveWait, SMBeat, SMPublish, Edge, wires, sqr
  <1>3. MmEnd' = MmEnd
    BY <1>1, <1>2 DEF MmEnd, AtSlotEnd, AfterWhile, mm
  <1>4. /\ Source' /\ Collected' /\ Released' /\ WaitsCounted'
        /\ BeforeFirstByte' /\ Sampled'
    BY <1>1, <1>2, <1>3, DriversFrame
  <1>5. UnknownOnce'
    BY <1>1, <1>2 DEF DataInv, UnknownOnce, mm
  <1>6. request_fifo' # <<>> => \A k \in Lane : Head(request_fifo').data[k] = 0
    \* A monitor that is due finds the fifo empty.
    <2>1. "smon" \in due => request_fifo = <<>>
      BY DEF InStep, SlaveInStep
    <2>2. CASE SMDetect
      <3>1. request_fifo' = <<NewReq(bus.hdr)>>
        BY <2>1, <2>2 DEF SMDetect, Edge
      <3> QED BY <3>1 DEF NewReq
    <2>3. CASE SMIdle \/ SMLeaveWait
      BY <2>3 DEF SMIdle, SMLeaveWait, sqr, DataInv, Served
    <2>4. CASE SMWait \/ SMBeat \/ SMPublish
      BY <2>1, <2>4 DEF SMWait, SMBeat, SMPublish, SMUpdate, Edge
    <2> QED BY <1>1, <2>2, <2>3, <2>4 DEF SMStep
  <1>7. Served'
    BY <1>1, <1>2, <1>6 DEF DataInv, Served, MemoryForgets
  <1> QED BY <1>4, <1>5, <1>7 DEF DataInv

\* The slave sequence stores the zeros of a write, or fills and reads cells.
LEMMA ServeForgets ==
  ASSUME TypeInv, InStep, DataInv, SlaveServes
  PROVE  MemoryForgets' /\ (rsp'.dir = "read" =>
           \A k \in 0 .. rsp'.size - 1 : rsp'.data[k] = m_mem'[rsp'.addr + k])
  <1> DEFINE req == Head(request_fifo)
  <1>1. Serve /\ request_fifo # <<>> /\ req \in Packet
    BY DEF SlaveServes, Serve, TypeInv, TypeOK, SqrType
  <1>2. /\ req.addr \in Nat /\ req.size \in Nat /\ req.size <= MaxSize
        /\ MaxSize \in Nat /\ req.data \in [Lane -> Byte]
    BY <1>1, PacketFields, ConstantsAssumption
  <1>3. \A k \in Lane : req.data[k] = 0
    BY <1>1 DEF DataInv, Served
  <1>4. MemoryForgets'
    <2>1. \A a \in MemAddr : m_mem[a] \in Fill \cup {0, Absent}
      BY DEF DataInv, Served, MemoryForgets
    <2>2. CASE m_mem' = Stored(req)
      <3>1. \A a \in Burst(req) : a - req.addr \in Lane
        BY <1>2 DEF Burst, Lane
      <3> QED BY <1>3, <2>1, <2>2, <3>1 DEF Stored, MemoryForgets
    <2>3. CASE \E f \in [Burst(req) -> Fill] : m_mem' = Filled(req, f)
      BY <2>1, <2>3 DEF Filled, MemoryForgets
    <2> QED BY <1>1, <2>2, <2>3 DEF Serve
  <1>5. PICK w \in 0 .. MaxWait : rsp' = Response(req, w, m_mem')
    BY <1>1 DEF Serve
  <1>6. /\ rsp'.dir = req.dir /\ rsp'.size = req.size /\ rsp'.addr = req.addr
        /\ rsp'.data = [i \in Lane |-> IF req.dir = "read" /\ i < req.size
                                       THEN m_mem'[req.addr + i] ELSE req.data[i]]
    BY <1>1, <1>5 DEF Response, Packet
  <1>7. \A k \in 0 .. req.size - 1 : k \in Lane /\ k < req.size
    BY <1>2 DEF Lane
  <1> QED BY <1>4, <1>6, <1>7

\* A step of the slave sequence.
LEMMA DataServe == TypeInv /\ InStep /\ DataInv /\ SlaveServes => DataInv'
  <1> SUFFICES ASSUME TypeInv, InStep, DataInv, SlaveServes PROVE DataInv'
    OBVIOUS
  <1>1. UNCHANGED <<md, mm, sm, sd, wires>> /\ rsp = NoItem /\ request_fifo # <<>>
    BY DEF SlaveServes, Serve
  <1>2. MdPhase' = MdPhase
    BY <1>1 DEF MdPhase, MdCount, Coming, md, wires
  <1>3. MdPhase = "wait" /\ sdpc = "get" /\ Len(request_fifo) = 1
    BY <1>1, MdPhases DEF TypeInv, TypeOK, InStep, SlaveInStep
  <1>4. rsp' # NoItem /\ request_fifo' = <<>>
    <2>1. rsp' \in Packet
      BY ServeAnswers DEF SlaveServes
    <2>2. request_fifo' = <<>>
      BY <1>3 DEF SlaveServes, Serve, TypeInv, TypeOK, SqrType
    <2> QED BY <2>1, <2>2, ConstantsAssumption
  <1>5. SdPhase = "free" /\ SdPhase' = "pend" /\ MmEnd' = MmEnd
    BY <1>1, <1>3, <1>4 DEF SdPhase, sd, MmEnd, AtSlotEnd, AfterWhile, mm, wires
  <1>6. mdpc \in {"ctrl", "wait"} /\ bus.wait # 0
    BY <1>3 DEF MdPhase, InStep, WaitLow, TypeInv, TypeOK, MDType
  <1>7. Source' /\ Released'
    BY <1>1, <1>2, <1>3, <1>6 DEF Source, Released, md, sd
  <1>8. Collected'
    <2>1. MmEnd[1] = "beat" => MmEnd[3] = 0
      BY <1>3, EndPhase
    <2> QED BY <1>5, <2>1 DEF Collected
  <1>9. WaitsCounted'
    BY <1>1, <1>3, <1>5 DEF DataInv, WaitsCounted, sd
  <1>10. UnknownOnce'
    BY <1>1 DEF DataInv, UnknownOnce, mm, wires
  <1>11. BeforeFirstByte' /\ Sampled'
    BY <1>1, <1>3, <1>6 DEF DataInv, BeforeFirstByte, Sampled, NextData, md, sd, wires
  <1>12. Served'
    BY <1>4, ServeForgets DEF Served
  <1> QED BY <1>7, <1>8, <1>9, <1>10, <1>11, <1>12 DEF DataInv

\* The slave driver takes a response: its first byte is scheduled.
LEMMA DataSlaveGets ==
  ASSUME TypeInv, InStep, DataInv, SlaveDrives, SDGet
  PROVE  DataInv'
  <1>1. /\ UNCHANGED <<md, mm, sm, sqr, bus, due, was, m_mem>> /\ sdpc = "get"
        /\ rsp \in Packet /\ rsp # NoItem /\ due = {} /\ nba = NoNba
    BY DEF SlaveDrives, SDGet, TypeInv, TypeOK, SqrType
  <1>2. /\ rsp.wait_state \in Nat /\ rsp.size \in Nat /\ 1 <= rsp.size
        /\ rsp.data[0] \in Byte
    BY <1>1, PacketFields
  <1>3. SdPhase = "pend" /\ MdPhase = "wait" /\ mdpc = "wait" /\ HdrOf(rsp) = HdrOf(tr)
    <2>1. SdPhase = "pend"
      BY <1>1 DEF SdPhase
    <2>2. MdPhase = "wait" /\ HdrOf(rsp) = HdrOf(tr)
      BY <1>1, <2>1, MdPhases DEF TypeInv, TypeOK, InStep, SlaveInStep
    <2> QED BY <1>1, <2>1, <2>2 DEF MdPhase, TypeInv, TypeOK, MDType
  <1>4. bus.wait # 0
    BY <1>1 DEF InStep, Signals, NoNba, Updated
  <1>5. MdPhase' = MdPhase /\ MmEnd' = MmEnd
    BY <1>1 DEF MdPhase, MdCount, Coming, md, MmEnd, AtSlotEnd, AfterWhile, mm
  <1>6. \/ /\ rsp.wait_state > 0 /\ sdpc' = "wait" /\ sdi' = 1 /\ SdPhase' = "wait"
           /\ rsp.dir = "read" => nba'.sdata = rsp.data[0]
        \/ rsp.wait_state = 0 /\ sdpc' = "beat" /\ SdPhase' = "beat"
    <2>1. CASE rsp.wait_state > 0
      <3>1. WaitCycle(0)
        BY <2>1 DEF SlaveDrives, SDGet
      <3>2. sdpc' = "wait" /\ sdi' = 1 /\ (rsp.dir = "read" => nba'.sdata = rsp.data[0])
        BY <3>1, NbaFields DEF WaitCycle, TypeInv, TypeOK
      <3> QED BY <1>1, <2>1, <3>2 DEF SdPhase
    <2>2. CASE ~(rsp.wait_state > 0)
      <3>1. Beat(0)
        BY <2>2 DEF SlaveDrives, SDGet
      <3>2. sdpc' = "beat" /\ sdi' = 1 /\ rsp' = rsp /\ due' = {}
        BY <1>1, <3>1 DEF Beat, sqr
      <3> QED BY <1>2, <2>2, <3>2 DEF SdPhase, SdCount, Coming
    <2> QED BY <2>1, <2>2
  <1>7. MmEnd[1] # "beat"
    <2>1. ~(mmpc = "beat")
      BY <1>1, <1>3 DEF InStep, MonitorInStep, Detecting
    <2> QED BY <1>1, <1>4, <2>1 DEF MmEnd, AtSlotEnd
  <1>8. Source' /\ Collected' /\ UnknownOnce'
    BY <1>1, <1>5, <1>7 DEF DataInv, Source, Collected, UnknownOnce, mm
  <1>9. Released' /\ Sampled' /\ Served'
    BY <1>1, <1>3, <1>6 DEF DataInv, Released, Sampled, Served, MemoryForgets, md, sqr
  <1>10. WaitsCounted'
    <2>1. MmEnd[1] = "wait1" => MmEnd[2].wait_state = 0
      BY <1>3 DEF DataInv, WaitsCounted
    <2>2. Coming("sdrv")' = 0
      BY <1>1 DEF Coming
    <2> QED BY <1>1, <1>2, <1>5, <1>6, <1>7, <2>1, <2>2 DEF WaitsCounted, sqr
  <1>11. BeforeFirstByte'
    <2>1. SUFFICES ASSUME tr.dir = "read", tr # NoItem PROVE BeforeFirstByte'
      BY <1>1 DEF BeforeFirstByte, md
    <2>2. rsp.dir = "read" /\ bus.data = Z
      BY <1>1, <1>3, <2>1 DEF HdrOf, DataInv, BeforeFirstByte
    <2>3. sdpc' = "wait" => NextData' = rsp.data[0]
      <3>1. sdpc' = "wait" => nba'.sdata = rsp.data[0]
        BY <1>6, <2>2
      <3>2. nba'.mdata = Keep
        <4>1. nba.mdata = Keep
          BY <1>1 DEF NoNba
        <4> QED BY <1>1, <4>1, NbaFields DEF SDGet, WaitCycle, Beat, TypeInv, TypeOK
      <3> QED BY <1>1, <1>2, <3>1, <3>2, KeepAssumption DEF NextData, sqr
    <2> QED BY <1>1, <1>2, <1>3, <1>4, <1>6, <2>2, <2>3 DEF BeforeFirstByte, md, sqr
  <1> QED BY <1>8, <1>9, <1>10, <1>11 DEF DataInv

\* The slave driver goes on with its response.
LEMMA DataSlaveDrives ==
  ASSUME TypeInv, InStep, DataInv, SlaveDrives, SDWait \/ SDBeat \/ SDEndRead
  PROVE  DataInv'
  <1>1. /\ UNCHANGED <<md, mm, sm, sqr, bus, was, m_mem>> /\ sdpc # "get"
        /\ "sdrv" \in due /\ "sdrv" \notin due' /\ rsp \in Packet
        /\ \A p \in {"mdrv", "mmon"} : p \in due' <=> p \in due
    BY DEF SlaveDrives, SDWait, SDBeat, SDEndRead, Edge, TypeInv, HoldsPacket
  <1>2. /\ rsp.wait_state \in Nat /\ rsp.size \in Nat /\ 1 <= rsp.size /\ sdi \in Nat
        /\ rsp.data[0] \in Byte
    BY <1>1, PacketFields DEF TypeInv, TypeOK, SDType
  <1>3. MdPhase' = MdPhase /\ MmEnd' = MmEnd
    BY <1>1 DEF MdPhase, MdCount, Coming, md, MmEnd, AtSlotEnd, AfterWhile, mm
  <1>4. nba'.mdata = nba.mdata
    BY NbaFields DEF SDWait, SDBeat, SDEndRead, WaitCycle, Beat, TypeInv, TypeOK
  <1>5. /\ SdPhase' = SdPhase /\ SdPhase \in {"wait", "beat", "tail"}
        /\ sdpc = "beat" => SdPhase = "tail" \/ (SdPhase = "beat" /\ SdCount > 1)
        /\ sdpc' = "wait" => sdi' \in 1 .. rsp.wait_state /\ sdpc = "wait"
        /\ SdPhase = "wait" => sdi' = sdi + 1
        /\ (sdpc' = "wait" /\ rsp.dir = "read") => nba'.sdata = rsp.data[0]
        /\ sdpc' = "tail" => SDEndRead
        /\ sdpc' # "get"
    <2>1. CASE SDWait
      <3>1. sdpc = "wait"
        BY <2>1 DEF SDWait
      <3>2. CASE sdi < rsp.wait_state
        <4>1. WaitCycle(sdi)
          BY <2>1, <3>2 DEF SDWait
        <4>2. sdpc' = "wait" /\ sdi' = sdi + 1 /\ (rsp.dir = "read" => nba'.sdata = rsp.data[0])
          BY <4>1, NbaFields DEF WaitCycle, TypeInv, TypeOK
        <4> QED BY <1>1, <1>2, <3>1, <3>2, <4>2 DEF SdPhase, sqr
      <3>3. CASE ~(sdi < rsp.wait_state)
        <4>1. sdpc' = "beat" /\ sdi' = 1
          BY <2>1, <3>3 DEF SDWait, Beat
        <4> QED BY <1>1, <1>2, <3>1, <3>3, <4>1 DEF SdPhase, SdCount, Coming, sqr
      <3> QED BY <3>2, <3>3
    <2>2. CASE SDBeat
      <3>1. sdpc = "beat" /\ sdpc' = "beat" /\ sdi' = sdi + 1 /\ sdi < rsp.size
        BY <2>2 DEF SDBeat, Beat
      <3>2. 1 <= sdi
        BY <3>1 DEF InStep, Counters
      <3> QED BY <1>1, <1>2, <3>1, <3>2 DEF SdPhase, SdCount, Coming, sqr
    <2>3. CASE SDEndRead
      <3>1. sdpc = "beat" /\ sdpc' = "tail" /\ sdi = rsp.size /\ rsp.dir = "read"
        BY <2>3 DEF SDEndRead
      <3> QED BY <1>1, <1>2, <2>3, <3>1 DEF SdPhase, SdCount, Coming, sqr
    <2> QED BY <2>1, <2>2, <2>3
  <1>6. Source' /\ Collected' /\ UnknownOnce' /\ Sampled' /\ Served'
    BY <1>1, <1>3, <1>5 DEF DataInv, Source, Collected, UnknownOnce, Sampled, Served,
                            MemoryForgets, Moved, Late, md, mm, sqr
  <1>7. WaitsCounted'
    BY <1>1, <1>2, <1>3, <1>5 DEF DataInv, WaitsCounted, Coming, sqr
  <1>8. MdPhase = "wait" => sdpc = "wait"
    BY <1>1, <1>5 DEF InStep, SlaveInStep, SdPhase, TypeInv, TypeOK, SDType
  <1>9. Released'
    <2>1. sdpc' = "tail" => rsp.dir = "read" /\ NextData' = Z
      <3>1. SUFFICES ASSUME SDEndRead PROVE rsp.dir = "read" /\ NextData' = Z
        BY <1>5
      <3>2. nba'.sdata = Z /\ rsp.dir = "read" /\ sdpc' = "tail"
        BY <3>1, NbaFields DEF SDEndRead, TypeInv, TypeOK
      <3>3. NoContention'
        BY SlaveDriverInStep DEF InStep, DataDrivers
      <3> QED BY <3>2, <3>3, KeepAssumption DEF NextData, NoContention
    <2>2. mdpc = "tail" => SdPhase = "tail"
      BY <1>5 DEF MdPhase, InStep, SlaveInStep
    <2>3. mdpc = "tail" => sdpc' = "tail"
      <3>1. SUFFICES ASSUME mdpc = "tail", SDBeat \/ SDWait PROVE FALSE
        BY DEF SDEndRead
      <3> QED BY <2>2, <3>1, <1>1, <1>2 DEF SDBeat, SDWait, SdPhase, SdCount, Coming
    <2> QED BY <1>1, <2>1, <2>3 DEF DataInv, Released, md, sqr
  <1>10. BeforeFirstByte'
    <2>1. SUFFICES ASSUME tr.dir = "read", tr # NoItem PROVE BeforeFirstByte'
      BY <1>1 DEF BeforeFirstByte, md
    <2>2. mdpc # "ctrl"
      <3>1. mdpc = "ctrl" => "mdrv" \notin due
        BY <1>1, <2>1 DEF DataInv, BeforeFirstByte
      <3> QED BY <1>5, <3>1 DEF MdPhase, InStep, SlaveInStep
    <2>3. SUFFICES ASSUME mdpc = "wait" PROVE BeforeFirstByte'
      BY <1>1, <2>2 DEF BeforeFirstByte, md
    <2>4. sdpc = "wait" /\ MdPhase = "wait" /\ bus.wait # 0 /\ nba.mdata = Keep
      <3>1. MdPhase = "wait"
        BY <2>3 DEF MdPhase
      <3> QED BY <1>1, <1>8, <2>1, <2>3, <3>1 DEF InStep, WaitLow, DataDrivers
    <2>5. rsp.dir = "read" /\ bus.data = rsp.data[0]
      <3>1. HdrOf(rsp) = HdrOf(tr)
        BY <2>4 DEF InStep, SlaveInStep
      <3> QED BY <1>1, <2>1, <2>3, <2>4, <3>1 DEF HdrOf, DataInv, BeforeFirstByte
    <2>6. sdpc' = "wait" => NextData' = rsp.data[0]
      BY <1>1, <1>2, <1>4, <1>5, <2>4, <2>5, KeepAssumption DEF NextData
    <2> QED BY <1>1, <1>5, <2>3, <2>4, <2>5, <2>6 DEF BeforeFirstByte, md, sqr
  <1> QED BY <1>6, <1>7, <1>9, <1>10 DEF DataInv

\* The slave driver is done with its response, which the monitors still need
\* only if it was a write.
LEMMA DataSlaveEnds ==
  ASSUME TypeInv, InStep, DataInv, SlaveDrives, SDEndWrite \/ SDTail
  PROVE  DataInv'
  <1>1. /\ UNCHANGED <<md, mm, sm, request_fifo, bus, was, m_mem>>
        /\ rsp' = NoItem /\ sdpc' = "get" /\ sdpc # "get"
        /\ "sdrv" \in due /\ rsp \in Packet
        /\ \A p \in {"mdrv", "mmon"} : p \in due' <=> p \in due
    BY DEF SlaveDrives, SDEndWrite, SDTail, SDDone, Edge, TypeInv, HoldsPacket
  <1>2. MdPhase' = MdPhase /\ MmEnd' = MmEnd
    BY <1>1 DEF MdPhase, MdCount, Coming, md, MmEnd, AtSlotEnd, AfterWhile, mm
  <1>3. nba'.mdata = nba.mdata /\ nba'.sdata = nba.sdata
    BY NbaFields DEF SDEndWrite, SDTail, SDDone, TypeInv, TypeOK
  <1>4. SdPhase = "free" /\ SdPhase' = "free"
    <2>1. rsp.size \in Nat
      BY <1>1, PacketFields
    <2>2. SdPhase = "free"
      BY <1>1, <2>1 DEF SDEndWrite, SDTail, SDDone, SdPhase, SdCount, Coming
    <2>3. SdPhase' = "free"
      BY <1>1 DEF SdPhase
    <2> QED BY <2>2, <2>3
  <1>5. MdPhase \in {"free", "ctrl", "tail"}
    BY <1>1, <1>4, MdPhases DEF InStep, SlaveInStep, TypeInv, TypeOK
  <1>6. MmEnd[1] = "beat" => /\ MdPhase = "tail" /\ tr.dir = "write"
                             /\ HdrOf(MmEnd[2]) = HdrOf(tr)
    BY <1>4, <1>5, EndPhase DEF DataInv, Source
  <1>7. Source' /\ Collected'
    <2>1. MmEnd[1] = "beat" => MmEnd[2].dir = "write"
      BY <1>6 DEF HdrOf
    <2> QED BY <1>1, <1>2, <1>6, <2>1 DEF DataInv, Source, Collected, Moved, Late, md
  <1>8. Released' /\ WaitsCounted' /\ UnknownOnce'
    BY <1>1, <1>2, <1>3, <1>4 DEF DataInv, Released, WaitsCounted, UnknownOnce, NextData, md, mm
  <1>9. mdpc # "wait" /\ ~(mdpc = "beat" /\ tr.dir = "read")
    BY <1>4, <1>5 DEF MdPhase, DataInv, Sampled
  <1>10. BeforeFirstByte' /\ Sampled'
    BY <1>1, <1>3, <1>9 DEF DataInv, BeforeFirstByte, Sampled, NextData, md
  <1>11. Served'
    BY <1>1 DEF DataInv, Served, MemoryForgets
  <1> QED BY <1>7, <1>8, <1>10, <1>11 DEF DataInv

\* A step of the slave driver.
LEMMA DataSlaveDriver == TypeInv /\ InStep /\ DataInv /\ SlaveDrives => DataInv'
  <1> SUFFICES ASSUME TypeInv, InStep, DataInv, SlaveDrives PROVE DataInv'
    OBVIOUS
  <1> QED BY DataSlaveGets, DataSlaveDrives, DataSlaveEnds DEF SlaveDrives, SDStep

\* The master takes an item while the monitors may still be one beat behind a
\* read: that transfer's bytes are in the response.
LEMMA DataRequest == TypeInv /\ InStep /\ DataInv /\ Request => DataInv'
  <1> SUFFICES ASSUME TypeInv, InStep, DataInv, Request PROVE DataInv'
    OBVIOUS
  <1>1. /\ UNCHANGED <<sqr, mm, sm, sd, m_mem, bus, nba, due, was>>
        /\ mdpc = "get" /\ mdpc' = "addr" /\ due = {}
    BY DEF Request, GetNextItem, wires
  <1>2. MdPhase = "free" /\ MdPhase' = "free"
    BY <1>1 DEF MdPhase
  <1>3. /\ SdPhase' = SdPhase /\ MmEnd' = MmEnd /\ NextData' = NextData
        /\ Coming("sdrv")' = Coming("sdrv")
    BY <1>1 DEF SdPhase, SdCount, Coming, sd, sqr, MmEnd, AtSlotEnd, AfterWhile, mm, NextData
  <1>4. MmEnd[1] = "beat" => MmEnd[2].dir = "read"
    BY <1>2 DEF DataInv, Source, HdrOf
  <1>5. Source' /\ Collected'
    BY <1>1, <1>2, <1>3, <1>4 DEF DataInv, Source, Collected, Moved, Late, sqr
  <1>6. Released' /\ WaitsCounted' /\ UnknownOnce'
    BY <1>1, <1>3 DEF DataInv, Released, WaitsCounted, UnknownOnce, sd, sqr, mm
  <1>7. BeforeFirstByte' /\ Sampled' /\ Served'
    BY <1>1 DEF DataInv, BeforeFirstByte, Sampled, Served, MemoryForgets, sqr
  <1> QED BY <1>5, <1>6, <1>7 DEF DataInv

\* The address phase: a read releases the data bus before the slave answers.
LEMMA DataAddress ==
  ASSUME TypeInv, InStep, DataInv, MasterDrives, DriveAddr \/ ReleaseAddr
  PROVE  DataInv'
  <1>1. /\ UNCHANGED <<sqr, mm, sm, sd, m_mem, bus, was, tr>> /\ nba'.sdata = nba.sdata
        /\ "mdrv" \in due /\ "mdrv" \notin due' /\ tr \in Packet
        /\ \A p \in {"sdrv", "mmon"} : p \in due' <=> p \in due
    BY NbaFields DEF MasterDrives, DriveAddr, ReleaseAddr, Edge, TypeInv, TypeOK, HoldsPacket
  <1>2. \/ /\ DriveAddr /\ MdPhase = "ctrl" /\ MdPhase' = "ctrl" /\ mdpc' = "ctrl"
           /\ nba'.mdata = IF tr.dir = "read" THEN Z ELSE nba.mdata
        \/ /\ ReleaseAddr /\ mdpc = "ctrl" /\ MdPhase = "wait" /\ MdPhase' = "wait"
           /\ mdpc' = "wait"
           /\ tr.dir = "read" => nba'.mdata = nba.mdata
    <2>1. CASE DriveAddr
      <3>1. /\ mdpc = "addr" /\ mdpc' = "ctrl"
            /\ nba'.mdata = IF tr.dir = "read" THEN Z ELSE nba.mdata
        BY <2>1, NbaFields DEF DriveAddr, TypeInv, TypeOK
      <3> QED BY <1>1, <2>1, <3>1 DEF MdPhase
    <2>2. CASE ReleaseAddr
      <3>1. /\ mdpc = "ctrl" /\ mdpc' = "wait"
            /\ tr.dir = "read" => nba'.mdata = nba.mdata
        BY <2>2, NbaFields DEF ReleaseAddr, TypeInv, TypeOK
      <3> QED BY <1>1, <2>2, <3>1 DEF MdPhase
    <2> QED BY <2>1, <2>2
  <1>3. SdPhase' = SdPhase /\ MmEnd' = MmEnd /\ Coming("sdrv")' = Coming("sdrv")
    BY <1>1 DEF SdPhase, SdCount, Coming, sd, sqr, MmEnd, AtSlotEnd, AfterWhile, mm
  <1>4. nba.mdata = Keep
    BY <1>1 DEF InStep, DataDrivers
  <1>5. MmEnd[1] = "beat" => MdPhase = "wait" /\ MmEnd[3] = 0
    BY <1>2, EndPhase
  <1>6. Source' /\ Collected'
    BY <1>2, <1>3, <1>5 DEF Source, Collected
  <1>7. Released'
    <2>1. MdPhase = "wait" => sdpc # "tail"
      BY <1>2 DEF InStep, SlaveInStep, SdPhase
    <2>2. DriveAddr => NextData' \in {Z, NextData}
      <3>1. DriveAddr => nba'.mdata \in {Z, nba.mdata}
        BY <1>2 DEF DriveAddr
      <3> QED BY <1>1, <1>4, <3>1, KeepAssumption DEF NextData
    <2> QED BY <1>1, <1>2, <2>1, <2>2 DEF DataInv, Released, sd, sqr
  <1>8. WaitsCounted' /\ UnknownOnce'
    BY <1>1, <1>3 DEF DataInv, WaitsCounted, UnknownOnce, sd, sqr, mm
  <1>9. BeforeFirstByte'
    <2>1. SUFFICES ASSUME tr.dir = "read", tr # NoItem PROVE BeforeFirstByte'
      BY <1>1 DEF BeforeFirstByte
    <2>2. CASE DriveAddr
      <3>1. mdpc' = "ctrl" /\ nba'.mdata = Z
        BY <1>2, <2>1, <2>2 DEF ReleaseAddr, DriveAddr
      <3> QED BY <1>1, <3>1, KeepAssumption DEF BeforeFirstByte, NextData
    <2>3. CASE ReleaseAddr
      <3>1. mdpc = "ctrl" /\ mdpc' = "wait" /\ MdPhase = "wait"
        BY <1>2, <2>3 DEF ReleaseAddr, DriveAddr
      <3>2. sdpc = "get" /\ NextData = Z
        BY <1>1, <2>1, <3>1 DEF DataInv, BeforeFirstByte
      <3>3. nba.sdata = Keep /\ bus.data = Z
        BY <1>4, <3>2 DEF InStep, DataDrivers, NextData
      <3>4. bus.wait # 0
        BY <3>1 DEF InStep, WaitLow
      <3> QED BY <1>1, <3>1, <3>2, <3>3, <3>4 DEF BeforeFirstByte, sd
    <2> QED BY <2>2, <2>3
  <1>10. Sampled' /\ Served'
    BY <1>1, <1>2 DEF DataInv, Sampled, Served, MemoryForgets, sqr
  <1> QED BY <1>6, <1>7, <1>8, <1>9, <1>10 DEF DataInv

\* The first beat of a read samples the first byte or the 0 of a bus that the
\* byte has not reached.
LEMMA DataFirstBeat ==
  ASSUME TypeInv, InStep, DataInv, MasterDrives, FirstBeat
  PROVE  DataInv'
  <1>1. /\ UNCHANGED <<sqr, mm, sm, sd, m_mem, bus, was, due>>
        /\ mdpc = "wait" /\ bus.wait = 0 /\ mdpc' = "beat" /\ mdi' = 1 /\ tr \in Packet
    BY DEF MasterDrives, FirstBeat, TypeInv, HoldsPacket
  <1>2. /\ tr.size \in Nat /\ 1 <= tr.size /\ tr.dir \in Dir /\ 0 \in Lane
        /\ tr.data \in [Lane -> Byte]
    BY <1>1, PacketFields
  <1>3. MdPhase = "wait" /\ due = {} /\ sdpc = "beat"
    <2>1. MdPhase = "wait"
      BY <1>1 DEF MdPhase
    <2> QED BY <1>1, <2>1 DEF InStep, WaitLow
  <1>4. rsp \in Packet /\ HdrOf(rsp) = HdrOf(tr) /\ SdPhase = "beat" /\ rsp.data[0] \in Byte
    <2>1. rsp \in Packet
      BY <1>3 DEF TypeInv, HoldsPacket
    <2>2. HdrOf(rsp) = HdrOf(tr) /\ SdPhase \in {"pend", "wait", "beat"}
      BY <1>3 DEF InStep, SlaveInStep
    <2> QED BY <1>3, <2>1, <2>2, PacketFields DEF SdPhase
  <1>5. HdrOf(tr') = HdrOf(tr) /\ tr'.dir = tr.dir /\ tr'.size = tr.size
    BY <1>1 DEF FirstBeat, WriteBeat, ReadBeat, HdrOf, Packet
  <1>6. MdPhase' = "beat"
    BY <1>1, <1>2, <1>3, <1>5 DEF MdPhase, MdCount, Coming
  <1>7. SdPhase' = SdPhase /\ MmEnd' = MmEnd /\ Coming("sdrv")' = Coming("sdrv")
    BY <1>1 DEF SdPhase, SdCount, Coming, sd, sqr, MmEnd, AtSlotEnd, AfterWhile, mm
  <1>8. MmEnd[1] = "beat" => MmEnd[3] = 0
    BY <1>3, EndPhase
  <1>9. Source' /\ Collected' /\ Released'
    BY <1>1, <1>3, <1>6, <1>7, <1>8 DEF Source, Collected, Released, sd
  <1>10. WaitsCounted' /\ UnknownOnce'
    BY <1>1, <1>7 DEF DataInv, WaitsCounted, UnknownOnce, sd, sqr, mm
  <1>11. Sampled'
    <2>1. SUFFICES ASSUME tr.dir = "read" PROVE Sampled'
      BY <1>5 DEF Sampled
    <2>2. PICK v \in {bus.data, was} : ReadBeat(0, v)
      BY <2>1 DEF FirstBeat, WriteBeat
    <2>3. tr'.data[0] = AsBit(v)
      BY <1>1, <1>2, <2>2 DEF ReadBeat, Packet
    <2>4. /\ bus.data = rsp.data[0] /\ was \in {Z, rsp.data[0]}
          /\ rsp.wait_state > 0 => was = rsp.data[0]
      BY <1>1, <2>1, ConstantsAssumption DEF DataInv, BeforeFirstByte
    <2>5. AsBit(Z) = 0 /\ AsBit(rsp.data[0]) = rsp.data[0]
      BY <1>4, ConstantsAssumption DEF AsBit
    <2> QED BY <1>1, <1>3, <1>4, <1>5, <1>7, <2>2, <2>3, <2>4, <2>5 DEF Sampled, sqr
  <1>12. BeforeFirstByte' /\ Served'
    BY <1>1 DEF DataInv, BeforeFirstByte, Served, MemoryForgets, sqr
  <1> QED BY <1>9, <1>10, <1>11, <1>12 DEF DataInv

\* Every further beat of a read samples the byte of the beat before.
LEMMA DataNextBeat ==
  ASSUME TypeInv, InStep, DataInv, MasterDrives, NextBeat
  PROVE  DataInv'
  <1>1. /\ UNCHANGED <<sqr, mm, sm, sd, m_mem, bus, was>>
        /\ "mdrv" \in due /\ "mdrv" \notin due' /\ tr \in Packet
        /\ \A p \in {"sdrv", "mmon"} : p \in due' <=> p \in due
        /\ mdpc = "beat" /\ mdpc' = "beat" /\ mdi < tr.size /\ mdi' = mdi + 1
    BY DEF MasterDrives, NextBeat, Edge, TypeInv, HoldsPacket
  <1>2. /\ tr.size \in Nat /\ tr.size <= MaxSize /\ tr.dir \in Dir /\ MaxSize \in Nat
        /\ tr.data \in [Lane -> Byte] /\ mdi \in Nat /\ 1 <= mdi /\ mdi \in Lane /\ mdi - 1 \in Lane
    BY <1>1, PacketFields DEF InStep, Counters, Lane
  <1>3. HdrOf(tr') = HdrOf(tr) /\ tr'.dir = tr.dir /\ tr'.size = tr.size
        /\ (tr.dir = "write" => tr' = tr)
    BY <1>1 DEF NextBeat, WriteBeat, ReadBeat, HdrOf, Packet
  <1>4. MdPhase = "beat" /\ MdPhase' = "beat"
    BY <1>1, <1>2, <1>3 DEF MdPhase, MdCount, Coming
  <1>5. SdPhase = "beat" /\ HdrOf(rsp) = HdrOf(tr) /\ sdpc # "tail"
    <2>1. SdPhase = "beat" /\ HdrOf(rsp) = HdrOf(tr)
      BY <1>4 DEF InStep, SlaveInStep
    <2> QED BY <2>1 DEF SdPhase
  <1>6. SdPhase' = SdPhase /\ MmEnd' = MmEnd /\ Coming("sdrv")' = Coming("sdrv")
    BY <1>1 DEF SdPhase, SdCount, Coming, sd, sqr, MmEnd, AtSlotEnd, AfterWhile, mm
  <1>7. MmEnd[1] = "beat" => MmEnd[2].dir = tr.dir
    BY <1>4, EndPhase DEF HdrOf
  <1>8. Source' /\ Collected' /\ Released'
    BY <1>1, <1>2, <1>3, <1>4, <1>5, <1>6, <1>7
    DEF DataInv, Source, Collected, Released, Moved, Late, sd, sqr, Dir
  <1>9. WaitsCounted' /\ UnknownOnce'
    BY <1>1, <1>6 DEF DataInv, WaitsCounted, UnknownOnce, sd, sqr, mm
  <1>10. Sampled'
    <2>1. SUFFICES ASSUME tr.dir = "read" PROVE Sampled'
      BY <1>3 DEF Sampled
    <2>2. ReadBeat(mdi, bus.data)
      BY <2>1 DEF NextBeat, WriteBeat
    <2>3. bus.data = rsp.data[mdi - 1] /\ rsp.data[mdi - 1] \in Byte
      <3>1. rsp \in Packet
        BY <1>5 DEF SdPhase, TypeInv, TypeOK, SqrType, HoldsPacket, SDType
      <3> QED BY <1>1, <1>2, <2>1, <3>1, PacketFields DEF DataInv, Sampled
    <2>4. tr'.data = [tr.data EXCEPT ![mdi] = rsp.data[mdi - 1]]
      BY <1>1, <2>2, <2>3, ConstantsAssumption DEF ReadBeat, AsBit, Packet
    <2>5. \A k \in 1 .. mdi' - 1 : tr'.data[k] = rsp.data[k - 1]
      <3>1. SUFFICES ASSUME NEW k \in 1 .. mdi PROVE tr'.data[k] = rsp.data[k - 1]
        BY <1>1, <1>2
      <3>2. k \in Lane
        BY <1>2 DEF Lane
      <3>3. CASE k = mdi
        BY <1>2, <2>4, <3>3
      <3>4. CASE k # mdi
        <4>1. tr.data[k] = rsp.data[k - 1]
          BY <1>1, <1>2, <2>1, <3>4 DEF DataInv, Sampled
        <4> QED BY <1>2, <2>4, <3>2, <3>4, <4>1
      <3> QED BY <3>3, <3>4
    <2>6. tr'.data[0] = tr.data[0]
      <3>1. 0 \in Lane /\ mdi # 0
        BY <1>2 DEF Lane
      <3> QED BY <1>2, <2>4, <3>1
    <2> QED BY <1>1, <1>3, <1>5, <1>6, <2>1, <2>5, <2>6 DEF DataInv, Sampled, sqr
  <1>11. BeforeFirstByte' /\ Served'
    BY <1>1 DEF DataInv, BeforeFirstByte, Served, MemoryForgets, sqr
  <1> QED BY <1>8, <1>9, <1>10, <1>11 DEF DataInv

\* The master ends: a write releases the bus, a read hands its item back.
LEMMA DataMasterEnds ==
  ASSUME TypeInv, InStep, DataInv, MasterDrives, EndWrite \/ ItemDone
  PROVE  DataInv'
  <1>1. /\ UNCHANGED <<sqr, mm, sm, sd, m_mem, bus, was>>
        /\ "mdrv" \in due /\ "mdrv" \notin due' /\ tr \in Packet
        /\ \A p \in {"sdrv", "mmon"} : p \in due' <=> p \in due
    BY DEF MasterDrives, EndWrite, ItemDone, Edge, TypeInv, HoldsPacket
  <1>2. tr.size \in Nat
    BY <1>1, PacketFields
  <1>3. SdPhase' = SdPhase /\ MmEnd' = MmEnd /\ Coming("sdrv")' = Coming("sdrv")
    BY <1>1 DEF SdPhase, SdCount, Coming, sd, sqr, MmEnd, AtSlotEnd, AfterWhile, mm
  <1>4. WaitsCounted' /\ UnknownOnce' /\ Served'
    BY <1>1, <1>3 DEF DataInv, WaitsCounted, UnknownOnce, Served, MemoryForgets, sd, sqr, mm
  <1>5. CASE EndWrite
    <2>1. /\ mdpc = "beat" /\ mdpc' = "tail" /\ mdi = tr.size /\ tr.dir = "write" /\ tr' = tr
          /\ nba'.mdata = Z
      BY <1>5, NbaFields DEF EndWrite, TypeInv, TypeOK
    <2>2. MdPhase = "tail" /\ MdPhase' = "tail"
      BY <1>1, <1>2, <2>1 DEF MdPhase, MdCount, Coming
    <2>3. NextData' = Z
      BY <2>1, KeepAssumption DEF NextData
    <2>4. Source' /\ Collected' /\ Released'
      BY <1>1, <1>3, <2>1, <2>2, <2>3
      DEF DataInv, Source, Collected, Released, Moved, Late, sd, sqr
    <2>5. BeforeFirstByte' /\ Sampled'
      BY <2>1 DEF BeforeFirstByte, Sampled
    <2> QED BY <1>4, <2>4, <2>5 DEF DataInv
  <1>6. CASE ItemDone
    <2>1. mdpc' = "get" /\ tr' = NoItem /\ UNCHANGED nba
      BY <1>6 DEF ItemDone
    <2>2. MdPhase = "free" /\ MdPhase' = "free"
      BY <1>1, <1>2, <1>6, <2>1 DEF ItemDone, MdPhase, MdCount, Coming
    <2>3. MmEnd[1] = "beat" => MmEnd[2].dir = "read"
      BY <2>2 DEF DataInv, Source, HdrOf
    <2>4. Source' /\ Collected' /\ Released'
      BY <1>1, <1>3, <2>1, <2>2, <2>3
      DEF DataInv, Source, Collected, Released, Moved, Late, NextData, sd, sqr
    <2>5. BeforeFirstByte' /\ Sampled'
      BY <2>1 DEF BeforeFirstByte, Sampled
    <2> QED BY <1>4, <2>4, <2>5 DEF DataInv
  <1> QED BY <1>5, <1>6

\* A step of the master driver.
LEMMA DataMaster == TypeInv /\ InStep /\ DataInv /\ MasterDrives => DataInv'
  <1> SUFFICES ASSUME TypeInv, InStep, DataInv, MasterDrives PROVE DataInv'
    OBVIOUS
  <1> QED BY DataAddress, DataFirstBeat, DataNextBeat, DataMasterEnds DEF MasterDrives, MDStep

\* The NBA region: a monitor that found ubus_wait unknown enters its data loop.
LEMMA DataCommit == TypeInv /\ InStep /\ DataInv /\ Commit => DataInv'
  <1> SUFFICES ASSUME TypeInv, InStep, DataInv, Commit PROVE DataInv'
    OBVIOUS
  <1>1. /\ UNCHANGED <<md, mm, sm, sd, sqr, due, m_mem>> /\ due = {} /\ nba' = NoNba
        /\ was' = bus.data /\ ~MDRunnable /\ ~MMRunnable
    BY DEF Commit, CommitNba, ActiveDone
  <1>2. MdPhase' = MdPhase /\ SdPhase' = SdPhase /\ Coming("sdrv")' = Coming("sdrv")
    BY <1>1, PhasesKept DEF sqr, Coming
  <1>3. bus'.wait = Updated(bus.wait, nba.wait) /\ bus'.data = NextData
    BY NbaFields DEF Commit, CommitNba, Settled, NextData, InStep, DataDrivers, NoContention
  <1>4. /\ nba'.wait = Keep /\ nba'.mdata = Keep /\ nba'.sdata = Keep
        /\ NextData' = NextData
    BY <1>1, <1>3 DEF NoNba, NextData
  <1>5. MmEnd = <<mmpc, mmreq, mmi>>
    BY <1>1 DEF MmEnd, AtSlotEnd, MMRunnable
  <1>6. \/ MmEnd' = MmEnd
        \/ /\ mmpc = "wait0" /\ MmEnd'[1] = "beat" /\ MmEnd'[3] = 0
           /\ MmEnd'[2].wait_state = 0 /\ MdPhase \in {"wait", "beat"}
    <2>1. CASE mmpc = "wait0" /\ bus'.wait = 0
      <3>1. MmEnd' = <<"beat", mmreq, mmi>>
        BY <1>1, <2>1 DEF MmEnd, AtSlotEnd, mm
      <3>2. mmi = 0 /\ mmreq.wait_state = 0
        BY <2>1 DEF InStep, MonitorOK
      <3>3. Busy(mmpc, mmreq, mmi, "mmon") /\ Seen(mmpc, mmreq, mmi, "mmon") = 0
        BY <2>1 DEF Busy, Seen
      <3>4. 1 <= mmreq.size /\ mmreq.size \in Nat
        BY <2>1, PacketFields DEF TypeInv, HoldsPacket
      <3>5. MdPhase \in {"wait", "beat"}
        BY <3>3, <3>4, MdPhases DEF InStep, MonitorInStep, TypeInv, TypeOK
      <3> QED BY <2>1, <3>1, <3>2, <3>5
    <2>2. CASE ~(mmpc = "wait0" /\ bus'.wait = 0)
      BY <1>1, <1>5, <2>2 DEF MmEnd, AtSlotEnd, mm
    <2> QED BY <2>1, <2>2
  <1>7. Source' /\ Collected'
    <2>1. CASE MmEnd' = MmEnd
      BY <1>1, <1>2, <2>1 DEF DataInv, Source, Collected, Moved, Late, md, sqr
    <2>2. CASE MmEnd'[3] = 0 /\ MdPhase \in {"wait", "beat"}
      BY <1>2, <2>2 DEF Source, Collected
    <2> QED BY <1>6, <2>1, <2>2
  <1>8. Released'
    BY <1>1, <1>4 DEF DataInv, Released, md, sd, sqr
  <1>9. WaitsCounted'
    <2>1. CASE MmEnd' = MmEnd
      BY <1>1, <1>2, <2>1 DEF DataInv, WaitsCounted, sd, sqr
    <2>2. CASE MmEnd'[1] = "beat" /\ MmEnd'[2].wait_state = 0
      BY <1>1, <1>2, <2>2 DEF DataInv, WaitsCounted, sd, sqr
    <2> QED BY <1>6, <2>1, <2>2
  <1>10. UnknownOnce'
    BY <1>1, <1>3, NbaFields, KeepAssumption
    DEF DataInv, UnknownOnce, Updated, mm, TypeInv, TypeOK
  <1>11. BeforeFirstByte'
    <2>1. SUFFICES ASSUME tr.dir = "read", tr # NoItem PROVE BeforeFirstByte'
      BY <1>1 DEF BeforeFirstByte, md
    <2>2. CASE mdpc = "ctrl"
      BY <1>1, <1>4, <2>1, <2>2 DEF DataInv, BeforeFirstByte, md
    <2>3. CASE mdpc = "wait"
      <3>1. bus.wait # 0 /\ nba.mdata = Keep /\ MdPhase = "wait"
        BY <1>1, <2>1, <2>3 DEF MDRunnable, InStep, DataDrivers, MdPhase
      <3>2. bus'.wait = 0 <=> sdpc = "beat"
        BY <1>3 DEF InStep, Signals
      <3>3. sdpc = "get" => bus'.data = Z
        BY <1>3, <2>1, <2>3, <3>1 DEF DataInv, BeforeFirstByte, NextData
      <3>4. sdpc = "wait" => bus'.data = rsp.data[0]
        BY <1>3, <2>1, <2>3 DEF DataInv, BeforeFirstByte
      <3>5. sdpc = "beat" => /\ bus'.data = rsp.data[0] /\ bus.data \in {Z, rsp.data[0]}
                             /\ rsp.wait_state > 0 => bus.data = rsp.data[0]
        <4>1. SUFFICES ASSUME sdpc = "beat" PROVE bus'.data = rsp.data[0]
          BY <2>1, <2>3, <3>1 DEF DataInv, BeforeFirstByte
        <4>2. rsp \in Packet /\ sdi \in Nat
          BY <4>1 DEF TypeInv, TypeOK, SDType, HoldsPacket
        <4>3. SdCount = sdi /\ SdPhase = "beat"
          BY <1>1, <4>1, <4>2, PacketFields DEF SdCount, Coming, SdPhase, InStep, Counters
        <4>4. sdi = 1 /\ HdrOf(rsp) = HdrOf(tr)
          BY <3>1, <4>1, <4>3 DEF InStep, SlaveInStep
        <4>5. rsp.dir = "read"
          BY <2>1, <4>4 DEF HdrOf
        <4> QED BY <1>3, <4>1, <4>4, <4>5 DEF InStep, Signals
      <3> QED BY <1>1, <1>3, <1>4, <2>1, <2>3, <3>2, <3>3, <3>4, <3>5
              DEF BeforeFirstByte, md, sd, sqr
    <2>4. CASE mdpc \notin {"ctrl", "wait"}
      BY <1>1, <2>4 DEF BeforeFirstByte, md
    <2> QED BY <2>2, <2>3, <2>4
  <1>12. Sampled' /\ Served'
    BY <1>1, <1>2 DEF DataInv, Sampled, Served, MemoryForgets, md, sqr
  <1> QED BY <1>7, <1>8, <1>9, <1>10, <1>11, <1>12 DEF DataInv

-----------------------------------------------------------------------------
(* The clock edge *)

\* An edge that finds ubus_wait low: the byte both drivers are at is on the
\* bus, and a monitor is one or two beats behind it.
LEMMA RestInLoop ==
  ASSUME TypeInv, InStep, AtRest, bus.wait = 0
  PROVE  /\ mdpc = "beat" /\ sdpc = "beat" /\ mdi = sdi /\ tr \in Packet /\ rsp \in Packet
         /\ mdi \in 1 .. tr.size /\ HdrOf(rsp) = HdrOf(tr)
         /\ Seen(mmpc, mmreq, mmi, "mmon") + 1 = mdi
         /\ mmpc \in {"wait1", "beat"} /\ HdrOf(mmreq) = HdrOf(tr)
         /\ bus.data = Moved(tr.dir)[mdi - 1] /\ AsBit(bus.data) = bus.data
  <1>1. /\ mdpc = "beat" /\ sdpc = "beat" /\ mdi = sdi /\ HdrOf(rsp) = HdrOf(tr)
        /\ bus.data = IF tr.dir = "write" THEN tr.data[mdi - 1] ELSE rsp.data[mdi - 1]
    BY LockStepHolds DEF LockStep
  <1>2. /\ tr \in Packet /\ rsp \in Packet /\ mdi \in 1 .. tr.size /\ due = {}
        /\ ~MMRunnable
    BY <1>1 DEF TypeInv, HoldsPacket, InStep, Counters, AtRest, ActiveDone
  <1>3. tr.size \in Nat /\ tr.size <= MaxSize /\ MaxSize \in Nat
        /\ tr.data \in [Lane -> Byte] /\ rsp.data \in [Lane -> Byte]
    BY <1>2, PacketFields
  <1>4. MdPhase = "beat" /\ MdCount = mdi
    BY <1>1, <1>2, <1>3 DEF MdPhase, MdCount, Coming
  <1>5. /\ Busy(mmpc, mmreq, mmi, "mmon") /\ HdrOf(mmreq) = HdrOf(tr)
        /\ Seen(mmpc, mmreq, mmi, "mmon") + 1 = mdi
    BY <1>4 DEF InStep, MonitorInStep
  <1>6. mmpc \in {"wait1", "beat"}
    BY <1>2, <1>5 DEF Busy, MMRunnable, TypeInv, TypeOK, MMType
  <1>7. bus.data \in Byte
    <2>1. mdi - 1 \in Lane
      BY <1>2, <1>3 DEF Lane
    <2> QED BY <1>1, <1>3, <2>1
  <1> QED BY <1>1, <1>2, <1>5, <1>6, <1>7, ConstantsAssumption DEF Moved, AsBit

\* The phases after an edge that finds ubus_wait low.
LEMMA EdgeInLoop ==
  ASSUME TypeInv, InStep, Posedge, bus.wait = 0
  PROVE  /\ MdPhase' \in {"beat", "tail", "free"}
         /\ MdPhase' = "tail" => tr.dir = "write"
         /\ MdPhase' = "free" => SdPhase' = "tail" /\ rsp.dir = "read"
         /\ tr.dir = "read" => SdPhase' \in {"beat", "tail"}
         /\ SdPhase = "beat"
  <1>1. AtRest /\ UNCHANGED <<md, sd, sqr>> /\ due = {} /\ due' = AtClock
    BY DEF Posedge, AtRest, ActiveDone
  <1>2. /\ mdpc = "beat" /\ sdpc = "beat" /\ mdi = sdi /\ tr \in Packet /\ rsp \in Packet
        /\ mdi \in 1 .. tr.size /\ HdrOf(rsp) = HdrOf(tr)
    BY <1>1, RestInLoop
  <1>3. tr.size \in Nat /\ tr.dir \in Dir /\ rsp.dir = tr.dir /\ rsp.size = tr.size
    BY <1>2, PacketFields DEF HdrOf
  <1>4. "mdrv" \in due' /\ "sdrv" \in due'
    BY <1>1, <1>2 DEF AtClock, Procs, MDAtClock, SDAtClock
  <1>5. MdPhase' = IF mdi + 1 <= tr.size THEN "beat"
                   ELSE IF tr.dir = "write" THEN "tail" ELSE "free"
    BY <1>1, <1>2, <1>4 DEF MdPhase, MdCount, Coming, md
  <1>6. SdPhase' = IF sdi + 1 <= rsp.size THEN "beat"
                   ELSE IF rsp.dir = "read" THEN "tail" ELSE "free"
    BY <1>1, <1>2, <1>4 DEF SdPhase, SdCount, Coming, sd, sqr
  <1>7. SdPhase = "beat"
    BY <1>1, <1>2, <1>3 DEF SdPhase, SdCount, Coming
  <1> QED BY <1>2, <1>3, <1>5, <1>6, <1>7 DEF Dir

\* A monitor that is still waiting has the slave in its wait cycles or, at its
\* first beat, with the response's wait cycles behind it.
LEMMA RestInWait ==
  ASSUME TypeInv, InStep, DataInv, AtRest, mmpc = "wait1"
  PROVE  /\ bus.wait = 1 => /\ sdpc = "wait" /\ mmreq.wait_state = sdi - 1
                            /\ sdi \in 1 .. rsp.wait_state
         /\ bus.wait = 0 => mmreq.wait_state = rsp.wait_state
         /\ bus.wait \in {0, 1}
  <1>1. due = {} /\ nba = NoNba /\ ~SSRunnable /\ ~SDRunnable
    BY DEF AtRest, ActiveDone
  <1>2. MmEnd = <<mmpc, mmreq, mmi>>
    BY <1>1 DEF MmEnd, AtSlotEnd
  <1>3. bus.wait \in {0, 1}
    BY NbaFields DEF InStep, MonitorOK, TypeInv, TypeOK
  <1>4. CASE bus.wait = 0
    <2>1. SdPhase = "beat"
      <3>1. sdpc = "beat" /\ rsp \in Packet /\ sdi \in 1 .. rsp.size
        BY <1>4, RestInLoop DEF HdrOf
      <3> QED BY <1>1, <3>1, PacketFields DEF SdPhase, SdCount, Coming
    <2> QED BY <1>2, <1>3, <1>4, <2>1 DEF DataInv, WaitsCounted
  <1>5. CASE bus.wait = 1
    <2>1. sdpc # "beat" /\ mdpc # "beat"
      <3>1. sdpc # "beat"
        BY <1>1, <1>5 DEF InStep, Signals, NoNba, Updated
      <3> QED BY <3>1, RestInBeat
    <2>2. /\ Busy(mmpc, mmreq, mmi, "mmon") /\ Seen(mmpc, mmreq, mmi, "mmon") = 0
          /\ 1 <= mmreq.size /\ mmreq.size \in Nat
      BY <1>1, PacketFields DEF Busy, Seen, TypeInv, HoldsPacket
    <2>3. MdPhase = "wait"
      <3>1. MdPhase # "beat"
        BY <1>1, <2>1 DEF MdPhase, TypeInv, TypeOK, MDType
      <3> QED BY <2>2, <3>1, MdPhases DEF InStep, MonitorInStep, TypeInv, TypeOK
    <2>4. SdPhase = "wait" /\ sdpc = "wait"
      <3>1. rsp # NoItem /\ sdpc # "get"
        BY <1>1, <2>3 DEF InStep, SlaveInStep, SSRunnable, SDRunnable, Detecting
      <3>2. SdPhase \in {"wait", "beat"}
        BY <1>1, <2>3, <3>1 DEF InStep, SlaveInStep, SSRunnable, SdPhase, Detecting,
                                    TypeInv, TypeOK, SDType
      <3> QED BY <1>1, <2>1, <3>1, <3>2 DEF SdPhase, TypeInv, TypeOK, SDType
    <2>5. sdi \in 1 .. rsp.wait_state /\ mmreq.wait_state = sdi + Coming("sdrv") - 1
      BY <1>2, <2>4 DEF DataInv, WaitsCounted
    <2>6. Coming("sdrv") = 0
      BY <1>1 DEF Coming
    <2> QED BY <1>5, <2>4, <2>5, <2>6
  <1> QED BY <1>3, <1>4, <1>5

\* What a monitor is after an edge: waiting with one more clock counted, or in
\* its data loop with the byte of the bus stored behind those it had.
LEMMA EdgeCollects ==
  ASSUME TypeInv, InStep, DataInv, Posedge
  PROVE  /\ Collected'
         /\ MmEnd'[1] = "beat" =>
              /\ bus.wait = 0 /\ HdrOf(MmEnd'[2]) = HdrOf(tr)
              /\ MmEnd'[2].wait_state \in {0, rsp.wait_state + 1}
         /\ MmEnd'[1] = "wait1" =>
              \/ MmEnd'[2].wait_state = 0 /\ SdPhase' = "free"
              \/ /\ sdpc = "wait" /\ MmEnd'[2].wait_state = sdi
                 /\ sdi \in 1 .. rsp.wait_state
  <1>1. /\ AtRest /\ due = {} /\ due' = AtClock /\ ~MMRunnable
        /\ UNCHANGED <<bus, md, mm, sd, sqr>>
    BY DEF Posedge, AtRest, ActiveDone
  <1>2. "mmon" \in due' <=> mmpc \in {"idle", "wait1", "beat"}
    BY <1>1 DEF AtClock, Procs, MMAtClock
  <1>3. MmEnd = <<mmpc, mmreq, mmi>>
    BY <1>1 DEF MmEnd, AtSlotEnd, MMRunnable
  <1>4. CASE mmpc = "idle"
    <2>1. CASE bus.hdr # NoHdr
      <3>1. MmEnd' = <<AfterWhile, NewReq(bus.hdr), 0>>
        BY <1>1, <1>2, <1>4, <2>1 DEF MmEnd, AtSlotEnd, AfterWhile, mm
      <3>2. bus.wait # 0 /\ sdpc = "get" /\ rsp = NoItem
        BY <1>1, <2>1, NoRequestMissedHolds DEF NoRequestMissed, InStep, HeaderVisible
      <3>3. SdPhase' = "free" /\ AfterWhile # "beat" /\ NewReq(bus.hdr).wait_state = 0
        BY <1>1, <3>2 DEF SdPhase, sd, sqr, AfterWhile, NewReq
      <3> QED BY <3>1, <3>3 DEF Collected
    <2>2. CASE bus.hdr = NoHdr
      <3>1. MmEnd'[1] = "idle"
        BY <1>1, <1>4, <2>2 DEF MmEnd, AtSlotEnd, mm
      <3> QED BY <3>1 DEF Collected
    <2> QED BY <2>1, <2>2
  <1>5. CASE mmpc = "wait1"
    <2>1. MmEnd' = <<AfterWhile, [mmreq EXCEPT !.wait_state = @ + 1], mmi>>
      BY <1>1, <1>2, <1>5 DEF MmEnd, AtSlotEnd, AfterWhile, mm
    <2>2. mmreq \in Packet /\ mmi = 0 /\ mmreq.wait_state \in Nat
      BY <1>5, PacketFields DEF TypeInv, HoldsPacket, InStep, MonitorOK
    <2>3. MmEnd'[2].wait_state = mmreq.wait_state + 1 /\ HdrOf(MmEnd'[2]) = HdrOf(mmreq)
      BY <2>1, <2>2 DEF Packet, HdrOf
    <2>4. Collected'
      BY <2>1, <2>2 DEF Collected
    <2>5. CASE bus.wait = 1
      <3>1. sdpc = "wait" /\ mmreq.wait_state = sdi - 1 /\ sdi \in 1 .. rsp.wait_state
        BY <1>1, <1>5, <2>5, RestInWait
      <3>2. MmEnd'[1] = "wait1" /\ sdi \in Nat
        BY <2>1, <2>5 DEF AfterWhile, TypeInv, TypeOK, SDType
      <3> QED BY <2>2, <2>3, <2>4, <3>1, <3>2
    <2>6. CASE bus.wait = 0
      <3>1. mmreq.wait_state = rsp.wait_state /\ HdrOf(mmreq) = HdrOf(tr)
        BY <1>1, <1>5, <2>6, RestInWait, RestInLoop
      <3>2. MmEnd'[1] = "beat"
        BY <2>1, <2>6 DEF AfterWhile
      <3> QED BY <2>3, <2>4, <2>6, <3>1, <3>2
    <2> QED BY <1>1, <1>5, <2>5, <2>6, RestInWait
  <1>6. CASE mmpc = "beat"
    <2>1. mmreq \in Packet /\ mmi \in 0 .. mmreq.size - 1
      BY <1>6 DEF TypeInv, HoldsPacket, InStep, MonitorOK
    <2>2. mmreq.size \in Nat /\ mmreq.size <= MaxSize /\ MaxSize \in Nat /\ mmi \in Lane
          /\ mmreq.data \in [Lane -> Byte]
      BY <2>1, PacketFields DEF Lane
    <2>3. CASE mmi < mmreq.size - 1
      <3>1. MmEnd' = <<"beat", [mmreq EXCEPT !.data[mmi] = AsBit(bus.data)], mmi + 1>>
        BY <1>1, <1>2, <1>6, <2>3 DEF MmEnd, AtSlotEnd, mm
      <3>2. bus.wait = 0
        <4>1. MdPhase \notin {"free", "tail"}
          BY <1>3, <1>6, <2>1, <2>2, <2>3, EndSeen, EndPhase DEF HdrOf
        <4>2. MdPhase \in {"wait", "beat"}
          BY <1>3, <1>6, <4>1, EndPhase
        <4>3. CASE MdPhase = "beat"
          <5>1. mdpc = "beat"
            BY <1>1, <4>3 DEF MdPhase, TypeInv, TypeOK, MDType
          <5> QED BY <1>1, <5>1, NoBeatUncountedHolds DEF NoBeatUncounted
        <4>4. CASE MdPhase = "wait"
          <5>1. SdPhase = "beat"
            BY <1>1, <1>6, <4>4 DEF InStep, MonitorInStep, Detecting
          <5>2. sdpc = "beat"
            BY <1>1, <5>1 DEF SdPhase, TypeInv, TypeOK, SDType
          <5>3. mdpc = "beat"
            BY <1>1, <5>2, RestInBeat
          <5> QED BY <1>1, <5>3, NoBeatUncountedHolds DEF NoBeatUncounted
        <4> QED BY <4>2, <4>3, <4>4
      <3>3. /\ HdrOf(mmreq) = HdrOf(tr) /\ Seen(mmpc, mmreq, mmi, "mmon") + 1 = mdi
            /\ bus.data = Moved(tr.dir)[mdi - 1] /\ AsBit(bus.data) = bus.data /\ mdi \in Nat
        BY <1>1, <3>2, RestInLoop DEF TypeInv, TypeOK, MDType
      <3>4. Late(mmreq) \in {0, 1} /\ mdi - 1 = mmi + Late(mmreq) /\ mmreq.dir = tr.dir
        BY <1>1, <1>6, <2>1, <3>3 DEF Seen, Coming, Late, HdrOf
      <3>5. /\ MmEnd'[2].data = [mmreq.data EXCEPT ![mmi] = bus.data]
            /\ MmEnd'[2].wait_state = mmreq.wait_state /\ MmEnd'[2].dir = mmreq.dir
            /\ HdrOf(MmEnd'[2]) = HdrOf(mmreq) /\ Late(MmEnd'[2]) = Late(mmreq)
        BY <2>1, <3>1, <3>3 DEF Packet, HdrOf, Late
      <3>6. Moved(mmreq.dir)' = Moved(mmreq.dir)
        BY <1>1 DEF Moved, md, mm, sqr
      <3>7. \A k \in 0 .. mmi : MmEnd'[2].data[k] = Moved(mmreq.dir)[k + Late(mmreq)]
        <4>1. SUFFICES ASSUME NEW k \in 0 .. mmi
                       PROVE  MmEnd'[2].data[k] = Moved(mmreq.dir)[k + Late(mmreq)]
          OBVIOUS
        <4>2. k \in Lane
          BY <2>1, <2>2 DEF Lane
        <4>3. CASE k = mmi
          BY <2>2, <3>3, <3>4, <3>5, <4>3
        <4>4. CASE k # mmi
          <5>1. mmreq.data[k] = Moved(mmreq.dir)[k + Late(mmreq)]
            <6>1. k \in 0 .. mmi - 1
              BY <2>1, <4>4
            <6> QED BY <1>3, <1>6, <6>1 DEF DataInv, Collected
          <5> QED BY <2>2, <3>5, <4>2, <4>4, <5>1
        <4> QED BY <4>3, <4>4
      <3>8. Collected'
        <4>1. MmEnd'[3] - 1 = mmi /\ MmEnd'[3] \in Nat
          BY <2>1, <3>1
        <4>2. Moved(MmEnd[2].dir)' = Moved(mmreq.dir) /\ Late(MmEnd[2])' = Late(mmreq)
          BY <1>1, <3>5 DEF Moved, Late, md, sqr
        <4> QED BY <3>7, <4>1, <4>2 DEF Collected
      <3>9. mmreq.wait_state \in {0, rsp.wait_state + 1}
        <4>1. SdPhase = "beat"
          BY <3>2, EdgeInLoop
        <4> QED BY <1>3, <1>6, <4>1 DEF DataInv, WaitsCounted
      <3> QED BY <3>1, <3>2, <3>3, <3>5, <3>8, <3>9
    <2>4. CASE ~(mmi < mmreq.size - 1)
      <3>1. MmEnd'[1] = "idle"
        BY <1>1, <1>2, <1>6, <2>4 DEF MmEnd, AtSlotEnd, mm
      <3> QED BY <3>1 DEF Collected
    <2> QED BY <2>3, <2>4
  <1>7. CASE mmpc = "wait0"
    <2>1. MmEnd'[1] = "wait0"
      BY <1>1, <1>2, <1>7 DEF MmEnd, AtSlotEnd, MMRunnable, mm
    <2> QED BY <2>1 DEF Collected
  <1> QED BY <1>4, <1>5, <1>6, <1>7 DEF TypeInv, TypeOK, MMType

\* The clock edge itself changes nothing but what is about to happen.
LEMMA DataPosedge == TypeInv /\ InStep /\ DataInv /\ Posedge => DataInv'
  <1> SUFFICES ASSUME TypeInv, InStep, DataInv, Posedge PROVE DataInv'
    OBVIOUS
  <1>1. /\ AtRest /\ due = {} /\ due' = AtClock /\ nba = NoNba
        /\ UNCHANGED <<bus, nba, was, md, mm, sm, sd, sqr, m_mem>>
    BY DEF Posedge, AtRest, ActiveDone
  <1>2. NextData = bus.data /\ NextData' = NextData
    BY <1>1 DEF NextData, NoNba
  <1>3. Source'
    <2>1. SUFFICES ASSUME MmEnd'[1] = "beat"
                   PROVE  /\ MdPhase' = "tail" => tr.dir = "write" /\ HdrOf(MmEnd'[2]) = HdrOf(tr)
                          /\ MdPhase' = "free" => /\ SdPhase' = "tail" /\ rsp.dir = "read"
                                                  /\ HdrOf(MmEnd'[2]) = HdrOf(rsp)
      BY <1>1 DEF Source, md, sqr
    <2>2. bus.wait = 0 /\ HdrOf(MmEnd'[2]) = HdrOf(tr)
      BY <2>1, EdgeCollects
    <2>3. HdrOf(rsp) = HdrOf(tr)
      BY <1>1, <2>2, RestInLoop
    <2> QED BY <2>2, <2>3, EdgeInLoop
  <1>4. Collected'
    BY EdgeCollects
  <1>5. Released' /\ UnknownOnce' /\ Served'
    BY <1>1, <1>2 DEF DataInv, Released, UnknownOnce, Served, MemoryForgets, md, mm, sd, sqr
  <1>6. WaitsCounted'
    <2>1. sdpc' = "wait" => sdi' \in 1 .. rsp'.wait_state
      BY <1>1 DEF DataInv, WaitsCounted, sd, sqr
    <2>2. ASSUME MmEnd'[1] = "wait1"
          PROVE  MmEnd'[2].wait_state = CASE SdPhase' = "wait" -> sdi' + Coming("sdrv")' - 1
                                          [] SdPhase' = "beat" -> rsp'.wait_state
                                          [] OTHER             -> 0
      <3>1. CASE MmEnd'[2].wait_state = 0 /\ SdPhase' = "free"
        BY <3>1
      <3>2. CASE /\ sdpc = "wait" /\ MmEnd'[2].wait_state = sdi
                 /\ sdi \in 1 .. rsp.wait_state
        <4>1. "sdrv" \in due' /\ rsp.wait_state \in Nat /\ sdi \in Nat
          BY <1>1, <3>2, PacketFields
          DEF AtClock, Procs, SDAtClock, TypeInv, TypeOK, SDType, HoldsPacket
        <4>2. SdPhase' = (IF sdi >= rsp.wait_state THEN "beat" ELSE "wait")
              /\ Coming("sdrv")' = 1
          BY <1>1, <3>2, <4>1 DEF SdPhase, Coming, sd, sqr
        <4> QED BY <1>1, <3>2, <4>1, <4>2 DEF sd, sqr
      <3> QED BY <2>2, <3>1, <3>2, EdgeCollects
    <2>3. MmEnd'[1] = "beat" => MmEnd'[2].wait_state \in {0, rsp'.wait_state + 1}
      BY <1>1, EdgeCollects DEF sqr
    <2> QED BY <2>1, <2>2, <2>3 DEF WaitsCounted
  <1>7. BeforeFirstByte'
    <2>1. mdpc = "ctrl" => sdpc = "get"
      <3>1. SUFFICES ASSUME mdpc = "ctrl" PROVE sdpc = "get"
        OBVIOUS
      <3>2. SdPhase = "free"
        BY <1>1, <3>1 DEF MdPhase, InStep, SlaveInStep
      <3> QED BY <1>1, <3>2, PacketFields
              DEF SdPhase, SdCount, Coming, InStep, Counters, TypeInv, TypeOK, SDType, HoldsPacket
    <2>2. ASSUME tr # NoItem, tr.dir = "read", mdpc = "wait", sdpc = "wait"
          PROVE  bus.data = rsp.data[0]
      BY <1>2, <2>2 DEF DataInv, BeforeFirstByte
    <2> QED BY <1>1, <1>2, <2>1, <2>2 DEF DataInv, BeforeFirstByte, md, sd, sqr
  <1>8. Sampled'
    <2>1. SUFFICES ASSUME mdpc = "beat", tr.dir = "read" PROVE Sampled'
      BY <1>1 DEF Sampled, md
    <2>2. bus.wait = 0
      BY <1>1, <2>1, NoBeatUncountedHolds DEF NoBeatUncounted
    <2>3. bus.data = rsp.data[mdi - 1]
      BY <1>1, <2>1, <2>2, RestInLoop DEF Moved
    <2>4. SdPhase' \in {"beat", "tail"}
      BY <2>1, <2>2, EdgeInLoop
    <2> QED BY <1>1, <2>1, <2>3, <2>4 DEF DataInv, Sampled, md, sqr
  <1> QED BY <1>3, <1>4, <1>5, <1>6, <1>7, <1>8 DEF DataInv

-----------------------------------------------------------------------------
(* The bytes are followed, and what the properties say of them *)

\* Nothing has been sent at the start.
LEMMA DataInit == Init => DataInv
  <1> SUFFICES ASSUME Init PROVE DataInv
    OBVIOUS
  <1> USE DEF Init, WiresInit, SqrInit, MDInit, MMInit, SDInit, SSInit
  <1>1. MmEnd[1] = "idle"
    BY DEF MmEnd, AtSlotEnd
  <1>2. Source /\ Collected /\ WaitsCounted
    BY <1>1 DEF Source, Collected, WaitsCounted
  <1>3. Released /\ UnknownOnce /\ BeforeFirstByte /\ Sampled
    BY DEF Released, UnknownOnce, BeforeFirstByte, Sampled
  <1>4. Served
    BY DEF Served, MemoryForgets
  <1> QED BY <1>2, <1>3, <1>4 DEF DataInv

\* Every step of the bus keeps the bytes where the invariant says they are.
LEMMA DataNext == TypeInv /\ InStep /\ DataInv /\ [Next]_vars => DataInv'
  <1> SUFFICES ASSUME TypeInv, InStep, DataInv, [Next]_vars PROVE DataInv'
    OBVIOUS
  <1>1. CASE UNCHANGED vars
    <2>1. /\ UNCHANGED <<md, sd, rsp, bus, nba, was, mm, request_fifo, m_mem>>
          /\ due' = due
      BY <1>1 DEF vars, wires, sqr
    <2>2. MmEnd' = MmEnd
      BY <2>1 DEF MmEnd, AtSlotEnd, AfterWhile, mm
    <2>3. /\ Source' /\ Collected' /\ Released' /\ WaitsCounted'
          /\ BeforeFirstByte' /\ Sampled'
      BY <2>1, <2>2, DriversFrame
    <2> QED BY <2>1, <2>3 DEF DataInv, UnknownOnce, Served, MemoryForgets, mm
  <1> QED BY <1>1, DataPosedge, DataCommit, DataRequest, DataMaster, DataMasterMonitor,
             DataSlaveMonitor, DataServe, DataSlaveDriver DEF Next, Step, Silent

\* In every reachable state the bytes of the transfer are where DataInv says.
THEOREM BytesAreFollowed == Spec => []DataInv
  <1>1. Spec => []TypeInv
    BY TypeCorrect DEF TypeInv
  <1> QED BY <1>1, AgentsInStep, DataInit, DataNext, PTL DEF Spec

\* What a monitor has collected when it is about to sample the last byte.
LEMMA PublishedShiftedHolds == TypeInv /\ InStep /\ DataInv => PublishedShifted
  <1> SUFFICES ASSUME TypeInv, InStep, DataInv, AtRest, mmpc = "beat", mmi = mmreq.size - 1,
                      NEW k \in 0 .. mmreq.size - 1
               PROVE  MMSampled.data[k] = IF k + Late(mmreq) < mmreq.size
                                            THEN Moved(mmreq.dir)[k + Late(mmreq)] ELSE 0
    BY DEF PublishedShifted
  <1>1. due = {} /\ nba = NoNba /\ MmEnd = <<mmpc, mmreq, mmi>>
    BY DEF AtRest, ActiveDone, MmEnd, AtSlotEnd
  <1>2. mmreq \in Packet /\ mmi \in 0 .. mmreq.size - 1
    BY DEF TypeInv, HoldsPacket, InStep, MonitorOK
  <1>3. /\ mmreq.size \in Nat /\ mmi \in Lane /\ k \in Lane
        /\ mmreq.data \in [Lane -> Byte]
    BY <1>2, PacketFields DEF Lane
  <1>4. MMSampled.data = [mmreq.data EXCEPT ![mmi] = AsBit(bus.data)]
    BY <1>2 DEF MMSampled, Packet
  <1>5. Late(mmreq) \in {0, 1}
    BY DEF Late
  <1>6. CASE k # mmi
    <2>1. k \in 0 .. mmi - 1 /\ k + Late(mmreq) < mmreq.size
      BY <1>2, <1>3, <1>5, <1>6
    <2>2. mmreq.data[k] = Moved(mmreq.dir)[k + Late(mmreq)]
      BY <1>1, <2>1 DEF DataInv, Collected
    <2> QED BY <1>3, <1>4, <1>6, <2>1, <2>2
  <1>7. CASE k = mmi
    <2>1. MMSampled.data[k] = AsBit(bus.data)
      BY <1>3, <1>4, <1>7
    <2>2. CASE bus.wait = 0
      <3>1. /\ Seen(mmpc, mmreq, mmi, "mmon") + 1 = mdi /\ mdi \in 1 .. tr.size
            /\ HdrOf(mmreq) = HdrOf(tr) /\ bus.data = Moved(tr.dir)[mdi - 1]
            /\ AsBit(bus.data) = bus.data
        BY <2>2, RestInLoop
      <3>2. mdi - 1 = mmi + Late(mmreq) /\ mmreq.dir = tr.dir /\ mmreq.size = tr.size
        BY <1>1, <1>2, <1>3, <1>5, <3>1 DEF Seen, Coming, Late, HdrOf
      <3>3. k + Late(mmreq) < mmreq.size
        BY <1>3, <1>5, <1>7, <3>1, <3>2
      <3> QED BY <1>7, <2>1, <3>1, <3>2, <3>3
    <2>3. CASE bus.wait # 0
      <3>1. MdPhase \in {"free", "tail"} /\ Late(mmreq) = 1
        <4>1. MdPhase # "beat"
          BY <1>1, <2>3, NoBeatUncountedHolds
          DEF NoBeatUncounted, MdPhase, TypeInv, TypeOK, MDType
        <4>2. MdPhase # "wait"
          <5>1. SUFFICES ASSUME MdPhase = "wait" PROVE FALSE
            OBVIOUS
          <5>2. SdPhase = "beat"
            BY <1>1, <5>1 DEF InStep, MonitorInStep, Detecting
          <5>3. sdpc = "beat"
            BY <1>1, <5>2 DEF SdPhase, TypeInv, TypeOK, SDType
          <5> QED BY <1>1, <2>3, <5>3 DEF InStep, Signals, NoNba, Updated
        <4> QED BY <1>1, <4>1, <4>2, EndPhase
      <3>2. NextData = bus.data
        BY <1>1 DEF NextData, NoNba
      <3>3. mdpc = "tail" \/ sdpc = "tail"
        <4>1. MdPhase = "tail" => mdpc = "tail"
          BY <1>1, PacketFields DEF MdPhase, MdCount, Coming, InStep, Counters,
                                    TypeInv, TypeOK, MDType, HoldsPacket
        <4>2. MdPhase = "free" => SdPhase = "tail"
          BY <1>1 DEF DataInv, Source
        <4>3. SdPhase = "tail" => sdpc = "tail"
          BY <1>1, PacketFields DEF SdPhase, SdCount, Coming, InStep, Counters,
                                    TypeInv, TypeOK, SDType, HoldsPacket
        <4> QED BY <3>1, <4>1, <4>2, <4>3
      <3>4. bus.data = Z
        BY <3>2, <3>3 DEF DataInv, Released
      <3>5. ~(k + Late(mmreq) < mmreq.size)
        BY <1>3, <1>7, <3>1
      <3> QED BY <2>1, <3>4, <3>5 DEF AsBit
    <2> QED BY <2>2, <2>3
  <1> QED BY <1>6, <1>7

\* A monitor that counted wait clocks publishes every transfer one byte late,
\* with a 0 for the last byte, and one that did not publishes it as it was sent.
THEOREM MonitorsPublishShifted == Spec => []PublishedShifted
  <1>1. Spec => []TypeInv
    BY TypeCorrect DEF TypeInv
  <1> QED BY <1>1, AgentsInStep, BytesAreFollowed, PublishedShiftedHolds, PTL

\* The wait cycles as the slave and the monitors count them, at rest.
LEMMA CountedOneMoreHolds == TypeInv /\ InStep /\ DataInv => CountedOneMore
  <1> SUFFICES ASSUME TypeInv, InStep, DataInv, AtRest PROVE CountedOneMore
    BY DEF CountedOneMore
  <1>1. due = {} /\ nba = NoNba
    BY DEF AtRest, ActiveDone
  <1>2. ASSUME mmpc = "beat", sdpc = "beat"
        PROVE  mmreq.wait_state \in {0, rsp.wait_state + 1}
    <2>1. bus.wait = 0 /\ MmEnd = <<mmpc, mmreq, mmi>>
      BY <1>1, <1>2 DEF InStep, Signals, NoNba, Updated, MmEnd, AtSlotEnd
    <2>2. SdPhase = "beat"
      <3>1. rsp \in Packet /\ sdi \in 1 .. rsp.size
        BY <1>2 DEF TypeInv, HoldsPacket, InStep, Counters
      <3> QED BY <1>1, <1>2, <3>1, PacketFields DEF SdPhase, SdCount, Coming
    <2> QED BY <1>2, <2>1, <2>2 DEF DataInv, WaitsCounted
  <1> QED BY <1>2, RestInWait DEF CountedOneMore

\* A monitor counts one wait clock more than the slave inserted, or none at all.
THEOREM MonitorsCountOneMore == Spec => []CountedOneMore
  <1>1. Spec => []TypeInv
    BY TypeCorrect DEF TypeInv
  <1> QED BY <1>1, AgentsInStep, BytesAreFollowed, CountedOneMoreHolds, PTL

\* What the master has of a read, against the slave's memory.
LEMMA ReadLagsHolds == TypeInv /\ InStep /\ DataInv => ReadLags
  <1> SUFFICES ASSUME TypeInv, InStep, DataInv, AtRest, mdpc = "beat", tr.dir = "read"
               PROVE  /\ \A k \in 1 .. mdi - 1 : tr.data[k] = m_mem[tr.addr + (k - 1)]
                      /\ tr.data[0] \in {0, m_mem[tr.addr]}
                      /\ rsp.wait_state > 0 => tr.data[0] = m_mem[tr.addr]
    BY DEF ReadLags
  <1>1. /\ sdpc = "beat" /\ mdi \in 1 .. tr.size /\ tr \in Packet /\ rsp \in Packet
        /\ HdrOf(rsp) = HdrOf(tr)
    BY RestInBeat DEF TypeInv, HoldsPacket, InStep, Counters
  <1>2. /\ rsp # NoItem /\ rsp.dir = "read" /\ rsp.addr = tr.addr /\ rsp.size = tr.size
        /\ tr.size \in Nat /\ 1 <= tr.size /\ tr.addr \in Nat
    BY <1>1, PacketFields, ConstantsAssumption DEF HdrOf
  <1>3. \A k \in 0 .. tr.size - 1 : rsp.data[k] = m_mem[tr.addr + k]
    BY <1>2 DEF DataInv, Served
  <1>4. rsp.data[0] = m_mem[tr.addr]
    <2>1. 0 \in 0 .. tr.size - 1 /\ tr.addr + 0 = tr.addr
      BY <1>2
    <2> QED BY <1>3, <2>1
  <1>5. ASSUME NEW k \in 1 .. mdi - 1
        PROVE  tr.data[k] = m_mem[tr.addr + (k - 1)]
    <2>1. k - 1 \in 0 .. tr.size - 1
      BY <1>1, <1>2
    <2>2. tr.data[k] = rsp.data[k - 1]
      BY DEF DataInv, Sampled
    <2> QED BY <1>3, <2>1, <2>2
  <1> QED BY <1>4, <1>5 DEF DataInv, Sampled

\* A read returns the bytes of the memory one position too far.
THEOREM ReadsLagOneByte == Spec => []ReadLags
  <1>1. Spec => []TypeInv
    BY TypeCorrect DEF TypeInv
  <1> QED BY <1>1, AgentsInStep, BytesAreFollowed, ReadLagsHolds, PTL

\* No byte of a write reaches the slave's memory.
THEOREM WritesAreForgotten == Spec => []MemoryForgets
  <1>1. DataInv => MemoryForgets
    BY DEF DataInv, Served
  <1> QED BY <1>1, BytesAreFollowed, PTL

\* Only the first transfer of a simulation can find ubus_wait unknown.
THEOREM LateFromTheSecond == Spec => LateFromSecond
  <1>1. TypeInv /\ InStep /\ DataInv /\ [Next]_vars =>
          [(mmpc = "idle" /\ mmpc' # "idle" /\ mmreq # NoItem) => mmpc' = "wait1"]_vars
    <2>1. SUFFICES ASSUME TypeInv, InStep, DataInv, Next,
                          mmpc = "idle", mmpc' # "idle", mmreq # NoItem
                   PROVE  mmpc' = "wait1"
      OBVIOUS
    <2>2. MMDetect
      BY <2>1 DEF Next, Step, Silent, Posedge, Commit, Request, MasterDrives, MasterWatches,
                  MasterPublishes, SlaveWatches, SlavePublishes, SlaveServes, SlaveDrives, mm,
                  MMStep, MMIdle, MMWait, MMLeaveWait, MMBeat, MMPublish
    <2>3. bus.wait # 0 /\ bus.wait # 2 /\ bus.wait \in 0 .. 2
      BY <2>1, <2>2, NbaFields
      DEF MMDetect, InStep, HeaderVisible, DataInv, UnknownOnce, TypeInv, TypeOK
    <2> QED BY <2>2, <2>3 DEF MMDetect, MMAccept, AfterWhile
  <1>2. Spec => []TypeInv
    BY TypeCorrect DEF TypeInv
  <1> QED BY <1>1, <1>2, AgentsInStep, BytesAreFollowed, PTL DEF Spec, LateFromSecond

-----------------------------------------------------------------------------
(* The end of a slot *)

\* The parts of SlotLeft are small numbers.
LEMMA SlotParts ==
  ASSUME TypeInv
  PROVE  /\ EdgesLeft \in 0 .. 4 /\ Len(request_fifo) \in Nat /\ ResponsesLeft \in {0, 1}
         /\ DriverWaits \in 0 .. 2 /\ MonitorWaits \in 0 .. 2 /\ CommitsLeft \in {0, 1}
  <1>1. EdgesLeft \in 0 .. 4
    BY DEF EdgesLeft, Coming
  <1>2. Len(request_fifo) \in Nat
    BY DEF TypeInv, TypeOK, SqrType
  <1>3. ResponsesLeft \in {0, 1} /\ CommitsLeft \in {0, 1}
    BY DEF ResponsesLeft, CommitsLeft
  <1>4. DriverWaits \in 0 .. 2
    BY DEF DriverWaits
  <1>5. MonitorWaits \in 0 .. 2
    BY DEF MonitorWaits
  <1> QED BY <1>1, <1>2, <1>3, <1>4, <1>5

\* So is their sum.
LEMMA SlotLeftNat == TypeInv => SlotLeft \in Nat
  <1> SUFFICES ASSUME TypeInv PROVE SlotLeft \in Nat
    OBVIOUS
  <1>1. /\ EdgesLeft \in Nat /\ Len(request_fifo) \in Nat /\ ResponsesLeft \in Nat
        /\ DriverWaits \in Nat /\ MonitorWaits \in Nat /\ CommitsLeft \in Nat
    BY SlotParts
  <1> QED BY <1>1 DEF SlotLeft

\* A process that takes its edge leaves one fewer to do so.
LEMMA EdgeTaken ==
  ASSUME NEW p \in Procs, Edge(p)
  PROVE  EdgesLeft' = EdgesLeft - 1
  <1>1. p = "mdrv" \/ p = "sdrv" \/ p = "mmon" \/ p = "smon"
    BY DEF Procs
  <1>2. p \in due /\ due' = due \ {p}
    BY DEF Edge
  <1>3. Coming(p) = 1 /\ Coming(p)' = 0
    BY <1>2 DEF Coming
  <1>4. \A q \in {"mdrv", "sdrv", "mmon", "smon"} : Coming(q) \in {0, 1}
    BY DEF Coming
  <1>5. \A q \in {"mdrv", "sdrv", "mmon", "smon"} : q # p => Coming(q)' = Coming(q)
    BY <1>2 DEF Coming
  <1> QED BY <1>1, <1>3, <1>4, <1>5 DEF EdgesLeft

\* Whatever the master driver does in a slot leaves less to run.
LEMMA SlotMaster ==
  ASSUME TypeInv, Request \/ MasterDrives
  PROVE  SlotLeft' < SlotLeft
  <1>0. /\ EdgesLeft \in 0 .. 4 /\ Len(request_fifo) \in Nat /\ ResponsesLeft \in {0, 1}
        /\ DriverWaits \in 0 .. 2 /\ MonitorWaits \in 0 .. 2 /\ CommitsLeft \in {0, 1}
    BY SlotParts
  <1>1. UNCHANGED <<request_fifo, rsp, mmpc, smpc, sdpc>>
    BY DEF Request, MasterDrives, sqr, mm, sm, sd
  <1>2. ResponsesLeft' = ResponsesLeft /\ MonitorWaits' = MonitorWaits
    BY <1>1 DEF ResponsesLeft, MonitorWaits
  <1>3. CASE Request
    <2>1. mdpc = "get" /\ mdpc' = "addr" /\ UNCHANGED <<nba, due>>
      BY <1>3 DEF Request, GetNextItem, wires
    <2>2. EdgesLeft' = EdgesLeft /\ CommitsLeft' = CommitsLeft
      BY <2>1 DEF EdgesLeft, Coming, CommitsLeft
    <2>3. DriverWaits = 1 /\ DriverWaits' = 0
      BY <2>1 DEF DriverWaits
    <2> QED BY <1>0, <1>1, <1>2, <2>2, <2>3 DEF SlotLeft
  <1>4. CASE FirstBeat
    <2>1. mdpc = "wait" /\ mdpc' = "beat" /\ UNCHANGED due
      BY <1>4 DEF FirstBeat
    <2>2. EdgesLeft' = EdgesLeft
      BY <2>1 DEF EdgesLeft, Coming
    <2>3. DriverWaits = 2 /\ DriverWaits' = 0
      BY <2>1 DEF DriverWaits
    <2>4. CommitsLeft' \in {0, 1}
      BY DEF CommitsLeft
    <2> QED BY <1>0, <1>1, <1>2, <2>2, <2>3, <2>4 DEF SlotLeft
  <1>5. CASE DriveAddr \/ ReleaseAddr \/ NextBeat \/ EndWrite \/ ItemDone
    <2>1. Edge("mdrv")
      BY <1>5 DEF DriveAddr, ReleaseAddr, NextBeat, EndWrite, ItemDone
    <2>2. EdgesLeft' = EdgesLeft - 1
      BY <2>1, EdgeTaken DEF Procs
    <2>3. DriverWaits' \in 0 .. 2 /\ CommitsLeft' \in {0, 1}
      BY DEF DriverWaits, CommitsLeft
    <2> QED BY <1>0, <1>1, <1>2, <2>2, <2>3 DEF SlotLeft
  <1> QED BY <1>3, <1>4, <1>5 DEF MasterDrives, MDStep

\* Whatever the master monitor does.
LEMMA SlotMasterMonitor ==
  ASSUME TypeInv, MasterWatches \/ MasterPublishes
  PROVE  SlotLeft' < SlotLeft
  <1>0. /\ EdgesLeft \in 0 .. 4 /\ Len(request_fifo) \in Nat /\ ResponsesLeft \in {0, 1}
        /\ DriverWaits \in 0 .. 2 /\ MonitorWaits \in 0 .. 2 /\ CommitsLeft \in {0, 1}
    BY SlotParts
  <1>1. UNCHANGED <<request_fifo, rsp, mdpc, smpc, sdpc>> /\ (MMStep \/ MMPublish)
    BY DEF MasterWatches, MasterPublishes, sqr, md, sm, sd
  <1>2. nba' = nba
    BY <1>1 DEF MMStep, MMIdle, MMDetect, MMWait, MMLeaveWait, MMBeat, MMPublish, wires
  <1>3. ResponsesLeft' = ResponsesLeft /\ DriverWaits' = DriverWaits /\ CommitsLeft' = CommitsLeft
    BY <1>1, <1>2 DEF ResponsesLeft, DriverWaits, CommitsLeft
  <1>4. CASE MMLeaveWait
    <2>1. mmpc = "wait0" /\ mmpc' = "beat" /\ UNCHANGED due
      BY <1>4 DEF MMLeaveWait, wires
    <2>2. EdgesLeft' = EdgesLeft
      BY <2>1 DEF EdgesLeft, Coming
    <2>3. MonitorWaits' = MonitorWaits - 1
      BY <1>1, <2>1 DEF MonitorWaits
    <2> QED BY <1>0, <1>1, <1>3, <2>2, <2>3 DEF SlotLeft
  <1>5. CASE MMIdle \/ MMDetect \/ MMWait \/ MMBeat \/ MMPublish
    <2>1. Edge("mmon")
      BY <1>5 DEF MMIdle, MMDetect, MMWait, MMBeat, MMPublish
    <2>2. EdgesLeft' = EdgesLeft - 1
      BY <2>1, EdgeTaken DEF Procs
    <2>3. MonitorWaits' \in 0 .. 2
      BY DEF MonitorWaits
    <2> QED BY <1>0, <1>1, <1>3, <2>2, <2>3 DEF SlotLeft
  <1> QED BY <1>1, <1>4, <1>5 DEF MMStep

\* Whatever the slave monitor does, a request included.
LEMMA SlotSlaveMonitor ==
  ASSUME TypeInv, SlaveWatches \/ SlavePublishes
  PROVE  SlotLeft' < SlotLeft
  <1>0. /\ EdgesLeft \in 0 .. 4 /\ Len(request_fifo) \in Nat /\ ResponsesLeft \in {0, 1}
        /\ DriverWaits \in 0 .. 2 /\ MonitorWaits \in 0 .. 2 /\ CommitsLeft \in {0, 1}
    BY SlotParts
  <1>1. UNCHANGED <<mdpc, mmpc, sdpc>> /\ (SMStep \/ SMPublish)
    BY DEF SlaveWatches, SlavePublishes, md, mm, sd
  <1>2. UNCHANGED <<nba, rsp>>
    BY <1>1 DEF SMStep, SMIdle, SMDetect, SMWait, SMLeaveWait, SMBeat, SMPublish, wires, sqr
  <1>3. ResponsesLeft' = ResponsesLeft /\ DriverWaits' = DriverWaits /\ CommitsLeft' = CommitsLeft
    BY <1>1, <1>2 DEF ResponsesLeft, DriverWaits, CommitsLeft
  <1>4. CASE SMLeaveWait
    <2>1. smpc = "wait0" /\ smpc' = "beat" /\ UNCHANGED <<due, request_fifo>>
      BY <1>4 DEF SMLeaveWait, wires, sqr
    <2>2. EdgesLeft' = EdgesLeft
      BY <2>1 DEF EdgesLeft, Coming
    <2>3. MonitorWaits' = MonitorWaits - 1
      BY <1>1, <2>1 DEF MonitorWaits
    <2> QED BY <1>0, <1>3, <2>1, <2>2, <2>3 DEF SlotLeft
  <1>5. CASE SMIdle \/ SMDetect \/ SMWait \/ SMBeat \/ SMPublish
    <2>1. Edge("smon")
      BY <1>5 DEF SMIdle, SMDetect, SMWait, SMBeat, SMPublish
    <2>2. EdgesLeft' = EdgesLeft - 1
      BY <2>1, EdgeTaken DEF Procs
    <2>3. Len(request_fifo') \in Nat /\ Len(request_fifo') <= Len(request_fifo) + 1
      <3>1. request_fifo \in Seq(Packet)
        BY DEF TypeInv, TypeOK, SqrType
      <3>2. CASE SMDetect
        <4>1. request_fifo' = Append(request_fifo, NewReq(bus.hdr))
          BY <3>2 DEF SMDetect
        <4> QED BY <3>1, <4>1
      <3>3. CASE SMIdle
        BY <3>1, <3>3 DEF SMIdle, sqr
      <3>4. CASE SMWait \/ SMBeat \/ SMPublish
        <4>1. PICK e : request_fifo' = IF request_fifo = <<>> THEN <<>>
                         ELSE [request_fifo EXCEPT ![Len(request_fifo)] = e]
          BY <3>4 DEF SMWait, SMBeat, SMPublish, SMUpdate
        <4> QED BY <3>1, <4>1
      <3> QED BY <1>5, <3>2, <3>3, <3>4
    <2>4. MonitorWaits' \in 0 .. 2
      BY DEF MonitorWaits
    <2> QED BY <1>0, <1>3, <2>2, <2>3, <2>4 DEF SlotLeft
  <1> QED BY <1>1, <1>4, <1>5 DEF SMStep

\* Whatever the slave sequence and the slave driver do.
LEMMA SlotSlave ==
  ASSUME TypeInv, SlaveServes \/ SlaveDrives
  PROVE  SlotLeft' < SlotLeft
  <1>0. /\ EdgesLeft \in 0 .. 4 /\ Len(request_fifo) \in Nat /\ ResponsesLeft \in {0, 1}
        /\ DriverWaits \in 0 .. 2 /\ MonitorWaits \in 0 .. 2 /\ CommitsLeft \in {0, 1}
    BY SlotParts
  <1>1. UNCHANGED <<mdpc, mmpc, smpc>> /\ ((Serve /\ UNCHANGED sdpc) \/ SDStep)
    BY DEF SlaveServes, SlaveDrives, md, mm, sm, sd
  <1>2. DriverWaits' = DriverWaits /\ MonitorWaits' = MonitorWaits
    BY <1>1 DEF DriverWaits, MonitorWaits
  <1>3. ResponsesLeft' \in {0, 1} /\ CommitsLeft' \in {0, 1}
    BY DEF ResponsesLeft, CommitsLeft
  <1>4. CASE Serve
    <2>1. /\ rsp = NoItem /\ request_fifo # <<>> /\ request_fifo' = Tail(request_fifo)
          /\ UNCHANGED <<nba, due>>
      BY <1>4 DEF Serve, wires
    <2>2. Len(request_fifo') = Len(request_fifo) - 1
      BY <2>1 DEF TypeInv, TypeOK, SqrType
    <2>3. EdgesLeft' = EdgesLeft /\ CommitsLeft' = CommitsLeft
      BY <2>1 DEF EdgesLeft, Coming, CommitsLeft
    <2>4. ResponsesLeft = 0
      BY <2>1 DEF ResponsesLeft
    <2> QED BY <1>0, <1>2, <1>3, <2>2, <2>3, <2>4 DEF SlotLeft
  <1>5. CASE SDGet
    <2>1. /\ sdpc = "get" /\ rsp # NoItem /\ sdpc' # "get"
          /\ UNCHANGED <<due, request_fifo>>
      BY <1>5 DEF SDGet, WaitCycle, Beat, sqr
    <2>2. EdgesLeft' = EdgesLeft
      BY <2>1 DEF EdgesLeft, Coming
    <2>3. ResponsesLeft = 1 /\ ResponsesLeft' = 0
      BY <2>1 DEF ResponsesLeft
    <2> QED BY <1>0, <1>2, <1>3, <2>1, <2>2, <2>3 DEF SlotLeft
  <1>6. CASE SDWait \/ SDBeat \/ SDEndRead \/ SDEndWrite \/ SDTail
    <2>1. Edge("sdrv") /\ UNCHANGED request_fifo
      BY <1>6 DEF SDWait, SDBeat, SDEndRead, SDEndWrite, SDTail, SDDone, sqr
    <2>2. EdgesLeft' = EdgesLeft - 1
      BY <2>1, EdgeTaken DEF Procs
    <2>3. Len(request_fifo)' = Len(request_fifo)
      BY <2>1
    <2>4. ResponsesLeft = 0 /\ ResponsesLeft' = 0
      BY <1>6 DEF SDWait, SDBeat, SDEndRead, SDEndWrite, SDTail, SDDone, WaitCycle, Beat, ResponsesLeft
    <2> QED BY <1>0, <1>2, <1>3, <2>2, <2>3, <2>4 DEF SlotLeft
  <1> QED BY <1>1, <1>4, <1>5, <1>6 DEF SDStep

\* The scheduled assignments are made once.
LEMMA SlotCommit ==
  ASSUME TypeInv, Commit
  PROVE  SlotLeft' < SlotLeft
  <1>0. /\ EdgesLeft \in 0 .. 4 /\ Len(request_fifo) \in Nat /\ ResponsesLeft \in {0, 1}
        /\ DriverWaits \in 0 .. 2 /\ MonitorWaits \in 0 .. 2 /\ CommitsLeft \in {0, 1}
    BY SlotParts
  <1>1. /\ UNCHANGED <<request_fifo, rsp, mdpc, mmpc, smpc, sdpc, due>>
        /\ nba # NoNba /\ nba' = NoNba
    BY DEF Commit, CommitNba, sqr, md, mm, sm, sd
  <1>2. /\ EdgesLeft' = EdgesLeft /\ ResponsesLeft' = ResponsesLeft
        /\ DriverWaits' = DriverWaits /\ MonitorWaits' = MonitorWaits
    BY <1>1 DEF EdgesLeft, Coming, ResponsesLeft, DriverWaits, MonitorWaits
  <1>3. CommitsLeft = 1 /\ CommitsLeft' = 0
    BY <1>1 DEF CommitsLeft
  <1> QED BY <1>0, <1>1, <1>2, <1>3 DEF SlotLeft

\* Between two edges of the clock only finitely many steps are taken: no
\* process runs in a loop without a clock, whatever the others start for it.
THEOREM EverySlotEnds == Spec => SlotEnds
  <1>1. ASSUME TypeInv, [Next]_vars
        PROVE  [ClockTicks \/ (SlotLeft \in Nat /\ SlotLeft' < SlotLeft)]_vars
    <2>1. CASE Posedge
      <3>1. due = {}
        BY <2>1 DEF Posedge, AtRest, ActiveDone
      <3>2. CASE due' = {}
        BY <2>1, <3>1, <3>2 DEF Posedge, vars, wires
      <3>3. CASE due' # {}
        BY <3>1, <3>3 DEF ClockTicks
      <3> QED BY <3>2, <3>3
    <2>2. CASE Commit
      BY <1>1, <2>2, SlotLeftNat, SlotCommit
    <2>3. CASE Request \/ MasterDrives
      BY <1>1, <2>3, SlotLeftNat, SlotMaster
    <2>4. CASE MasterWatches \/ MasterPublishes
      BY <1>1, <2>4, SlotLeftNat, SlotMasterMonitor
    <2>5. CASE SlaveWatches \/ SlavePublishes
      BY <1>1, <2>5, SlotLeftNat, SlotSlaveMonitor
    <2>6. CASE SlaveServes \/ SlaveDrives
      BY <1>1, <2>6, SlotLeftNat, SlotSlave
    <2> QED BY <1>1, <2>1, <2>2, <2>3, <2>4, <2>5, <2>6 DEF Next, Step, Silent
  <1>2. Spec => []TypeInv
    BY TypeCorrect DEF TypeInv
  <1> QED BY <1>1, <1>2, PTL DEF Spec, SlotEnds

-----------------------------------------------------------------------------
(* The clocks of an item *)

\* The wait cycles of a response come from the range slave_sequence draws from.
LEMMA WaitsDrawnInit == Init => WaitsDrawn
  BY DEF Init, SqrInit, WaitsDrawn

\* They are drawn once.
LEMMA WaitsDrawnNext == TypeInv /\ WaitsDrawn /\ [Next]_vars => WaitsDrawn'
  <1> SUFFICES ASSUME TypeInv, WaitsDrawn, [Next]_vars PROVE WaitsDrawn'
    OBVIOUS
  <1>1. CASE SlaveServes
    <2>1. PICK w \in 0 .. MaxWait : rsp' = Response(Head(request_fifo), w, m_mem')
      BY <1>1 DEF SlaveServes, Serve
    <2>2. Head(request_fifo) \in Packet
      BY <1>1 DEF SlaveServes, Serve, TypeInv, TypeOK, SqrType
    <2>3. rsp'.wait_state = w
      BY <2>1, <2>2 DEF Response, Packet
    <2> QED BY <2>1, <2>3 DEF WaitsDrawn
  <1>2. CASE UNCHANGED rsp \/ rsp' = NoItem
    BY <1>2 DEF WaitsDrawn
  <1>3. SlaveServes \/ UNCHANGED rsp \/ rsp' = NoItem
    <2>1. CASE SlaveDrives
      BY <2>1 DEF SlaveDrives, SDStep, SDGet, SDWait, SDBeat, SDEndRead, SDEndWrite, SDTail,
                  SDDone, sqr
    <2>2. CASE SlaveWatches \/ SlavePublishes
      BY <2>2 DEF SlaveWatches, SlavePublishes, SMStep, SMIdle, SMDetect, SMWait, SMLeaveWait,
                  SMBeat, SMPublish, sqr
    <2>3. CASE Request \/ Posedge \/ Commit \/ MasterDrives \/ MasterWatches \/ MasterPublishes
      BY <2>3 DEF Request, Posedge, Commit, MasterDrives, MasterWatches, MasterPublishes, sqr
    <2>4. CASE UNCHANGED vars
      BY <2>4 DEF vars, sqr
    <2> QED BY <2>1, <2>2, <2>3, <2>4 DEF Next, Step, Silent
  <1> QED BY <1>1, <1>2, <1>3

\* The item of a master driver that is not waiting for one.
LEMMA ItemDriven ==
  ASSUME TypeInv, mdpc # "get"
  PROVE  /\ tr \in Packet /\ tr.dir \in {"read", "write"} /\ Loop \in Nat
         /\ tr.size \in Nat /\ 1 <= tr.size
         /\ Loop = IF tr.dir = "write" THEN tr.size + 1 ELSE tr.size
  <1>1. tr \in Packet
    BY DEF TypeInv, HoldsPacket
  <1>2. tr.size \in Nat /\ 1 <= tr.size /\ tr.dir \in Dir
    BY <1>1, PacketFields
  <1> QED BY <1>1, <1>2 DEF Loop, Dir

\* The wait cycles that are left are at most those the slave may draw.
LEMMA WaitsBounded ==
  ASSUME TypeInv, DataInv, WaitsDrawn
  PROVE  WaitsLeft \in 0 .. MaxWait
  <1>1. MaxWait \in Nat
    BY ConstantsAssumption
  <1>2. rsp # NoItem => rsp.wait_state \in Nat /\ rsp.wait_state <= MaxWait
    BY <1>1 DEF WaitsDrawn
  <1>3. Coming("sdrv") \in {0, 1} /\ ("sdrv" \in due <=> Coming("sdrv") = 1)
    BY DEF Coming
  <1>4. CASE SdPhase = "wait"
    <2>1. sdpc = "wait" /\ ~("sdrv" \in due /\ sdi >= rsp.wait_state)
      BY <1>4 DEF SdPhase, TypeInv, TypeOK, SDType
    <2>2. sdi \in 1 .. rsp.wait_state
      BY <2>1 DEF DataInv, WaitsCounted
    <2>3. rsp # NoItem
      BY <2>1, ConstantsAssumption DEF TypeInv, HoldsPacket
    <2>4. WaitsLeft = rsp.wait_state + 1 - (sdi + Coming("sdrv"))
      BY <1>4, <2>3 DEF WaitsLeft
    <2> QED BY <1>1, <1>2, <1>3, <2>1, <2>2, <2>3, <2>4
  <1>5. CASE SdPhase = "pend"
    <2>1. rsp # NoItem
      BY <1>5 DEF SdPhase, TypeInv, TypeOK, SDType
    <2>2. WaitsLeft = rsp.wait_state
      BY <1>5, <2>1 DEF WaitsLeft
    <2> QED BY <1>1, <1>2, <2>1, <2>2
  <1>6. CASE SdPhase \notin {"wait", "pend"}
    BY <1>1, <1>6 DEF WaitsLeft
  <1> QED BY <1>4, <1>5, <1>6

\* ClocksLeft is a number of clocks, and bounded.
LEMMA ClocksBounded ==
  ASSUME TypeInv, InStep, DataInv, WaitsDrawn, mdpc # "get"
  PROVE  ClocksLeft \in 0 .. tr.size + MaxWait + 3
  <1>1. /\ tr.size \in Nat /\ 1 <= tr.size /\ Loop \in Nat /\ MaxWait \in Nat
        /\ Loop <= tr.size + 1 /\ tr.size <= Loop
    BY ItemDriven, ConstantsAssumption
  <1>2. WaitsLeft \in 0 .. MaxWait
    BY WaitsBounded
  <1>3. MdPhase \in {"free", "ctrl", "wait", "beat", "tail"}
    BY MdPhases DEF TypeInv, TypeOK
  <1>4. CASE MdPhase = "beat"
    <2>1. mdpc = "beat" /\ MdCount <= tr.size
      BY <1>4 DEF MdPhase, TypeInv, TypeOK, MDType
    <2>2. mdi \in 1 .. tr.size
      BY <2>1 DEF InStep, Counters
    <2>3. MdCount \in Nat
      BY <1>1, <2>2 DEF MdCount, Coming
    <2> QED BY <1>1, <1>4, <2>1, <2>3 DEF ClocksLeft
  <1>5. CASE MdPhase = "wait"
    BY <1>1, <1>2, <1>5 DEF ClocksLeft
  <1>6. CASE MdPhase \in {"free", "ctrl", "tail"}
    BY <1>1, <1>6 DEF ClocksLeft
  <1> QED BY <1>3, <1>4, <1>5, <1>6

\* ClocksLeft depends on the two drivers, the response and their edges only.
LEMMA ClocksFrame ==
  ASSUME UNCHANGED <<md, sd, rsp>>,
         "mdrv" \in due' <=> "mdrv" \in due, "sdrv" \in due' <=> "sdrv" \in due
  PROVE  ClocksLeft' = ClocksLeft
  <1>1. MdPhase' = MdPhase /\ MdCount' = MdCount /\ SdPhase' = SdPhase
    BY PhasesKept
  <1>2. UNCHANGED <<mdpc, tr, sdi, rsp>> /\ Coming("sdrv")' = Coming("sdrv")
    BY DEF md, sd, Coming
  <1>3. WaitsLeft' = WaitsLeft /\ Loop' = Loop
    BY <1>1, <1>2 DEF WaitsLeft, Loop
  <1> QED BY <1>1, <1>2, <1>3 DEF ClocksLeft

\* The master driver takes its edge as the slot foresaw, and its data loop is
\* no longer than the wait before it.
LEMMA ClocksMaster ==
  ASSUME TypeInv, InStep, DataInv, WaitsDrawn, MasterDrives
  PROVE  ClocksLeft' <= ClocksLeft
  <1>1. UNCHANGED <<rsp, sd>> /\ MDStep
    BY DEF MasterDrives, sqr
  <1>2. mdpc # "get"
    BY <1>1 DEF MDStep, DriveAddr, ReleaseAddr, FirstBeat, NextBeat, EndWrite, ItemDone
  <1>3. /\ tr.size \in Nat /\ 1 <= tr.size /\ Loop \in Nat /\ MaxWait \in Nat
        /\ tr.dir \in {"read", "write"}
        /\ Loop = IF tr.dir = "write" THEN tr.size + 1 ELSE tr.size
    BY <1>2, ItemDriven, ConstantsAssumption
  <1>4. WaitsLeft \in Nat
    BY WaitsBounded, <1>3
  <1>5. mdpc = "beat" => mdi \in Nat /\ 1 <= mdi /\ mdi <= tr.size
    BY <1>3 DEF InStep, Counters
  <1>6. CASE DriveAddr
    <2>1. mdpc = "addr" /\ mdpc' = "ctrl" /\ "mdrv" \in due /\ "mdrv" \notin due' /\ tr' = tr
      BY <1>6 DEF DriveAddr, Edge
    <2>2. MdPhase = "ctrl" /\ MdPhase' = "ctrl" /\ Loop' = Loop
      BY <2>1 DEF MdPhase, Loop
    <2> QED BY <1>3, <2>2 DEF ClocksLeft
  <1>7. CASE ReleaseAddr
    <2>1. /\ mdpc = "ctrl" /\ mdpc' = "wait" /\ "mdrv" \in due /\ tr' = tr
          /\ due' = due \ {"mdrv"}
      BY <1>7 DEF ReleaseAddr, Edge
    <2>2. MdPhase = "wait" /\ MdPhase' = "wait" /\ Loop' = Loop
      BY <2>1 DEF MdPhase, Loop
    <2>3. "sdrv" \in due' <=> "sdrv" \in due
      BY <2>1
    <2>4. UNCHANGED <<sdpc, sdi, rsp>>
      BY <1>1 DEF sd
    <2>5. Coming("sdrv")' = Coming("sdrv")
      BY <2>3 DEF Coming
    <2>6. SdCount' = SdCount
      BY <2>4, <2>5 DEF SdCount
    <2>7. SdPhase' = SdPhase
      BY <2>3, <2>4, <2>6 DEF SdPhase
    <2>8. WaitsLeft' = WaitsLeft
      BY <2>4, <2>5, <2>7 DEF WaitsLeft
    <2> QED BY <1>3, <1>4, <2>2, <2>8 DEF ClocksLeft
  <1>8. CASE FirstBeat
    <2>1. /\ mdpc = "wait" /\ bus.wait = 0 /\ mdpc' = "beat" /\ mdi' = 1 /\ due' = due
          /\ tr'.size = tr.size /\ tr'.dir = tr.dir
      <3>1. tr' = tr \/ \E v \in {bus.data, was} : tr' = [tr EXCEPT !.data[0] = AsBit(v)]
        BY <1>8 DEF FirstBeat, WriteBeat, ReadBeat
      <3>2. tr'.size = tr.size /\ tr'.dir = tr.dir
        BY <1>2, <3>1, ItemDriven DEF Packet
      <3> QED BY <1>8, <3>2 DEF FirstBeat
    <2>2. MdPhase = "wait"
      BY <2>1 DEF MdPhase
    <2>3. due = {}
      BY <2>1, <2>2 DEF InStep, WaitLow
    <2>4. MdCount' = 1
      BY <2>1, <2>3 DEF MdCount, Coming
    <2>5. MdPhase' = "beat"
      BY <1>3, <2>1, <2>4 DEF MdPhase
    <2>6. Loop' = Loop
      BY <2>1 DEF Loop
    <2>7. ClocksLeft' = Loop
      BY <1>3, <2>4, <2>5, <2>6 DEF ClocksLeft
    <2>8. ClocksLeft = WaitsLeft + Loop
      BY <2>2 DEF ClocksLeft
    <2> QED BY <1>3, <1>4, <2>7, <2>8
  <1>9. CASE NextBeat
    <2>1. /\ mdpc = "beat" /\ mdpc' = "beat" /\ mdi' = mdi + 1 /\ mdi < tr.size
          /\ "mdrv" \in due /\ "mdrv" \notin due'
          /\ tr'.size = tr.size /\ tr'.dir = tr.dir
      <3>1. tr' = tr \/ tr' = [tr EXCEPT !.data[mdi] = AsBit(bus.data)]
        BY <1>9 DEF NextBeat, WriteBeat, ReadBeat
      <3>2. tr'.size = tr.size /\ tr'.dir = tr.dir
        BY <1>2, <3>1, ItemDriven DEF Packet
      <3> QED BY <1>9, <3>2 DEF NextBeat, Edge
    <2>2. MdCount' = mdi + 1 /\ MdCount = mdi + 1
      BY <1>5, <2>1 DEF MdCount, Coming
    <2>3. MdPhase' = "beat" /\ MdPhase = "beat"
      BY <1>3, <1>5, <2>1, <2>2 DEF MdPhase
    <2>4. Loop' = Loop
      BY <2>1 DEF Loop
    <2>5. ClocksLeft' = 1 + Loop - (mdi + 1) /\ ClocksLeft = 1 + Loop - (mdi + 1)
      BY <2>2, <2>3, <2>4 DEF ClocksLeft
    <2> QED BY <1>3, <1>5, <2>1, <2>5
  <1>10. CASE EndWrite
    <2>1. /\ mdpc = "beat" /\ mdpc' = "tail" /\ mdi = tr.size /\ tr.dir = "write"
          /\ "mdrv" \in due /\ "mdrv" \notin due'
      BY <1>10 DEF EndWrite, Edge
    <2>2. MdCount = tr.size + 1
      BY <2>1 DEF MdCount, Coming
    <2>3. MdPhase' = "tail" /\ MdPhase = "tail"
      BY <1>3, <2>1, <2>2 DEF MdPhase
    <2> QED BY <2>3 DEF ClocksLeft
  <1>11. CASE ItemDone
    <2>1. /\ mdpc' = "get" /\ "mdrv" \in due
          /\ mdpc = "tail" \/ (mdpc = "beat" /\ mdi = tr.size /\ tr.dir = "read")
      BY <1>11 DEF ItemDone, Edge
    <2>2. MdPhase' = "free" /\ ClocksLeft' = 0
      BY <2>1 DEF MdPhase, ClocksLeft
    <2>3. ClocksLeft \in 0 .. tr.size + MaxWait + 3
      BY <1>2, ClocksBounded
    <2> QED BY <1>3, <2>2, <2>3
  <1> QED BY <1>1, <1>6, <1>7, <1>8, <1>9, <1>10, <1>11 DEF MDStep

\* The slave inserts no more wait cycles than were foreseen for it.
LEMMA WaitsShrink ==
  ASSUME TypeInv, InStep, DataInv, WaitsDrawn, SlaveServes \/ SlaveDrives, MdPhase = "wait"
  PROVE  WaitsLeft' \in Nat /\ WaitsLeft' <= WaitsLeft
  <1>1. MaxWait \in Nat /\ WaitsLeft \in 0 .. MaxWait
    BY WaitsBounded, ConstantsAssumption
  <1>2. rsp # NoItem => /\ SdPhase \in {"pend", "wait", "beat"}
                        /\ rsp.wait_state \in Nat /\ rsp.wait_state <= MaxWait
                        /\ SdPhase = "beat" => SdCount = 1
    BY <1>1 DEF InStep, SlaveInStep, WaitsDrawn
  <1>3. CASE SlaveServes
    <2>1. /\ sdpc' = sdpc /\ rsp = NoItem /\ sdpc = "get"
      BY <1>3 DEF SlaveServes, Serve, sd, InStep, SlaveInStep
    <2>2. rsp' \in Packet
      BY <1>3, ServeAnswers DEF SlaveServes
    <2>3. rsp' # NoItem
      BY <2>2, ConstantsAssumption
    <2>4. rsp'.wait_state \in 0 .. MaxWait
      BY <1>3, <2>3, WaitsDrawnNext DEF WaitsDrawn, Next, Step, Silent
    <2>5. SdPhase' = "pend"
      BY <2>1, <2>3 DEF SdPhase
    <2>6. WaitsLeft = MaxWait /\ WaitsLeft' = rsp'.wait_state
      <3>1. SdPhase = "free"
        BY <2>1 DEF SdPhase
      <3> QED BY <2>1, <2>3, <2>5, <3>1 DEF WaitsLeft
    <2> QED BY <1>1, <2>4, <2>6
  <1>4. CASE SDGet
    <2>1. /\ sdpc = "get" /\ rsp # NoItem /\ rsp' = rsp /\ due = {} /\ due' = {}
          /\ IF rsp.wait_state > 0 THEN sdpc' = "wait" /\ sdi' = 0 + 1
                                   ELSE sdpc' = "beat"
      BY <1>4 DEF SDGet, WaitCycle, Beat, sqr
    <2>2. SdPhase = "pend" /\ WaitsLeft = rsp.wait_state
      BY <2>1 DEF SdPhase, WaitsLeft
    <2>3. CASE rsp.wait_state > 0
      <3>1. SdPhase' = "wait" /\ sdi' = 1
        BY <2>1, <2>3 DEF SdPhase
      <3>2. Coming("sdrv")' = 0
        BY <2>1 DEF Coming
      <3>3. WaitsLeft' = rsp.wait_state + 1 - (1 + 0)
        BY <2>1, <3>1, <3>2 DEF WaitsLeft
      <3> QED BY <1>2, <2>1, <2>2, <3>3
    <2>4. CASE ~(rsp.wait_state > 0)
      <3>1. SdPhase' \notin {"pend", "wait"}
        BY <2>1, <2>4 DEF SdPhase
      <3>2. WaitsLeft' = 0
        BY <2>1, <3>1 DEF WaitsLeft
      <3> QED BY <1>1, <3>2
    <2> QED BY <2>3, <2>4
  <1>5. CASE SDWait
    <2>1. /\ sdpc = "wait" /\ rsp' = rsp /\ "sdrv" \in due /\ "sdrv" \notin due'
          /\ IF sdi < rsp.wait_state THEN sdpc' = "wait" /\ sdi' = sdi + 1
                                     ELSE sdpc' = "beat"
      BY <1>5 DEF SDWait, WaitCycle, Beat, sqr, Edge
    <2>2. rsp # NoItem /\ sdi \in 1 .. rsp.wait_state
      BY <2>1, ConstantsAssumption DEF TypeInv, HoldsPacket, DataInv, WaitsCounted
    <2>3. Coming("sdrv") = 1 /\ Coming("sdrv")' = 0
      BY <2>1 DEF Coming
    <2>4. CASE sdi < rsp.wait_state
      <3>1. SdPhase = "wait" /\ SdPhase' = "wait" /\ sdi' = sdi + 1
        BY <1>2, <2>1, <2>2, <2>4 DEF SdPhase
      <3>2. WaitsLeft = rsp.wait_state + 1 - (sdi + 1)
        BY <2>2, <2>3, <3>1 DEF WaitsLeft
      <3>3. WaitsLeft' = rsp.wait_state + 1 - ((sdi + 1) + 0)
        BY <2>1, <2>2, <2>3, <3>1 DEF WaitsLeft
      <3> QED BY <1>2, <2>2, <3>2, <3>3
    <2>5. CASE ~(sdi < rsp.wait_state)
      <3>1. SdPhase' \notin {"pend", "wait"}
        BY <2>1, <2>5 DEF SdPhase
      <3>2. WaitsLeft' = 0
        BY <2>1, <2>2, <3>1 DEF WaitsLeft
      <3> QED BY <1>1, <3>2
    <2> QED BY <2>4, <2>5
  <1>6. CASE SDBeat
    <2>1. /\ sdpc = "beat" /\ sdpc' = "beat" /\ rsp' = rsp
      BY <1>6 DEF SDBeat, Beat, sqr
    <2>2. rsp # NoItem
      BY <2>1, ConstantsAssumption DEF TypeInv, HoldsPacket
    <2>3. SdPhase' \notin {"pend", "wait"}
      BY <2>1 DEF SdPhase
    <2>4. WaitsLeft' = 0
      BY <2>1, <2>2, <2>3 DEF WaitsLeft
    <2> QED BY <1>1, <2>4
  <1>7. CASE SDEndRead \/ SDEndWrite \/ SDTail
    <2>1. /\ "sdrv" \in due
          /\ sdpc = "tail" \/ (sdpc = "beat" /\ sdi = rsp.size)
      BY <1>7 DEF SDEndRead, SDEndWrite, SDTail, Edge
    <2>2. rsp \in Packet /\ rsp # NoItem
      BY <2>1, ConstantsAssumption DEF TypeInv, HoldsPacket
    <2>3. rsp.size \in Nat
      BY <2>2, PacketFields
    <2>4. SdPhase \in {"free", "tail"}
      BY <2>1, <2>3 DEF SdPhase, SdCount, Coming
    <2> QED BY <1>2, <2>2, <2>4
  <1> QED BY <1>3, <1>4, <1>5, <1>6, <1>7 DEF SlaveDrives, SDStep

\* So the slave side never puts an item off.
LEMMA ClocksSlave ==
  ASSUME TypeInv, InStep, DataInv, WaitsDrawn, SlaveServes \/ SlaveDrives, mdpc # "get"
  PROVE  ClocksLeft' <= ClocksLeft
  <1>1. UNCHANGED <<mdpc, tr, mdi>> /\ ("mdrv" \in due' <=> "mdrv" \in due)
    BY DEF SlaveServes, SlaveDrives, Serve, md, wires, SDStep, SDGet, SDWait, SDBeat, SDEndRead,
           SDEndWrite, SDTail, SDDone, Edge
  <1>2. MdCount' = MdCount /\ Loop' = Loop
    BY <1>1 DEF MdCount, Coming, Loop
  <1>3. MdPhase' = MdPhase
    BY <1>1, <1>2 DEF MdPhase
  <1>4. Loop \in Nat /\ MaxWait \in Nat
    BY ItemDriven, ConstantsAssumption
  <1>5. CASE MdPhase # "wait"
    <2>1. ClocksLeft' = ClocksLeft
      BY <1>1, <1>2, <1>3, <1>5 DEF ClocksLeft
    <2>2. tr.size \in Nat /\ ClocksLeft \in 0 .. tr.size + MaxWait + 3
      BY ItemDriven, ClocksBounded
    <2> QED BY <1>4, <2>1, <2>2
  <1>6. CASE MdPhase = "wait"
    <2>1. WaitsLeft \in Nat /\ WaitsLeft' \in Nat /\ WaitsLeft' <= WaitsLeft
      BY <1>4, <1>6, WaitsBounded, WaitsShrink
    <2>2. \A a, b, c \in Nat : a <= b => a + c <= b + c
      OBVIOUS
    <2>3. WaitsLeft' + Loop <= WaitsLeft + Loop
      BY <1>4, <2>1, <2>2
    <2>4. ClocksLeft = WaitsLeft + Loop /\ ClocksLeft' = WaitsLeft' + Loop
      BY <1>2, <1>3, <1>6 DEF ClocksLeft
    <2> QED BY <2>3, <2>4
  <1> QED BY <1>5, <1>6

\* The clock edge takes one clock away, whatever the drivers are at.
LEMMA ClocksPosedge ==
  ASSUME TypeInv, InStep, DataInv, WaitsDrawn, Posedge, mdpc # "get"
  PROVE  ClocksLeft' = ClocksLeft - 1
  <1>1. /\ AtRest /\ UNCHANGED <<mdpc, tr, mdi, sdpc, sdi, rsp>>
        /\ due = {} /\ due' = AtClock /\ ~MDRunnable /\ ~SSRunnable /\ ~SDRunnable
    BY DEF Posedge, AtRest, ActiveDone, md, sd, sqr
  <1>2. /\ tr.size \in Nat /\ 1 <= tr.size /\ Loop \in Nat /\ MaxWait \in Nat
        /\ tr.dir \in {"read", "write"}
        /\ Loop = IF tr.dir = "write" THEN tr.size + 1 ELSE tr.size
    BY ItemDriven, ConstantsAssumption
  <1>3. Loop' = Loop
    BY <1>1 DEF Loop
  <1>4. mdpc \in {"addr", "ctrl", "wait", "beat", "tail"}
    BY DEF TypeInv, TypeOK, MDType
  <1>5. mdpc # "wait" => "mdrv" \in due'
    BY <1>1, <1>4 DEF AtClock, Procs, MDAtClock
  <1>6. CASE mdpc = "addr"
    <2>1. MdPhase = "free" /\ MdPhase' = "ctrl"
      BY <1>1, <1>5, <1>6 DEF MdPhase
    <2>2. ClocksLeft = 2 + MaxWait + Loop /\ ClocksLeft' = 1 + MaxWait + Loop
      BY <1>3, <1>6, <2>1 DEF ClocksLeft
    <2> QED BY <1>2, <2>2
  <1>7. CASE mdpc = "ctrl"
    <2>1. MdPhase = "ctrl" /\ MdPhase' = "wait"
      BY <1>1, <1>5, <1>7 DEF MdPhase
    <2>2. rsp = NoItem
      <3>1. SdPhase = "free"
        BY <2>1 DEF InStep, SlaveInStep
      <3>2. sdpc = "get"
        <4>1. sdpc = "beat" => sdi \in 1 .. rsp.size /\ rsp \in Packet
          BY DEF InStep, Counters, TypeInv, HoldsPacket
        <4>2. sdpc = "beat" => sdi <= rsp.size /\ sdi \in Nat
          BY <4>1, PacketFields
        <4>3. SdCount = IF sdpc = "wait" THEN 1 ELSE sdi + 0
          BY <1>1 DEF SdCount, Coming
        <4>4. sdpc # "beat"
          BY <3>1, <4>2, <4>3 DEF SdPhase
        <4> QED BY <1>1, <3>1, <4>4 DEF SdPhase, TypeInv, TypeOK, SDType
      <3> QED BY <3>1, <3>2 DEF SdPhase
    <2>3. WaitsLeft' = MaxWait
      <3>1. SdPhase = "free" /\ sdpc # "wait"
        BY <1>1, <2>1 DEF InStep, SlaveInStep, SdPhase
      <3>2. SdPhase' \notin {"pend", "wait"}
        BY <1>1, <2>2, <3>1 DEF SdPhase, TypeInv, TypeOK, SDType
      <3> QED BY <1>1, <2>2, <3>2 DEF WaitsLeft
    <2>4. ClocksLeft = 1 + MaxWait + Loop /\ ClocksLeft' = MaxWait + Loop
      BY <1>3, <2>1, <2>3 DEF ClocksLeft
    <2> QED BY <1>2, <2>4
  <1>8. CASE mdpc = "wait"
    <2>1. MdPhase = "wait" /\ MdPhase' = "wait" /\ bus.wait # 0
      BY <1>1, <1>8 DEF MdPhase, MDRunnable
    <2>2. sdpc # "get" /\ rsp # NoItem
      BY <1>1, <2>1 DEF InStep, SlaveInStep, SSRunnable, SDRunnable, Detecting
    <2>3. sdpc # "beat"
      BY <1>1, <1>8, RestInBeat
    <2>4. sdpc = "wait"
      <3>1. SdPhase \in {"pend", "wait", "beat"}
        BY <2>1, <2>2 DEF InStep, SlaveInStep
      <3> QED BY <1>1, <2>2, <2>3, <3>1 DEF SdPhase, TypeInv, TypeOK, SDType
    <2>5. sdi \in 1 .. rsp.wait_state /\ rsp.wait_state \in Nat
      BY <1>2, <2>2, <2>4 DEF DataInv, WaitsCounted, WaitsDrawn
    <2>6. Coming("sdrv") = 0 /\ Coming("sdrv")' = 1 /\ "sdrv" \in due'
      BY <1>1, <2>4 DEF Coming, AtClock, Procs, SDAtClock
    <2>7. WaitsLeft = rsp.wait_state + 1 - (sdi + 0)
      <3>1. SdPhase = "wait"
        BY <1>1, <2>4 DEF SdPhase
      <3> QED BY <2>2, <2>6, <3>1 DEF WaitsLeft
    <2>8. WaitsLeft' = rsp.wait_state + 1 - (sdi + 1)
      <3>1. CASE sdi >= rsp.wait_state
        <4>1. SdPhase' = "beat"
          BY <1>1, <2>4, <2>6, <3>1 DEF SdPhase
        <4>2. WaitsLeft' = 0
          BY <1>1, <2>2, <4>1 DEF WaitsLeft
        <4> QED BY <2>5, <3>1, <4>2
      <3>2. CASE ~(sdi >= rsp.wait_state)
        <4>1. SdPhase' = "wait"
          BY <1>1, <2>4, <3>2 DEF SdPhase
        <4> QED BY <1>1, <2>2, <2>6, <4>1 DEF WaitsLeft
      <3> QED BY <3>1, <3>2
    <2>9. ClocksLeft = WaitsLeft + Loop /\ ClocksLeft' = WaitsLeft' + Loop
      BY <1>3, <2>1 DEF ClocksLeft
    <2> QED BY <1>2, <2>5, <2>7, <2>8, <2>9
  <1>9. CASE mdpc = "beat"
    <2>1. mdi \in Nat /\ 1 <= mdi /\ mdi <= tr.size
      BY <1>2, <1>9 DEF InStep, Counters
    <2>2. MdCount = mdi /\ MdCount' = mdi + 1
      BY <1>1, <1>5, <1>9, <2>1 DEF MdCount, Coming
    <2>3. MdPhase = "beat" /\ ClocksLeft = 1 + Loop - mdi
      BY <1>9, <2>1, <2>2 DEF MdPhase, ClocksLeft
    <2>4. CASE mdi < tr.size
      <3>1. MdPhase' = "beat"
        BY <1>1, <1>2, <1>9, <2>1, <2>2, <2>4 DEF MdPhase
      <3>2. ClocksLeft' = 1 + Loop - (mdi + 1)
        BY <1>3, <2>2, <3>1 DEF ClocksLeft
      <3> QED BY <1>2, <2>1, <2>3, <3>2
    <2>5. CASE mdi = tr.size /\ tr.dir = "write"
      <3>1. MdPhase' = "tail"
        BY <1>1, <1>2, <1>9, <2>2, <2>5 DEF MdPhase
      <3>2. ClocksLeft' = 1
        BY <3>1 DEF ClocksLeft
      <3> QED BY <1>2, <2>3, <2>5, <3>2
    <2>6. CASE mdi = tr.size /\ tr.dir = "read"
      <3>1. MdPhase' = "free"
        BY <1>1, <1>2, <1>9, <2>2, <2>6 DEF MdPhase
      <3>2. ClocksLeft' = 0
        BY <1>1, <1>9, <3>1 DEF ClocksLeft
      <3> QED BY <1>2, <2>3, <2>6, <3>2
    <2> QED BY <1>2, <2>1, <2>4, <2>5, <2>6
  <1>10. CASE mdpc = "tail"
    <2>1. MdPhase = "tail" /\ MdPhase' = "free"
      BY <1>1, <1>5, <1>10 DEF MdPhase
    <2> QED BY <1>1, <1>10, <2>1 DEF ClocksLeft
  <1> QED BY <1>4, <1>6, <1>7, <1>8, <1>9, <1>10

\* From the first edge of its address phase on an item is done after a bounded
\* number of clocks, as far as safety goes: every edge uses one up, no process
\* gives one back.
THEOREM ItemsRunDown == Spec => ClocksRunDown
  <1>1. ASSUME TypeInv, InStep, DataInv, WaitsDrawn, [Next]_vars
        PROVE  [mdpc # "get" =>
                  /\ ClocksLeft \in 0 .. tr.size + MaxWait + 3
                  /\ IF ClockTicks THEN ClocksLeft' = ClocksLeft - 1
                                   ELSE ClocksLeft' <= ClocksLeft]_vars
    <2> SUFFICES ASSUME Next, mdpc # "get"
                 PROVE  /\ ClocksLeft \in 0 .. tr.size + MaxWait + 3
                        /\ IF ClockTicks THEN ClocksLeft' = ClocksLeft - 1
                                         ELSE ClocksLeft' <= ClocksLeft
      BY <1>1
    <2>1. /\ ClocksLeft \in 0 .. tr.size + MaxWait + 3 /\ ClocksLeft \in Nat
      BY <1>1, ClocksBounded, ItemDriven, ConstantsAssumption
    <2>2. CASE Posedge
      BY <1>1, <2>1, <2>2, ClocksPosedge
    <2>3. CASE ~Posedge
      <3>1. ~Request
        BY DEF Request, GetNextItem
      <3>2. ~ClockTicks
        <4>1. CASE Commit \/ SlaveServes
          BY <4>1 DEF Commit, CommitNba, SlaveServes, Serve, wires, ClockTicks
        <4>2. CASE MasterDrives
          BY <4>2 DEF MasterDrives, MDStep, DriveAddr, ReleaseAddr, FirstBeat, NextBeat,
                      EndWrite, ItemDone, Edge, ClockTicks
        <4>3. CASE MasterWatches \/ MasterPublishes
          BY <4>3 DEF MasterWatches, MasterPublishes, MMStep, MMIdle, MMDetect, MMWait,
                      MMLeaveWait, MMBeat, MMPublish, wires, Edge, ClockTicks
        <4>4. CASE SlaveWatches \/ SlavePublishes
          BY <4>4 DEF SlaveWatches, SlavePublishes, SMStep, SMIdle, SMDetect, SMWait,
                      SMLeaveWait, SMBeat, SMPublish, wires, Edge, ClockTicks
        <4>5. CASE SlaveDrives
          BY <4>5 DEF SlaveDrives, SDStep, SDGet, SDWait, SDBeat, SDEndRead, SDEndWrite,
                      SDTail, SDDone, wires, Edge, ClockTicks
        <4> QED BY <2>3, <3>1, <4>1, <4>2, <4>3, <4>4, <4>5 DEF Next, Step, Silent
      <3>3. CASE MasterDrives
        BY <1>1, <3>2, <2>1, <3>3, ClocksMaster
      <3>4. CASE SlaveServes \/ SlaveDrives
        BY <1>1, <3>2, <2>1, <3>4, ClocksSlave
      <3>5. CASE Commit \/ MasterWatches \/ MasterPublishes \/ SlaveWatches \/ SlavePublishes
        <4>1. /\ UNCHANGED <<md, sd, rsp>>
              /\ "mdrv" \in due' <=> "mdrv" \in due
              /\ "sdrv" \in due' <=> "sdrv" \in due
          <5>1. CASE Commit
            BY <5>1 DEF Commit, CommitNba, sqr
          <5>2. CASE MasterWatches \/ MasterPublishes
            BY <5>2 DEF MasterWatches, MasterPublishes, MMStep, MMIdle, MMDetect, MMWait,
                        MMLeaveWait, MMBeat, MMPublish, wires, Edge, sqr
          <5>3. CASE SlaveWatches \/ SlavePublishes
            BY <5>3 DEF SlaveWatches, SlavePublishes, SMStep, SMIdle, SMDetect, SMWait,
                        SMLeaveWait, SMBeat, SMPublish, wires, Edge, sqr
          <5> QED BY <3>5, <5>1, <5>2, <5>3
        <4>2. ClocksLeft' = ClocksLeft
          BY <4>1, ClocksFrame
        <4> QED BY <2>1, <3>2, <4>2
      <3> QED BY <2>3, <3>1, <3>3, <3>4, <3>5 DEF Next, Step, Silent
    <2> QED BY <2>2, <2>3
  <1>2. Spec => []TypeInv
    BY TypeCorrect DEF TypeInv
  <1>3. Spec => []WaitsDrawn
    BY <1>2, WaitsDrawnInit, WaitsDrawnNext, PTL DEF Spec
  <1> QED BY <1>1, <1>2, <1>3, AgentsInStep, BytesAreFollowed, PTL DEF Spec, ClocksRunDown
=============================================================================
