------------------------- MODULE UbusLockStepProofs -------------------------
(***************************************************************************)
(* InStep is an invariant of UbusBus, and with it LockStep and the other   *)
(* properties of the agents, for every value of the constants.  The two    *)
(* monitors, which do not know of each other, agree.                       *)
(***************************************************************************)
EXTENDS UbusBusProofs

-----------------------------------------------------------------------------
(* Frames: what a step leaves alone *)

\* The phases of the drivers depend on the drivers and their own edges only.
LEMMA PhasesKept ==
  ASSUME UNCHANGED <<md, sd, rsp>>,
         "mdrv" \in due' <=> "mdrv" \in due, "sdrv" \in due' <=> "sdrv" \in due
  PROVE  /\ MdPhase' = MdPhase /\ MdCount' = MdCount
         /\ SdPhase' = SdPhase /\ SdCount' = SdCount
  BY DEF MdPhase, MdCount, SdPhase, SdCount, Coming, md, sd

\* The phases of the master driver.
LEMMA MdPhases ==
  ASSUME MDType
  PROVE  MdPhase \in {"free", "ctrl", "wait", "beat", "tail"}
  BY DEF MDType, MdPhase

\* A step of the master monitor takes its edge: no phase changes.
LEMMA MasterMonitorInStep ==
  TypeInv /\ InStep /\ (MasterWatches \/ MasterPublishes) => InStep'
  <1> SUFFICES ASSUME TypeInv, InStep, MasterWatches \/ MasterPublishes PROVE InStep'
    OBVIOUS
  <1>1. MMStep \/ MMPublish
    BY DEF MasterWatches, MasterPublishes
  <1>2. UNCHANGED <<sqr, md, sm, sd>>
    BY DEF MasterWatches, MasterPublishes
  <1>3. /\ bus' = bus /\ nba' = nba /\ due' \subseteq due
        /\ \A p \in {"mdrv", "sdrv", "smon"} : p \in due' <=> p \in due
    BY <1>1 DEF MMStep, MMIdle, MMDetect, MMWait, MMLeaveWait, MMBeat, MMPublish, Edge, wires
  <1>4. /\ MdPhase' = MdPhase /\ MdCount' = MdCount
        /\ SdPhase' = SdPhase /\ SdCount' = SdCount
    BY <1>2, <1>3, PhasesKept DEF sqr
  <1>5. Counters'
    <2>1. due' \subseteq AtClock'
      BY <1>1, <1>2, <1>3
      DEF InStep, Counters, AtClock, MDAtClock, SDAtClock, MMAtClock, SMAtClock, md, sd, sm,
          MMStep, MMIdle, MMDetect, MMWait, MMLeaveWait, MMBeat, MMPublish, Edge, wires, mm
    <2> QED BY <1>2, <2>1 DEF InStep, Counters, md, sd, sqr
  <1>6. MonitorOK(smpc, smreq, smi)'
    BY <1>2, <1>3 DEF InStep, MonitorOK, sm
  <1>7. Signals' /\ DataDrivers' /\ HeaderVisible' /\ WaitLow'
    BY <1>2, <1>3, <1>4 DEF InStep, Signals, DataDrivers, HeaderVisible, WaitLow,
                            NextData, NoContention, md, sd, sqr, Bip
  <1>8. SlaveInStep'
    BY <1>2, <1>3, <1>4 DEF InStep, SlaveInStep, Detecting, md, sd, sqr, sm
  <1>9. MonitorInStep(smpc, smreq, smi, "smon")'
    BY <1>2, <1>3, <1>4 DEF InStep, MonitorInStep, Detecting, Busy, Seen, Coming, md, sm
  <1>10. MonitorOK(mmpc, mmreq, mmi)' /\ MonitorInStep(mmpc, mmreq, mmi, "mmon")'
    <2> USE <1>2, <1>3, <1>4 DEF InStep, MonitorOK, MonitorInStep, Detecting, Busy, Seen, Coming
    <2>1. tr' = tr /\ mdpc' = mdpc
      BY DEF md
    <2>2. /\ mmpc # "idle" => /\ mmreq \in Packet /\ mmreq.size \in Nat /\ 1 <= mmreq.size
                              /\ mmreq.wait_state \in Nat
          /\ mmi \in Nat /\ MDType
      BY PacketFields, ConstantsAssumption DEF TypeInv, TypeOK, MMType, HoldsPacket
    <2>3. CASE MMIdle
      BY <2>1, <2>3 DEF MMIdle, mm, Edge
    <2>4. CASE MMDetect
      <3>1. MdPhase = "wait" /\ bus.hdr = HdrOf(tr)
        BY <2>4 DEF MMDetect, Edge, HeaderVisible, MdPhase
      <3>2. bus.wait # 0
        BY <2>4, <3>1 DEF MMDetect, Edge, WaitLow
      <3>3. HdrOf(mmreq') = HdrOf(tr) /\ mmreq'.wait_state = 0
        BY <2>4, <3>1 DEF MMDetect, MMAccept, NewReq, HdrOf
      <3>4. mmpc' \in {"wait1", "wait0"} /\ (mmpc' = "wait1" => bus.wait = 1) /\ mmi' = 0
        BY <2>4, <3>2 DEF MMDetect, MMAccept, AfterWhile
      <3> QED BY <2>1, <2>4, <3>1, <3>3, <3>4 DEF MMDetect, Edge
    <2>5. CASE MMWait
      <3>1. mmreq'.wait_state = mmreq.wait_state + 1 /\ mmreq'.size = mmreq.size
            /\ HdrOf(mmreq') = HdrOf(mmreq)
        BY <2>2, <2>5 DEF MMWait, Packet, HdrOf
      <3>2. mmpc' = IF bus.wait = 0 THEN "beat" ELSE "wait1"
        BY <2>5, NbaFields DEF MMWait, AfterWhile, TypeInv, TypeOK
      <3> QED BY <2>1, <2>2, <2>5, <3>1, <3>2 DEF MMWait, Edge
    <2>6. CASE MMLeaveWait
      <3>1. MdPhase = "wait" => SdPhase = "beat"
        BY <2>6 DEF MMLeaveWait, WaitLow, SlaveInStep, SdPhase
      <3>2. MdPhase \in {"wait", "beat"}
        BY <2>2, <2>6, MdPhases DEF MMLeaveWait, WaitLow
      <3>3. "mmon" \notin due
        BY <2>6 DEF MMLeaveWait, Counters, AtClock, MMAtClock
      <3> QED BY <2>1, <2>2, <2>6, <3>1, <3>2, <3>3 DEF MMLeaveWait
    <2>7. CASE MMBeat
      <3>1. mmreq'.wait_state = mmreq.wait_state /\ mmreq'.size = mmreq.size
            /\ HdrOf(mmreq') = HdrOf(mmreq)
        BY <2>2, <2>7 DEF MMBeat, MMSampled, Packet, HdrOf
      <3> QED BY <2>1, <2>2, <2>7, <3>1 DEF MMBeat, Edge
    <2>8. CASE MMPublish
      <3>1. bus.hdr = NoHdr
        BY <2>2, <2>8 DEF MMPublish, Edge, HeaderVisible, MdPhase
      <3> QED BY <2>1, <2>2, <2>8, <3>1 DEF MMPublish, Edge
    <2> QED BY <1>1, <2>3, <2>4, <2>5, <2>6, <2>7, <2>8 DEF MMStep
  <1> QED BY <1>5, <1>6, <1>7, <1>8, <1>9, <1>10 DEF InStep

\* A step of the slave monitor; detecting a header puts it into the fifo.
LEMMA SlaveMonitorInStep ==
  TypeInv /\ InStep /\ (SlaveWatches \/ SlavePublishes) => InStep'
  <1> SUFFICES ASSUME TypeInv, InStep, SlaveWatches \/ SlavePublishes PROVE InStep'
    OBVIOUS
  <1>1. SMStep \/ SMPublish
    BY DEF SlaveWatches, SlavePublishes
  <1>2. UNCHANGED <<rsp, md, mm, sd>>
    BY <1>1 DEF SlaveWatches, SlavePublishes, sqr,
                SMStep, SMIdle, SMDetect, SMWait, SMLeaveWait, SMBeat, SMPublish
  <1>3. /\ bus' = bus /\ nba' = nba /\ due' \subseteq due
        /\ \A p \in {"mdrv", "sdrv", "mmon"} : p \in due' <=> p \in due
    BY <1>1 DEF SMStep, SMIdle, SMDetect, SMWait, SMLeaveWait, SMBeat, SMPublish, Edge, wires
  <1>4. /\ MdPhase' = MdPhase /\ MdCount' = MdCount
        /\ SdPhase' = SdPhase /\ SdCount' = SdCount
    BY <1>2, <1>3, PhasesKept
  <1>5. Counters'
    <2>1. due' \subseteq AtClock'
      BY <1>1, <1>2, <1>3
      DEF InStep, Counters, AtClock, MDAtClock, SDAtClock, MMAtClock, SMAtClock, md, sd, mm,
          SMStep, SMIdle, SMDetect, SMWait, SMLeaveWait, SMBeat, SMPublish, Edge, wires, sm
    <2> QED BY <1>2, <2>1 DEF InStep, Counters, md, sd
  <1>6. MonitorOK(mmpc, mmreq, mmi)'
    BY <1>2, <1>3 DEF InStep, MonitorOK, mm
  <1>7. Signals' /\ DataDrivers' /\ HeaderVisible' /\ WaitLow'
    BY <1>2, <1>3, <1>4 DEF InStep, Signals, DataDrivers, HeaderVisible, WaitLow,
                            NextData, NoContention, md, sd, Bip
  <1>8. SlaveInStep'
    <2> USE <1>2, <1>3, <1>4 DEF md, sd
    <2>1. CASE SMDetect
      <3>1. MdPhase = "wait" /\ bus.hdr = HdrOf(tr) /\ Detecting(smpc, "smon")
        BY <2>1 DEF SMDetect, Edge, InStep, HeaderVisible, MdPhase, Detecting
      <3>2. request_fifo = <<>> /\ sdpc = "get" /\ rsp = NoItem
        BY <3>1 DEF InStep, SlaveInStep
      <3>3. request_fifo' = <<NewReq(bus.hdr)>> /\ HdrOf(NewReq(bus.hdr)) = HdrOf(tr)
        BY <2>1, <3>1, <3>2 DEF SMDetect, NewReq, HdrOf
      <3>4. "smon" \notin due'
        BY <2>1 DEF SMDetect, Edge
      <3> QED BY <3>1, <3>2, <3>3, <3>4 DEF SlaveInStep, Detecting
    <2>2. CASE SMIdle \/ SMWait \/ SMLeaveWait \/ SMBeat \/ SMPublish
      <3>1. request_fifo' = request_fifo
        BY <2>2 DEF SMIdle, SMWait, SMLeaveWait, SMBeat, SMPublish, SMUpdate, Edge,
                    sqr, InStep, SlaveInStep
      <3>2. ~Detecting(smpc, "smon") /\ ~Detecting(smpc, "smon")'
        BY <2>2 DEF SMIdle, SMWait, SMLeaveWait, SMBeat, SMPublish, Edge, Detecting
      <3> QED BY <3>1, <3>2 DEF InStep, SlaveInStep
    <2> QED BY <1>1, <2>1, <2>2 DEF SMStep
  <1>9. MonitorInStep(mmpc, mmreq, mmi, "mmon")'
    BY <1>2, <1>3, <1>4 DEF InStep, MonitorInStep, Detecting, Busy, Seen, Coming, md, mm
  <1>10. MonitorOK(smpc, smreq, smi)' /\ MonitorInStep(smpc, smreq, smi, "smon")'
    <2> USE <1>2, <1>3, <1>4 DEF InStep, MonitorOK, MonitorInStep, Detecting, Busy, Seen, Coming
    <2>1. tr' = tr /\ mdpc' = mdpc
      BY DEF md
    <2>2. /\ smpc # "idle" => /\ smreq \in Packet /\ smreq.size \in Nat /\ 1 <= smreq.size
                              /\ smreq.wait_state \in Nat
          /\ smi \in Nat /\ MDType
      BY PacketFields, ConstantsAssumption DEF TypeInv, TypeOK, SMType, HoldsPacket
    <2>3. CASE SMIdle
      BY <2>1, <2>3 DEF SMIdle, sm, Edge
    <2>4. CASE SMDetect
      <3>1. MdPhase = "wait" /\ bus.hdr = HdrOf(tr)
        BY <2>4 DEF SMDetect, Edge, HeaderVisible, MdPhase
      <3>2. bus.wait # 0
        BY <2>4, <3>1 DEF SMDetect, Edge, WaitLow
      <3>3. HdrOf(smreq') = HdrOf(tr) /\ smreq'.wait_state = 0
        BY <2>4, <3>1 DEF SMDetect, NewReq, HdrOf
      <3>4. smpc' \in {"wait1", "wait0"} /\ (smpc' = "wait1" => bus.wait = 1) /\ smi' = 0
        BY <2>4, <3>2 DEF SMDetect, AfterWhile
      <3> QED BY <2>1, <2>4, <3>1, <3>3, <3>4 DEF SMDetect, Edge
    <2>5. CASE SMWait
      <3>1. smreq'.wait_state = smreq.wait_state + 1 /\ smreq'.size = smreq.size
            /\ HdrOf(smreq') = HdrOf(smreq)
        BY <2>2, <2>5 DEF SMWait, SMUpdate, Packet, HdrOf
      <3>2. smpc' = IF bus.wait = 0 THEN "beat" ELSE "wait1"
        BY <2>5, NbaFields DEF SMWait, AfterWhile, TypeInv, TypeOK
      <3> QED BY <2>1, <2>2, <2>5, <3>1, <3>2 DEF SMWait, Edge
    <2>6. CASE SMLeaveWait
      <3>1. MdPhase = "wait" => SdPhase = "beat"
        BY <2>6 DEF SMLeaveWait, WaitLow, SlaveInStep, SdPhase
      <3>2. MdPhase \in {"wait", "beat"}
        BY <2>2, <2>6, MdPhases DEF SMLeaveWait, WaitLow
      <3>3. "smon" \notin due
        BY <2>6 DEF SMLeaveWait, Counters, AtClock, SMAtClock
      <3> QED BY <2>1, <2>2, <2>6, <3>1, <3>2, <3>3 DEF SMLeaveWait
    <2>7. CASE SMBeat
      <3>1. smreq'.wait_state = smreq.wait_state /\ smreq'.size = smreq.size
            /\ HdrOf(smreq') = HdrOf(smreq)
        BY <2>2, <2>7 DEF SMBeat, SMUpdate, SMSampled, Packet, HdrOf
      <3> QED BY <2>1, <2>2, <2>7, <3>1 DEF SMBeat, Edge
    <2>8. CASE SMPublish
      <3>1. bus.hdr = NoHdr
        BY <2>2, <2>8 DEF SMPublish, Edge, HeaderVisible, MdPhase
      <3> QED BY <2>1, <2>2, <2>8, <3>1 DEF SMPublish, Edge
    <2> QED BY <1>1, <2>3, <2>4, <2>5, <2>6, <2>7, <2>8 DEF SMStep
  <1> QED BY <1>5, <1>6, <1>7, <1>8, <1>9, <1>10 DEF InStep

\* The slave sequence turns the waiting request into a pending response.
LEMMA SlaveServesInStep == TypeInv /\ InStep /\ SlaveServes => InStep'
  <1> SUFFICES ASSUME TypeInv, InStep, SlaveServes PROVE InStep'
    OBVIOUS
  <1>1. UNCHANGED <<md, mm, sm, sd, wires>> /\ rsp = NoItem /\ request_fifo # <<>>
    BY DEF SlaveServes, Serve
  <1>2. MdPhase' = MdPhase /\ MdCount' = MdCount
    BY <1>1 DEF MdPhase, MdCount, Coming, md, wires
  <1>3. /\ MdPhase = "wait" /\ ~Detecting(smpc, "smon") /\ sdpc = "get"
        /\ Len(request_fifo) = 1 /\ HdrOf(Head(request_fifo)) = HdrOf(tr)
    BY <1>1, MdPhases DEF TypeInv, TypeOK, InStep, SlaveInStep
  <1>4. rsp' # NoItem /\ HdrOf(rsp') = HdrOf(tr) /\ request_fifo' = <<>>
    <2>1. rsp' \in Packet /\ HdrOf(rsp') = HdrOf(tr)
      BY <1>3, ServeAnswers DEF SlaveServes
    <2>2. request_fifo' = <<>>
      BY <1>3 DEF SlaveServes, Serve, TypeInv, TypeOK, SqrType
    <2> QED BY <2>1, <2>2, ConstantsAssumption
  <1>5. SdPhase = "free" /\ SdPhase' = "pend"
    BY <1>1, <1>3, <1>4 DEF SdPhase, sd
  <1>6. Counters'
    BY <1>1, <1>3 DEF InStep, Counters, AtClock, MDAtClock, SDAtClock, MMAtClock, SMAtClock,
                      md, mm, sm, sd, wires
  <1>7. MonitorOK(mmpc, mmreq, mmi)' /\ MonitorOK(smpc, smreq, smi)'
    BY <1>1 DEF InStep, MonitorOK, mm, sm, wires
  <1>8. Signals' /\ DataDrivers' /\ HeaderVisible' /\ WaitLow'
    BY <1>1, <1>2, <1>3 DEF InStep, Signals, DataDrivers, HeaderVisible, WaitLow,
                            NextData, NoContention, md, sd, wires, Bip
  <1>9. SlaveInStep'
    BY <1>1, <1>2, <1>3, <1>4, <1>5 DEF SlaveInStep, Detecting, md, sm, sd, wires
  <1>10. MonitorInStep(mmpc, mmreq, mmi, "mmon")' /\ MonitorInStep(smpc, smreq, smi, "smon")'
    BY <1>1, <1>2, <1>3, <1>5 DEF InStep, MonitorInStep, Detecting, Busy, Seen, Coming,
                                  md, mm, sm, wires
  <1> QED BY <1>6, <1>7, <1>8, <1>9, <1>10 DEF InStep

\* The NBA region: the bus becomes what was scheduled.
LEMMA CommitInStep == TypeInv /\ InStep /\ Commit => InStep'
  <1> SUFFICES ASSUME TypeInv, InStep, Commit PROVE InStep'
    OBVIOUS
  <1>1. UNCHANGED <<md, mm, sm, sd, sqr, due>> /\ due = {} /\ nba' = NoNba
    BY DEF Commit, CommitNba, ActiveDone
  <1>2. /\ MdPhase' = MdPhase /\ MdCount' = MdCount
        /\ SdPhase' = SdPhase /\ SdCount' = SdCount
    BY <1>1, PhasesKept DEF sqr
  <1>3. /\ bus'.hdr = Updated(bus.hdr, nba.hdr) /\ bus'.wait = Updated(bus.wait, nba.wait)
        /\ bus'.bip = Updated(bus.bip, nba.bip) /\ bus'.data = NextData
    BY NbaFields DEF Commit, CommitNba, Settled, NextData, InStep, DataDrivers, NoContention
  <1>4. /\ nba'.hdr = Keep /\ nba'.wait = Keep /\ nba'.bip = Keep
        /\ nba'.mdata = Keep /\ nba'.sdata = Keep
    BY <1>1 DEF NoNba
  <1>5. Counters'
    BY <1>1 DEF InStep, Counters, AtClock, MDAtClock, SDAtClock, MMAtClock, SMAtClock,
                md, mm, sm, sd, sqr
  <1>6. MonitorOK(mmpc, mmreq, mmi)' /\ MonitorOK(smpc, smreq, smi)'
    BY <1>1, <1>3, NbaFields DEF InStep, MonitorOK, Updated, mm, sm, TypeInv, TypeOK
  <1>7. Signals' /\ DataDrivers'
    BY <1>1, <1>2, <1>3, <1>4
    DEF InStep, Signals, DataDrivers, NoContention, NextData, Updated, Bip, md, sd, sqr
  <1>9. WaitLow'
    <2>1. sdpc = "beat" => SdPhase = "beat"
      BY <1>1, PacketFields DEF InStep, Counters, SdPhase, SdCount, Coming, TypeInv, HoldsPacket
    <2>2. MdPhase = "wait" => mdpc = "wait"
      BY <1>1 DEF MdPhase, TypeInv, TypeOK, MDType
    <2> QED BY <1>1, <1>2, <1>3, <2>1, <2>2 DEF InStep, Signals, SlaveInStep, WaitLow, md, sd
  <1>8. HeaderVisible'
    <2>1. bus'.hdr # NoHdr => mdpc = "ctrl" /\ bus'.hdr = HdrOf(tr)
      BY <1>3 DEF InStep, Signals
    <2>2. mdpc = "ctrl" => MdPhase' = "ctrl"
      BY <1>1, <1>2 DEF MdPhase
    <2> QED BY <1>1, <1>4, <1>9, <2>1, <2>2 DEF HeaderVisible, WaitLow, md
  <1>10. SlaveInStep'
    BY <1>1, <1>2 DEF InStep, SlaveInStep, Detecting, md, sd, sqr, sm
  <1>11. MonitorInStep(mmpc, mmreq, mmi, "mmon")' /\ MonitorInStep(smpc, smreq, smi, "smon")'
    BY <1>1, <1>2 DEF InStep, MonitorInStep, Detecting, Busy, Seen, Coming, md, mm, sm
  <1> QED BY <1>5, <1>6, <1>7, <1>8, <1>9, <1>10, <1>11 DEF InStep

\* A step of the slave driver schedules what its next phase promises.
LEMMA SlaveDriverInStep == TypeInv /\ InStep /\ SlaveDrives => InStep'
  <1> SUFFICES ASSUME TypeInv, InStep, SlaveDrives PROVE InStep'
    OBVIOUS
  <1>1. SDStep /\ UNCHANGED <<md, mm, sm>>
    BY DEF SlaveDrives
  <1>2. /\ bus' = bus /\ request_fifo' = request_fifo /\ due' \subseteq due
        /\ \A p \in {"mdrv", "mmon", "smon"} : p \in due' <=> p \in due
        /\ nba'.mdata = nba.mdata /\ nba'.hdr = nba.hdr /\ nba'.bip = nba.bip
    BY <1>1, NbaFields DEF SDStep, SDGet, SDWait, SDBeat, SDEndRead, SDEndWrite, SDTail, SDDone,
                WaitCycle, Beat, Edge, sqr, TypeInv, TypeOK
  <1>3. MdPhase' = MdPhase /\ MdCount' = MdCount
    BY <1>1, <1>2 DEF MdPhase, MdCount, Coming, md
  <1>4. /\ rsp \in Packet /\ rsp.wait_state \in Nat /\ rsp.size \in Nat /\ 1 <= rsp.size
        /\ rsp # NoItem /\ sdi \in Nat /\ MDType
    <2>1. rsp \in Packet
      BY <1>1 DEF SDStep, SDGet, SDWait, SDBeat, SDEndRead, SDEndWrite, SDTail,
                  TypeInv, TypeOK, SqrType, HoldsPacket
    <2> QED BY <2>1, PacketFields, ConstantsAssumption DEF TypeInv, TypeOK, SDType
  <1>5. SdPhase # "free" /\ rsp.dir = "read" => nba.mdata = Keep
    <2>1. CASE SdPhase = "pend"
      <3>1. SDGet
        BY <1>1, <2>1 DEF SDStep, SDWait, SDBeat, SDEndRead, SDEndWrite, SDTail, SdPhase
      <3> QED BY <3>1 DEF SDGet, NoNba
    <2>2. CASE SdPhase \in {"wait", "beat"} /\ rsp.dir = "read"
      <3>1. MdPhase \in {"wait", "beat"} /\ HdrOf(rsp) = HdrOf(tr)
        BY <1>4, <2>2, MdPhases DEF InStep, SlaveInStep
      <3>2. tr.dir = "read"
        BY <2>2, <3>1 DEF HdrOf
      <3> QED BY <3>1, <3>2 DEF InStep, DataDrivers, MdPhase
    <2>3. CASE SdPhase = "tail"
      <3>1. MdPhase = "free"
        BY <1>4, <2>3, MdPhases DEF InStep, SlaveInStep, SdPhase
      <3> QED BY <3>1 DEF InStep, DataDrivers, MdPhase
    <2> QED BY <1>4, <2>1, <2>2, <2>3 DEF SdPhase, TypeInv, TypeOK, SDType
  <1> DEFINE Advanced ==
               /\ \/ /\ SdPhase = "pend" /\ SdPhase' \in {"wait", "beat"} /\ rsp' = rsp
                     /\ bus.wait # 0
                  \/ SdPhase # "pend" /\ SdPhase' = SdPhase
               /\ SdPhase' = "beat" => SdCount' = IF SdPhase = "pend" THEN 1 ELSE SdCount
               /\ rsp' = rsp \/ (rsp' = NoItem /\ SdPhase' = "free")
               /\ sdpc' = "beat" => sdi' \in 1 .. rsp'.size
               /\ "sdrv" \in due' => SDAtClock'
             Scheduled ==
               /\ (Updated(bus.wait, nba'.wait) = 0) <=> (sdpc' = "beat")
               /\ (sdpc' = "beat" /\ rsp'.dir = "read") =>
                    nba'.sdata = rsp'.data[sdi' - 1] /\ nba'.sdata # Keep
               /\ nba'.sdata # Keep =>
                    /\ sdpc' # "get" /\ SdPhase' # "free" /\ rsp'.dir = "read"
                    /\ nba.mdata = Keep
  <1>6. Advanced /\ Scheduled
    <2> USE <1>4, <1>5
    <2>1. \A i \in 0 .. rsp.size - 1 : rsp.data[i] \in Byte /\ rsp.data[i] # Keep
      BY PacketFields, KeepAssumption, ConstantsAssumption DEF Lane
    <2>2. sdpc = "beat" => sdi \in 1 .. rsp.size
      BY DEF InStep, Counters
    <2>3. nba.wait # Keep => Updated(bus.wait, nba.wait) = nba.wait
      BY DEF Updated
    <2>4. CASE SDGet
      <3>1. nba = NoNba /\ due' = {} /\ rsp' = rsp
        BY <2>4 DEF SDGet, sqr
      <3>2. bus.wait # 0
        BY <2>4 DEF SDGet, InStep, Signals, NoNba, Updated
      <3>3. SdPhase = "pend"
        BY <2>4 DEF SDGet, SdPhase
      <3>4. CASE rsp.wait_state > 0
        <4>1. sdpc' = "wait" /\ nba'.wait = 1 /\ (rsp.dir # "read" => nba'.sdata = Keep)
          <5>1. WaitCycle(0)
            BY <2>4, <3>4 DEF SDGet
          <5>2. nba.sdata = Keep
            BY <3>1 DEF NoNba
          <5> QED BY <5>1, <5>2, NbaFields DEF WaitCycle, TypeInv, TypeOK
        <4>2. SdPhase' = "wait"
          BY <3>1, <4>1 DEF SdPhase
        <4>3. Scheduled
          BY <3>1, <4>1, <4>2, KeepAssumption DEF Updated, NoNba
        <4> QED BY <3>1, <3>2, <3>3, <4>1, <4>2, <4>3
      <3>5. CASE ~(rsp.wait_state > 0)
        <4>1. /\ sdpc' = "beat" /\ sdi' = 1 /\ nba'.wait = 0
              /\ nba'.sdata = IF rsp.dir = "read" THEN rsp.data[0] ELSE Keep
          <5>1. Beat(0)
            BY <2>4, <3>5 DEF SDGet
          <5>2. nba.sdata = Keep
            BY <3>1 DEF NoNba
          <5>3. sdpc' = "beat" /\ sdi' = 1
            BY <5>1 DEF Beat
          <5> QED BY <5>1, <5>2, <5>3, NbaFields DEF Beat, TypeInv, TypeOK
        <4>2. SdPhase' = "beat" /\ SdCount' = 1
          BY <3>1, <4>1 DEF SdPhase, SdCount, Coming
        <4>3. Scheduled
          BY <2>1, <3>1, <4>1, <4>2, KeepAssumption DEF Updated, NoNba
        <4> QED BY <3>1, <3>2, <3>3, <4>1, <4>2, <4>3
      <3> QED BY <3>4, <3>5
    <2>5. CASE SDWait
      <3>1. sdpc = "wait" /\ "sdrv" \in due /\ "sdrv" \notin due' /\ rsp' = rsp
        BY <2>5 DEF SDWait, Edge, sqr
      <3>2. CASE sdi < rsp.wait_state
        <4>1. sdpc' = "wait" /\ nba'.wait = 1 /\ (rsp.dir # "read" => nba'.sdata = nba.sdata)
          BY <2>5, <3>2, NbaFields DEF SDWait, WaitCycle, TypeInv, TypeOK
        <4>2. SdPhase = "wait" /\ SdPhase' = "wait"
          BY <3>1, <3>2, <4>1 DEF SdPhase
        <4>3. Scheduled
          BY <3>1, <4>1, <4>2, KeepAssumption DEF Updated, InStep, DataDrivers
        <4> QED BY <3>1, <4>1, <4>2, <4>3
      <3>3. CASE ~(sdi < rsp.wait_state)
        <4>1. /\ sdpc' = "beat" /\ sdi' = 1 /\ nba'.wait = 0
              /\ nba'.sdata = IF rsp.dir = "read" THEN rsp.data[0] ELSE nba.sdata
          <5>1. Beat(0)
            BY <2>5, <3>3 DEF SDWait
          <5>2. sdpc' = "beat" /\ sdi' = 1
            BY <5>1 DEF Beat
          <5> QED BY <5>1, <5>2, NbaFields DEF Beat, TypeInv, TypeOK
        <4>2. /\ SdPhase = "beat" /\ SdPhase' = "beat"
              /\ SdCount = 1 /\ SdCount' = 1
          BY <3>1, <3>3, <4>1 DEF SdPhase, SdCount, Coming
        <4>3. Scheduled
          BY <2>1, <3>1, <4>1, <4>2, KeepAssumption DEF Updated, InStep, DataDrivers
        <4> QED BY <3>1, <4>1, <4>2, <4>3
      <3> QED BY <3>2, <3>3
    <2>6. CASE SDBeat
      <3>1. /\ sdpc = "beat" /\ sdi < rsp.size /\ "sdrv" \in due
            /\ "sdrv" \notin due' /\ rsp' = rsp
        BY <2>6 DEF SDBeat, Edge, sqr
      <3>2. /\ sdpc' = "beat" /\ sdi' = sdi + 1
            /\ nba'.wait = IF rsp.dir = "read" THEN 0 ELSE nba.wait
            /\ nba'.sdata = IF rsp.dir = "read" THEN rsp.data[sdi] ELSE nba.sdata
        BY <2>2, <2>6, <3>1, NbaFields DEF SDBeat, Beat, TypeInv, TypeOK
      <3>3. /\ SdPhase = "beat" /\ SdPhase' = "beat"
            /\ SdCount = sdi + 1 /\ SdCount' = sdi + 1
        BY <3>1, <3>2 DEF SdPhase, SdCount, Coming
      <3>4. Updated(bus.wait, nba'.wait) = 0
        BY <3>1, <3>2, KeepAssumption DEF Updated, InStep, Signals
      <3>5. rsp.dir = "read" => nba'.sdata = rsp'.data[sdi' - 1] /\ nba'.sdata # Keep
        BY <2>1, <3>1, <3>2
      <3>6. rsp.dir # "read" => nba'.sdata = Keep
        BY <3>2 DEF InStep, DataDrivers
      <3>7. sdi' \in 1 .. rsp'.size
        BY <2>2, <3>1, <3>2
      <3> QED BY <3>1, <3>2, <3>3, <3>4, <3>5, <3>6, <3>7
    <2>7. CASE SDEndRead
      <3>1. /\ sdpc = "beat" /\ sdi = rsp.size /\ "sdrv" \in due /\ rsp.dir = "read"
            /\ "sdrv" \notin due' /\ rsp' = rsp /\ sdpc' = "tail"
        BY <2>7 DEF SDEndRead, Edge, sqr
      <3>2. nba'.wait = 1
        BY <2>7, NbaFields DEF SDEndRead, TypeInv, TypeOK
      <3>3. SdPhase = "tail" /\ SdPhase' = "tail"
        BY <3>1 DEF SdPhase, SdCount, Coming
      <3> QED BY <3>1, <3>2, <3>3, KeepAssumption DEF Updated
    <2>8. CASE SDEndWrite
      <3>1. /\ sdpc = "beat" /\ sdi = rsp.size /\ "sdrv" \in due /\ rsp.dir = "write"
            /\ "sdrv" \notin due' /\ rsp' = NoItem /\ sdpc' = "get"
        BY <2>8 DEF SDEndWrite, SDDone, Edge
      <3>2. nba'.wait = 1 /\ nba'.sdata = nba.sdata
        BY <2>8, NbaFields DEF SDEndWrite, TypeInv, TypeOK
      <3>3. SdPhase = "free" /\ SdPhase' = "free"
        BY <3>1 DEF SdPhase, SdCount, Coming
      <3>4. nba.sdata = Keep
        BY <3>3 DEF InStep, DataDrivers
      <3> QED BY <3>1, <3>2, <3>3, <3>4, KeepAssumption DEF Updated
    <2>9. CASE SDTail
      <3>1. /\ sdpc = "tail" /\ "sdrv" \in due
            /\ "sdrv" \notin due' /\ rsp' = NoItem /\ sdpc' = "get" /\ nba' = nba
        BY <2>9 DEF SDTail, SDDone, Edge
      <3>2. SdPhase = "free" /\ SdPhase' = "free"
        BY <3>1 DEF SdPhase
      <3>3. nba.sdata = Keep
        BY <3>2 DEF InStep, DataDrivers
      <3> QED BY <3>1, <3>2, <3>3 DEF InStep, Signals
    <2> QED BY <1>1, <2>4, <2>5, <2>6, <2>7, <2>8, <2>9 DEF SDStep
  <1>14. (mdpc = "beat" /\ tr.dir = "write") => nba.sdata = Keep /\ nba'.sdata = Keep
    <2> SUFFICES ASSUME mdpc = "beat", tr.dir = "write"
                 PROVE  nba.sdata = Keep /\ nba'.sdata = Keep
      OBVIOUS
    <2>1. MdPhase \in {"beat", "tail"}
      BY DEF MdPhase
    <2>2. CASE MdPhase = "beat"
      <3>1. rsp.dir = "write" /\ SdPhase = "beat"
        BY <2>2 DEF InStep, SlaveInStep, HdrOf
      <3> QED BY <1>6, <3>1 DEF InStep, DataDrivers
    <2>3. CASE MdPhase = "tail"
      <3>1. SdPhase = "free"
        BY <2>3 DEF InStep, SlaveInStep
      <3> QED BY <1>6, <3>1 DEF InStep, DataDrivers
    <2> QED BY <2>1, <2>2, <2>3
  <1>15. ~(bus.wait = 0 /\ MdPhase = "wait")
    BY <1>1 DEF InStep, WaitLow, SDStep, SDGet, SDWait, SDBeat, SDEndRead, SDEndWrite, SDTail, Edge
  <1>7. Counters'
    BY <1>1, <1>2, <1>6 DEF InStep, Counters, AtClock, MDAtClock, MMAtClock, SMAtClock, md, mm, sm
  <1>8. MonitorOK(mmpc, mmreq, mmi)' /\ MonitorOK(smpc, smreq, smi)'
    BY <1>1, <1>2 DEF InStep, MonitorOK, mm, sm
  <1>9. Signals'
    BY <1>1, <1>2, <1>6, <1>14 DEF InStep, Signals, NextData, Bip, md
  <1>10. DataDrivers' /\ HeaderVisible'
    BY <1>1, <1>2, <1>6 DEF InStep, DataDrivers, NoContention, HeaderVisible, md
  <1>11. WaitLow'
    BY <1>2, <1>3, <1>15 DEF InStep, WaitLow
  <1>12. SlaveInStep'
    BY <1>1, <1>2, <1>3, <1>4, <1>6, MdPhases DEF InStep, SlaveInStep, Detecting, md, sm
  <1>13. MonitorInStep(mmpc, mmreq, mmi, "mmon")' /\ MonitorInStep(smpc, smreq, smi, "smon")'
    BY <1>1, <1>2, <1>3, <1>6 DEF InStep, MonitorInStep, Detecting, Busy, Seen, Coming, md, mm, sm
  <1> QED BY <1>7, <1>8, <1>9, <1>10, <1>11, <1>12, <1>13 DEF InStep

\* A step of the master driver schedules what its next phase promises.
LEMMA MasterDriverInStep == TypeInv /\ InStep /\ (Request \/ MasterDrives) => InStep'
  <1> SUFFICES ASSUME TypeInv, InStep, Request \/ MasterDrives PROVE InStep'
    OBVIOUS
  <1> DEFINE Got == \E p \in Items : GetNextItem(p)
  <1>1. (Got \/ MDStep) /\ UNCHANGED <<sqr, mm, sm, sd>>
    BY DEF Request, MasterDrives
  <1>2. /\ bus' = bus /\ due' \subseteq due
        /\ \A p \in {"sdrv", "mmon", "smon"} : p \in due' <=> p \in due
        /\ nba'.sdata = nba.sdata /\ nba'.wait = nba.wait
    BY <1>1, NbaFields
    DEF GetNextItem, MDStep, DriveAddr, ReleaseAddr, FirstBeat, NextBeat, EndWrite, ItemDone,
        WriteBeat, ReadBeat, Edge, wires, TypeInv, TypeOK
  <1>3. SdPhase' = SdPhase /\ SdCount' = SdCount
    BY <1>1, <1>2 DEF SdPhase, SdCount, Coming, sd, sqr
  <1>4. "mdrv" \in due' => FALSE
    BY <1>1
    DEF GetNextItem, MDStep, DriveAddr, ReleaseAddr, FirstBeat, NextBeat, EndWrite, ItemDone,
        Edge, wires, InStep, Counters, AtClock, MDAtClock
  <1>5. /\ mdpc # "get" => /\ tr \in Packet /\ tr.size \in Nat /\ 1 <= tr.size
                           /\ HdrOf(tr) # Keep /\ HdrOf(tr) # NoHdr
                           /\ tr.dir \in {"read", "write"}
                           /\ \A i \in 0 .. tr.size - 1 : tr.data[i] # Keep
        /\ mdi \in Nat /\ MDType /\ NoHdr # Keep /\ Keep \notin {0, 1}
    <2>1. ASSUME mdpc # "get"
          PROVE  /\ tr \in Packet /\ tr.size \in Nat /\ 1 <= tr.size
                 /\ HdrOf(tr) # Keep /\ HdrOf(tr) # NoHdr
                 /\ tr.dir \in {"read", "write"}
                 /\ \A i \in 0 .. tr.size - 1 : tr.data[i] # Keep
      <3>1. tr \in Packet
        BY <2>1 DEF TypeInv, HoldsPacket
      <3>2. HdrOf(tr) \in Hdr /\ tr.data \in [Lane -> Byte] /\ tr.size <= MaxSize
            /\ tr.size \in Nat /\ 1 <= tr.size /\ MaxSize \in Nat
        BY <3>1, PacketFields
      <3>3. \A i \in 0 .. tr.size - 1 : tr.data[i] # Keep
        BY <3>2, KeepAssumption DEF Lane
      <3>4. tr.dir \in {"read", "write"}
        BY <3>1 DEF Packet, Dir
      <3>5. HdrOf(tr) # Keep /\ HdrOf(tr) # NoHdr
        BY <3>2, KeepAssumption, ConstantsAssumption
      <3> QED BY <3>1, <3>2, <3>3, <3>4, <3>5
    <2>2. mdi \in Nat /\ MDType
      BY ConstantsAssumption DEF TypeInv, TypeOK, MDType
    <2>3. NoHdr # Keep /\ Keep \notin {0, 1}
      BY KeepAssumption
    <2> QED BY <2>1, <2>2, <2>3
  <1>6. (sdpc = "beat" /\ rsp.dir = "read") => SdPhase # "free"
    BY DEF SdPhase
  <1>7. "mdrv" \in due => nba.mdata = Keep
    BY DEF InStep, DataDrivers
  <1>8. SdPhase = "free" => nba.sdata = Keep
    BY DEF InStep, DataDrivers
  <1>9. (MdPhase \in {"wait", "beat"} /\ sdpc # "get") => rsp.dir = tr.dir
    BY DEF InStep, SlaveInStep, HdrOf, SdPhase
  <1>10. (MdPhase \in {"wait", "beat"} /\ tr.dir = "write") => nba.sdata = Keep
    BY <1>9 DEF InStep, DataDrivers
  <1>11. MdPhase \in {"free", "ctrl", "tail"} => SdPhase \in {"free", "tail"}
    BY DEF InStep, SlaveInStep
  <1> DEFINE Phases ==
               \/ /\ MdPhase' = MdPhase
                  /\ MdPhase = "beat" => MdCount' = MdCount
                  /\ MdPhase \in {"wait", "beat"} => HdrOf(tr') = HdrOf(tr)
                  /\ MdPhase = "wait" => bus.wait # 0
               \/ /\ MdPhase = "wait" /\ MdPhase' = "beat" /\ MdCount' = 1
                  /\ HdrOf(tr') = HdrOf(tr) /\ due = {} /\ sdpc = "beat"
             Driven ==
               /\ mdpc' = "beat" => mdi' \in 1 .. tr'.size
               /\ Updated(bus.hdr, nba'.hdr) = IF mdpc' = "ctrl" THEN HdrOf(tr') ELSE NoHdr
               /\ mdpc' = "beat" => Updated(bus.bip, nba'.bip) = Bip(mdi - 1)'
               /\ (mdpc' = "beat" /\ tr'.dir = "write") =>
                     nba'.mdata = tr'.data[mdi' - 1] /\ nba'.mdata # Keep
               /\ nba'.mdata # Keep =>
                     /\ mdpc' = "ctrl" \/ (mdpc' \in {"wait", "beat", "tail"} /\ tr'.dir = "write")
                     /\ nba.sdata = Keep
               /\ (sdpc = "beat" /\ rsp.dir = "read") => nba'.mdata = nba.mdata
               /\ HeaderVisible'
  <1>12. Phases /\ Driven
    <2>1. CASE Got
      <3>1. /\ mdpc = "get" /\ mdpc' = "addr" /\ due = {} /\ due' = {}
            /\ nba = NoNba /\ nba' = NoNba
        BY <2>1 DEF GetNextItem, wires
      <3>2. MdPhase = "free" /\ MdPhase' = "free"
        BY <3>1 DEF MdPhase
      <3>3. bus.hdr = NoHdr
        BY <3>1 DEF InStep, HeaderVisible
      <3> QED BY <1>2, <3>1, <3>2, <3>3 DEF NoNba, Updated, HeaderVisible
    <2>2. CASE DriveAddr
      <3>1. /\ mdpc = "addr" /\ mdpc' = "ctrl" /\ "mdrv" \in due /\ tr' = tr
        BY <2>2 DEF DriveAddr, Edge
      <3>2. MdPhase = "ctrl" /\ MdPhase' = "ctrl"
        BY <1>4, <3>1 DEF MdPhase
      <3>3. bus.hdr = NoHdr /\ nba'.hdr = HdrOf(tr)
        BY <2>2, <3>1, NbaFields DEF DriveAddr, InStep, HeaderVisible, TypeInv, TypeOK
      <3>4. SdPhase = "free"
        BY <3>2 DEF InStep, SlaveInStep
      <3> QED BY <1>2, <1>5, <1>6, <1>8, <3>1, <3>2, <3>3, <3>4 DEF Updated, HeaderVisible
    <2>3. CASE ReleaseAddr
      <3>1. /\ mdpc = "ctrl" /\ mdpc' = "wait" /\ "mdrv" \in due /\ tr' = tr
        BY <2>3 DEF ReleaseAddr, Edge
      <3>2. MdPhase = "wait" /\ MdPhase' = "wait"
        BY <3>1 DEF MdPhase
      <3>3. nba'.hdr = NoHdr /\ nba'.mdata = IF tr.dir = "write" THEN tr.data[0] ELSE nba.mdata
        BY <2>3, NbaFields DEF ReleaseAddr, TypeInv, TypeOK
      <3>4. bus.wait # 0
        BY <3>1, <3>2 DEF InStep, WaitLow
      <3>5. HeaderVisible'
        BY <1>2, <3>1, <3>3, <3>4 DEF InStep, HeaderVisible
      <3> QED BY <1>5, <1>7, <1>9, <1>10, <3>1, <3>2, <3>3, <3>4, <3>5 DEF Updated
    <2>4. CASE FirstBeat
      <3>1. mdpc = "wait" /\ bus.wait = 0 /\ mdpc' = "beat" /\ mdi' = 1 /\ due' = due
        BY <2>4 DEF FirstBeat
      <3>2. MdPhase = "wait" /\ due = {} /\ sdpc = "beat"
        BY <3>1 DEF MdPhase, InStep, WaitLow
      <3>3. bus.hdr = NoHdr
        BY <3>1 DEF InStep, HeaderVisible
      <3>4. CASE WriteBeat(0)
        <4>1. /\ tr.dir = "write" /\ tr' = tr /\ nba'.hdr = NoHdr
              /\ nba'.mdata = tr.data[0] /\ nba'.bip = Bip(0)
          BY <3>4, NbaFields DEF WriteBeat, TypeInv, TypeOK
        <4>2. MdPhase' = "beat" /\ MdCount' = 1
          BY <1>4, <1>5, <3>1, <4>1 DEF MdPhase, MdCount, Coming
        <4>3. Bip(0) # Keep /\ Bip(mdi - 1)' = Bip(0)
          BY <1>5, <3>1, <4>1 DEF Bip
        <4> QED BY <1>2, <1>5, <1>9, <1>10, <3>1, <3>2, <3>3, <4>1, <4>2, <4>3
                DEF Updated, HeaderVisible
      <3>5. CASE \E v \in {bus.data, was} : ReadBeat(0, v)
        <4>1. /\ tr.dir = "read" /\ HdrOf(tr') = HdrOf(tr)
              /\ nba'.hdr = nba.hdr /\ nba'.mdata = nba.mdata /\ nba'.bip = Bip(0)
          BY <1>5, <3>1, <3>5, NbaFields DEF ReadBeat, TypeInv, TypeOK, Packet, HdrOf
        <4>2. tr'.dir = "read" /\ tr'.size = tr.size
          BY <4>1 DEF HdrOf
        <4>3. MdPhase' = "beat" /\ MdCount' = 1
          BY <1>4, <1>5, <3>1, <4>2 DEF MdPhase, MdCount, Coming
        <4>4. Bip(0) # Keep /\ Bip(mdi - 1)' = Bip(0)
          BY <1>5, <3>1, <4>2 DEF Bip
        <4>5. nba.mdata = Keep /\ Updated(bus.hdr, nba'.hdr) = NoHdr
          BY <3>1, <4>1 DEF InStep, DataDrivers, Signals
        <4> QED BY <1>2, <1>5, <3>1, <3>2, <3>3, <4>1, <4>2, <4>3, <4>4, <4>5
                DEF Updated, HeaderVisible
      <3> QED BY <2>4, <3>4, <3>5 DEF FirstBeat
    <2>5. CASE NextBeat
      <3>1. /\ mdpc = "beat" /\ mdpc' = "beat" /\ "mdrv" \in due /\ mdi < tr.size
            /\ mdi' = mdi + 1 /\ mdi \in 1 .. tr.size - 1
        BY <1>5, <2>5 DEF NextBeat, Edge, InStep, Counters
      <3>2. MdPhase = "beat" /\ MdCount = mdi + 1
        BY <1>5, <3>1 DEF MdPhase, MdCount, Coming
      <3>3. bus.hdr = NoHdr /\ nba.mdata = Keep
        BY <1>7, <3>1 DEF InStep, HeaderVisible
      <3>4. CASE WriteBeat(mdi)
        <4>1. /\ tr.dir = "write" /\ tr' = tr /\ nba'.hdr = NoHdr
              /\ nba'.mdata = tr.data[mdi] /\ nba'.bip = Bip(mdi)
          BY <3>4, NbaFields DEF WriteBeat, TypeInv, TypeOK
        <4>2. MdPhase' = "beat" /\ MdCount' = mdi + 1
          BY <1>4, <1>5, <3>1, <4>1 DEF MdPhase, MdCount, Coming
        <4>3. Bip(mdi) # Keep /\ Bip(mdi - 1)' = Bip(mdi)
          BY <1>5, <3>1, <4>1 DEF Bip
        <4>4. mdi' \in 1 .. tr'.size /\ tr'.data[mdi' - 1] = tr.data[mdi] /\ tr.data[mdi] # Keep
          BY <1>5, <3>1, <4>1
        <4> QED BY <1>2, <1>5, <1>9, <1>10, <3>1, <3>2, <3>3, <4>1, <4>2, <4>3, <4>4
                DEF Updated, HeaderVisible
      <3>5. CASE ReadBeat(mdi, bus.data)
        <4>1. /\ tr.dir = "read" /\ HdrOf(tr') = HdrOf(tr)
              /\ nba'.hdr = nba.hdr /\ nba'.mdata = nba.mdata /\ nba'.bip = Bip(mdi)
          BY <1>5, <3>1, <3>5, NbaFields DEF ReadBeat, TypeInv, TypeOK, Packet, HdrOf
        <4>2. tr'.dir = "read" /\ tr'.size = tr.size
          BY <4>1 DEF HdrOf
        <4>3. MdPhase' = "beat" /\ MdCount' = mdi + 1
          BY <1>4, <1>5, <3>1, <4>2 DEF MdPhase, MdCount, Coming
        <4>4. Bip(mdi) # Keep /\ Bip(mdi - 1)' = Bip(mdi)
          BY <1>5, <3>1, <4>2 DEF Bip
        <4>5. Updated(bus.hdr, nba'.hdr) = NoHdr
          BY <3>1, <4>1 DEF InStep, Signals
        <4>6. mdi' \in 1 .. tr'.size
          BY <1>5, <3>1, <4>2
        <4> QED BY <1>2, <1>5, <3>1, <3>2, <3>3, <4>1, <4>2, <4>3, <4>4, <4>5, <4>6
                DEF Updated, HeaderVisible
      <3> QED BY <2>5, <3>4, <3>5 DEF NextBeat
    <2>6. CASE EndWrite
      <3>1. /\ mdpc = "beat" /\ mdpc' = "tail" /\ "mdrv" \in due /\ tr' = tr
            /\ tr.dir = "write" /\ mdi = tr.size
        BY <2>6 DEF EndWrite, Edge
      <3>2. MdPhase = "tail" /\ MdPhase' = "tail"
        BY <1>4, <1>5, <3>1 DEF MdPhase, MdCount, Coming
      <3>3. SdPhase = "free"
        BY <3>2 DEF InStep, SlaveInStep
      <3>4. bus.hdr = NoHdr /\ nba'.hdr = NoHdr
        BY <2>6, <3>1, NbaFields DEF EndWrite, InStep, HeaderVisible, TypeInv, TypeOK
      <3> QED BY <1>2, <1>5, <1>6, <1>8, <3>1, <3>2, <3>3, <3>4 DEF Updated, HeaderVisible
    <2>7. CASE ItemDone
      <3>1. /\ mdpc' = "get" /\ "mdrv" \in due /\ nba' = nba
            /\ mdpc = "tail" \/ (mdpc = "beat" /\ mdi = tr.size /\ tr.dir = "read")
        BY <2>7 DEF ItemDone, Edge
      <3>2. MdPhase = "free" /\ MdPhase' = "free"
        BY <1>5, <3>1 DEF MdPhase, MdCount, Coming
      <3>3. bus.hdr = NoHdr /\ Updated(bus.hdr, nba.hdr) = NoHdr /\ nba.mdata = Keep
        BY <1>7, <3>1 DEF InStep, HeaderVisible, Signals
      <3> QED BY <1>2, <3>1, <3>2, <3>3 DEF HeaderVisible
    <2> QED BY <1>1, <2>1, <2>2, <2>3, <2>4, <2>5, <2>6, <2>7 DEF MDStep
  <1>13. Counters'
    BY <1>1, <1>2, <1>4, <1>12 DEF InStep, Counters, AtClock, SDAtClock, MMAtClock, SMAtClock,
                                   mm, sm, sd, sqr
  <1>14. MonitorOK(mmpc, mmreq, mmi)' /\ MonitorOK(smpc, smreq, smi)'
    BY <1>1, <1>2 DEF InStep, MonitorOK, mm, sm
  <1>15. Signals'
    BY <1>1, <1>2, <1>12 DEF InStep, Signals, NextData, Updated, sd, sqr
  <1>16. DataDrivers'
    BY <1>1, <1>2, <1>3, <1>4, <1>12 DEF InStep, DataDrivers, NoContention, sd, sqr
  <1>17. WaitLow'
    BY <1>2, <1>12 DEF InStep, WaitLow
  <1>18. SlaveInStep'
    <2>1. CASE MdPhase' = MdPhase
      BY <1>1, <1>2, <1>3, <1>12, <2>1 DEF InStep, SlaveInStep, Detecting, sm, sd, sqr
    <2>2. CASE MdPhase' # MdPhase
      <3>1. /\ MdPhase = "wait" /\ MdPhase' = "beat" /\ MdCount' = 1
            /\ HdrOf(tr') = HdrOf(tr) /\ due = {} /\ sdpc = "beat"
        BY <1>12, <2>2
      <3>2. SdPhase \notin {"pend", "wait"}
        BY <3>1 DEF SdPhase
      <3>3. request_fifo = <<>> /\ HdrOf(rsp) = HdrOf(tr) /\ SdPhase = "beat" /\ SdCount = 1
        BY <3>1, <3>2 DEF InStep, SlaveInStep
      <3> QED BY <1>1, <1>2, <1>3, <3>1, <3>3 DEF SlaveInStep, sm, sd, sqr
    <2> QED BY <2>1, <2>2
  <1>19. MonitorInStep(mmpc, mmreq, mmi, "mmon")' /\ MonitorInStep(smpc, smreq, smi, "smon")'
    BY <1>1, <1>2, <1>3, <1>12 DEF InStep, MonitorInStep, Detecting, Busy, Seen, Coming, mm, sm
  <1> QED BY <1>12, <1>13, <1>14, <1>15, <1>16, <1>17, <1>18, <1>19 DEF InStep

\* The clock edge: all phases advance together.
LEMMA PosedgeInStep == TypeInv /\ InStep /\ Posedge => InStep'
  <1> SUFFICES ASSUME TypeInv, InStep, Posedge PROVE InStep'
    OBVIOUS
  <1>1. /\ due = {} /\ nba = NoNba /\ due' = AtClock
        /\ UNCHANGED <<bus, nba, request_fifo, rsp, md, mm, sm, sd>>
    BY DEF Posedge, AtRest, ActiveDone, sqr
  <1>2. /\ nba.hdr = Keep /\ nba.wait = Keep /\ nba.bip = Keep
        /\ nba.mdata = Keep /\ nba.sdata = Keep
    BY <1>1 DEF NoNba
  \* Nothing is left to run.
  <1>3. /\ mdpc = "wait" => bus.wait # 0
        /\ mmpc = "wait0" => bus.wait # 0
        /\ smpc = "wait0" => bus.wait # 0
        /\ sdpc = "get" => rsp = NoItem /\ request_fifo = <<>>
        /\ bus.wait = 0 <=> sdpc = "beat"
        /\ bus.hdr = IF mdpc = "ctrl" THEN HdrOf(tr) ELSE NoHdr
    BY <1>2 DEF Posedge, AtRest, ActiveDone, MDRunnable, MMRunnable, SMRunnable, SSRunnable,
                SDRunnable, InStep, Signals, Updated
  <1>4. /\ "mdrv" \in due' <=> MDAtClock
        /\ "sdrv" \in due' <=> SDAtClock
        /\ "mmon" \in due' <=> MMAtClock
        /\ "smon" \in due' <=> SMAtClock
    BY <1>1 DEF AtClock, Procs
  <1>5. /\ mdpc \in {"get", "addr", "ctrl", "wait", "beat", "tail"} /\ mdi \in Nat
        /\ sdpc \in {"get", "wait", "beat", "tail"} /\ sdi \in Nat
    BY ConstantsAssumption DEF TypeInv, TypeOK, MDType, SDType
  <1>6. /\ mdpc # "get" => /\ HdrOf(tr) # NoHdr /\ tr.size \in Nat /\ 1 <= tr.size
                           /\ tr.dir \in {"read", "write"}
        /\ sdpc # "get" => /\ rsp # NoItem /\ rsp.size \in Nat /\ 1 <= rsp.size
                           /\ rsp.wait_state \in Nat
    BY PacketFields, ConstantsAssumption DEF TypeInv, HoldsPacket, Dir
  \* Before the edge and after it.
  <1>7. MdPhase = CASE mdpc \in {"get", "addr"} -> "free" [] OTHER -> mdpc
    BY <1>1, <1>5 DEF MdPhase, MdCount, Coming, InStep, Counters
  <1>8. SdPhase = IF sdpc = "get" THEN "free" ELSE sdpc
    BY <1>1, <1>3, <1>5 DEF SdPhase, SdCount, Coming, InStep, Counters
  <1>9. MdPhase' = CASE mdpc = "get"  -> "free"
                     [] mdpc = "addr" -> "ctrl"
                     [] mdpc = "ctrl" -> "wait"
                     [] mdpc = "wait" -> "wait"
                     [] mdpc = "beat" -> IF mdi + 1 <= tr.size THEN "beat"
                                         ELSE IF tr.dir = "write" THEN "tail" ELSE "free"
                     [] mdpc = "tail" -> "free"
    BY <1>1, <1>4, <1>5 DEF MdPhase, MdCount, Coming, MDAtClock, md
  <1>10. /\ sdpc \in {"get", "tail"} => SdPhase' = "free"
         /\ sdpc = "wait" => SdPhase' \in {"wait", "beat"} /\ SdCount' = 1
         /\ sdpc = "beat" => /\ SdCount' = sdi + 1
                             /\ SdPhase' = IF sdi + 1 <= rsp.size THEN "beat"
                                           ELSE IF rsp.dir = "read" THEN "tail" ELSE "free"
    BY <1>1, <1>3, <1>4, <1>5 DEF SdPhase, SdCount, Coming, SDAtClock, sd
  <1>11. mdpc = "beat" => MdCount = mdi /\ MdCount' = mdi + 1
    BY <1>1, <1>4, <1>5 DEF MdCount, Coming, MDAtClock, md
  <1>12. mdpc \in {"get", "addr"} => request_fifo = <<>> /\ sdpc \in {"get", "tail"}
    BY <1>5, <1>7, <1>8 DEF InStep, SlaveInStep
  <1>13. mdpc \in {"ctrl", "tail"} => request_fifo = <<>> /\ sdpc = "get"
    BY <1>5, <1>7, <1>8 DEF InStep, SlaveInStep
  <1>14. mdpc = "wait" => request_fifo = <<>> /\ sdpc = "wait" /\ HdrOf(rsp) = HdrOf(tr)
    BY <1>1, <1>3, <1>5, <1>7, <1>8 DEF InStep, SlaveInStep, Detecting
  <1>15. mdpc = "beat" => /\ request_fifo = <<>> /\ sdpc = "beat" /\ sdi = mdi
                          /\ HdrOf(rsp) = HdrOf(tr) /\ rsp.size = tr.size /\ rsp.dir = tr.dir
    BY <1>1, <1>5, <1>7, <1>8, <1>11 DEF InStep, SlaveInStep, SdCount, Coming, HdrOf
  <1>16. Counters'
    BY <1>1 DEF InStep, Counters, AtClock, MDAtClock, SDAtClock, MMAtClock, SMAtClock,
                md, mm, sm, sd
  <1>17. MonitorOK(mmpc, mmreq, mmi)' /\ MonitorOK(smpc, smreq, smi)'
    BY <1>1 DEF InStep, MonitorOK, mm, sm
  <1>18. Signals' /\ DataDrivers' /\ HeaderVisible'
    BY <1>1, <1>2, <1>3, <1>4 DEF InStep, Signals, DataDrivers, NoContention, HeaderVisible,
                                  NextData, Bip, MDAtClock, md, sd
  <1>19. WaitLow'
    BY <1>1, <1>3, <1>5, <1>9, <1>12, <1>13, <1>14 DEF WaitLow
  <1>20. SlaveInStep'
    <2>1. request_fifo = <<>>
      BY <1>5, <1>12, <1>13, <1>14, <1>15
    <2>2. CASE mdpc = "ctrl"
      <3>1. smpc = "idle"
        BY <1>1, <1>7, <2>2 DEF InStep, MonitorInStep, MonitorOK, Busy, Coming, SMType,
                                TypeInv, TypeOK
      <3>2. Detecting(smpc, "smon")'
        BY <1>1, <1>3, <1>4, <1>6, <2>2, <3>1 DEF Detecting, SMAtClock, sm
      <3> QED BY <1>1, <1>3, <1>9, <1>13, <2>1, <2>2, <3>2 DEF SlaveInStep, sd
    <2>3. CASE mdpc = "wait"
      <3>1. ~Detecting(smpc, "smon")'
        BY <1>1, <1>3, <2>3 DEF Detecting
      <3> QED BY <1>1, <1>6, <1>9, <1>10, <1>14, <2>1, <2>3, <3>1 DEF SlaveInStep, HdrOf, md
    <2>4. CASE mdpc = "beat"
      BY <1>1, <1>6, <1>9, <1>10, <1>11, <1>15, <2>1, <2>4 DEF SlaveInStep, HdrOf, md
    <2>5. CASE mdpc \in {"get", "addr", "tail"}
      BY <1>1, <1>9, <1>10, <1>12, <1>13, <2>1, <2>5 DEF SlaveInStep
    <2> QED BY <1>5, <2>2, <2>3, <2>4, <2>5
  \* The two monitors are alike.
  <1>21. ASSUME NEW pc \in {"idle", "wait1", "wait0", "beat"}, NEW req, NEW i \in Nat,
                NEW p,
                pc # "idle" => req.size \in Nat /\ 1 <= req.size /\ req.wait_state \in Nat,
                MonitorOK(pc, req, i), MonitorInStep(pc, req, i, p),
                pc = "wait0" => bus.wait # 0,
                p \in due' <=> pc # "wait0"
         PROVE  MonitorInStep(pc, req, i, p)'
    <2> USE <1>1, <1>21 DEF MonitorOK, Busy, Seen, Coming
    <2>1. pc = "beat" => i + 0 # req.size
      OBVIOUS
    <2>2. CASE mdpc \in {"get", "addr", "tail"}
      <3>1. ~Detecting(pc, p)'
        BY <1>3, <2>2 DEF Detecting
      <3>2. ~Busy(pc, req, i, p)'
        <4>1. Busy(pc, req, i, p) => Seen(pc, req, i, p) = req.size
          BY <1>7, <2>2 DEF MonitorInStep
        <4> QED BY <2>1, <4>1
      <3> QED BY <1>9, <2>2, <3>1, <3>2 DEF MonitorInStep
    <2>3. CASE mdpc = "ctrl"
      <3>1. pc = "idle"
        BY <1>7, <2>1, <2>3 DEF MonitorInStep
      <3>2. Detecting(pc, p)'
        BY <1>3, <1>6, <2>3, <3>1 DEF Detecting
      <3> QED BY <1>9, <2>3, <3>2 DEF MonitorInStep
    <2>4. CASE mdpc = "wait"
      <3>1. pc \in {"wait1", "wait0"} /\ HdrOf(req) = HdrOf(tr)
        BY <1>7, <1>8, <1>14, <2>4 DEF MonitorInStep, Detecting
      <3> QED BY <1>3, <1>9, <2>4, <3>1 DEF MonitorInStep, md
    <2>5. CASE mdpc = "beat"
      <3>1. bus.wait = 0 /\ bus.hdr = NoHdr
        BY <1>3, <1>15, <2>5
      <3>2. /\ Busy(pc, req, i, p) /\ Seen(pc, req, i, p) + 1 = mdi /\ HdrOf(req) = HdrOf(tr)
            /\ req.size = tr.size
        BY <1>7, <1>11, <2>5 DEF MonitorInStep, HdrOf
      <3>3. ~Detecting(pc, p)'
        BY <3>1 DEF Detecting
      <3>4. mdi <= tr.size
        BY <2>5 DEF InStep, Counters
      <3>5. /\ mdi + 1 <= tr.size => Busy(pc, req, i, p)' /\ Seen(pc, req, i, p)' = mdi
            /\ Busy(pc, req, i, p)' => Seen(pc, req, i, p)' = mdi
        <4>1. CASE pc = "wait1"
          BY <3>1, <3>2, <4>1
        <4>2. CASE pc = "beat"
          BY <1>5, <3>2, <3>4, <4>2
        <4> QED BY <3>1, <3>2, <4>1, <4>2
      <3> QED BY <1>5, <1>6, <1>9, <1>11, <2>5, <3>2, <3>3, <3>4, <3>5 DEF MonitorInStep, md
    <2> QED BY <1>5, <2>2, <2>3, <2>4, <2>5
  <1>22. MonitorInStep(mmpc, mmreq, mmi, "mmon")'
    <2>1. /\ mmpc \in {"idle", "wait1", "wait0", "beat"} /\ mmi \in Nat
          /\ mmpc # "idle" => /\ mmreq.size \in Nat /\ 1 <= mmreq.size
                              /\ mmreq.wait_state \in Nat
      BY PacketFields, ConstantsAssumption DEF TypeInv, TypeOK, MMType, HoldsPacket
    <2>2. "mmon" \in due' <=> mmpc # "wait0"
      BY <1>4, <2>1 DEF MMAtClock
    <2> QED BY <1>1, <1>3, <1>21, <2>1, <2>2
            DEF InStep, MonitorInStep, Detecting, Busy, Seen, Coming, mm
  <1>23. MonitorInStep(smpc, smreq, smi, "smon")'
    <2>1. /\ smpc \in {"idle", "wait1", "wait0", "beat"} /\ smi \in Nat
          /\ smpc # "idle" => /\ smreq.size \in Nat /\ 1 <= smreq.size
                              /\ smreq.wait_state \in Nat
      BY PacketFields, ConstantsAssumption DEF TypeInv, TypeOK, SMType, HoldsPacket
    <2>2. "smon" \in due' <=> smpc # "wait0"
      BY <1>4, <2>1 DEF SMAtClock
    <2> QED BY <1>1, <1>3, <1>21, <2>1, <2>2
            DEF InStep, MonitorInStep, Detecting, Busy, Seen, Coming, sm
  <1> QED BY <1>16, <1>17, <1>18, <1>19, <1>20, <1>22, <1>23 DEF InStep

\* All agents start free.
LEMMA InStepInit == Init => InStep
  <1> SUFFICES ASSUME Init PROVE InStep
    OBVIOUS
  <1> USE DEF Init, WiresInit, SqrInit, MDInit, MMInit, SMInit, SDInit, NoNba
  <1>1. MdPhase = "free" /\ SdPhase = "free"
    BY DEF MdPhase, SdPhase
  <1>2. Counters /\ MonitorOK(mmpc, mmreq, mmi) /\ MonitorOK(smpc, smreq, smi)
    BY DEF Counters, MonitorOK
  <1>3. Signals /\ DataDrivers /\ HeaderVisible /\ WaitLow
    BY KeepAssumption DEF Signals, Updated, DataDrivers, NoContention, HeaderVisible, WaitLow
  <1>4. SlaveInStep
    BY <1>1 DEF SlaveInStep
  <1>5. MonitorInStep(mmpc, mmreq, mmi, "mmon") /\ MonitorInStep(smpc, smreq, smi, "smon")
    BY <1>1 DEF MonitorInStep, Detecting, Busy
  <1> QED BY <1>2, <1>3, <1>4, <1>5 DEF InStep

\* Stuttering.
LEMMA InStepStutter == InStep /\ UNCHANGED vars => InStep'
  <1> SUFFICES ASSUME InStep, UNCHANGED vars PROVE InStep'
    OBVIOUS
  <1> USE DEF vars, wires, sqr, md, mm, sm, sd
  <1>1. /\ MdPhase' = MdPhase /\ MdCount' = MdCount
        /\ SdPhase' = SdPhase /\ SdCount' = SdCount
    BY PhasesKept
  <1>2. Counters' /\ MonitorOK(mmpc, mmreq, mmi)' /\ MonitorOK(smpc, smreq, smi)'
    BY DEF InStep, Counters, MonitorOK, AtClock, MDAtClock, SDAtClock, MMAtClock, SMAtClock
  <1>3. Signals' /\ DataDrivers' /\ HeaderVisible' /\ WaitLow'
    BY <1>1 DEF InStep, Signals, DataDrivers, NoContention, HeaderVisible, WaitLow, NextData, Bip
  <1>4. SlaveInStep'
    BY <1>1 DEF InStep, SlaveInStep, Detecting
  <1>5. MonitorInStep(mmpc, mmreq, mmi, "mmon")' /\ MonitorInStep(smpc, smreq, smi, "smon")'
    BY <1>1 DEF InStep, MonitorInStep, Detecting, Busy, Seen, Coming
  <1> QED BY <1>2, <1>3, <1>4, <1>5 DEF InStep

\* Every step of the bus keeps the agents in step.
LEMMA InStepNext == TypeInv /\ InStep /\ [Next]_vars => InStep'
  BY InStepStutter, PosedgeInStep, CommitInStep, MasterDriverInStep, MasterMonitorInStep,
     SlaveMonitorInStep, SlaveServesInStep, SlaveDriverInStep DEF Next, Step, Silent

\* The agents stay in step: the phases of the two drivers and of the two
\* monitors match at the end of every time slot, in every reachable state.
THEOREM AgentsInStep == Spec => []InStep
  <1>1. Spec => []TypeInv
    BY TypeCorrect DEF TypeInv
  <1> QED BY <1>1, InStepInit, InStepNext, PTL DEF Spec

-----------------------------------------------------------------------------
(* What follows for the state the next clock edge samples *)

\* Between two clock edges the slave is in its data loop exactly while
\* ubus_wait is low, and then the master is in its loop too, at the same beat.
LEMMA RestInBeat ==
  ASSUME TypeInv, InStep, AtRest, mdpc = "beat" \/ sdpc = "beat"
  PROVE  mdpc = "beat" /\ sdpc = "beat" /\ mdi = sdi /\ HdrOf(rsp) = HdrOf(tr)
  <1>1. due = {} /\ nba = NoNba /\ (mdpc = "wait" => bus.wait # 0)
    BY DEF AtRest, ActiveDone, MDRunnable
  <1>2. mdpc = "beat" <=> MdPhase = "beat"
    BY <1>1 DEF MdPhase, MdCount, Coming, InStep, Counters, TypeInv, TypeOK, MDType
  <1>3. sdpc = "beat" <=> SdPhase = "beat"
    BY <1>1 DEF SdPhase, SdCount, Coming, InStep, Counters, TypeInv, TypeOK, SDType
  <1>4. MdPhase \in {"free", "ctrl", "wait", "beat", "tail"}
    BY MdPhases DEF TypeInv, TypeOK
  <1>5. MdPhase = "wait" => SdPhase # "beat"
    BY <1>1, <1>3 DEF InStep, Signals, WaitLow, NoNba, Updated, MdPhase, MDType, TypeInv, TypeOK
  <1>6. MdPhase = "beat" /\ SdPhase = "beat"
    BY <1>2, <1>3, <1>4, <1>5 DEF InStep, SlaveInStep
  <1>7. MdCount = SdCount /\ HdrOf(rsp) = HdrOf(tr)
    BY <1>6 DEF InStep, SlaveInStep
  <1>8. mdi \in Nat /\ sdi \in Nat
    BY ConstantsAssumption DEF TypeInv, TypeOK, MDType, SDType
  <1> QED BY <1>1, <1>2, <1>3, <1>6, <1>7, <1>8 DEF MdCount, SdCount, Coming

\* The signals an edge samples with ubus_wait low.
LEMMA LockStepHolds == TypeInv /\ InStep => LockStep
  <1> SUFFICES ASSUME TypeInv, InStep, AtRest, bus.wait = 0
               PROVE  /\ mdpc = "beat" /\ sdpc = "beat" /\ mdi = sdi
                      /\ HdrOf(rsp) = HdrOf(tr)
                      /\ bus.hdr = NoHdr
                      /\ bus.data = IF tr.dir = "write" THEN tr.data[mdi - 1]
                                                        ELSE rsp.data[mdi - 1]
                      /\ bus.bip = IF mdi < tr.size THEN 1 ELSE 0
    BY DEF LockStep
  <1>1. nba.hdr = Keep /\ nba.wait = Keep /\ nba.bip = Keep
        /\ nba.mdata = Keep /\ nba.sdata = Keep
    BY DEF AtRest, NoNba
  <1>2. sdpc = "beat"
    BY <1>1 DEF InStep, Signals, Updated
  <1>3. mdpc = "beat" /\ mdi = sdi /\ HdrOf(rsp) = HdrOf(tr)
    BY <1>2, RestInBeat
  <1>4. mdi \in 1 .. tr.size
    BY <1>3 DEF InStep, Counters
  <1>5. tr.size \in Nat /\ rsp.dir = tr.dir /\ tr.dir \in {"read", "write"}
    BY <1>3, PacketFields DEF TypeInv, HoldsPacket, HdrOf, Dir
  <1>6. /\ bus.hdr = NoHdr /\ bus.bip = Bip(mdi - 1)
        /\ tr.dir = "write" => bus.data = tr.data[mdi - 1]
        /\ rsp.dir = "read" => bus.data = rsp.data[sdi - 1]
    BY <1>1, <1>2, <1>3 DEF InStep, Signals, Updated, NextData
  <1>7. bus.bip = IF mdi < tr.size THEN 1 ELSE 0
    BY <1>4, <1>5, <1>6 DEF Bip
  <1> QED BY <1>2, <1>3, <1>5, <1>6, <1>7

\* A clock edge that finds ubus_wait low finds both drivers at the same byte of
\* the same item, with that byte on the bus and ubus_bip right for it.
THEOREM DriversInLockStep == Spec => []LockStep
  <1>1. Spec => []TypeInv
    BY TypeCorrect DEF TypeInv
  <1> QED BY <1>1, AgentsInStep, LockStepHolds, PTL

\* A master in its data loop has the slave in its own.
LEMMA NoBeatUncountedHolds == TypeInv /\ InStep => NoBeatUncounted
  <1> SUFFICES ASSUME TypeInv, InStep, AtRest, mdpc = "beat" PROVE bus.wait = 0
    BY DEF NoBeatUncounted
  <1>1. sdpc = "beat"
    BY RestInBeat
  <1> QED BY <1>1 DEF InStep, Signals, Updated, AtRest, NoNba

\* The master drives or samples a byte only in clocks the slave counts.
THEOREM BeatsAreCounted == Spec => []NoBeatUncounted
  <1>1. Spec => []TypeInv
    BY TypeCorrect DEF TypeInv
  <1> QED BY <1>1, AgentsInStep, NoBeatUncountedHolds, PTL

\* A visible header means the address phase, and then all others are free.
LEMMA NoRequestMissedHolds == TypeInv /\ InStep => NoRequestMissed
  <1> SUFFICES ASSUME TypeInv, InStep, AtRest, bus.hdr # NoHdr
               PROVE  /\ mmpc = "idle" /\ smpc = "idle"
                      /\ sdpc = "get" /\ rsp = NoItem /\ request_fifo = <<>>
    BY DEF NoRequestMissed
  <1>1. due = {} /\ nba = NoNba /\ (sdpc = "get" => rsp = NoItem)
    BY DEF AtRest, ActiveDone, SDRunnable
  <1>2. mdpc = "ctrl"
    BY <1>1 DEF InStep, Signals, Updated, NoNba
  <1>3. MdPhase = "ctrl"
    BY <1>1, <1>2 DEF MdPhase
  <1>4. mmpc = "idle"
    <2>1. ~Busy(mmpc, mmreq, mmi, "mmon")
      BY <1>3 DEF InStep, MonitorInStep
    <2> QED BY <1>1, <2>1, ConstantsAssumption, PacketFields
            DEF Busy, Coming, InStep, MonitorOK, TypeInv, TypeOK, MMType, HoldsPacket
  <1>5. smpc = "idle"
    <2>1. ~Busy(smpc, smreq, smi, "smon")
      BY <1>3 DEF InStep, MonitorInStep
    <2> QED BY <1>1, <2>1, ConstantsAssumption, PacketFields
            DEF Busy, Coming, InStep, MonitorOK, TypeInv, TypeOK, SMType, HoldsPacket
  <1>6. request_fifo = <<>> /\ SdPhase = "free"
    BY <1>3 DEF InStep, SlaveInStep
  <1>7. sdpc = "get"
    BY <1>1, <1>6 DEF SdPhase, SdCount, Coming, InStep, Counters, TypeInv, TypeOK, SDType
  <1> QED BY <1>1, <1>4, <1>5, <1>6, <1>7

\* No address phase finds a monitor or the slave still in the last transfer.
THEOREM RequestsAreSeen == Spec => []NoRequestMissed
  <1>1. Spec => []TypeInv
    BY TypeCorrect DEF TypeInv
  <1> QED BY <1>1, AgentsInStep, NoRequestMissedHolds, PTL

\* The master and the slave never schedule values for the data bus in the same
\* round of a time slot.
THEOREM BusIsUncontended == Spec => []NoContention
  <1>1. InStep => NoContention
    BY DEF InStep, DataDrivers
  <1> QED BY <1>1, AgentsInStep, PTL

\* In no phase is there a request in the fifo beside a response.
LEMMA OneOutstandingHolds == TypeInv /\ InStep => OneOutstanding
  BY MdPhases DEF TypeInv, TypeOK, InStep, SlaveInStep, OneOutstanding

\* No request waits while the response to the one before it is being driven.
THEOREM RequestsOneByOne == Spec => []OneOutstanding
  <1>1. Spec => []TypeInv
    BY TypeCorrect DEF TypeInv
  <1> QED BY <1>1, AgentsInStep, OneOutstandingHolds, PTL

-----------------------------------------------------------------------------
(* At the edge a monitor publishes at, no header is on the bus *)

\* The fall through to the test of ubus_write never finds a header.
LEMMA MasterPublishSeesNoHeader ==
  ASSUME TypeInv, InStep, MMPublish
  PROVE  bus.hdr = NoHdr
  <1>1. mmreq.size \in Nat
    BY PacketFields DEF MMPublish, TypeInv, HoldsPacket
  <1>2. ~Detecting(mmpc, "mmon") /\ ~Busy(mmpc, mmreq, mmi, "mmon")
    BY <1>1 DEF MMPublish, Edge, Detecting, Busy, Coming
  <1>3. MdPhase # "wait"
    BY <1>2 DEF InStep, MonitorInStep
  <1> QED BY <1>3 DEF MMPublish, Edge, InStep, HeaderVisible, MdPhase

\* The same for the slave monitor.
LEMMA SlavePublishSeesNoHeader ==
  ASSUME TypeInv, InStep, SMPublish
  PROVE  bus.hdr = NoHdr
  <1>1. smreq.size \in Nat
    BY PacketFields DEF SMPublish, TypeInv, HoldsPacket
  <1>2. ~Detecting(smpc, "smon") /\ ~Busy(smpc, smreq, smi, "smon")
    BY <1>1 DEF SMPublish, Edge, Detecting, Busy, Coming
  <1>3. MdPhase # "wait"
    BY <1>2 DEF InStep, MonitorInStep
  <1> QED BY <1>3 DEF SMPublish, Edge, InStep, HeaderVisible, MdPhase

-----------------------------------------------------------------------------
(* A monitor's step leaves what it will be at the end of the slot alone *)

\* A step of the master monitor leaves its state at the end of the slot alone.
LEMMA MasterMonitorKept ==
  ASSUME TypeInv, InStep, MMStep \/ MMPublish
  PROVE  /\ AtSlotEnd(mmpc, mmreq, mmi, "mmon")' = AtSlotEnd(mmpc, mmreq, mmi, "mmon")
         /\ bus' = bus /\ ("smon" \in due' <=> "smon" \in due)
  <1> USE DEF AtSlotEnd
  <1>1. CASE MMIdle
    BY <1>1 DEF MMIdle, mm, Edge
  <1>2. CASE MMDetect
    <2>1. mmpc' = AfterWhile /\ mmpc' \in {"wait1", "wait0", "beat"}
      BY <1>2 DEF MMDetect, MMAccept, AfterWhile
    <2>2. mmpc' = "wait0" => bus.wait # 0
      BY <1>2 DEF MMDetect, MMAccept, AfterWhile
    <2> QED BY <1>2, <2>1, <2>2 DEF MMDetect, MMAccept, Edge
  <1>3. CASE MMWait
    <2>1. mmpc' = AfterWhile /\ mmpc' \in {"wait1", "wait0", "beat"}
      BY <1>3 DEF MMWait, AfterWhile
    <2>2. mmpc' = "wait0" => bus.wait # 0
      BY <1>3 DEF MMWait, AfterWhile
    <2> QED BY <1>3, <2>1, <2>2 DEF MMWait, Edge
  <1>4. CASE MMLeaveWait
    <2>1. "mmon" \notin due
      BY <1>4 DEF MMLeaveWait, InStep, Counters, AtClock, MMAtClock
    <2> QED BY <1>4, <2>1 DEF MMLeaveWait, wires
  <1>5. CASE MMBeat
    BY <1>5 DEF MMBeat, MMSampled, Edge
  <1>6. CASE MMPublish
    <2>1. bus.hdr = NoHdr
      BY <1>6, MasterPublishSeesNoHeader
    <2>2. ~(mmi < mmreq.size - 1)
      BY <1>6, PacketFields DEF MMPublish, TypeInv, HoldsPacket
    <2> QED BY <1>6, <2>1, <2>2 DEF MMPublish, MMSampled, Edge
  <1> QED BY <1>1, <1>2, <1>3, <1>4, <1>5, <1>6 DEF MMStep

\* A step of the slave monitor leaves its state at the end of the slot alone.
LEMMA SlaveMonitorKept ==
  ASSUME TypeInv, InStep, SMStep \/ SMPublish
  PROVE  /\ AtSlotEnd(smpc, smreq, smi, "smon")' = AtSlotEnd(smpc, smreq, smi, "smon")
         /\ bus' = bus /\ ("mmon" \in due' <=> "mmon" \in due)
  <1> USE DEF AtSlotEnd
  <1>1. CASE SMIdle
    BY <1>1 DEF SMIdle, sm, Edge
  <1>2. CASE SMDetect
    <2>1. smpc' = AfterWhile /\ smpc' \in {"wait1", "wait0", "beat"}
      BY <1>2 DEF SMDetect, AfterWhile
    <2>2. smpc' = "wait0" => bus.wait # 0
      BY <1>2 DEF SMDetect, AfterWhile
    <2> QED BY <1>2, <2>1, <2>2 DEF SMDetect, Edge
  <1>3. CASE SMWait
    <2>1. smpc' = AfterWhile /\ smpc' \in {"wait1", "wait0", "beat"}
      BY <1>3 DEF SMWait, AfterWhile
    <2>2. smpc' = "wait0" => bus.wait # 0
      BY <1>3 DEF SMWait, AfterWhile
    <2> QED BY <1>3, <2>1, <2>2 DEF SMWait, SMUpdate, Edge
  <1>4. CASE SMLeaveWait
    <2>1. "smon" \notin due
      BY <1>4 DEF SMLeaveWait, InStep, Counters, AtClock, SMAtClock
    <2> QED BY <1>4, <2>1 DEF SMLeaveWait, wires
  <1>5. CASE SMBeat
    BY <1>5 DEF SMBeat, SMUpdate, SMSampled, Edge
  <1>6. CASE SMPublish
    <2>1. bus.hdr = NoHdr
      BY <1>6, SlavePublishSeesNoHeader
    <2>2. ~(smi < smreq.size - 1)
      BY <1>6, PacketFields DEF SMPublish, TypeInv, HoldsPacket
    <2> QED BY <1>6, <2>1, <2>2 DEF SMPublish, SMUpdate, SMSampled, Edge
  <1> QED BY <1>1, <1>2, <1>3, <1>4, <1>5, <1>6 DEF SMStep

-----------------------------------------------------------------------------
(* Mirror is invariant *)

\* Both monitors start idle.
LEMMA MirrorInit == Init => Mirror
  BY DEF Init, WiresInit, MMInit, SMInit, Mirror, AtSlotEnd

\* Between slots the monitors are equal, so the edge wakes both or neither.
LEMMA MirrorPosedge == TypeInv /\ Mirror /\ Posedge => Mirror'
  <1> SUFFICES ASSUME TypeInv, Mirror, Posedge PROVE Mirror'
    OBVIOUS
  <1>1. due = {} /\ due' = AtClock /\ ~MMRunnable /\ ~SMRunnable /\ UNCHANGED <<bus, mm, sm>>
    BY DEF Posedge, AtRest, ActiveDone
  <1>2. mmpc = smpc /\ mmreq = smreq /\ mmi = smi
    BY <1>1 DEF Mirror, AtSlotEnd, MMRunnable, SMRunnable
  <1>3. "mmon" \in due' <=> "smon" \in due'
    BY <1>1, <1>2 DEF AtClock, Procs, MMAtClock, SMAtClock
  <1> QED BY <1>1, <1>2, <1>3 DEF Mirror, AtSlotEnd, AfterWhile, mm, sm

\* The NBA region changes what both monitors see.
LEMMA MirrorCommit == TypeInv /\ Mirror /\ Commit => Mirror'
  <1> SUFFICES ASSUME TypeInv, Mirror, Commit PROVE Mirror'
    OBVIOUS
  <1>1. due = {} /\ due' = {} /\ ~MMRunnable /\ ~SMRunnable /\ UNCHANGED <<mm, sm>>
    BY DEF Commit, CommitNba, ActiveDone
  <1>2. mmpc = smpc /\ mmreq = smreq /\ mmi = smi
    BY <1>1 DEF Mirror, AtSlotEnd, MMRunnable, SMRunnable
  <1> QED BY <1>1, <1>2 DEF Mirror, AtSlotEnd, mm, sm

\* Every step of the bus keeps the monitors alike.
LEMMA MirrorNext == TypeInv /\ InStep /\ Mirror /\ [Next]_vars => Mirror'
  <1> SUFFICES ASSUME TypeInv, InStep, Mirror, [Next]_vars PROVE Mirror'
    OBVIOUS
  <1>1. CASE MasterWatches \/ MasterPublishes
    <2>1. (MMStep \/ MMPublish) /\ UNCHANGED sm
      BY <1>1 DEF MasterWatches, MasterPublishes
    <2> QED BY <2>1, MasterMonitorKept DEF Mirror, AtSlotEnd, AfterWhile, sm
  <1>2. CASE SlaveWatches \/ SlavePublishes
    <2>1. (SMStep \/ SMPublish) /\ UNCHANGED mm
      BY <1>2 DEF SlaveWatches, SlavePublishes
    <2> QED BY <2>1, SlaveMonitorKept DEF Mirror, AtSlotEnd, AfterWhile, mm
  <1>3. CASE Request \/ MasterDrives \/ SlaveServes \/ SlaveDrives \/ UNCHANGED vars
    <2>1. UNCHANGED <<bus, mm, sm>>
      BY <1>3 DEF Request, GetNextItem, MasterDrives, MDStep, DriveAddr, ReleaseAddr, FirstBeat,
                  NextBeat, EndWrite, ItemDone, SlaveServes, Serve, SlaveDrives, SDStep, SDGet,
                  SDWait, SDBeat, SDEndRead, SDEndWrite, SDTail, SDDone, vars, wires
    <2>2. \A p \in {"mmon", "smon"} : p \in due' <=> p \in due
      BY <1>3 DEF Request, GetNextItem, MasterDrives, MDStep, DriveAddr, ReleaseAddr, FirstBeat,
                  NextBeat, EndWrite, ItemDone, SlaveServes, Serve, SlaveDrives, SDStep, SDGet,
                  SDWait, SDBeat, SDEndRead, SDEndWrite, SDTail, SDDone, Edge, vars, wires
    <2> QED BY <2>1, <2>2 DEF Mirror, AtSlotEnd, AfterWhile, mm, sm
  <1> QED BY <1>1, <1>2, <1>3, MirrorPosedge, MirrorCommit DEF Next, Step, Silent

\* At rest nothing is left of the slot, so the monitors themselves are equal.
LEMMA MirrorAgrees == Mirror => MonitorsAgree
  <1> SUFFICES ASSUME Mirror, AtRest, mmpc = "idle", smpc = "idle" PROVE mmreq = smreq
    BY DEF MonitorsAgree
  <1>1. due = {}
    BY DEF AtRest, ActiveDone
  <1> QED BY <1>1 DEF Mirror, AtSlotEnd

\* At the end of every slot the two monitors are in the same state.
THEOREM MonitorsMirror == Spec => []Mirror
  <1>1. Spec => []TypeInv
    BY TypeCorrect DEF TypeInv
  <1> QED BY <1>1, AgentsInStep, MirrorInit, MirrorNext, PTL DEF Spec

\* When both monitors are between transfers they have published the same
\* packet, with the same wait count and the same bytes.
THEOREM MonitorsPublishAlike == Spec => []MonitorsAgree
  BY MonitorsMirror, MirrorAgrees, PTL

-----------------------------------------------------------------------------
(* The whole invariant of the bus, for what is built around it *)

BusInv == TypeInv /\ InStep /\ Mirror

\* The bus starts in it.
LEMMA BusInit == Init => BusInv
  BY TypeInit, InStepInit, MirrorInit DEF BusInv

\* Every step of the bus, and every step around it, keeps the invariant.
LEMMA BusNext == BusInv /\ [Next]_vars => BusInv'
  BY TypeNext, InStepNext, MirrorNext DEF BusInv
=============================================================================
