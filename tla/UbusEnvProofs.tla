--------------------------- MODULE UbusEnvProofs ---------------------------
(***************************************************************************)
(* The environment around the bus: its agents are those of UbusBus, and    *)
(* the scoreboard is called for the same transfer from both sides.         *)
(***************************************************************************)
EXTENDS UbusEnv, UbusTransferProofs, UbusDataProofs

-----------------------------------------------------------------------------
(* The bus inside the environment *)

\* The scoreboard only observes: a step of the environment is one of the agents.
LEMMA EnvIsBus == [EnvNext]_envVars => [Next]_vars
  BY DEF EnvNext, EnvStep, ScoreMaster, ScoreSlave, Next, Step, envVars

\* So the agents keep their invariant.
LEMMA EnvBus == EnvSpec => []BusInv
  <1>1. EnvInit => BusInv
    BY BusInit DEF EnvInit
  <1>2. BusInv /\ [EnvNext]_envVars => BusInv'
    BY EnvIsBus, BusNext
  <1> QED BY <1>1, <1>2, PTL DEF EnvSpec

\* With the scoreboard connected the agents still do one transfer at a time.
THEOREM EnvImplementsTransfer == EnvSpec => ImplementsTransfer
  <1>1. EnvInit => Init
    BY DEF EnvInit
  <1> QED BY <1>1, EnvIsBus, BusRefines, PTL DEF EnvSpec

\* What the scoreboard is given: packets of both monitors whose bytes are those
\* of the transfer from the second one on, from a memory no write has reached.
THEOREM ScoreboardGetsShifted == EnvSpec => [](MonitorsAgree /\ PublishedShifted /\ MemoryForgets)
  <1>1. EnvInit => Init
    BY DEF EnvInit
  <1>2. BusInv => TypeInv /\ InStep
    BY DEF BusInv
  <1>3. EnvSpec => []DataInv
    BY <1>1, <1>2, EnvBus, EnvIsBus, DataInit, DataNext, PTL DEF EnvSpec
  <1>4. DataInv => MemoryForgets
    BY DEF DataInv, Served
  <1>5. BusInv => MonitorsAgree
    BY MirrorAgrees DEF BusInv
  <1> QED BY <1>2, <1>3, <1>4, <1>5, EnvBus, PublishedShiftedHolds, PTL

-----------------------------------------------------------------------------
(* The scoreboard *)

\* The scoreboard stores bytes at addresses of the memory only.
LEMMA EnvTypeNext == BusInv /\ SBType /\ [EnvNext]_envVars => SBType'
  <1> SUFFICES ASSUME BusInv, SBType, [EnvNext]_envVars PROVE SBType'
    OBVIOUS
  <1>1. ASSUME NEW t \in Packet, NEW a \in MemAddr, a \in Burst(t)
        PROVE  t.data[a - t.addr] \in Byte
    <2>1. t.addr \in Nat /\ t.size \in Nat /\ t.size <= MaxSize /\ MaxSize \in Nat
          /\ t.data \in [Lane -> Byte]
      BY PacketFields, ConstantsAssumption
    <2>2. PICK i \in 0 .. t.size - 1 : a = t.addr + i
      BY <1>1 DEF Burst
    <2>3. a - t.addr = i /\ i \in Lane
      BY <2>1, <2>2 DEF Lane
    <2> QED BY <2>1, <2>3
  <1>2. CASE ScoreMaster
    <2>1. MMSampled \in Packet
      BY <1>2, SampleIsByte, StoreByte, NbaFields
      DEF ScoreMaster, MasterPublishes, MMPublish, MMSampled, BusInv, TypeInv, TypeOK, HoldsPacket
    <2> QED BY <1>1, <1>2, <2>1 DEF ScoreMaster, WriteMaster, SBType
  <1>3. CASE ScoreSlave
    <2>1. SMSampled \in Packet
      BY <1>3, SampleIsByte, StoreByte, NbaFields
      DEF ScoreSlave, SlavePublishes, SMPublish, SMSampled, BusInv, TypeInv, TypeOK, HoldsPacket
    <2>2. CASE SMSampled.dir = "read"
      <3>1. expected' \in [MemAddr -> Byte \cup {NotSeen}]
        BY <1>1, <1>3, <2>1, <2>2 DEF ScoreSlave, WriteSlave, SBType
      <3>2. mismatch' \in BOOLEAN
        BY <1>3, <2>2 DEF ScoreSlave, WriteSlave, SBType
      <3> QED BY <3>1, <3>2 DEF SBType
    <2>3. CASE SMSampled.dir # "read"
      BY <1>3, <2>3 DEF ScoreSlave, WriteSlave, SBType, sb
    <2> QED BY <2>2, <2>3
  <1> QED BY <1>2, <1>3 DEF EnvNext, EnvStep, envVars, sb, SBType

\* Every variable of the environment, the scoreboard's included, holds a value
\* of its type in every reachable state.
THEOREM EnvTypeCorrect == EnvSpec => []EnvTypeOK
  <1>1. EnvInit => SBType
    BY DEF EnvInit, SBInit, SBType
  <1>2. EnvSpec => []SBType
    BY <1>1, EnvBus, EnvTypeNext, PTL DEF EnvSpec
  <1>3. BusInv /\ SBType => EnvTypeOK
    BY DEF BusInv, TypeInv, EnvTypeOK
  <1> QED BY <1>2, <1>3, EnvBus, PTL

\* When write_master is called the slave monitor has the same transfer.
LEMMA MasterScored == BusInv /\ ScoreMaster => SameTransfer(mmreq', smreq')
  <1> SUFFICES ASSUME BusInv, ScoreMaster PROVE SameTransfer(mmreq', smreq')
    OBVIOUS
  <1>1. MMPublish /\ UNCHANGED <<bus, sm>>
    BY DEF ScoreMaster, MasterPublishes, MMPublish
  <1>2. "mmon" \in due /\ mmpc = "beat" /\ mmi = mmreq.size - 1
    BY <1>1 DEF MMPublish, Edge
  <1>3. mmreq \in Packet /\ mmreq.size \in Nat /\ SMType /\ (smpc # "idle" => smreq \in Packet)
    BY <1>2, PacketFields DEF BusInv, TypeInv, TypeOK, HoldsPacket
  <1>4. AtSlotEnd(mmpc, mmreq, mmi, "mmon") = <<"idle", MMSampled, 0>>
    BY <1>2, <1>3 DEF AtSlotEnd, MMSampled
  <1>5. MMSampled # NoItem
    <2>1. MMSampled \in Packet
      BY <1>1, <1>3, SampleIsByte, StoreByte, NbaFields
      DEF MMPublish, MMSampled, BusInv, TypeInv, TypeOK
    <2> QED BY <2>1, ConstantsAssumption
  <1>6. bus.hdr = NoHdr
    BY <1>1, MasterPublishSeesNoHeader DEF BusInv
  <1>7. mmreq' = MMSampled
    BY <1>1, <1>6 DEF MMPublish
  <1>8. AtSlotEnd(smpc, smreq, smi, "smon") = <<"idle", MMSampled, 0>>
    BY <1>4 DEF BusInv, Mirror
  <1>9. smreq # NoItem /\ HdrOf(smreq) = HdrOf(MMSampled)
    <2>1. CASE smpc = "idle"
      BY <1>5, <1>6, <1>8, <2>1 DEF AtSlotEnd
    <2>2. CASE smpc = "beat" /\ "smon" \in due
      <3>1. MMSampled = [smreq EXCEPT !.data[smi] = AsBit(bus.data)]
        BY <1>8, <2>2 DEF AtSlotEnd
      <3> QED BY <1>3, <2>2, <3>1, ConstantsAssumption DEF HdrOf, Packet
    <2>3. CASE smpc \in {"wait1", "wait0"} \/ (smpc = "beat" /\ "smon" \notin due)
      BY <1>8, <2>3 DEF AtSlotEnd, AfterWhile
    <2> QED BY <1>3, <2>1, <2>2, <2>3 DEF SMType
  <1> QED BY <1>1, <1>5, <1>7, <1>9 DEF sm, SameTransfer

\* When write_slave is called the master monitor has the same transfer.
LEMMA SlaveScored == BusInv /\ ScoreSlave => SameTransfer(mmreq', smreq')
  <1> SUFFICES ASSUME BusInv, ScoreSlave PROVE SameTransfer(mmreq', smreq')
    OBVIOUS
  <1>1. SMPublish /\ UNCHANGED <<bus, mm>>
    BY DEF ScoreSlave, SlavePublishes, SMPublish
  <1>2. "smon" \in due /\ smpc = "beat" /\ smi = smreq.size - 1
    BY <1>1 DEF SMPublish, Edge
  <1>3. smreq \in Packet /\ smreq.size \in Nat /\ MMType /\ (mmpc # "idle" => mmreq \in Packet)
    BY <1>2, PacketFields DEF BusInv, TypeInv, TypeOK, HoldsPacket
  <1>4. AtSlotEnd(smpc, smreq, smi, "smon") = <<"idle", SMSampled, 0>>
    BY <1>2, <1>3 DEF AtSlotEnd, SMSampled
  <1>5. SMSampled # NoItem
    <2>1. SMSampled \in Packet
      BY <1>1, <1>3, SampleIsByte, StoreByte, NbaFields
      DEF SMPublish, SMSampled, BusInv, TypeInv, TypeOK
    <2> QED BY <2>1, ConstantsAssumption
  <1>6. bus.hdr = NoHdr
    BY <1>1, SlavePublishSeesNoHeader DEF BusInv
  <1>7. smreq' = SMSampled
    BY <1>1 DEF SMPublish, SMUpdate
  <1>8. AtSlotEnd(mmpc, mmreq, mmi, "mmon") = <<"idle", SMSampled, 0>>
    BY <1>4 DEF BusInv, Mirror
  <1>9. mmreq # NoItem /\ HdrOf(mmreq) = HdrOf(SMSampled)
    <2>1. CASE mmpc = "idle"
      BY <1>5, <1>6, <1>8, <2>1 DEF AtSlotEnd
    <2>2. CASE mmpc = "beat" /\ "mmon" \in due
      <3>1. SMSampled = [mmreq EXCEPT !.data[mmi] = AsBit(bus.data)]
        BY <1>8, <2>2 DEF AtSlotEnd
      <3> QED BY <1>3, <2>2, <3>1, ConstantsAssumption DEF HdrOf, Packet
    <2>3. CASE mmpc \in {"wait1", "wait0"} \/ (mmpc = "beat" /\ "mmon" \notin due)
      BY <1>8, <2>3 DEF AtSlotEnd, AfterWhile
    <2> QED BY <1>3, <2>1, <2>2, <2>3 DEF MMType
  <1> QED BY <1>1, <1>5, <1>7, <1>9 DEF mm, SameTransfer

\* Whenever a packet changes the scoreboard, both monitors hold packets of the
\* same transfer.
THEOREM ScoreboardSeesOneTransfer == EnvSpec => ScoredTogether
  <1>1. BusInv /\ [EnvNext]_envVars =>
          [(expected' # expected \/ mismatch' # mismatch) => SameTransfer(mmreq', smreq')]_envVars
    BY MasterScored, SlaveScored DEF EnvNext, EnvStep, sb
  <1> QED BY <1>1, EnvBus, PTL DEF EnvSpec, ScoredTogether
=============================================================================
