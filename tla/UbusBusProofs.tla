--------------------------- MODULE UbusBusProofs ----------------------------
(***************************************************************************)
(* Theorems about UbusBus, for every value of its constants.               *)
(***************************************************************************)
EXTENDS UbusBusInvariant, TLAPS

TypeInv == TypeOK /\ HoldsPacket

-----------------------------------------------------------------------------
(* Lemmas about packets *)

\* A packet assembled from its fields, and the fields of a packet.
LEMMA PacketFields ==
  ASSUME NEW p \in Packet
  PROVE  /\ p.addr \in Addr /\ p.size \in Sizes /\ p.dir \in Dir
         /\ p.data \in [Lane -> Byte] /\ p.wait_state \in Nat
         /\ p.size \in Nat /\ 1 <= p.size /\ p.size <= MaxSize
         /\ 0 \in Lane /\ MaxSize \in Nat
         /\ HdrOf(p) \in Hdr
  <1>1. p.addr \in Addr /\ p.size \in Sizes /\ p.dir \in Dir
        /\ p.data \in [Lane -> Byte] /\ p.wait_state \in Nat
    BY DEF Packet
  <1>2. p.size \in 1 .. MaxSize /\ MaxSize \in Nat
    BY <1>1, ConstantsAssumption
  <1>3. HdrOf(p) \in Hdr
    BY <1>1 DEF HdrOf, Hdr
  <1> QED BY <1>1, <1>2, <1>3 DEF Lane

\* Storing a byte in a packet leaves a packet.
LEMMA StoreByte ==
  ASSUME NEW p \in Packet, NEW i, NEW b \in Byte
  PROVE  [p EXCEPT !.data[i] = b] \in Packet
  BY DEF Packet

\* What a monitor samples from the data bus is a byte.
LEMMA SampleIsByte ==
  ASSUME NEW v \in Byte \cup {Z}
  PROVE  AsBit(v) \in Byte
  BY ConstantsAssumption DEF AsBit

\* A packet made from a sampled header.
LEMMA NewReqIsPacket ==
  ASSUME NEW h \in Hdr
  PROVE  NewReq(h) \in Packet
  BY ConstantsAssumption DEF NewReq, Hdr, Packet

-----------------------------------------------------------------------------
(* Type correctness *)

\* The simulation starts with values of the right type.
LEMMA TypeInit == Init => TypeInv
  <1> SUFFICES ASSUME Init PROVE TypeInv
    OBVIOUS
  <1>1. WiresType
    BY KeepAssumption DEF Init, WiresInit, WiresType, NoNba
  <1>2. SqrType /\ MDType /\ MMType /\ SMType /\ SDType /\ SSType
    BY ConstantsAssumption
    DEF Init, SqrInit, SqrType, MDInit, MDType, MMInit, MMType, SMInit, SMType,
        SDInit, SDType, SSInit, SSType
  <1>3. HoldsPacket
    BY DEF Init, MDInit, MMInit, SMInit, SDInit, HoldsPacket
  <1> QED BY <1>1, <1>2, <1>3 DEF TypeInv, TypeOK

\* The assignments a process schedules are of the right type if the fields it
\* changes are.
LEMMA NbaFields ==
  ASSUME WiresType
  PROVE  /\ nba = [hdr |-> nba.hdr, wait |-> nba.wait, bip |-> nba.bip,
                   mdata |-> nba.mdata, sdata |-> nba.sdata]
         /\ nba.hdr \in Hdr \cup {NoHdr, Keep} /\ nba.wait \in {0, 1, Keep}
         /\ nba.bip \in {0, 1, Keep} /\ nba.mdata \in Byte \cup {Z, Keep}
         /\ nba.sdata \in Byte \cup {Z, Keep}
         /\ bus.hdr \in Hdr \cup {NoHdr} /\ bus.wait \in 0 .. 2
         /\ bus.data \in Byte \cup {Z} /\ bus.bip \in 0 .. 2
  BY DEF WiresType

\* The NBA region stores values of the right type.
LEMMA TypeCommit == TypeInv /\ Commit => TypeInv'
  <1> SUFFICES ASSUME TypeInv, Commit PROVE TypeInv'
    OBVIOUS
  <1> USE DEF TypeInv, TypeOK, Commit, CommitNba
  <1>1. PICK d \in Settled(bus.data, nba.mdata, nba.sdata) :
          bus' = [hdr  |-> Updated(bus.hdr, nba.hdr),
                  wait |-> Updated(bus.wait, nba.wait),
                  data |-> d,
                  bip  |-> Updated(bus.bip, nba.bip)]
    OBVIOUS
  <1>2. d \in Byte \cup {Z}
    BY <1>1, NbaFields DEF Settled
  <1>3. WiresType'
    BY <1>1, <1>2, NbaFields, KeepAssumption DEF WiresType, Updated, NoNba
  <1>4. (SqrType /\ MDType /\ MMType /\ SMType /\ SDType /\ SSType /\ HoldsPacket)'
    BY DEF sqr, md, mm, sm, sd, SqrType, MDType, MMType, SMType, SDType, SSType, HoldsPacket
  <1> QED BY <1>3, <1>4

\* A step of the master driver.
LEMMA TypeMaster == TypeInv /\ (Request \/ MasterDrives) => TypeInv'
  <1> SUFFICES ASSUME TypeInv, Request \/ MasterDrives PROVE TypeInv'
    OBVIOUS
  <1> USE DEF TypeInv, TypeOK
  <1>1. SqrType' /\ MMType' /\ SMType' /\ SDType' /\ SSType'
    BY DEF Request, MasterDrives, sqr, mm, sm, sd, SqrType, MMType, SMType, SDType, SSType
  <1>2. (mmpc # "idle" => mmreq \in Packet)' /\ (smpc # "idle" => smreq \in Packet)'
        /\ (sdpc # "get" => rsp \in Packet)'
    BY DEF Request, MasterDrives, sqr, mm, sm, sd, HoldsPacket
  <1>3. CASE Request
    <2>1. PICK p \in Items : GetNextItem(p)
      BY <1>3 DEF Request
    <2>2. p \in Packet
      BY ItemsAssumption
    <2> QED BY <1>1, <1>2, <2>1, <2>2
            DEF GetNextItem, wires, WiresType, MDType, HoldsPacket
  <1>4. CASE MasterDrives
    <2> USE <1>4 DEF MasterDrives
    <2>1. mdpc # "get" => tr \in Packet
      BY DEF HoldsPacket
    <2>2. \A b \in {bus.data} : b \in Byte \cup {Z}
      BY NbaFields
    <2>3. was \in Byte \cup {Z}
      BY DEF WiresType
    <2>4. CASE DriveAddr
      <3>1. tr \in Packet /\ HdrOf(tr) \in Hdr
        BY <2>1, <2>4, PacketFields DEF DriveAddr
      <3>2. WiresType'
        BY <2>4, <3>1, NbaFields DEF DriveAddr, Edge, WiresType
      <3> QED BY <1>1, <1>2, <2>4, <3>1, <3>2 DEF DriveAddr, MDType, HoldsPacket
    <2>5. CASE ReleaseAddr
      <3>1. tr \in Packet /\ tr.data[0] \in Byte
        BY <2>1, <2>5, PacketFields DEF ReleaseAddr
      <3>2. WiresType'
        BY <2>5, <3>1, NbaFields DEF ReleaseAddr, Edge, WiresType
      <3> QED BY <1>1, <1>2, <2>5, <3>1, <3>2 DEF ReleaseAddr, MDType, HoldsPacket
    <2>6. ASSUME NEW i \in Nat, i < tr.size, mdpc # "get",
                 WriteBeat(i) \/ \E v \in Byte \cup {Z} : ReadBeat(i, v),
                 bus' = bus, was' = was, due' \in SUBSET Procs
          PROVE  WiresType' /\ tr' \in Packet
      <3>1. tr \in Packet /\ i \in Lane /\ tr.data[i] \in Byte
        BY <2>1, <2>6, PacketFields DEF Lane
      <3>2. Bip(i) \in {0, 1}
        BY DEF Bip
      <3>3. CASE WriteBeat(i)
        BY <2>6, <3>1, <3>2, <3>3, NbaFields DEF WriteBeat, WiresType
      <3>4. CASE \E v \in Byte \cup {Z} : ReadBeat(i, v)
        <4>1. PICK v \in Byte \cup {Z} : ReadBeat(i, v)
          BY <3>4
        <4>2. tr' \in Packet
          BY <3>1, <4>1, SampleIsByte, StoreByte DEF ReadBeat
        <4> QED BY <2>6, <3>2, <4>1, <4>2, NbaFields DEF ReadBeat, WiresType
      <3> QED BY <2>6, <3>3, <3>4
    <2>7. CASE FirstBeat
      <3>1. 0 < tr.size /\ 1 \in 0 .. MaxSize
        BY <2>1, <2>7, PacketFields DEF FirstBeat
      <3>2. WiresType' /\ tr' \in Packet
        BY <2>2, <2>3, <2>6, <2>7, <3>1 DEF FirstBeat, WiresType
      <3> QED BY <1>1, <1>2, <2>7, <3>1, <3>2 DEF FirstBeat, MDType, HoldsPacket
    <2>8. CASE NextBeat
      <3>1. mdi \in Nat /\ mdi + 1 \in 0 .. MaxSize
        BY <2>1, <2>8, PacketFields DEF NextBeat, MDType
      <3>2. WiresType' /\ tr' \in Packet
        BY <2>2, <2>6, <2>8, <3>1 DEF NextBeat, Edge, WiresType
      <3> QED BY <1>1, <1>2, <2>8, <3>1, <3>2 DEF NextBeat, MDType, HoldsPacket
    <2>9. CASE EndWrite
      <3>1. WiresType'
        BY <2>9, NbaFields DEF EndWrite, Edge, WiresType
      <3> QED BY <1>1, <1>2, <2>1, <2>9, <3>1 DEF EndWrite, MDType, HoldsPacket
    <2>10. CASE ItemDone
      <3>1. WiresType'
        BY <2>10 DEF ItemDone, Edge, WiresType
      <3> QED BY <1>1, <1>2, <2>10, <3>1, ConstantsAssumption
              DEF ItemDone, MDType, HoldsPacket
    <2> QED BY <2>4, <2>5, <2>7, <2>8, <2>9, <2>10 DEF MDStep
  <1> QED BY <1>3, <1>4

\* A step of the master monitor.
LEMMA TypeMasterMonitor ==
  TypeInv /\ (MasterWatches \/ MasterPublishes) => TypeInv'
  <1> SUFFICES ASSUME TypeInv, MasterWatches \/ MasterPublishes PROVE TypeInv'
    OBVIOUS
  <1> USE DEF TypeInv, TypeOK
  <1>1. SqrType' /\ MDType' /\ SMType' /\ SDType' /\ SSType'
    BY DEF MasterWatches, MasterPublishes, sqr, md, sm, sd,
           SqrType, MDType, SMType, SDType, SSType
  <1>2. (mdpc # "get" => tr \in Packet)' /\ (smpc # "idle" => smreq \in Packet)'
        /\ (sdpc # "get" => rsp \in Packet)'
    BY DEF MasterWatches, MasterPublishes, sqr, md, sm, sd, HoldsPacket
  <1>3. MMStep \/ MMPublish
    BY DEF MasterWatches, MasterPublishes
  <1>4. WiresType'
    BY <1>3 DEF MMStep, MMIdle, MMDetect, MMWait, MMLeaveWait, MMBeat, MMPublish,
                Edge, wires, WiresType
  <1>5. mmpc # "idle" => mmreq \in Packet /\ mmreq.size \in Nat /\ mmreq.size <= MaxSize
    BY PacketFields DEF HoldsPacket
  <1>6. AfterWhile \in {"wait1", "wait0", "beat"}
    BY DEF AfterWhile
  <1>7. AsBit(bus.data) \in Byte
    BY NbaFields, SampleIsByte
  <1>8. ASSUME bus.hdr # NoHdr, MMAccept
        PROVE  MMType' /\ (mmpc # "idle" => mmreq \in Packet)'
    BY <1>6, <1>8, NbaFields, NewReqIsPacket, ConstantsAssumption DEF MMAccept, MMType
  <1>9. MMType' /\ (mmpc # "idle" => mmreq \in Packet)'
    <2>1. CASE MMIdle
      BY <2>1 DEF MMIdle, mm, MMType
    <2>2. CASE MMDetect
      BY <1>8, <2>2 DEF MMDetect
    <2>3. CASE MMWait
      <3>1. mmreq' \in Packet
        BY <1>5, <2>3 DEF MMWait, Packet
      <3> QED BY <1>6, <2>3, <3>1 DEF MMWait, MMType
    <2>4. CASE MMLeaveWait
      BY <1>5, <2>4 DEF MMLeaveWait, MMType
    <2>5. CASE MMBeat
      <3>1. mmreq' \in Packet
        BY <1>5, <1>7, <2>5, StoreByte DEF MMBeat, MMSampled
      <3>2. mmi + 1 \in 0 .. MaxSize
        BY <1>5, <2>5, ConstantsAssumption DEF MMBeat, MMType
      <3> QED BY <2>5, <3>1, <3>2 DEF MMBeat, MMType
    <2>6. CASE MMPublish
      <3>1. MMSampled \in Packet
        BY <1>5, <1>7, <2>6, StoreByte DEF MMPublish, MMSampled
      <3> QED BY <1>8, <2>6, <3>1, ConstantsAssumption DEF MMPublish, MMType
    <2> QED BY <1>3, <2>1, <2>2, <2>3, <2>4, <2>5, <2>6 DEF MMStep
  <1> QED BY <1>1, <1>2, <1>4, <1>9 DEF HoldsPacket

\* A step of the slave monitor.
LEMMA TypeSlaveMonitor ==
  TypeInv /\ (SlaveWatches \/ SlavePublishes) => TypeInv'
  <1> SUFFICES ASSUME TypeInv, SlaveWatches \/ SlavePublishes PROVE TypeInv'
    OBVIOUS
  <1> USE DEF TypeInv, TypeOK
  <1>1. MDType' /\ MMType' /\ SDType' /\ SSType'
    BY DEF SlaveWatches, SlavePublishes, md, mm, sd, MDType, MMType, SDType, SSType
  <1>3. SMStep \/ SMPublish
    BY DEF SlaveWatches, SlavePublishes
  <1>4. WiresType' /\ rsp' = rsp
    BY <1>3 DEF SMStep, SMIdle, SMDetect, SMWait, SMLeaveWait, SMBeat, SMPublish,
                Edge, wires, sqr, WiresType
  <1>2. (mdpc # "get" => tr \in Packet)' /\ (mmpc # "idle" => mmreq \in Packet)'
        /\ (sdpc # "get" => rsp \in Packet)'
    BY <1>4 DEF SlaveWatches, SlavePublishes, md, mm, sd, HoldsPacket
  <1>5. smpc # "idle" => smreq \in Packet /\ smreq.size \in Nat /\ smreq.size <= MaxSize
    BY PacketFields DEF HoldsPacket
  <1>6. AfterWhile \in {"wait1", "wait0", "beat"}
    BY DEF AfterWhile
  <1>7. AsBit(bus.data) \in Byte
    BY NbaFields, SampleIsByte
  <1>8. ASSUME NEW req \in Packet, SMUpdate(req)
        PROVE  SqrType' /\ smreq' \in Packet
    BY <1>4, <1>8 DEF SMUpdate, SqrType
  <1>9. SqrType' /\ SMType' /\ (smpc # "idle" => smreq \in Packet)'
    <2>1. CASE SMIdle
      BY <2>1 DEF SMIdle, sm, sqr, SqrType, SMType
    <2>2. CASE SMDetect
      <3>1. NewReq(bus.hdr) \in Packet
        BY <2>2, NbaFields, NewReqIsPacket DEF SMDetect
      <3> QED BY <1>6, <2>2, <3>1, ConstantsAssumption DEF SMDetect, SqrType, SMType
    <2>3. CASE SMWait
      <3>1. [smreq EXCEPT !.wait_state = @ + 1] \in Packet
        BY <1>5, <2>3 DEF SMWait, Packet
      <3> QED BY <1>6, <1>8, <2>3, <3>1 DEF SMWait, SMType
    <2>4. CASE SMLeaveWait
      BY <1>5, <2>4 DEF SMLeaveWait, sqr, SqrType, SMType
    <2>5. CASE SMBeat
      <3>1. SMSampled \in Packet
        BY <1>5, <1>7, <2>5, StoreByte DEF SMBeat, SMSampled
      <3>2. smi + 1 \in 0 .. MaxSize
        BY <1>5, <2>5, ConstantsAssumption DEF SMBeat, SMType
      <3> QED BY <1>8, <2>5, <3>1, <3>2 DEF SMBeat, SMType
    <2>6. CASE SMPublish
      <3>1. SMSampled \in Packet
        BY <1>5, <1>7, <2>6, StoreByte DEF SMPublish, SMSampled
      <3> QED BY <1>8, <2>6, <3>1, ConstantsAssumption DEF SMPublish, SMType
    <2> QED BY <1>3, <2>1, <2>2, <2>3, <2>4, <2>5, <2>6 DEF SMStep
  <1> QED BY <1>1, <1>2, <1>4, <1>9 DEF HoldsPacket

\* The slave sequence answers the oldest request with a packet that has its
\* address, size and direction.
LEMMA ServeAnswers ==
  TypeInv /\ Serve =>
    /\ rsp' \in Packet /\ HdrOf(rsp') = HdrOf(Head(request_fifo))
    /\ request_fifo' \in Seq(Packet)
    /\ SSType'
  <1> SUFFICES ASSUME TypeInv, Serve
               PROVE  /\ rsp' \in Packet /\ HdrOf(rsp') = HdrOf(Head(request_fifo))
                      /\ request_fifo' \in Seq(Packet)
                      /\ SSType'
    OBVIOUS
  <1> USE DEF TypeInv, TypeOK
  <1> DEFINE req == Head(request_fifo)
  <1>2. req \in Packet /\ Tail(request_fifo) \in Seq(Packet)
    BY DEF Serve, SqrType
  <1>3. req.addr \in Addr /\ req.size \in Nat /\ req.size <= MaxSize
        /\ req.data \in [Lane -> Byte] /\ req.addr \in Nat /\ MaxSize \in Nat
    BY <1>2, PacketFields, ConstantsAssumption
  <1>4. ASSUME NEW i \in Lane, i < req.size
        PROVE  req.addr + i \in Burst(req) /\ req.addr + i \in MemAddr
    BY <1>3, <1>4 DEF Lane, Burst, MemAddr
  <1>5. ASSUME NEW a \in Burst(req)
        PROVE  a - req.addr \in Lane
    BY <1>3 DEF Burst, Lane
  <1>6. SSType' /\ (req.dir = "read" => \A a \in Burst(req) \cap MemAddr : m_mem'[a] \in Byte)
    <2>1. CASE req.dir = "write" /\ m_mem' = Stored(req)
      BY <1>3, <1>5, <2>1 DEF Stored, SSType
    <2>2. CASE req.dir = "read" /\ \E f \in [Burst(req) -> Fill] : m_mem' = Filled(req, f)
      BY <2>2, ConstantsAssumption, AbsentAssumption DEF Filled, SSType
    <2> QED BY <2>1, <2>2 DEF Serve
  <1>7. ASSUME NEW w \in 0 .. MaxWait
        PROVE  Response(req, w, m_mem') \in Packet /\ HdrOf(Response(req, w, m_mem')) = HdrOf(req)
    <2>1. [i \in Lane |-> IF req.dir = "read" /\ i < req.size
                          THEN m_mem'[req.addr + i] ELSE req.data[i]] \in [Lane -> Byte]
      BY <1>3, <1>4, <1>6
    <2>2. w \in Nat
      BY ConstantsAssumption
    <2> QED BY <1>2, <2>1, <2>2 DEF Response, Packet, HdrOf
  <1> QED BY <1>2, <1>6, <1>7 DEF Serve

\* A step of the slave sequence.
LEMMA TypeSequence == TypeInv /\ SlaveServes => TypeInv'
  <1> SUFFICES ASSUME TypeInv, SlaveServes PROVE TypeInv'
    OBVIOUS
  <1>1. MDType' /\ MMType' /\ SMType' /\ SDType' /\ WiresType'
    BY DEF TypeInv, TypeOK, SlaveServes, Serve, md, mm, sm, sd, wires,
           MDType, MMType, SMType, SDType, WiresType
  <1>2. rsp' \in Packet /\ SqrType' /\ SSType'
    BY ServeAnswers DEF SlaveServes, SqrType
  <1> QED BY <1>1, <1>2 DEF TypeInv, TypeOK, SlaveServes, md, mm, sm, sd, HoldsPacket

\* A step of the slave driver.
LEMMA TypeSlaveDriver == TypeInv /\ SlaveDrives => TypeInv'
  <1> SUFFICES ASSUME TypeInv, SlaveDrives PROVE TypeInv'
    OBVIOUS
  <1> USE DEF TypeInv, TypeOK
  <1>1. MDType' /\ MMType' /\ SMType' /\ SSType'
    BY DEF SlaveDrives, md, mm, sm, MDType, MMType, SMType, SSType
  <1>2. (mdpc # "get" => tr \in Packet)' /\ (mmpc # "idle" => mmreq \in Packet)'
        /\ (smpc # "idle" => smreq \in Packet)'
    BY DEF SlaveDrives, md, mm, sm, HoldsPacket
  <1>3. SDStep
    BY DEF SlaveDrives
  <1>4. SqrType'
    BY <1>3 DEF SDStep, SDGet, SDWait, SDBeat, SDEndRead, SDEndWrite, SDTail, SDDone,
                sqr, SqrType
  <1>5. rsp \in Packet /\ rsp.size \in Nat /\ rsp.size <= MaxSize /\ rsp.wait_state \in Nat
        /\ 0 \in Lane /\ rsp.data \in [Lane -> Byte]
    <2>1. rsp \in Packet
      BY <1>3 DEF SDStep, SDGet, SDWait, SDBeat, SDEndRead, SDEndWrite, SDTail,
                  HoldsPacket, SqrType
    <2> QED BY <2>1, PacketFields
  <1>6. ASSUME NEW i \in Nat, WaitCycle(i)
        PROVE  nba' \in [hdr : Hdr \cup {NoHdr, Keep}, wait : {0, 1, Keep}, bip : {0, 1, Keep},
                         mdata : Byte \cup {Z, Keep}, sdata : Byte \cup {Z, Keep}]
               /\ SDType'
    <2>1. SDType'
      BY <1>6 DEF WaitCycle, SDType
    <2> QED BY <1>5, <1>6, <2>1, NbaFields DEF WaitCycle
  <1>7. ASSUME NEW i \in Lane, Beat(i)
        PROVE  nba' \in [hdr : Hdr \cup {NoHdr, Keep}, wait : {0, 1, Keep}, bip : {0, 1, Keep},
                         mdata : Byte \cup {Z, Keep}, sdata : Byte \cup {Z, Keep}]
               /\ SDType'
    <2>1. SDType'
      BY <1>5, <1>7, ConstantsAssumption DEF Beat, SDType, Lane
    <2>2. rsp.data[i] \in Byte
      BY <1>5
    <2> QED BY <1>7, <2>1, <2>2, NbaFields DEF Beat
  <1>8. WiresType' /\ SDType'
    <2>1. CASE SDGet
      BY <1>5, <1>6, <1>7, <2>1 DEF SDGet, WiresType
    <2>2. CASE SDWait
      BY <1>5, <1>6, <1>7, <2>2 DEF SDWait, SDType, Edge, WiresType
    <2>3. CASE SDBeat
      <3>1. sdi \in Lane
        BY <1>5, <2>3, ConstantsAssumption DEF SDBeat, SDType, Lane
      <3> QED BY <1>7, <2>3, <3>1 DEF SDBeat, Edge, WiresType
    <2>4. CASE SDEndRead
      BY <2>4, NbaFields DEF SDEndRead, Edge, WiresType, SDType
    <2>5. CASE SDEndWrite
      BY <2>5, NbaFields DEF SDEndWrite, SDDone, Edge, WiresType, SDType
    <2>6. CASE SDTail
      BY <2>6 DEF SDTail, SDDone, Edge, WiresType, SDType
    <2> QED BY <1>3, <2>1, <2>2, <2>3, <2>4, <2>5, <2>6 DEF SDStep
  <1>9. sdpc' # "get" => rsp' \in Packet
    BY <1>3, <1>5 DEF SDStep, SDGet, SDWait, SDBeat, SDEndRead, SDEndWrite, SDTail, SDDone, sqr
  <1> QED BY <1>1, <1>2, <1>4, <1>8, <1>9 DEF HoldsPacket

\* Every step of the bus keeps every variable in its type.
LEMMA TypeNext == TypeInv /\ [Next]_vars => TypeInv'
  <1> SUFFICES ASSUME TypeInv, [Next]_vars PROVE TypeInv'
    OBVIOUS
  <1>1. CASE Posedge
    <2>1. AtClock \in SUBSET Procs
      BY DEF AtClock
    <2> QED BY <1>1, <2>1 DEF Posedge, sqr, md, mm, sm, sd, TypeInv, TypeOK, HoldsPacket,
              WiresType, SqrType, MDType, MMType, SMType, SDType, SSType
  <1>2. CASE UNCHANGED vars
    BY <1>2 DEF vars, wires, sqr, md, mm, sm, sd, TypeInv, TypeOK, HoldsPacket,
                WiresType, SqrType, MDType, MMType, SMType, SDType, SSType
  <1> QED BY <1>1, <1>2, TypeCommit, TypeMaster, TypeMasterMonitor, TypeSlaveMonitor,
             TypeSequence, TypeSlaveDriver DEF Next, Step, Silent

\* Every variable of the bus model holds a value of its type in every reachable
\* state, and a process inside a transfer holds a packet.
THEOREM TypeCorrect == Spec => [](TypeOK /\ HoldsPacket)
  <1>1. Spec => []TypeInv
    BY TypeInit, TypeNext, PTL DEF Spec
  <1> QED BY <1>1, PTL DEF TypeInv
=============================================================================
