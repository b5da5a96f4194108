--------------------------- MODULE MasterMonitor ----------------------------
(***************************************************************************)
(* class master_monitor: detects a header, waits for the slave, samples    *)
(* one byte per clock and publishes the packet on item_collected_port.     *)
(* mmpc names the statement it is blocked at: "idle" the clock of the      *)
(* forever loop, "wait1" the clock inside while (ubus_wait == 1), "wait0"  *)
(* wait (ubus_wait == 0), "beat" the clock inside the data loop.           *)
(***************************************************************************)
EXTENDS UbusWires

VARIABLES
  mmpc,
  mmreq,  \* req; its wait_state holds wait_count while the monitor waits
  mmi     \* the loop index i of the next byte

mm == <<mmpc, mmreq, mmi>>

MMInit == mmpc = "idle" /\ mmreq = NoItem /\ mmi = 0

MMType ==
  /\ mmpc \in {"idle", "wait1", "wait0", "beat"}
  /\ mmreq \in Packet \cup {NoItem}
  /\ mmi \in 0 .. MaxSize

\* Fault: wait_count is not reset.
MMAcceptNoReset ==
  /\ mmreq' = [NewReq(bus.hdr) EXCEPT !.wait_state = IF mmreq = NoItem THEN 0 ELSE mmreq.wait_state]
  /\ mmpc' = AfterWhile
  /\ mmi' = 0

\* ubus_read or ubus_write is 1: a new req with the sampled header.
MMAccept ==
  /\ mmreq' = NewReq(bus.hdr)
  /\ mmpc' = AfterWhile
  /\ mmi' = 0

\* Fault: the test of ubus_read can be passed over.
MMIdleMissesRead ==
  /\ mmpc = "idle" /\ bus.hdr \notin {h \in Hdr : h.dir = "write"} /\ Edge("mmon")
  /\ UNCHANGED <<mm, bus, nba, was>>

MMIdle ==
  /\ mmpc = "idle" /\ bus.hdr = NoHdr /\ Edge("mmon")
  /\ UNCHANGED <<mm, bus, nba, was>>

MMDetect ==
  /\ mmpc = "idle" /\ bus.hdr # NoHdr /\ Edge("mmon")
  /\ MMAccept
  /\ UNCHANGED <<bus, nba, was>>

\* Fault: the clocks of the wait are not counted.
MMWaitUncounted ==
  /\ mmpc = "wait1" /\ Edge("mmon")
  /\ mmpc' = AfterWhile
  /\ UNCHANGED <<mmreq, mmi, bus, nba, was>>

MMWait ==
  /\ mmpc = "wait1" /\ Edge("mmon")
  /\ mmreq' = [mmreq EXCEPT !.wait_state = @ + 1]
  /\ mmpc' = AfterWhile
  /\ UNCHANGED <<mmi, bus, nba, was>>

\* wait (ubus_wait == 0) returns.
MMLeaveWait ==
  /\ mmpc = "wait0" /\ bus.wait = 0
  /\ mmpc' = "beat"
  /\ UNCHANGED <<mmreq, mmi, wires>>

MMSampled == [mmreq EXCEPT !.data[mmi] = AsBit(bus.data)]

MMBeat ==
  /\ mmpc = "beat" /\ mmi < mmreq.size - 1 /\ Edge("mmon")
  /\ mmreq' = MMSampled
  /\ mmi' = mmi + 1
  /\ UNCHANGED <<mmpc, bus, nba, was>>

\* The last byte: item_collected_port.write(MMSampled).  The read branch runs
\* on into the test of ubus_write at the same clock edge.
MMPublish ==
  /\ mmpc = "beat" /\ mmi = mmreq.size - 1 /\ Edge("mmon")
  /\ IF mmreq.dir = "read" /\ bus.hdr # NoHdr /\ bus.hdr.dir = "write"
       THEN MMAccept
       ELSE mmreq' = MMSampled /\ mmpc' = "idle" /\ mmi' = 0
  /\ UNCHANGED <<bus, nba, was>>

MMAtClock == mmpc \in {"idle", "wait1", "beat"}

MMRunnable == mmpc = "wait0" /\ bus.wait = 0

\* Every step but the one that publishes.
MMStep ==
  \/ MMIdle
  \/ MMDetect
  \/ MMWait
  \/ MMLeaveWait
  \/ MMBeat
=============================================================================
