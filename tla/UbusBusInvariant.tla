-------------------------- MODULE UbusBusInvariant --------------------------
(***************************************************************************)
(* Why the agents stay in step although they exchange no beat count: an    *)
(* inductive invariant of UbusBus.                                         *)
(*                                                                         *)
(* Within a time slot some processes have taken their clock edge and       *)
(* others have not, so the program counters alone are not related.  The    *)
(* invariant relates where each process will be once the slot is over:     *)
(* a process that is still due is looked at one statement further on.      *)
(* An edge taken by one process then changes none of these phases, and     *)
(* Posedge advances all of them together.                                  *)
(***************************************************************************)
EXTENDS UbusBus

\* What the current slot still adds to the loop counter of process p.
Coming(p) == IF p \in due THEN 1 ELSE 0

\* The loop counters of the drivers at the end of the slot.
MdCount == mdi + Coming("mdrv")
SdCount == IF sdpc = "wait" THEN 1 ELSE sdi + Coming("sdrv")

\* The master driver at the end of the slot.
MdPhase ==
  CASE mdpc = "get"  -> "free"
    [] mdpc = "addr" -> IF "mdrv" \in due THEN "ctrl" ELSE "free"
    [] mdpc = "ctrl" -> IF "mdrv" \in due THEN "wait" ELSE "ctrl"
    [] mdpc = "wait" -> "wait"
    [] mdpc = "beat" -> IF MdCount <= tr.size THEN "beat"
                        ELSE IF tr.dir = "write" THEN "tail" ELSE "free"
    [] mdpc = "tail" -> IF "mdrv" \in due THEN "free" ELSE "tail"

\* The slave driver at the end of the slot.
SdPhase ==
  CASE sdpc = "get"  -> IF rsp = NoItem THEN "free" ELSE "pend"
    [] sdpc = "wait" -> IF "sdrv" \in due /\ sdi >= rsp.wait_state THEN "beat" ELSE "wait"
    [] sdpc = "beat" -> IF SdCount <= rsp.size THEN "beat"
                        ELSE IF rsp.dir = "read" THEN "tail" ELSE "free"
    [] sdpc = "tail" -> IF "sdrv" \in due THEN "free" ELSE "tail"

\* A monitor p, with program counter pc, packet req and index i, that is about
\* to detect a header; that is inside a transfer at the end of the slot; and
\* the beats it has let pass by then.  A monitor that counted wait clocks is
\* one beat behind the bus.
Detecting(pc, p) == pc = "idle" /\ p \in due /\ bus.hdr # NoHdr
Busy(pc, req, i, p) == pc # "idle" /\ ~(pc = "beat" /\ i + Coming(p) = req.size)
Seen(pc, req, i, p) ==
  CASE pc = "wait1" -> IF p \in due /\ bus.wait = 0 THEN 1 ELSE 0
    [] pc = "beat"  -> i + Coming(p) + (IF req.wait_state = 0 THEN 0 ELSE 1)
    [] OTHER        -> 0

-----------------------------------------------------------------------------
(* Single processes *)

\* Only processes blocked at the clock are due; the counters of the loops are
\* inside the loops.
Counters ==
  /\ due \subseteq AtClock
  /\ mdpc = "beat" => mdi \in 1 .. tr.size
  /\ sdpc = "beat" => sdi \in 1 .. rsp.size

\* The index of a monitor is inside its loop, and it waits only where
\* ubus_wait can have sent it.
MonitorOK(pc, req, i) ==
  /\ pc \in {"wait1", "wait0"} => i = 0
  /\ pc = "beat" => i \in 0 .. req.size - 1
  /\ pc = "wait1" => bus.wait # 2
  /\ pc = "wait0" => req.wait_state = 0

-----------------------------------------------------------------------------
(* Signals: what is on the bus once the scheduled assignments are made *)

\* The data bus after the next NBA region, when only one driver schedules.
NextData == IF nba.mdata # Keep THEN nba.mdata
            ELSE IF nba.sdata # Keep THEN nba.sdata ELSE bus.data

\* ubus_wait is low exactly in the slave's data loop, the header is visible
\* exactly in the address phase, and each loop shows its byte and ubus_bip.
Signals ==
  /\ (Updated(bus.wait, nba.wait) = 0) <=> (sdpc = "beat")
  /\ Updated(bus.hdr, nba.hdr) = IF mdpc = "ctrl" THEN HdrOf(tr) ELSE NoHdr
  /\ mdpc = "beat" => Updated(bus.bip, nba.bip) = Bip(mdi - 1)
  /\ (mdpc = "beat" /\ tr.dir = "write") => NextData = tr.data[mdi - 1]
  /\ (sdpc = "beat" /\ rsp.dir = "read") => NextData = rsp.data[sdi - 1]

\* Who may have scheduled a value for the data bus.
DataDrivers ==
  /\ nba.mdata # Keep =>
       /\ "mdrv" \notin due
       /\ mdpc = "ctrl" \/ (mdpc \in {"wait", "beat", "tail"} /\ tr.dir = "write")
  /\ nba.sdata # Keep => sdpc # "get" /\ SdPhase # "free" /\ rsp.dir = "read"
  /\ NoContention

\* While a header is visible the master driver is in its address phase and
\* ubus_wait is not low.
HeaderVisible ==
  bus.hdr # NoHdr =>
    /\ bus.hdr = HdrOf(tr) /\ bus.wait # 0
    /\ \/ mdpc = "ctrl" /\ nba.hdr = Keep /\ (due # {} => "mdrv" \in due)
       \/ mdpc = "wait" /\ nba.hdr = NoHdr

\* While ubus_wait is low the master driver is past its wait, or just woken.
WaitLow ==
  bus.wait = 0 =>
    /\ MdPhase # "ctrl"
    /\ MdPhase = "wait" => mdpc = "wait" /\ due = {} /\ sdpc = "beat"

-----------------------------------------------------------------------------
(* The agents against each other *)

\* The slave side, for each phase of the master: free before a header, one
\* request or response for the header on its way, and in the data loop exactly
\* when the master is, at the same beat.
SlaveInStep ==
  /\ request_fifo # <<>> => "smon" \notin due
  /\ MdPhase \in {"ctrl", "tail"} => request_fifo = <<>> /\ SdPhase = "free"
  /\ MdPhase = "free" => request_fifo = <<>> /\ SdPhase \in {"free", "tail"}
  /\ MdPhase = "beat" =>
       /\ request_fifo = <<>> /\ HdrOf(rsp) = HdrOf(tr)
       /\ SdPhase = "beat" /\ SdCount = MdCount
  /\ MdPhase = "wait" =>
       \/ /\ Detecting(smpc, "smon")
          /\ request_fifo = <<>> /\ sdpc = "get" /\ rsp = NoItem
       \/ /\ ~Detecting(smpc, "smon")
          /\ Len(request_fifo) = 1 /\ HdrOf(Head(request_fifo)) = HdrOf(tr)
          /\ sdpc = "get" /\ rsp = NoItem
       \/ /\ ~Detecting(smpc, "smon")
          /\ request_fifo = <<>> /\ rsp # NoItem /\ HdrOf(rsp) = HdrOf(tr)
          /\ SdPhase \in {"pend", "wait"} \/ (SdPhase = "beat" /\ SdCount = 1)

\* A monitor, for each phase of the master: idle when a header appears, inside
\* the transfer while it runs, as many beats behind as its wait cost it, and
\* done when the next header can appear.
MonitorInStep(pc, req, i, p) ==
  /\ MdPhase = "ctrl" => ~Detecting(pc, p) /\ ~Busy(pc, req, i, p)
  /\ MdPhase \in {"free", "tail"} =>
       /\ ~Detecting(pc, p)
       /\ Busy(pc, req, i, p) => Seen(pc, req, i, p) = req.size
  /\ MdPhase = "wait" =>
       \/ Detecting(pc, p)
       \/ /\ Busy(pc, req, i, p) /\ Seen(pc, req, i, p) = 0
          /\ HdrOf(req) = HdrOf(tr)
          /\ pc = "beat" => SdPhase = "beat"
  /\ MdPhase = "beat" =>
       /\ Busy(pc, req, i, p) /\ Seen(pc, req, i, p) + 1 = MdCount
       /\ HdrOf(req) = HdrOf(tr)

\* The agents are in step: the inductive invariant of UbusBus.  No beat count
\* is exchanged between master_driver 61-103, slave_driver 40-83 and the
\* monitors; they agree because each takes one beat per clock from the same
\* edge on.
InStep ==
  /\ Counters
  /\ MonitorOK(mmpc, mmreq, mmi) /\ MonitorOK(smpc, smreq, smi)
  /\ Signals /\ DataDrivers /\ HeaderVisible /\ WaitLow
  /\ SlaveInStep
  /\ MonitorInStep(mmpc, mmreq, mmi, "mmon")
  /\ MonitorInStep(smpc, smreq, smi, "smon")

\* A monitor p as it will be once the slot is over: program counter, packet
\* and index.
AtSlotEnd(pc, req, i, p) ==
  CASE p \in due /\ pc = "idle" /\ bus.hdr # NoHdr ->
         <<AfterWhile, NewReq(bus.hdr), 0>>
    [] p \in due /\ pc = "wait1" ->
         <<AfterWhile, [req EXCEPT !.wait_state = @ + 1], i>>
    [] p \in due /\ pc = "beat" ->
         IF i < req.size - 1
           THEN <<"beat", [req EXCEPT !.data[i] = AsBit(bus.data)], i + 1>>
           ELSE <<"idle", [req EXCEPT !.data[i] = AsBit(bus.data)], 0>>
    [] p \notin due /\ pc = "wait0" /\ bus.wait = 0 -> <<"beat", req, i>>
    [] OTHER -> <<pc, req, i>>

\* The two monitors do not know of each other and end every slot alike.
Mirror == AtSlotEnd(mmpc, mmreq, mmi, "mmon") = AtSlotEnd(smpc, smreq, smi, "smon")

\* A process that is inside a transfer holds a packet.
HoldsPacket ==
  /\ mdpc # "get" => tr \in Packet
  /\ mmpc # "idle" => mmreq \in Packet
  /\ smpc # "idle" => smreq \in Packet
  /\ sdpc # "get" => rsp \in Packet
=============================================================================
