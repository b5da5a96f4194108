----------------------------- MODULE UbusBusData ----------------------------
(***************************************************************************)
(* What becomes of the bytes.  The agents of UbusBus are in step, but a    *)
(* monitor and the reading master sample a beat early or late, and the     *)
(* slave stores a write before it has arrived.  The properties say exactly *)
(* which bytes end up where; the invariants under them follow a byte from  *)
(* its driver over the bus to the process that samples it.                 *)
(***************************************************************************)
EXTENDS UbusBusInvariant

\* The bytes that cross the bus in a transfer of direction dir.
Moved(dir) == IF dir = "write" THEN tr.data ELSE rsp.data

\* The beats a monitor is behind the bus: one if it counted wait clocks.
Late(req) == IF req.wait_state = 0 THEN 0 ELSE 1

-----------------------------------------------------------------------------
(* Properties *)

\* What the edge after this state publishes: a monitor that counted wait clocks
\* publishes the bytes of the transfer from the second one on and, for the
\* last, the 0 of a released bus; one that did not, all bytes
\* (master_monitor 51-72, slave_monitor 73-90 by MonitorsAgree).
PublishedShifted ==
  (AtRest /\ mmpc = "beat" /\ mmi = mmreq.size - 1) =>
    \A k \in 0 .. mmreq.size - 1 :
      MMSampled.data[k] = IF k + Late(mmreq) < mmreq.size
                            THEN Moved(mmreq.dir)[k + Late(mmreq)] ELSE 0

\* Every transfer but the first of a simulation is one of those that a monitor
\* collects late: it finds ubus_wait high (master_monitor 51, slave_driver 58, 79).
LateFromSecond ==
  [][(mmpc = "idle" /\ mmpc' # "idle" /\ mmreq # NoItem) => mmpc' = "wait1"]_vars

\* The wait count a monitor publishes is one more than the wait cycles of the
\* response, or 0 in a transfer that found ubus_wait unknown: the clock at
\* which the first byte is on the bus is counted too (master_monitor 51-57).
CountedOneMore ==
  AtRest =>
    /\ (mmpc = "wait1" /\ bus.wait = 0) => mmreq.wait_state = rsp.wait_state
    /\ (mmpc = "beat" /\ sdpc = "beat") => mmreq.wait_state \in {0, rsp.wait_state + 1}

\* A read returns the bytes of the slave's memory one position too far: byte 0
\* twice and never the last one.  Without a wait cycle even the first may be
\* the 0 of a released bus (master_driver 96-102).
ReadLags ==
  (AtRest /\ mdpc = "beat" /\ tr.dir = "read") =>
    /\ \A k \in 1 .. mdi - 1 : tr.data[k] = m_mem[tr.addr + (k - 1)]
    /\ tr.data[0] \in {0, m_mem[tr.addr]}
    /\ rsp.wait_state > 0 => tr.data[0] = m_mem[tr.addr]

\* No byte of a write ever reaches the slave's memory: a cell that exists holds
\* the value drawn for it when it was first read, or the 0 of a request whose
\* bytes were still to come (slave_monitor 101, slave_sequence 48-58).
MemoryForgets == \A a \in MemAddr : m_mem[a] \in Fill \cup {0, Absent}

-----------------------------------------------------------------------------
(* The inductive invariant, on top of InStep *)

\* The master monitor at the end of the slot: program counter, packet, index.
MmEnd == AtSlotEnd(mmpc, mmreq, mmi, "mmon")

\* While the master monitor is in its data loop the bytes it is collecting are
\* still to be found: after the loop of the master in the item of a write, or
\* in the response to a read.
Source ==
  MmEnd[1] = "beat" =>
    /\ MdPhase = "tail" => tr.dir = "write" /\ HdrOf(MmEnd[2]) = HdrOf(tr)
    /\ MdPhase = "free" => /\ SdPhase = "tail"
                           /\ rsp.dir = "read" /\ HdrOf(MmEnd[2]) = HdrOf(rsp)

\* What the master monitor will have collected by the end of the slot.
Collected ==
  MmEnd[1] = "beat" =>
    \A k \in 0 .. MmEnd[3] - 1 :
      MmEnd[2].data[k] = Moved(MmEnd[2].dir)[k + Late(MmEnd[2])]

\* After a data loop the bus is released.
Released ==
  /\ mdpc = "tail" => tr.dir = "write" /\ NextData = Z
  /\ sdpc = "tail" => rsp.dir = "read" /\ NextData = Z

\* The slave counts its wait cycles, and the monitor one clock more.
WaitsCounted ==
  /\ sdpc = "wait" => sdi \in 1 .. rsp.wait_state
  /\ MmEnd[1] = "wait1" =>
       MmEnd[2].wait_state = CASE SdPhase = "wait" -> sdi + Coming("sdrv") - 1
                               [] SdPhase = "beat" -> rsp.wait_state
                               [] OTHER            -> 0
  /\ (MmEnd[1] = "beat" /\ SdPhase = "beat") =>
       MmEnd[2].wait_state \in {0, rsp.wait_state + 1}

\* ubus_wait is unknown only until the first transfer.
UnknownOnce == (mmreq # NoItem /\ mmpc # "wait0") => bus.wait # 2

\* The data bus before the first beat of a read: released by the master, and
\* with the first byte from the first wait cycle on.
BeforeFirstByte ==
  tr # NoItem /\ tr.dir = "read" =>
    /\ mdpc = "ctrl" => NextData = Z /\ ("mdrv" \in due => sdpc = "get")
    /\ mdpc = "wait" =>
         /\ sdpc = "get" => bus.data = Z /\ nba.sdata = Keep
         /\ sdpc = "wait" => NextData = rsp.data[0] /\ bus.data \in {Z, rsp.data[0]}
         /\ (sdpc = "wait" /\ "sdrv" \in due) => bus.data = rsp.data[0]
         /\ (sdpc = "beat" /\ bus.wait # 0) =>
              /\ bus.data \in {Z, rsp.data[0]}
              /\ rsp.wait_state > 0 => bus.data = rsp.data[0]
         /\ bus.wait = 0 =>
              /\ bus.data = rsp.data[0] /\ was \in {Z, rsp.data[0]}
              /\ rsp.wait_state > 0 => was = rsp.data[0]

\* What the master has sampled of a read.
Sampled ==
  (mdpc = "beat" /\ tr.dir = "read") =>
    /\ SdPhase \in {"beat", "tail"} /\ HdrOf(rsp) = HdrOf(tr)
    /\ "mdrv" \in due => bus.data = rsp.data[mdi - 1]
    /\ \A k \in 1 .. mdi - 1 : tr.data[k] = rsp.data[k - 1]
    /\ tr.data[0] \in {0, rsp.data[0]}
    /\ rsp.wait_state > 0 => tr.data[0] = rsp.data[0]

\* A request waits in the fifo with all its bytes still 0, and the response to
\* a read carries what the memory holds.
Served ==
  /\ request_fifo # <<>> => \A k \in Lane : Head(request_fifo).data[k] = 0
  /\ (rsp # NoItem /\ rsp.dir = "read") =>
       \A k \in 0 .. rsp.size - 1 : rsp.data[k] = m_mem[rsp.addr + k]
  /\ MemoryForgets

\* Where every byte of the transfer on the bus is: the strengthening of the
\* properties above (drive_transfer, the two responses, the monitors' loops).
DataInv ==
  /\ Source /\ Collected
  /\ Released /\ WaitsCounted /\ UnknownOnce
  /\ BeforeFirstByte /\ Sampled /\ Served
=============================================================================
