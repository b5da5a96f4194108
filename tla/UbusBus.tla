------------------------------ MODULE UbusBus -------------------------------
(***************************************************************************)
(* The two agents on one bus: the processes of the master and slave        *)
(* drivers and monitors and of the slave sequence, run by the simulator.   *)
(***************************************************************************)
EXTENDS MasterDriver, MasterMonitor, SlaveMonitor, SlaveDriver, SlaveSequence

vars == <<wires, sqr, md, mm, sm, sd, m_mem>>

\* The processes blocked in @(posedge ubus_clock).
AtClock ==
  {p \in Procs : \/ p = "mdrv" /\ MDAtClock
                 \/ p = "sdrv" /\ SDAtClock
                 \/ p = "mmon" /\ MMAtClock
                 \/ p = "smon" /\ SMAtClock}

\* Nothing is left to run before the NBA region of the time slot.
ActiveDone ==
  /\ due = {}
  /\ ~MDRunnable /\ ~MMRunnable /\ ~SMRunnable /\ ~SSRunnable

\* The time slot is over: the bus holds what the next clock edge samples.
AtRest == ActiveDone /\ nba = NoNba /\ ~SDRunnable

Init == WiresInit /\ SqrInit /\ MDInit /\ MMInit /\ SMInit /\ SDInit /\ SSInit

\* The rising edge of ubus_clock.
Posedge ==
  /\ AtRest
  /\ due' = AtClock
  /\ UNCHANGED <<bus, nba, was, sqr, md, mm, sm, sd, m_mem>>

Commit == ActiveDone /\ CommitNba /\ UNCHANGED <<sqr, md, mm, sm, sd, m_mem>>

\* The test's sequences offer an item, now or at any later time.
Request ==
  /\ \E p \in Items : GetNextItem(p)
  /\ UNCHANGED <<sqr, mm, sm, sd, m_mem>>

MasterDrives    == MDStep /\ UNCHANGED <<sqr, mm, sm, sd, m_mem>>
MasterWatches   == MMStep /\ UNCHANGED <<sqr, md, sm, sd, m_mem>>
MasterPublishes == MMPublish /\ UNCHANGED <<sqr, md, sm, sd, m_mem>>
SlaveWatches    == SMStep /\ UNCHANGED <<md, mm, sd, m_mem>>
SlavePublishes  == SMPublish /\ UNCHANGED <<md, mm, sd, m_mem>>
SlaveServes     == Serve /\ UNCHANGED <<md, mm, sm, sd>>
SlaveDrives     == SDStep /\ UNCHANGED <<md, mm, sm, m_mem>>

\* What the simulator does by itself without anything leaving the agents.
Silent ==
  \/ Posedge
  \/ Commit
  \/ MasterDrives
  \/ MasterWatches
  \/ SlaveWatches
  \/ SlaveServes
  \/ SlaveDrives

Step == Silent \/ MasterPublishes \/ SlavePublishes

Next == Request \/ Step

\* The clock runs and the simulator runs what is runnable; nothing makes the
\* test offer another item.
Spec == Init /\ [][Next]_vars /\ WF_vars(Step)

-----------------------------------------------------------------------------
(* Properties *)

\* Every variable holds a value the code could store in it.
TypeOK ==
  /\ WiresType /\ SqrType /\ MDType /\ MMType /\ SMType /\ SDType /\ SSType

\* Whenever a clock edge finds ubus_wait low, both drivers are inside their
\* data loops for the same item and at the same byte, the address phase is
\* over, the byte of that index is on the bus and ubus_bip marks the last one
\* (master_driver 61-73 and 98-103 against slave_driver 51-55 and 76-77: the
\* two loops never exchange a beat count).
LockStep ==
  (AtRest /\ bus.wait = 0) =>
    /\ mdpc = "beat" /\ sdpc = "beat" /\ mdi = sdi
    /\ HdrOf(rsp) = HdrOf(tr)
    /\ bus.hdr = NoHdr
    /\ bus.data = IF tr.dir = "write" THEN tr.data[mdi - 1] ELSE rsp.data[mdi - 1]
    /\ bus.bip = IF mdi < tr.size THEN 1 ELSE 0

\* While the master is in its data loop the slave keeps ubus_wait low: no byte
\* is driven or sampled by the master in a clock the slave does not count.
NoBeatUncounted == (AtRest /\ mdpc = "beat") => bus.wait = 0

\* Whenever a clock edge shows a header, both monitors are back at the top of
\* their loops and the slave has nothing pending, so no transfer is missed
\* although nothing makes the master wait for them (the clock that opens
\* drive_transfer, master_driver 35, is all the time they have after a read).
NoRequestMissed ==
  (AtRest /\ bus.hdr # NoHdr) =>
    /\ mmpc = "idle" /\ smpc = "idle"
    /\ sdpc = "get" /\ rsp = NoItem /\ request_fifo = <<>>

\* The master and the slave never schedule values for the data bus in the
\* same round: dummy_dut copies the two data nets to each other, and whichever
\* copy ran first would win (dummy_dut 13-14).
NoContention == nba.mdata = Keep \/ nba.sdata = Keep

\* When both monitors are between transfers they have published the same
\* packet, wait count and bytes included.
MonitorsAgree == (AtRest /\ mmpc = "idle" /\ smpc = "idle") => mmreq = smreq

\* At most one request waits for the slave sequence, and none while the
\* response to the one before it is being driven.
OneOutstanding == rsp # NoItem => request_fifo = <<>>

\* Every item the master driver takes is completed.
ItemCompletes == (tr # NoItem) ~> (tr = NoItem)

\* Every address phase leads to a clock at which both monitors have published
\* and the slave is ready again.
TransferCompletes ==
  (bus.hdr # NoHdr) ~> (mmpc = "idle" /\ smpc = "idle" /\ sdpc = "get" /\ rsp = NoItem)

\* The wait cycles a monitor records are those the slave inserted: coverage
\* has bins for no wait and for one, two and three (ubus_coverage 38-39).
WaitRecorded ==
  (AtRest /\ mmpc = "beat" /\ sdpc = "beat") => mmreq.wait_state = rsp.wait_state

\* A read item returns to its sequence with the bytes the slave's memory holds
\* ("compare the value stored in memory after a write with the one read").
ReadReturns ==
  [][(mdpc # "get" /\ mdpc' = "get" /\ tr.dir = "read") =>
       \A i \in 0 .. tr.size - 1 : tr.data[i] = m_mem[tr.addr + i]]_vars
=============================================================================
