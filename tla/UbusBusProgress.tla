--------------------------- MODULE UbusBusProgress ---------------------------
(***************************************************************************)
(* How far the bus is from the end of a time slot and from the end of an   *)
(* item: two measures of the state, and the properties that the agents'    *)
(* steps run them down.  No wait of the code has a timeout, so this is why *)
(* the simulation neither hangs in a slot nor waits for an item for ever.  *)
(***************************************************************************)
EXTENDS UbusBusData

\* The processes that have not taken their edge yet.
EdgesLeft == Coming("mdrv") + Coming("sdrv") + Coming("mmon") + Coming("smon")

\* The response the slave driver has not started yet.
ResponsesLeft == IF sdpc = "get" /\ rsp # NoItem THEN 1 ELSE 0

\* The waits that this slot may pass: of the master driver for ubus_wait and
\* for an item, and of the monitors for ubus_wait.
DriverWaits == CASE mdpc = "wait" -> 2 [] mdpc = "get" -> 1 [] OTHER -> 0
MonitorWaits == (IF mmpc = "wait0" THEN 1 ELSE 0) + (IF smpc = "wait0" THEN 1 ELSE 0)

\* The NBA region.
CommitsLeft == IF nba = NoNba THEN 0 ELSE 1

\* What is left to run in the current slot, weighted by what it may start: a
\* process that takes its edge may schedule signals, queue a request or come
\* to a wait; a request becomes a response, a response schedules signals.
SlotLeft ==
  6 * EdgesLeft + 3 * Len(request_fifo) + 2 * ResponsesLeft
    + DriverWaits + MonitorWaits + CommitsLeft

\* The clocks of wait cycles that the slave has still to insert, MaxWait of
\* them as long as they are not drawn.
WaitsLeft ==
  CASE rsp = NoItem      -> MaxWait
    [] SdPhase = "pend"  -> rsp.wait_state
    [] SdPhase = "wait"  -> rsp.wait_state + 1 - (sdi + Coming("sdrv"))
    [] OTHER             -> 0

\* The clocks of the data loop, and the one that follows a write.
Loop == tr.size + (IF tr.dir = "write" THEN 1 ELSE 0)

\* The clock edges that are left, at the end of the slot, until the item is
\* done, if the slave inserts all the wait cycles it may.
ClocksLeft ==
  CASE MdPhase = "free" -> IF mdpc = "addr" THEN 2 + MaxWait + Loop ELSE 0
    [] MdPhase = "ctrl" -> 1 + MaxWait + Loop
    [] MdPhase = "wait" -> WaitsLeft + Loop
    [] MdPhase = "beat" -> 1 + Loop - MdCount
    [] MdPhase = "tail" -> 1

-----------------------------------------------------------------------------
(* Properties *)

\* A new edge wakes processes.
ClockTicks == due' \ due # {}

\* No slot lasts for ever: between two edges every step, whatever process takes
\* it and whatever it starts in the same slot, leaves less to run (the forever
\* loops of the six run_phase and body tasks, each of which blocks at a clock,
\* at an empty fifo or sequencer, or at a level of ubus_wait).
SlotEnds == [][ClockTicks \/ (SlotLeft \in Nat /\ SlotLeft' < SlotLeft)]_vars

\* An item is done within its size and MaxWait clocks and three more: every
\* edge brings it one clock nearer to item_done and no step in between takes
\* it back (the max_wait that master_driver 8 declares against endless loops
\* is never used).
ClocksRunDown ==
  [][mdpc # "get" =>
       /\ ClocksLeft \in 0 .. tr.size + MaxWait + 3
       /\ IF ClockTicks THEN ClocksLeft' = ClocksLeft - 1 ELSE ClocksLeft' <= ClocksLeft]_vars

-----------------------------------------------------------------------------
(* What they need on top of InStep and DataInv *)

\* A response has as many wait cycles as could be drawn for it.
WaitsDrawn == rsp # NoItem => rsp.wait_state \in 0 .. MaxWait
=============================================================================
