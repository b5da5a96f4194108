---------------------------- MODULE SlaveDriver -----------------------------
(***************************************************************************)
(* class slave_driver: answers a request with rsp.wait_state clocks of     *)
(* ubus_wait high and then one clock of ubus_wait low per byte.  sdpc      *)
(* names the statement the driver is blocked at: "get" get_next_item,      *)
(* "wait" the clock of a wait cycle, "beat" the clock of a beat, "tail"    *)
(* the clock after a read response.                                        *)
(***************************************************************************)
EXTENDS SlaveSequencer

VARIABLES
  sdpc,
  sdi    \* wait cycles, then beats, that have been started

sd == <<sdpc, sdi>>

SDInit == sdpc = "get" /\ sdi = 0

SDType ==
  /\ sdpc \in {"get", "wait", "beat", "tail"}
  /\ sdi \in Nat

\* Fault: the wait cycles are not counted.
WaitCycleUncounted(i) ==
  /\ nba' = [nba EXCEPT !.wait = 1,
                        !.sdata = IF rsp.dir = "read" THEN rsp.data[0] ELSE @]
  /\ sdpc' = "wait"
  /\ sdi' = i

\* A read shows its first byte during the wait cycles already.
WaitCycle(i) ==
  /\ nba' = [nba EXCEPT !.wait = 1,
                        !.sdata = IF rsp.dir = "read" THEN rsp.data[0] ELSE @]
  /\ sdpc' = "wait"
  /\ sdi' = i + 1

\* Fault: a write response does not lower ubus_wait.
BeatNotReady(i) ==
  /\ nba' = IF rsp.dir = "read"
              THEN [nba EXCEPT !.wait = 0, !.sdata = rsp.data[i]]
              ELSE nba
  /\ sdpc' = "beat"
  /\ sdi' = i + 1

Beat(i) ==
  /\ nba' = IF rsp.dir = "read"
              THEN [nba EXCEPT !.wait = 0, !.sdata = rsp.data[i]]
              ELSE [nba EXCEPT !.wait = IF i = 0 THEN 0 ELSE @]
  /\ sdpc' = "beat"
  /\ sdi' = i + 1

\* get_next_item returns rsp once an NBA region has passed, in the time slot
\* in which the request was seen.
SDGet ==
  /\ sdpc = "get" /\ rsp # NoItem /\ due = {} /\ nba = NoNba
  /\ IF rsp.wait_state > 0 THEN WaitCycle(0) ELSE Beat(0)
  /\ UNCHANGED <<sqr, bus, due, was>>

\* Fault: the loop of the wait cycles has no clock.
SDWaitUnclocked ==
  /\ sdpc = "wait"
  /\ IF sdi < rsp.wait_state THEN WaitCycle(sdi) ELSE Beat(0)
  /\ due' = due \ {"sdrv"}
  /\ UNCHANGED <<sqr, bus, was>>

SDWait ==
  /\ sdpc = "wait" /\ Edge("sdrv")
  /\ IF sdi < rsp.wait_state THEN WaitCycle(sdi) ELSE Beat(0)
  /\ UNCHANGED <<sqr, bus, was>>

SDBeat ==
  /\ sdpc = "beat" /\ sdi < rsp.size /\ Edge("sdrv")
  /\ Beat(sdi)
  /\ UNCHANGED <<sqr, bus, was>>

\* A read response releases the data bus and stays for one more clock.
SDEndRead ==
  /\ sdpc = "beat" /\ sdi = rsp.size /\ rsp.dir = "read" /\ Edge("sdrv")
  /\ nba' = [nba EXCEPT !.wait = 1, !.sdata = Z]
  /\ sdpc' = "tail"
  /\ UNCHANGED <<sdi, sqr, bus, was>>

\* item_done: the sequence's finish_item returns.
SDDone ==
  /\ sdpc' = "get"
  /\ sdi' = 0
  /\ rsp' = NoItem
  /\ UNCHANGED <<request_fifo, bus, was>>

SDEndWrite ==
  /\ sdpc = "beat" /\ sdi = rsp.size /\ rsp.dir = "write" /\ Edge("sdrv")
  /\ nba' = [nba EXCEPT !.wait = 1]
  /\ SDDone

SDTail ==
  /\ sdpc = "tail" /\ Edge("sdrv")
  /\ SDDone
  /\ UNCHANGED nba

SDAtClock == sdpc \in {"wait", "beat", "tail"}

\* The driver can go on without a clock, once the NBA region is empty.
SDRunnable == sdpc = "get" /\ rsp # NoItem

SDStep ==
  \/ SDGet
  \/ SDWait
  \/ SDBeat
  \/ SDEndRead
  \/ SDEndWrite
  \/ SDTail
=============================================================================
