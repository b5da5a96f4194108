----------------------------- MODULE UbusWires ------------------------------
(***************************************************************************)
(* The two bus interfaces joined by dummy_dut, and the simulator's time    *)
(* slot.  dummy_dut copies every signal between m_vif and s_vif in zero    *)
(* time, so one record stands for both interfaces.                         *)
(*                                                                         *)
(* A time slot begins with a rising clock edge: the processes blocked in   *)
(* @(posedge ubus_clock) become due and run one by one, in any order, all  *)
(* of them sampling the bus as it was before the edge.  What they drive    *)
(* with <= is only scheduled; Commit makes it visible once nothing is left *)
(* to run.  A process woken by a signal or by the sequencer runs in the    *)
(* same slot after that and may schedule a further round.                  *)
(***************************************************************************)
EXTENDS UbusPacket

CONSTANT Keep   \* no assignment to this signal is scheduled

ASSUME KeepAssumption ==
  /\ Keep \notin Byte \cup {Z, 0, 1}
  /\ Keep \notin Hdr \cup {NoHdr}

VARIABLES
  bus,   \* the signals: hdr, wait, data, bip
  nba,   \* the assignments scheduled, one field per driver and signal
  due,   \* processes woken by the current edge that have not run yet
  was    \* the data bus before the last Commit

wires == <<bus, nba, due, was>>

Procs == {"mdrv", "sdrv", "mmon", "smon"}

NoNba == [hdr |-> Keep, wait |-> Keep, bip |-> Keep, mdata |-> Keep, sdata |-> Keep]

\* Nothing drives the interfaces at time 0: ubus_wait and ubus_bip are x (2),
\* read and write are x, which an if takes for false just as z.
WiresInit ==
  /\ bus = [hdr |-> NoHdr, wait |-> 2, data |-> Z, bip |-> 2]
  /\ nba = NoNba
  /\ due = {}
  /\ was = Z

WiresType ==
  /\ bus \in [hdr : Hdr \cup {NoHdr}, wait : 0 .. 2, data : Byte \cup {Z}, bip : 0 .. 2]
  /\ nba \in [hdr   : Hdr \cup {NoHdr, Keep}, wait : {0, 1, Keep}, bip : {0, 1, Keep},
              mdata : Byte \cup {Z, Keep}, sdata : Byte \cup {Z, Keep}]
  /\ due \in SUBSET Procs
  /\ was \in Byte \cup {Z}

\* Process p resumes from @(posedge ubus_clock).
Edge(p) == p \in due /\ due' = due \ {p}

\* Where a monitor is blocked after testing while (ubus_wait == 1): an unknown
\* ubus_wait leaves the loop but does not pass the wait (ubus_wait == 0) after it.
AfterWhile == CASE bus.wait = 1 -> "wait1"
                [] bus.wait = 0 -> "beat"
                [] OTHER        -> "wait0"

Updated(old, new) == IF new = Keep THEN old ELSE new

\* The two data nets are assigned from each other, so a change of either one
\* reaches both; if both change in one round either value may survive.
Settled(old, m, s) ==
  IF {m, s} \subseteq {Keep, old} THEN {old} ELSE {m, s} \ {Keep, old}

\* The NBA region: every scheduled assignment takes effect at once.
CommitNba ==
  /\ nba # NoNba
  /\ \E d \in Settled(bus.data, nba.mdata, nba.sdata) :
       bus' = [hdr  |-> Updated(bus.hdr, nba.hdr),
               wait |-> Updated(bus.wait, nba.wait),
               data |-> d,
               bip  |-> Updated(bus.bip, nba.bip)]
  /\ nba' = NoNba
  /\ was' = bus.data
  /\ UNCHANGED due
=============================================================================
