------------------------------- MODULE UbusEnv ------------------------------
(***************************************************************************)
(* class my3_vip_environment: the agents on the bus with the scoreboard    *)
(* connected to the item_collected_port of each monitor.                   *)
(***************************************************************************)
EXTENDS UbusBus, UbusScoreboard

envVars == <<vars, sb>>

EnvInit == Init /\ SBInit

\* The packet the master monitor publishes reaches write_master in the same
\* call, before the monitor goes on; likewise on the slave side.
ScoreMaster == MasterPublishes /\ WriteMaster(MMSampled)
ScoreSlave == SlavePublishes /\ WriteSlave(SMSampled)

EnvStep == (Silent /\ UNCHANGED sb) \/ ScoreMaster \/ ScoreSlave
EnvNext == (Request /\ UNCHANGED sb) \/ EnvStep

EnvSpec == EnvInit /\ [][EnvNext]_envVars /\ WF_envVars(EnvStep)

-----------------------------------------------------------------------------
(* Properties *)

\* Every variable of the agents and of the scoreboard holds a value the code
\* could store in it.
EnvTypeOK == TypeOK /\ SBType

\* Both handles refer to packets of one transfer.
SameTransfer(p, q) == p # NoItem /\ q # NoItem /\ HdrOf(p) = HdrOf(q)

\* The scoreboard keeps no order of its own: it is right to compare a read
\* with everything the master monitor has written so far only if the two
\* monitors are always on the same transfer when one of them publishes
\* (write_master and write_slave, called from two processes in either order).
ScoredTogether ==
  [][(expected' # expected \/ mismatch' # mismatch) =>
       SameTransfer(mmreq', smreq')]_envVars

\* The assertion of write_slave never fails: "m_mem_expected[addr] == data".
NoMismatch == ~mismatch

\* When the slave monitor has published a write, the slave's memory holds the
\* bytes that the master monitor saw written.
WriteReachesMemory ==
  (AtRest /\ mmpc = "idle" /\ smpc = "idle" /\ smreq # NoItem /\ smreq.dir = "write") =>
    \A a \in Burst(smreq) : m_mem[a] = expected[a]
=============================================================================
