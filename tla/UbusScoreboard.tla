--------------------------- MODULE UbusScoreboard ---------------------------
(***************************************************************************)
(* class ubus_scoreboard: the memory expected from the packets of the      *)
(* master monitor, checked against those of the slave monitor.             *)
(***************************************************************************)
EXTENDS UbusPacket

CONSTANT NotSeen   \* m_mem_expected.exists(a) is false

ASSUME NotSeenAssumption == NotSeen \notin Byte

VARIABLES
  expected,   \* m_mem_expected
  mismatch    \* the assertion has failed (uvm_error was called)

sb == <<expected, mismatch>>

SBInit == expected = [a \in MemAddr |-> NotSeen] /\ mismatch = FALSE

SBType ==
  /\ expected \in [MemAddr -> Byte \cup {NotSeen}]
  /\ mismatch \in BOOLEAN

\* A packet of the master monitor: only writes are remembered.
WriteMaster(trans) ==
  /\ expected' = [a \in MemAddr |-> IF trans.dir = "write" /\ a \in Burst(trans)
                                    THEN trans.data[a - trans.addr] ELSE expected[a]]
  /\ UNCHANGED mismatch

\* A packet of the slave monitor: a read is compared where something is
\* expected and remembered where nothing is.
WriteSlave(trans) ==
  IF trans.dir = "read"
    THEN /\ mismatch' = (mismatch \/ \E a \in Burst(trans) :
                           expected[a] \notin {NotSeen, trans.data[a - trans.addr]})
         /\ expected' = [a \in MemAddr |-> IF a \in Burst(trans) /\ expected[a] = NotSeen
                                           THEN trans.data[a - trans.addr] ELSE expected[a]]
    ELSE UNCHANGED sb
=============================================================================
