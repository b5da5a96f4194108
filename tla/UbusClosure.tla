----------------------------- MODULE UbusClosure ----------------------------
(***************************************************************************)
(* A simulation of ubus_virtual_sequence: the closure sequence on the      *)
(* master's sequencer, the agents on the bus, and the subscriber that      *)
(* hears the master monitor and that the sequence asks.  When the sequence *)
(* has returned, the virtual sequence lets DrainClocks edges pass, drops   *)
(* its objection and the run phase ends.                                   *)
(***************************************************************************)
EXTENDS UbusBus, ClosureSequence

CONSTANT DrainClocks   \* repeat (3) @(posedge ubus_clock)

ASSUME DrainAssumption == DrainClocks \in Nat \ {0, 1}

VARIABLES
  drain,  \* edges since the closure sequence returned
  hit     \* history: the combinations of the items that were completed

closureVars == <<vars, covered, cs, drain, hit>>

ClosureInit ==
  Init /\ CoverageInit /\ ClosureSequenceInit /\ drain = 0 /\ hit = {}

\* The combination of an item by the tables of the sequence.
Combination(p) ==
  <<CHOOSE i \in 0 .. 5 : p.addr \in AddrMaps[i],
    IF p.dir = "read" THEN 1 ELSE 0,
    CASE p.size = 1 -> 0 [] p.size = 2 -> 1 [] p.size = 4 -> 2 [] p.size = 8 -> 3>>

\* The loops of the sequence run as soon as it has the response, possibly
\* before other processes that the same edge woke.
Seek == Scan /\ UNCHANGED <<vars, covered, drain, hit>>

\* The driver's get_next_item returns the item of do_transaction.
Send ==
  /\ cspc = "grant" /\ cspc' = "sent"
  /\ \E p \in Items : Drawable(p) /\ GetNextItem(p)
  /\ UNCHANGED <<sqr, mm, sm, sd, m_mem, target, pos, max_attempts, all_covered>>
  /\ UNCHANGED <<covered, drain, hit>>

\* item_done(tr) answers the sequence's get_response.
Respond ==
  /\ ItemDone
  /\ cspc = "sent" /\ cspc' = "scan"
  /\ hit' = hit \cup {Combination(tr)}
  /\ UNCHANGED <<sqr, mm, sm, sd, m_mem, target, pos, max_attempts, all_covered>>
  /\ UNCHANGED <<covered, drain>>

\* The packet the master monitor publishes is recorded in the same call.
Cover ==
  /\ MasterPublishes /\ CoverageWrite(MMSampled)
  /\ UNCHANGED <<cs, drain, hit>>

\* Fault: the virtual sequence returns with the closure sequence.
ClockUndrained ==
  /\ Posedge
  /\ cspc \in {"sent", "ended"} /\ drain = 0
  /\ drain' = IF cspc = "ended" THEN DrainClocks ELSE 0
  /\ UNCHANGED <<covered, cs, hit>>

\* Time passes only when the sequence cannot go on by itself.
Clock ==
  /\ Posedge
  /\ cspc \in {"sent", "ended"} /\ drain < DrainClocks
  /\ drain' = IF cspc = "ended" THEN drain + 1 ELSE drain
  /\ UNCHANGED <<covered, cs, hit>>

\* The rest of the agents' steps.
Proceed ==
  /\ \/ Commit \/ MasterWatches
     \/ MasterDrives /\ mdpc' # "get"
     \/ SlaveWatches \/ SlavePublishes \/ SlaveServes \/ SlaveDrives
  /\ UNCHANGED <<covered, cs, drain, hit>>

ClosureNext == Seek \/ Send \/ Respond \/ Cover \/ Clock \/ Proceed

\* The simulator runs what is runnable until the phase ends.
ClosureSpec == ClosureInit /\ [][ClosureNext]_closureVars /\ WF_closureVars(ClosureNext)

-----------------------------------------------------------------------------
(* Properties *)

\* Every variable of the agents, the subscriber and the sequence holds a value
\* the code could store in it.
ClosureTypeOK ==
  /\ TypeOK /\ CoverageType /\ ClosureSequenceType
  /\ drain \in 0 .. DrainClocks /\ hit \subseteq Bins

\* The coverage the sequence asks for is behind what it has sent by at most
\* one item, the one the master monitor is still collecting, and ahead of it
\* by at most the item whose response is still to come (is_covered is read
\* after get_response, write is called by the monitor's process).
CoverageLag ==
  /\ hit \ covered # {} => mmpc # "idle" /\ hit \ covered = {Bin(mmreq)}
  /\ covered \ hit # {} => tr # NoItem /\ covered \ hit = {Bin(tr)}

\* The sequence asks for a combination again only while the master monitor is
\* still collecting an item of it: its passes look at covered anew after each
\* response (ubus_target_addr_dir_seqf 92-113).
AsksAgainForLastOnly ==
  [][(cspc = "scan" /\ cspc' = "grant" /\ target' \in hit) =>
       mmpc # "idle" /\ target' = Bin(mmreq)]_closureVars

\* If the sequence ends without its warning, every combination it targets was
\* really transferred.
ClosedMeansSent == (cspc = "ended" /\ all_covered) => Targets \subseteq hit

\* When the virtual sequence drops its objection nothing is under way: both
\* monitors have published the last transfer, it is recorded, and the slave
\* has finished its response.
EndDrained ==
  drain = DrainClocks =>
    /\ mmpc = "idle" /\ smpc = "idle" /\ covered = hit
    /\ tr = NoItem /\ rsp = NoItem /\ request_fifo = <<>>

\* The simulation ends: the sequence returns and the drain is over.
TestEnds == <>(drain = DrainClocks)

\* The sequence repeats no combination it has hit ("sequence that does not
\* repeat a hit region", README:97).
NoHitRepeated ==
  [][(cspc = "grant" /\ cspc' = "sent") => Combination(tr') \notin hit]_closureVars

\* The sequence asks only for combinations that were not transferred yet
\* ("check whether the bin is missing", ubus_target_addr_dir_seqf 102).
AskedBinMissing ==
  [][(cspc = "scan" /\ cspc' = "grant") => target' \notin hit]_closureVars
=============================================================================
