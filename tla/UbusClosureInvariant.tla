------------------------ MODULE UbusClosureInvariant ------------------------
(***************************************************************************)
(* The inductive invariant of UbusClosure, on top of the one of UbusBus:   *)
(* how far the coverage is behind the items in each phase of the master    *)
(* driver, and what each clock of the drain has finished.                  *)
(***************************************************************************)
EXTENDS UbusClosure, UbusBusInvariant

\* The sequence waits for a response exactly while the driver has its item,
\* and no item falls into the combination that is ignored.
Handshake ==
  /\ cspc = "sent" <=> mdpc # "get"
  /\ mdpc = "get" => tr = NoItem
  /\ mdpc # "get" => ~Ignored(Bin(tr))
  /\ \A b \in hit : ~Ignored(b)

\* The master monitor is still on the item before the one the driver has.
HeldFromLast ==
  mmpc # "idle" /\ (mdpc \in {"get", "addr"} \/ (mdpc = "ctrl" /\ "mdrv" \notin due))

\* What is recorded of the completed items: all but the one still held, and
\* the current one as soon as the monitor has published it.
Recorded ==
  /\ HeldFromLast =>
       covered \subseteq hit /\ hit \subseteq covered \cup {Bin(mmreq)} /\ Bin(mmreq) \in hit
  /\ (mmpc # "idle" /\ ~HeldFromLast) => covered = hit /\ HdrOf(mmreq) = HdrOf(tr)
  /\ (mmpc = "idle" /\ mdpc \in {"beat", "tail"}) => covered = hit \cup {Bin(tr)}
  /\ (mmpc = "idle" /\ mdpc \notin {"beat", "tail"}) => covered = hit

\* The edge that follows the end of the sequence is the last one that the
\* monitors and the slave driver need; the next one finds them free.
Drained ==
  /\ drain > 0 => cspc = "ended"
  /\ drain > 0 => /\ ~Busy(mmpc, mmreq, mmi, "mmon") /\ ~Busy(smpc, smreq, smi, "smon")
                  /\ SdPhase = "free"
  /\ drain > 1 => mmpc = "idle" /\ smpc = "idle" /\ rsp = NoItem

\* When the sequence ends without its warning everything it targets is recorded.
Claimed == (cspc = "ended" /\ all_covered) => Targets \subseteq covered

\* Handshake, Recorded, Drained and Claimed hold together in every reachable
\* state: the strengthening of CoverageLag, ClosedMeansSent and EndDrained.
ClosureInv == Handshake /\ Recorded /\ Drained /\ Claimed
=============================================================================
