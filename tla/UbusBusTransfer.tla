--------------------------- MODULE UbusBusTransfer ---------------------------
(***************************************************************************)
(* The agents of UbusBus implement UbusTransfer.                           *)
(*                                                                         *)
(* The address phase lasts while the header is visible; the beats are      *)
(* those of the master's loop, seen at the end of the slot as in           *)
(* UbusBusInvariant; a monitor owes a packet from the header on until it   *)
(* is back at the top of its loop.  When the master has finished, the      *)
(* header of the transfer lives on only in the monitors' packets.          *)
(***************************************************************************)
EXTENDS UbusBusInvariant

Stage ==
  CASE bus.hdr # NoHdr   -> "address"
    [] bus.hdr = NoHdr /\ mdpc = "wait" -> "pending"
    [] bus.hdr = NoHdr /\ mdpc # "wait" /\ MdPhase = "beat" -> "data"
    [] OTHER             -> "free"

\* The header is on the bus or waits for its answer: no monitor is done.
Announced == bus.hdr # NoHdr \/ mdpc = "wait"

Unpublished ==
  {m \in {"master", "slave"} :
     \/ Announced
     \/ m = "master" /\ mmpc # "idle"
     \/ m = "slave"  /\ smpc # "idle"}

Current ==
  CASE Stage = "address" -> bus.hdr
    [] Stage \in {"pending", "data"} -> HdrOf(tr)
    [] Stage = "free" /\ mmpc # "idle" -> HdrOf(mmreq)
    [] Stage = "free" /\ mmpc = "idle" /\ smpc # "idle" -> HdrOf(smreq)
    [] OTHER -> NoHdr

\* The beat of the master's loop, 0 outside of it.
BeatNumber == IF Stage = "data" THEN MdCount ELSE 0

Abs == INSTANCE UbusTransfer WITH
  Header      <- Hdr,
  NoHeader    <- NoHdr,
  stage       <- Stage,
  current     <- Current,
  beat        <- BeatNumber,
  unpublished <- Unpublished

\* The clock that ends the address phase finds the header on the bus.
HeaderShown == (mdpc = "ctrl" /\ "mdrv" \in due) => bus.hdr # NoHdr

\* The agents do one transfer at a time: every header shown on the bus is
\* followed by exactly its number of beats and by one packet with that header
\* from each monitor, before the next header appears (master_driver 33-108 and
\* both monitors' run_phase, which know of each other only by the signals).
ImplementsTransfer == Abs!TransferSafety

\* No transfer gets stuck in any of its phases, and no monitor keeps the
\* packet of a finished one.
TransferProgress == Abs!TransferLiveness
=============================================================================
