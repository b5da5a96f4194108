-------------------------- MODULE MCUbusBusTransfer --------------------------
(***************************************************************************)
(* Small instances of UbusBusTransfer, with the items of MCUbusBus.        *)
(***************************************************************************)
EXTENDS MCUbusBus, UbusBusTransfer, UbusBusProgress
=============================================================================
