----------------------------- MODULE MCUbusEnv ------------------------------
(***************************************************************************)
(* Small instances of UbusEnv: the items of MCUbusBus, with two addresses  *)
(* so that bursts overlap.                                                 *)
(***************************************************************************)
EXTENDS MCUbusBus, UbusEnv
=============================================================================
