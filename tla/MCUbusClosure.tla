---------------------------- MODULE MCUbusClosure ---------------------------
(***************************************************************************)
(* Small instances of UbusClosure: one address of each region, and items   *)
(* whose bytes are all 0, since no property of it is about data.           *)
(***************************************************************************)
EXTENDS UbusClosureInvariant

MCItems ==
  {[addr |-> a, size |-> n, dir |-> d, wait_state |-> 0, data |-> [i \in Lane |-> 0]] :
     a \in Addr, n \in Sizes, d \in Dir}
=============================================================================
