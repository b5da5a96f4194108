----------------------------- MODULE MCUbusBus ------------------------------
(***************************************************************************)
(* Small instances of UbusBus.                                             *)
(***************************************************************************)
EXTENDS UbusBusInvariant

\* Byte i of a write is i + 1, so the position of a byte in its burst can be
\* read off its value; a read is sent with its data array at 0.
Item(a, n, d) ==
  [addr |-> a, size |-> n, dir |-> d, wait_state |-> 0,
   data |-> [i \in Lane |-> IF d = "write" /\ i < n THEN i + 1 ELSE 0]]

MCItems == {Item(a, n, d) : a \in Addr, n \in Sizes, d \in Dir}
=============================================================================
