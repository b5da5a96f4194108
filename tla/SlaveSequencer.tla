--------------------------- MODULE SlaveSequencer ---------------------------
(***************************************************************************)
(* class slave_sequencer: what the slave monitor, the slave sequence and   *)
(* the slave driver share.  The monitor puts requests into request_fifo,   *)
(* the sequence takes them out and offers one response at a time, and the  *)
(* response stays offered until the driver calls item_done.                *)
(***************************************************************************)
EXTENDS UbusWires, Sequences

VARIABLES
  request_fifo,  \* requests published by the slave monitor, not yet taken
  rsp            \* the response in start_item .. item_done, else NoItem

sqr == <<request_fifo, rsp>>

SqrInit == request_fifo = <<>> /\ rsp = NoItem

SqrType ==
  /\ request_fifo \in Seq(Packet)
  /\ rsp \in Packet \cup {NoItem}
=============================================================================
