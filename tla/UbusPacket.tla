----------------------------- MODULE UbusPacket -----------------------------
(***************************************************************************)
(* The sequence item of the UBUS verification IP (class packet) and the    *)
(* header that a transfer puts on the bus.  Data bytes are abstract: the   *)
(* code moves them and compares them, and never branches on their value.   *)
(***************************************************************************)
EXTENDS Naturals

CONSTANTS
  Addr,      \* start addresses, 0 .. 65535 in the code
  Sizes,     \* legal burst lengths, {1, 2, 4, 8} in the code
  MaxSize,   \* the longest burst, 8 in the code
  MaxWait,   \* most wait cycles slave_sequence draws, 3 in the code
  Byte,      \* values of a data byte; 0 is the reset value of a bit
  Fill,      \* values $urandom_range returns for a byte never written
  Z,         \* an undriven data bus
  NoHdr,     \* the address phase signals released (or never driven)
  NoItem     \* a handle that refers to no packet

Dir  == {"read", "write"}
Lane == 0 .. MaxSize - 1

Hdr == [addr : Addr, size : Sizes, dir : Dir]

\* A packet with its data array padded to MaxSize with the reset value.
Packet == [addr : Addr, size : Sizes, dir : Dir,
           data : [Lane -> Byte], wait_state : Nat]

ASSUME ConstantsAssumption ==
  /\ Addr \subseteq Nat
  /\ MaxSize \in Nat
  /\ Sizes \subseteq 1 .. MaxSize
  /\ MaxWait \in Nat
  /\ 0 \in Byte
  /\ Fill \subseteq Byte
  /\ Fill # {}
  /\ Z \notin Byte
  /\ NoHdr \notin Hdr
  /\ NoItem \notin Packet

\* The address, size and direction a driver puts on the bus for p, and the
\* ones a monitor samples.
HdrOf(p) == [addr |-> p.addr, size |-> p.size, dir |-> p.dir]

\* A packet created by a monitor for a sampled header: new[size] zeroes.
NewReq(h) == [addr |-> h.addr, size |-> h.size, dir |-> h.dir,
              data |-> [i \in Lane |-> 0], wait_state |-> 0]

\* Fault: data declared as logic keeps the z.
AsLogic(v) == v

\* A four-state sample stored in a two-state byte: z becomes 0.
AsBit(v) == IF v = Z THEN 0 ELSE v

\* The addresses a burst touches; the index is 32 bits wide, so a burst at
\* the top of the 16 bit range runs past it and does not wrap.
Burst(p) == {p.addr + i : i \in 0 .. p.size - 1}
MemAddr  == {a + i : a \in Addr, i \in Lane}
=============================================================================
