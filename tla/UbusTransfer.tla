---------------------------- MODULE UbusTransfer ----------------------------
(***************************************************************************)
(* What the agents promise together, without clocks, time slots or         *)
(* processes: one transfer at a time goes through an address phase, the    *)
(* wait for the slave and as many beats as its size says; after the last   *)
(* beat each of the two monitors publishes it once, and no other address   *)
(* is shown before both have.                                              *)
(***************************************************************************)
EXTENDS Naturals

CONSTANTS
  Header,   \* records with a field size
  NoHeader

VARIABLES
  stage,        \* "free", "address", "pending" or "data"
  current,      \* the header of the transfer that is not finished
  beat,         \* the beat that is on the bus, counted from 1
  unpublished   \* the monitors that owe a packet

transferVars == <<stage, current, beat, unpublished>>

Monitors == {"master", "slave"}

TransferInit ==
  stage = "free" /\ current = NoHeader /\ beat = 0 /\ unpublished = {}

\* A header appears on the bus.
Begin(h) ==
  /\ stage = "free" /\ unpublished = {}
  /\ stage' = "address"
  /\ current' = h
  /\ unpublished' = Monitors
  /\ UNCHANGED beat

\* The header is taken off the bus.
Pend ==
  /\ stage = "address"
  /\ stage' = "pending"
  /\ UNCHANGED <<current, beat, unpublished>>

\* The slave is ready: the first beat.
Answer ==
  /\ stage = "pending"
  /\ stage' = "data"
  /\ beat' = 1
  /\ UNCHANGED <<current, unpublished>>

NextByte ==
  /\ stage = "data" /\ beat < current.size
  /\ beat' = beat + 1
  /\ UNCHANGED <<stage, current, unpublished>>

\* The last beat is over; the drivers let go of the bus.
Finish ==
  /\ stage = "data" /\ beat = current.size
  /\ stage' = "free"
  /\ beat' = 0
  /\ UNCHANGED <<current, unpublished>>

Publish(m) ==
  /\ stage = "free" /\ m \in unpublished
  /\ unpublished' = unpublished \ {m}
  /\ current' = IF unpublished = {m} THEN NoHeader ELSE current
  /\ UNCHANGED <<stage, beat>>

Continue ==
  \/ Pend
  \/ Answer
  \/ NextByte
  \/ Finish
  \/ \E m \in Monitors : Publish(m)

TransferNext == (\E h \in Header : Begin(h)) \/ Continue

TransferSafety == TransferInit /\ [][TransferNext]_transferVars

\* A transfer that has begun is carried to its end.
TransferLiveness == WF_transferVars(Continue)
=============================================================================
