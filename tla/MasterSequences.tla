--------------------------- MODULE MasterSequences --------------------------
(***************************************************************************)
(* The directed sequences of the master: each sends n_repeat items one     *)
(* after the other.  What distinguishes them here is whether body takes    *)
(* the response that item_done(tr) puts into the sequence's response queue *)
(* and whether post_body drops an objection of its own.                    *)
(*                                                                         *)
(* A sequence that is the default sequence of a phase knows that phase:    *)
(* set_automatic_phase_objection raises an objection for it before         *)
(* pre_body and drops it after post_body.  One that another sequence       *)
(* starts knows none, and the virtual sequence holds the objection.        *)
(* The clocks some bodies let pass between items change nothing here.      *)
(*                                                                         *)
(* seqpc names where the sequence is: "new", "body" at the head of its     *)
(* loop, "item" finish_item, "response" get_response, "post" post_body,    *)
(* "drop" the automatic drop, "ended", "fatal" the simulation is stopped.  *)
(***************************************************************************)
EXTENDS Naturals, Sequences

CONSTANTS
  Kinds,        \* the sequences to run
  MaxRepeat,    \* the largest n_repeat; N_REPEAT is any number in the code
  QueueDepth    \* response_queue_depth of uvm_sequence_base, 8

ASSUME RepeatAssumption == MaxRepeat \in Nat /\ QueueDepth \in Nat \ {0}

\* The sequences whose body calls get_response, and all of them.
TakesResponse == {"read_word", "write_random_size", "read_random_size",
                  "target_addr_dir", "read_low"}
Directed == TakesResponse \cup {"write_word", "write_low"}

ASSUME KindsAssumption == Kinds \subseteq Directed

\* The sequence with a post_body.
DropsInPostBody == {"read_random_size"}

VARIABLES
  kind, as_default, n_repeat,  \* what runs, how, and N_REPEAT
  seqpc, i,                    \* where it is, and its items so far
  response_queue,              \* the items whose responses were not taken
  lost,                        \* responses dropped with a uvm_error
  objections                   \* of the phase

run == <<kind, as_default, n_repeat>>
seqVars == <<run, seqpc, i, response_queue, lost, objections>>

SeqInit ==
  /\ kind \in Kinds /\ as_default \in BOOLEAN /\ n_repeat \in 0 .. MaxRepeat
  /\ seqpc = "new" /\ i = 0
  /\ response_queue = <<>> /\ lost = 0
  /\ objections = IF as_default THEN 0 ELSE 1

\* Fault: the sequence does not ask for automatic objections.
StartUnraised ==
  /\ seqpc = "new" /\ seqpc' = "body"
  /\ UNCHANGED <<run, i, response_queue, lost, objections>>

Start ==
  /\ seqpc = "new" /\ seqpc' = "body"
  /\ objections' = IF as_default THEN objections + 1 ELSE objections
  /\ UNCHANGED <<run, i, response_queue, lost>>

\* start_item and finish_item: the driver gets item i.
SendItem ==
  /\ seqpc = "body" /\ i < n_repeat
  /\ seqpc' = "item"
  /\ UNCHANGED <<run, i, response_queue, lost, objections>>

\* The driver's item_done(tr): the response goes to the sequence's queue, or
\* is dropped with an error when the queue is full, and finish_item returns.
DriverDone ==
  /\ seqpc = "item"
  /\ seqpc' = IF kind \in TakesResponse THEN "response" ELSE "body"
  /\ IF Len(response_queue) < QueueDepth
       THEN response_queue' = Append(response_queue, i) /\ UNCHANGED lost
       ELSE lost' = lost + 1 /\ UNCHANGED response_queue
  /\ i' = i + 1
  /\ UNCHANGED <<run, objections>>

\* Fault: get_response only looks at the queue.
PeekResponse ==
  /\ seqpc = "response" /\ response_queue # <<>>
  /\ seqpc' = "body"
  /\ UNCHANGED <<run, i, response_queue, lost, objections>>

\* get_response(rsp) takes the oldest response.
GetResponse ==
  /\ seqpc = "response" /\ response_queue # <<>>
  /\ response_queue' = Tail(response_queue)
  /\ seqpc' = "body"
  /\ UNCHANGED <<run, i, lost, objections>>

BodyEnds ==
  /\ seqpc = "body" /\ i = n_repeat
  /\ seqpc' = "post"
  /\ UNCHANGED <<run, i, response_queue, lost, objections>>

\* drop_objection; a count below zero is a uvm_fatal.
Drop(next) ==
  IF objections = 0 THEN seqpc' = "fatal" /\ UNCHANGED objections
                    ELSE seqpc' = next /\ objections' = objections - 1

\* post_body drops only if the sequence knows its phase.
PostBody ==
  /\ seqpc = "post"
  /\ IF kind \in DropsInPostBody /\ as_default
       THEN Drop("drop") ELSE seqpc' = "drop" /\ UNCHANGED objections
  /\ UNCHANGED <<run, i, response_queue, lost>>

\* After post_body: the automatic drop, or the virtual sequence's own.
AutomaticDrop ==
  /\ seqpc = "drop"
  /\ Drop("ended")
  /\ UNCHANGED <<run, i, response_queue, lost>>

SeqNext ==
  \/ Start \/ SendItem \/ DriverDone \/ GetResponse
  \/ BodyEnds \/ PostBody \/ AutomaticDrop

\* The driver answers every item (ItemCompletes of UbusBus).
SeqSpec == SeqInit /\ [][SeqNext]_seqVars /\ WF_seqVars(SeqNext)

-----------------------------------------------------------------------------
(* Properties *)

\* No response is lost: N_REPEAT may be anything ("make random N_REPEAT=100",
\* README:77), and the queue of a sequence is bounded.
NoResponseLost == lost = 0

\* What is lost, for any N_REPEAT: nothing of a sequence that calls get_response,
\* and of any other every response from the one on that its queue has no room
\* for, as soon as the driver has answered the item.
LostBeyondDepth ==
  lost = IF kind \in TakesResponse \/ i <= QueueDepth THEN 0 ELSE i - QueueDepth

\* A sequence that takes responses takes that of the item it has just sent:
\* nothing older is in front of it (get_response in the loops of the
\* sequences takes the oldest one whatever item it belongs to).
OwnResponse == seqpc = "response" => response_queue = <<i - 1>>

\* The phase cannot end, by the last objection being dropped, while an item is
\* with the driver or its response is waited for.
HeldWhileRunning == seqpc \in {"body", "item", "response"} => objections > 0

\* Nothing stops a sequence early but the second drop of a default sequence
\* with a post_body of its own, and that one never ends well; one that has
\* ended has sent N_REPEAT items and left no objection behind.
StopsBalanced ==
  /\ seqpc = "fatal" => kind \in DropsInPostBody /\ as_default
  /\ seqpc = "ended" =>
       /\ i = n_repeat /\ objections = 0
       /\ ~(kind \in DropsInPostBody /\ as_default)

\* Every sequence ends and leaves no objection behind ("when body is complete
\* the objection is lowered so that the simulation can end",
\* ubus_master_read_random_size_seq 43), except a default sequence that drops
\* an objection in post_body besides the automatic one: it always ends in the
\* fatal error of a second drop.
EndsBalanced ==
  <>(IF kind \in DropsInPostBody /\ as_default
       THEN seqpc = "fatal"
       ELSE seqpc = "ended" /\ objections = 0)
=============================================================================
