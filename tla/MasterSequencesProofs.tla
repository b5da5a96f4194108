----------------------- MODULE MasterSequencesProofs ------------------------
(***************************************************************************)
(* The response queue and the objections of a directed sequence, for every *)
(* number of repetitions and every depth of the queue.                     *)
(***************************************************************************)
EXTENDS MasterSequences, TLAPS

\* The queue of a sequence that takes its responses holds the one get_response
\* waits for, and nothing otherwise; that of any other fills up, and what does
\* not fit is lost.
QueueInv ==
  /\ i \in Nat
  /\ kind \in TakesResponse =>
       /\ lost = 0
       /\ response_queue = IF seqpc = "response" THEN <<i - 1>> ELSE <<>>
  /\ kind \notin TakesResponse =>
       /\ seqpc # "response"
       /\ response_queue \in Seq(Nat) /\ lost \in Nat
       /\ Len(response_queue) + lost = i
       /\ Len(response_queue) <= QueueDepth
       /\ lost > 0 => Len(response_queue) = QueueDepth

\* One objection is held from the head of body to post_body, and where it is
\* dropped decides where the sequence stops.
ObjectionInv ==
  /\ seqpc = "new" => objections = IF as_default THEN 0 ELSE 1
  /\ seqpc \in {"body", "item", "response", "post"} => objections = 1
  /\ seqpc = "drop" =>
       objections = IF kind \in DropsInPostBody /\ as_default THEN 0 ELSE 1
  /\ seqpc \in {"post", "drop", "ended"} => i = n_repeat
  /\ StopsBalanced

-----------------------------------------------------------------------------
(* The response queue *)

\* A sequence starts with an empty queue.
LEMMA QueueInit == SeqInit => QueueInv
  BY RepeatAssumption DEF SeqInit, QueueInv

\* A response is taken by get_response, stays in the queue or is lost.
LEMMA QueueDone == QueueInv /\ DriverDone => QueueInv'
  <1> SUFFICES ASSUME QueueInv, DriverDone PROVE QueueInv'
    OBVIOUS
  <1>1. kind' = kind /\ i' = i + 1 /\ i \in Nat /\ i' \in Nat
    BY DEF DriverDone, QueueInv, run
  <1>2. CASE kind \in TakesResponse
    <2>1. response_queue = <<>> /\ lost = 0 /\ seqpc' = "response"
      BY <1>2 DEF DriverDone, QueueInv
    <2>2. Len(response_queue) < QueueDepth
      BY <2>1, RepeatAssumption
    <2>3. response_queue' = <<i>> /\ lost' = 0
      BY <2>1, <2>2 DEF DriverDone
    <2> QED BY <1>1, <1>2, <2>1, <2>3 DEF QueueInv
  <1>3. CASE kind \notin TakesResponse
    <2>1. /\ response_queue \in Seq(Nat) /\ lost \in Nat /\ seqpc' = "body"
          /\ Len(response_queue) + lost = i /\ Len(response_queue) <= QueueDepth
          /\ lost > 0 => Len(response_queue) = QueueDepth
      BY <1>3 DEF DriverDone, QueueInv
    <2>2. Len(response_queue) \in Nat /\ QueueDepth \in Nat
      BY <2>1, RepeatAssumption
    <2>3. CASE Len(response_queue) < QueueDepth
      <3>1. response_queue' = Append(response_queue, i) /\ lost' = lost
        BY <2>3 DEF DriverDone
      <3>2. response_queue' \in Seq(Nat) /\ Len(response_queue') = Len(response_queue) + 1
        BY <1>1, <2>1, <3>1
      <3> QED BY <1>1, <1>3, <2>1, <2>2, <2>3, <3>1, <3>2 DEF QueueInv
    <2>4. CASE ~(Len(response_queue) < QueueDepth)
      <3>1. response_queue' = response_queue /\ lost' = lost + 1
        BY <2>4 DEF DriverDone
      <3> QED BY <1>1, <1>3, <2>1, <2>2, <2>4, <3>1 DEF QueueInv
    <2> QED BY <2>3, <2>4
  <1> QED BY <1>2, <1>3

\* Each step keeps what the queue holds in step with the items sent.
LEMMA QueueNext == QueueInv /\ [SeqNext]_seqVars => QueueInv'
  <1> SUFFICES ASSUME QueueInv, [SeqNext]_seqVars PROVE QueueInv'
    OBVIOUS
  <1>1. CASE Start \/ SendItem \/ BodyEnds \/ PostBody \/ AutomaticDrop
    <2>1. UNCHANGED <<kind, i, lost, response_queue>>
      BY <1>1 DEF Start, SendItem, BodyEnds, PostBody, AutomaticDrop, run
    <2>2. seqpc # "response" /\ seqpc' # "response"
      BY <1>1 DEF Start, SendItem, BodyEnds, PostBody, AutomaticDrop, Drop
    <2> QED BY <2>1, <2>2 DEF QueueInv
  <1>2. CASE DriverDone
    BY <1>2, QueueDone
  <1>3. CASE GetResponse
    <2>1. /\ seqpc = "response" /\ seqpc' = "body" /\ UNCHANGED <<kind, i, lost>>
          /\ response_queue' = Tail(response_queue)
      BY <1>3 DEF GetResponse, run
    <2>2. kind \in TakesResponse /\ response_queue = <<i - 1>>
      BY <2>1 DEF QueueInv
    <2>3. response_queue' = <<>>
      BY <2>1, <2>2
    <2> QED BY <2>1, <2>2, <2>3 DEF QueueInv
  <1>4. CASE UNCHANGED seqVars
    BY <1>4 DEF seqVars, run, QueueInv
  <1> QED BY <1>1, <1>2, <1>3, <1>4 DEF SeqNext

\* The queue and the items sent are in step in every reachable state.
LEMMA QueueInvariant == SeqSpec => []QueueInv
  BY QueueInit, QueueNext, PTL DEF SeqSpec

\* Exactly the responses that do not fit into the queue of a sequence that
\* takes none are lost, whatever N_REPEAT and the depth of the queue are.
THEOREM LossIsExact == SeqSpec => []LostBeyondDepth
  <1>1. QueueInv => LostBeyondDepth
    BY RepeatAssumption DEF QueueInv, LostBeyondDepth
  <1> QED BY <1>1, QueueInvariant, PTL

\* Sequences that take their responses lose none.
THEOREM NoneLost ==
  ASSUME Kinds \subseteq TakesResponse
  PROVE  SeqSpec => []NoResponseLost
  <1>1. SeqInit => kind \in Kinds
    BY DEF SeqInit
  <1>2. kind \in Kinds /\ [SeqNext]_seqVars => (kind \in Kinds)'
    BY DEF SeqNext, Start, SendItem, DriverDone, GetResponse, BodyEnds, PostBody, AutomaticDrop,
           seqVars, run
  <1>3. kind \in Kinds /\ QueueInv => NoResponseLost
    BY DEF QueueInv, NoResponseLost
  <1> QED BY <1>1, <1>2, <1>3, QueueInvariant, PTL DEF SeqSpec

\* A sequence that takes a response gets that of the item it has just sent.
THEOREM ResponsesMatch == SeqSpec => []OwnResponse
  <1>1. QueueInv => OwnResponse
    BY DEF QueueInv, OwnResponse
  <1> QED BY <1>1, QueueInvariant, PTL

-----------------------------------------------------------------------------
(* The objections *)

\* The objections follow the sequence from its start to where it stops.
LEMMA ObjectionInvariant == SeqSpec => []ObjectionInv
  <1>1. SeqInit => ObjectionInv
    BY DEF SeqInit, ObjectionInv, StopsBalanced
  <1>2. ObjectionInv /\ [SeqNext]_seqVars => ObjectionInv'
    <2> SUFFICES ASSUME ObjectionInv, [SeqNext]_seqVars PROVE ObjectionInv'
      OBVIOUS
    <2>1. CASE Start
      BY <2>1 DEF Start, ObjectionInv, StopsBalanced, run
    <2>2. CASE SendItem \/ DriverDone \/ GetResponse \/ BodyEnds
      BY <2>2 DEF SendItem, DriverDone, GetResponse, BodyEnds, ObjectionInv, StopsBalanced, run
    <2>3. CASE PostBody
      <3>1. objections = 1 /\ i = n_repeat /\ UNCHANGED <<kind, as_default, n_repeat, i>>
        BY <2>3 DEF PostBody, ObjectionInv, run
      <3>2. /\ seqpc' = "drop"
            /\ objections' = IF kind \in DropsInPostBody /\ as_default THEN 0 ELSE 1
        BY <2>3, <3>1 DEF PostBody, Drop
      <3> QED BY <3>1, <3>2 DEF ObjectionInv, StopsBalanced
    <2>4. CASE AutomaticDrop
      <3>1. /\ objections = IF kind \in DropsInPostBody /\ as_default THEN 0 ELSE 1
            /\ i = n_repeat /\ UNCHANGED <<kind, as_default, n_repeat, i>>
        BY <2>4 DEF AutomaticDrop, ObjectionInv, run
      <3>2. IF kind \in DropsInPostBody /\ as_default
              THEN seqpc' = "fatal" ELSE seqpc' = "ended" /\ objections' = 0
        BY <2>4, <3>1 DEF AutomaticDrop, Drop
      <3> QED BY <3>1, <3>2 DEF ObjectionInv, StopsBalanced
    <2>5. CASE UNCHANGED seqVars
      BY <2>5 DEF seqVars, run, ObjectionInv, StopsBalanced
    <2> QED BY <2>1, <2>2, <2>3, <2>4, <2>5 DEF SeqNext
  <1> QED BY <1>1, <1>2, PTL DEF SeqSpec

\* The phase cannot end while the sequence is at work, whether the sequence is
\* a default sequence or is started by another one.
THEOREM PhaseIsHeld == SeqSpec => []HeldWhileRunning
  <1>1. ObjectionInv => HeldWhileRunning
    BY DEF ObjectionInv, HeldWhileRunning
  <1> QED BY <1>1, ObjectionInvariant, PTL

\* Where a sequence stops depends on how it was started and on its post_body
\* alone: with every item sent and no objection left, or in the second drop.
THEOREM StopsAreBalanced == SeqSpec => []StopsBalanced
  <1>1. ObjectionInv => StopsBalanced
    BY DEF ObjectionInv
  <1> QED BY <1>1, ObjectionInvariant, PTL
=============================================================================
