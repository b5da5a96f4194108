--------------------------- MODULE SlaveSequence ----------------------------
(***************************************************************************)
(* class slave_sequence: a reactive memory.  For every request it takes    *)
(* from the fifo it updates m_mem and offers a response packet with a      *)
(* random number of wait cycles.                                           *)
(***************************************************************************)
EXTENDS SlaveSequencer

CONSTANT Absent   \* m_mem.exists(a) is false

ASSUME AbsentAssumption == Absent \notin Byte

VARIABLE m_mem

SSInit == m_mem = [a \in MemAddr |-> Absent]

SSType == m_mem \in [MemAddr -> Byte \cup {Absent}]

\* m_mem after the write request req.
Stored(req) ==
  [a \in MemAddr |-> IF a \in Burst(req) THEN req.data[a - req.addr] ELSE m_mem[a]]

\* m_mem after the read request req, when f gives the values drawn for the
\* cells that do not exist yet.
Filled(req, f) ==
  [a \in MemAddr |-> IF a \in Burst(req) /\ m_mem[a] = Absent THEN f[a] ELSE m_mem[a]]

\* The response to req: the request's data, with the bytes of a read from mem.
Response(req, w, mem) ==
  [req EXCEPT !.wait_state = w,
              !.data = [i \in Lane |-> IF req.dir = "read" /\ i < req.size
                                       THEN mem[req.addr + i] ELSE req.data[i]]]

\* request_fifo.get returns the oldest request; the loop over its bytes and
\* start_item follow without time passing.
Serve ==
  /\ rsp = NoItem /\ request_fifo # <<>>
  /\ LET req == Head(request_fifo) IN
       /\ \/ req.dir = "write" /\ m_mem' = Stored(req)
          \/ req.dir = "read" /\ \E f \in [Burst(req) -> Fill] : m_mem' = Filled(req, f)
       /\ \E w \in 0 .. MaxWait : rsp' = Response(req, w, m_mem')
  /\ request_fifo' = Tail(request_fifo)
  /\ UNCHANGED wires

SSRunnable == rsp = NoItem /\ request_fifo # <<>>
=============================================================================
