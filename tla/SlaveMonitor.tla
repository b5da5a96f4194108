---------------------------- MODULE SlaveMonitor ----------------------------
(***************************************************************************)
(* class slave_monitor: like the master's monitor, and it also feeds the   *)
(* slave sequence.  It writes req to request_aport before it has sampled   *)
(* any byte; the fifo holds the handle, so a byte sampled while the        *)
(* request is still queued is seen in the fifo too.  smpc as in            *)
(* MasterMonitor.                                                          *)
(***************************************************************************)
EXTENDS SlaveSequencer

VARIABLES smpc, smreq, smi

sm == <<smpc, smreq, smi>>

SMInit == smpc = "idle" /\ smreq = NoItem /\ smi = 0

SMType ==
  /\ smpc \in {"idle", "wait1", "wait0", "beat"}
  /\ smreq \in Packet \cup {NoItem}
  /\ smi \in 0 .. MaxSize

\* An update of req, and of the handle to it at the end of the fifo.
SMUpdate(req) ==
  /\ smreq' = req
  /\ request_fifo' = IF request_fifo = <<>> THEN <<>>
                     ELSE [request_fifo EXCEPT ![Len(request_fifo)] = req]

SMIdle ==
  /\ smpc = "idle" /\ bus.hdr = NoHdr /\ Edge("smon")
  /\ UNCHANGED <<sm, sqr, bus, nba, was>>

\* request_aport.write(req), then the wait for the slave.
SMDetect ==
  /\ smpc = "idle" /\ bus.hdr # NoHdr /\ Edge("smon")
  /\ smreq' = NewReq(bus.hdr)
  /\ request_fifo' = Append(request_fifo, NewReq(bus.hdr))
  /\ smpc' = AfterWhile
  /\ smi' = 0
  /\ UNCHANGED <<rsp, bus, nba, was>>

SMWait ==
  /\ smpc = "wait1" /\ Edge("smon")
  /\ SMUpdate([smreq EXCEPT !.wait_state = @ + 1])
  /\ smpc' = AfterWhile
  /\ UNCHANGED <<smi, rsp, bus, nba, was>>

SMLeaveWait ==
  /\ smpc = "wait0" /\ bus.wait = 0
  /\ smpc' = "beat"
  /\ UNCHANGED <<smreq, smi, sqr, wires>>

SMSampled == [smreq EXCEPT !.data[smi] = AsBit(bus.data)]

SMBeat ==
  /\ smpc = "beat" /\ smi < smreq.size - 1 /\ Edge("smon")
  /\ SMUpdate(SMSampled)
  /\ smi' = smi + 1
  /\ UNCHANGED <<smpc, rsp, bus, nba, was>>

\* Fault: item_collected_port connected to request_fifo as well.
SMPublishTwice ==
  /\ smpc = "beat" /\ smi = smreq.size - 1 /\ Edge("smon")
  /\ smreq' = SMSampled
  /\ request_fifo' = Append(request_fifo, SMSampled)
  /\ smpc' = "idle"
  /\ smi' = 0
  /\ UNCHANGED <<rsp, bus, nba, was>>

\* Fault: a clock too many after the last byte.
SMPublishLate ==
  /\ smpc = "beat" /\ smi \in {smreq.size - 1, smreq.size} /\ Edge("smon")
  /\ IF smi = smreq.size - 1
       THEN SMUpdate(SMSampled) /\ smi' = smi + 1 /\ smpc' = "beat"
       ELSE UNCHANGED <<smreq, request_fifo>> /\ smi' = 0 /\ smpc' = "idle"
  /\ UNCHANGED <<rsp, bus, nba, was>>

\* The last byte: item_collected_port.write(req).
SMPublish ==
  /\ smpc = "beat" /\ smi = smreq.size - 1 /\ Edge("smon")
  /\ SMUpdate(SMSampled)
  /\ smpc' = "idle"
  /\ smi' = 0
  /\ UNCHANGED <<rsp, bus, nba, was>>

SMAtClock == smpc \in {"idle", "wait1", "beat"}

SMRunnable == smpc = "wait0" /\ bus.wait = 0

\* Every step but the one that publishes.
SMStep ==
  \/ SMIdle
  \/ SMDetect
  \/ SMWait
  \/ SMLeaveWait
  \/ SMBeat
=============================================================================
