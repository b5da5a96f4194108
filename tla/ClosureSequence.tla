--------------------------- MODULE ClosureSequence --------------------------
(***************************************************************************)
(* class ubus_target_addr_dir_seqf: passes over all combinations of region *)
(* direction and size, asks the subscriber whether each one is missing     *)
(* and, if so, sends an item for it and takes the response.  cspc names    *)
(* where its body is:                                                      *)
(*   "scan"  inside the loops, able to go on      "sent"  get_response     *)
(*   "grant" the item of uvm_do_with wants a grant  "ended" body returned  *)
(***************************************************************************)
EXTENDS UbusCoverage

CONSTANTS
  Regions,      \* the regions of addr_maps that are targeted, 0 .. 5 in the code
  MaxAttempts   \* the most passes, 100 in the code

ASSUME ClosureAssumption ==
  /\ Regions \subseteq 0 .. 5
  /\ MaxAttempts \in Nat \ {0}

VARIABLES
  cspc,
  target,        \* i, dir and s_idx of the loops
  pos,           \* where the loops go on: the rank of the next combination
  max_attempts,  \* the passes finished
  all_covered

cs == <<cspc, target, pos, max_attempts, all_covered>>

\* The combinations the loops run through, and the order they do it in.
Targets == {b \in Regions \X {0, 1} \X (0 .. 3) :
              \E size \in SizeMap(b[1]) \cap Sizes : b[3] = SizeToIndex(size)}
Rank(b) == 8 * b[1] + 4 * b[2] + b[3]

\* What is_covered denies from rank r of a pass on, and the first of it.
Missing(r) == {b \in Targets : Rank(b) >= r /\ ~IsCovered(b)}
First(S) == CHOOSE b \in S : \A c \in S : Rank(b) <= Rank(c)

ClosureSequenceInit ==
  /\ cspc = "scan" /\ target = <<0, 0, 0>> /\ pos = 0
  /\ max_attempts = 0 /\ all_covered = FALSE

ClosureSequenceType ==
  /\ cspc \in {"scan", "grant", "sent", "ended"}
  /\ target \in Bins
  /\ pos \in Nat
  /\ max_attempts \in 0 .. MaxAttempts
  /\ all_covered \in BOOLEAN

\* The combination b is missing: do_transaction is called for it.
Ask(b) ==
  /\ cspc' = "grant"
  /\ target' = b
  /\ pos' = Rank(b) + 1
  /\ all_covered' = FALSE

\* The loops go on to the next missing combination of this pass.
ScanOn ==
  /\ cspc = "scan" /\ Missing(pos) # {}
  /\ Ask(First(Missing(pos)))
  /\ UNCHANGED max_attempts

\* Fault: the passes are not counted.
NextPassUncounted ==
  /\ cspc = "scan" /\ Missing(pos) = {}
  /\ Missing(0) # {}
  /\ Ask(First(Missing(0)))
  /\ UNCHANGED max_attempts

\* Nothing is missing in the rest of this pass, which asked for something
\* (all_covered is 0), and something is missing in the next one.
NextPass ==
  /\ cspc = "scan" /\ Missing(pos) = {}
  /\ max_attempts + 1 < MaxAttempts /\ Missing(0) # {}
  /\ Ask(First(Missing(0)))
  /\ max_attempts' = max_attempts + 1

\* The pass was the last one allowed, or the next one finds nothing missing.
ScanEnds ==
  /\ cspc = "scan" /\ Missing(pos) = {}
  /\ max_attempts + 1 = MaxAttempts \/ Missing(0) = {}
  /\ cspc' = "ended"
  /\ all_covered' = (max_attempts + 1 < MaxAttempts)
  /\ max_attempts' = max_attempts + 1
  /\ UNCHANGED <<target, pos>>

Scan == ScanOn \/ NextPass \/ ScanEnds

\* What uvm_do_with may draw for target: any size its region allows.
Drawable(p) ==
  /\ p.addr \in AddrMaps[target[1]]
  /\ p.dir = IF target[2] = 1 THEN "read" ELSE "write"
  /\ p.size \in SizeArray(target[1])
  /\ Legal(p.addr, p.size)
=============================================================================
