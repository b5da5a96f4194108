---------------------------- MODULE MasterDriver ----------------------------
(***************************************************************************)
(* class master_driver: takes an item from its sequencer, drives the       *)
(* address phase, waits for the slave and then drives or samples one beat  *)
(* per clock.  mdpc names the statement the driver is blocked at:          *)
(*   "get"  get_next_item              "wait" wait (ubus_wait == 0)        *)
(*   "addr" the clock of the address   "beat" the clock inside the loop    *)
(*   "ctrl" the clock that releases it "tail" the clock after a write      *)
(***************************************************************************)
EXTENDS UbusWires

CONSTANT Items   \* the packets the master sequences may send

ASSUME ItemsAssumption == Items \subseteq Packet

VARIABLES
  mdpc,  \* where the driver is blocked
  tr,    \* the item being driven, NoItem between items
  mdi    \* the loop index i of the next beat

md == <<mdpc, tr, mdi>>

MDInit == mdpc = "get" /\ tr = NoItem /\ mdi = 0

MDType ==
  /\ mdpc \in {"get", "addr", "ctrl", "wait", "beat", "tail"}
  /\ tr \in Packet \cup {NoItem}
  /\ mdi \in 0 .. MaxSize

\* get_next_item returns p; the sequencer chooses it after an NBA region.
GetNextItem(p) ==
  /\ mdpc = "get" /\ due = {} /\ nba = NoNba
  /\ mdpc' = "addr"
  /\ tr' = p
  /\ UNCHANGED <<mdi, wires>>

\* The address phase.  A read also releases the data bus.
DriveAddr ==
  /\ mdpc = "addr" /\ Edge("mdrv")
  /\ mdpc' = "ctrl"
  /\ nba' = [nba EXCEPT !.hdr = HdrOf(tr), !.bip = 0,
                        !.mdata = IF tr.dir = "read" THEN Z ELSE @]
  /\ UNCHANGED <<tr, mdi, bus, was>>

\* One clock later the address is released; a write shows its first byte.
ReleaseAddr ==
  /\ mdpc = "ctrl" /\ Edge("mdrv")
  /\ mdpc' = "wait"
  /\ nba' = [nba EXCEPT !.hdr = NoHdr, !.bip = 0,
                        !.mdata = IF tr.dir = "write" THEN tr.data[0] ELSE @]
  /\ UNCHANGED <<tr, mdi, bus, was>>

\* ubus_bip is high on every beat but the last.
Bip(i) == IF i = tr.size - 1 THEN 0 ELSE 1

WriteBeat(i) ==
  /\ tr.dir = "write"
  /\ nba' = [nba EXCEPT !.hdr = NoHdr, !.mdata = tr.data[i], !.bip = Bip(i)]
  /\ UNCHANGED tr

\* Fault: the release of ubus_data before the loop is repeated inside it.
ReadBeatReleasing(i, sample) ==
  /\ tr.dir = "read"
  /\ nba' = [nba EXCEPT !.bip = Bip(i), !.mdata = Z]
  /\ tr' = [tr EXCEPT !.data[i] = AsBit(sample)]

ReadBeat(i, sample) ==
  /\ tr.dir = "read"
  /\ nba' = [nba EXCEPT !.bip = Bip(i)]
  /\ tr' = [tr EXCEPT !.data[i] = AsBit(sample)]

\* Fault: wait (ubus_wait != 1), which an unknown ubus_wait passes.
FirstBeatUnknown ==
  /\ mdpc = "wait" /\ bus.wait # 1
  /\ \/ WriteBeat(0)
     \/ \E v \in {bus.data, was} : ReadBeat(0, v)
  /\ mdpc' = "beat"
  /\ mdi' = 1
  /\ UNCHANGED <<bus, due, was>>

\* wait (ubus_wait == 0) returns.  The process is woken by the update that
\* lowered ubus_wait; the data of the same update may not have crossed
\* dummy_dut yet, so a read samples the new byte or the one before it.
FirstBeat ==
  /\ mdpc = "wait" /\ bus.wait = 0
  /\ \/ WriteBeat(0)
     \/ \E v \in {bus.data, was} : ReadBeat(0, v)
  /\ mdpc' = "beat"
  /\ mdi' = 1
  /\ UNCHANGED <<bus, due, was>>

NextBeat ==
  /\ mdpc = "beat" /\ mdi < tr.size /\ Edge("mdrv")
  /\ WriteBeat(mdi) \/ ReadBeat(mdi, bus.data)
  /\ mdi' = mdi + 1
  /\ UNCHANGED <<mdpc, bus, was>>

\* Fault: the loop over the bytes of a write ends one beat early.
EndWriteEarly ==
  /\ mdpc = "beat" /\ mdi \in {tr.size - 1, tr.size} /\ tr.dir = "write" /\ Edge("mdrv")
  /\ mdpc' = "tail"
  /\ nba' = [nba EXCEPT !.hdr = NoHdr, !.mdata = Z, !.bip = 0]
  /\ UNCHANGED <<tr, mdi, bus, was>>

EndWrite ==
  /\ mdpc = "beat" /\ mdi = tr.size /\ tr.dir = "write" /\ Edge("mdrv")
  /\ mdpc' = "tail"
  /\ nba' = [nba EXCEPT !.hdr = NoHdr, !.mdata = Z, !.bip = 0]
  /\ UNCHANGED <<tr, mdi, bus, was>>

\* item_done(tr): a read is done at the clock after its last sample, a write
\* one clock after it released the bus.
ItemDone ==
  /\ \/ mdpc = "beat" /\ mdi = tr.size /\ tr.dir = "read"
     \/ mdpc = "tail"
  /\ Edge("mdrv")
  /\ mdpc' = "get"
  /\ tr' = NoItem
  /\ mdi' = 0
  /\ UNCHANGED <<bus, nba, was>>

MDAtClock == mdpc \in {"addr", "ctrl", "beat", "tail"}

\* The driver can go on without a clock.
MDRunnable == mdpc = "wait" /\ bus.wait = 0

MDStep ==
  \/ DriveAddr
  \/ ReleaseAddr
  \/ FirstBeat
  \/ NextBeat
  \/ EndWrite
  \/ ItemDone
=============================================================================
