---------------------------- MODULE BlockDevice ----------------------------
(***************************************************************************)
(* What the card-deck drive promises to the host that writes it: a block   *)
(* reads as it was last written, and a loss of power can harm the blocks   *)
(* of one sector only, of the one written last and not yet settled.        *)
(***************************************************************************)
EXTENDS Integers

CONSTANTS Blocks, Values, Blank,
          SectorOf(_), NoSector

VARIABLES disk,     \* what each block reads as
          risk      \* the sector that power loss may harm

dvars == <<disk, risk>>

DeviceInit == disk = [b \in Blocks |-> Blank] /\ risk = NoSector

\* Blocks of another sector are only written when nothing is at risk.
Write(b, v) ==
    /\ risk \in {NoSector, SectorOf(b)}
    /\ disk' = [disk EXCEPT ![b] = v]
    /\ risk' = SectorOf(b)

\* The last writes are durable.
Settle == risk # NoSector /\ risk' = NoSector /\ UNCHANGED disk

PowerFails ==
    /\ disk' \in [Blocks -> Values]
    /\ \A b \in Blocks : SectorOf(b) # risk => disk'[b] = disk[b]
    /\ risk' = NoSector

DeviceNext ==
    \/ \E b \in Blocks, v \in Values : Write(b, v)
    \/ Settle
    \/ PowerFails

DeviceSpec == DeviceInit /\ [][DeviceNext]_dvars
=============================================================================
