------------------------------ MODULE Console ------------------------------
(***************************************************************************)
(* core0's session control: the console of src/src/console.c and the GP14  *)
(* button (src/src/button.c) arm, disarm and tune the feeder of core1 over *)
(* the queue of src/src/ipc.c, build the deck it reads, and keep the       *)
(* configuration of src/src/config.c in a flash sector.  Of the feeder     *)
(* there is its armed state, its tunables and the deck it was given        *)
(* (Feeder has the rest), of the drive whether its cache is dirty (Storage *)
(* has the rest), of the tunables one.                                     *)
(*                                                                         *)
(* core0 is one thread.  arm_named is taken step by step, because the USB  *)
(* stack runs inside con_printf and core1 runs beside it; pc says where it *)
(* stands.  The host can write the drive where tud_task is called: in the  *)
(* main loop, and in con_printf when the console's FIFO is full.  (What    *)
(* is printed last, or in answer to nothing, is printed in the loop.)      *)
(***************************************************************************)
EXTENDS Integers, Sequences

CONSTANTS
    Captures,       \* names of captures, the only ones --raw makes a difference to
    Batches,        \* names of batches
    Bins,           \* names of binaries: arming one prints before it is armed
    Cut,            \* the 47 characters of a name that last_deck has room for:
                    \* all of it, or perhaps another's name, or no deck's
    NoName,
    Values, Default,    \* of the tunable
    QueueDepth,     \* IPC_QUEUE_DEPTH
    Clogged,        \* whether the console's FIFO may be full, so that con_printf
                    \* runs the USB stack
    FlushFails,     \* whether writing the drive's cache back may fail
    Prompt          \* core1 empties the queue before core0's next step

Names == Captures \cup Batches \cup Bins

ASSUME ConsoleAssumption ==
    /\ NoName \notin Names /\ Default \in Values
    /\ Cut \in [Names -> Names] /\ \A n \in Names : Cut[Cut[n]] = Cut[n]
    /\ QueueDepth \in Nat \ {0}
    /\ {Clogged, FlushFails, Prompt} \subseteq BOOLEAN

VARIABLES
    cfg,        \* g_cfg: the tunable and last_deck
    sector,     \* the configuration sector: a cfg, or one whose crc is wrong
    dirty,      \* the drive's cache is
    slot,       \* what g_deck[0] holds: a deck, or Nothing when there is none
                \* or a part of one
    pc, want,   \* where core0 is, and which deck arm_named is about
    warned,     \* history: at the last arming the configuration was not saved
    ipc,        \* the queue to core1
    fstate,     \* g_feeder_status.state: "DISARMED" or "ARMED"
    tunable     \* the feeder's own

vars == <<cfg, sector, dirty, slot, pc, want, warned, ipc, fstate, tunable>>

\* The deck that a name and --raw stand for.
Deck(n, raw) == [name |-> n, raw |-> raw /\ n \in Captures]
Nothing      == [name |-> NoName, raw |-> FALSE]
DeckSet      == [name : Names, raw : BOOLEAN]

Defaults == [tunable |-> Default, last |-> NoName]
BadCrc == [tunable |-> Default, last |-> NoName, bad |-> TRUE]

\* Mutant: the crc is not looked at.
CfgLoad_NoCrc(s) == s

\* cfg_load.
CfgLoad(s) == IF s = BadCrc THEN Defaults ELSE s

Init ==
    /\ cfg = Defaults /\ sector = BadCrc
    /\ dirty = FALSE /\ slot = Nothing /\ pc = "loop" /\ want = Nothing
    /\ warned = FALSE
    /\ ipc = <<>> /\ fstate = "DISARMED" /\ tunable = Default

\* core0 gets to its next step.
At(l) == pc = l /\ (Prompt => ipc = <<>>)

Disarmed == fstate = "DISARMED"

\* queue_add_blocking
Send(op, val) == Len(ipc) < QueueDepth /\ ipc' = Append(ipc, [op |-> op, val |-> val])

----------------------------------------------------------------------------
(* The commands.                                                           *)

\* set: the tunable in g_cfg and, by a message, the feeder's.
Set(v) ==
    /\ At("loop")
    /\ cfg' = [cfg EXCEPT !.tunable = v]
    /\ Send("SET_PARAM", v)
    /\ UNCHANGED <<sector, dirty, slot, pc, want, warned, fstate, tunable>>

\* save: cfg_save refuses when armed.
Save ==
    /\ At("loop") /\ Disarmed
    /\ pc' = "save" /\ want' = Nothing
    /\ UNCHANGED <<cfg, sector, dirty, slot, warned, ipc, fstate, tunable>>

Disarm ==
    /\ At("loop") /\ Send("DISARM", NoName)
    /\ UNCHANGED <<cfg, sector, dirty, slot, pc, want, warned, fstate, tunable>>

\* Mutant: arming does not look whether a deck is armed.
Arm_Always(n, raw) ==
    /\ At("loop")
    /\ dirty' = FALSE \/ (FlushFails /\ dirty' = dirty)
    /\ want' = Deck(n, raw) /\ pc' = "load"
    /\ UNCHANGED <<cfg, sector, slot, warned, ipc, fstate, tunable>>

\* arm_named up to the mount.  Nobody looks whether storage_flush failed.
Arm(n, raw) ==
    /\ At("loop") /\ Disarmed
    /\ dirty' = FALSE \/ (FlushFails /\ dirty' = dirty)
    /\ want' = Deck(n, raw) /\ pc' = "load"
    /\ UNCHANGED <<cfg, sector, slot, warned, ipc, fstate, tunable>>

\* The button arms by the name that is kept, without --raw.  (Armed, it sends a
\* rewind, which changes nothing here.)
Press == cfg.last # NoName /\ Arm(cfg.last, FALSE)

\* The destination is cleared and filled; loading may fail before or after.
LoadBegins ==
    /\ At("load") /\ slot' = Nothing /\ pc' = "fill"
    /\ UNCHANGED <<cfg, sector, dirty, want, warned, ipc, fstate, tunable>>

Filled ==
    /\ At("fill") /\ slot' = want
    /\ pc' = IF want.name \in Bins THEN "print" ELSE "remember"
    /\ UNCHANGED <<cfg, sector, dirty, want, warned, ipc, fstate, tunable>>

LoadFails ==
    /\ At("load") \/ At("fill")
    /\ pc' = "loop"
    /\ UNCHANGED <<cfg, sector, dirty, slot, want, warned, ipc, fstate, tunable>>

\* How many cards a binary made.
Printed ==
    /\ At("print") /\ pc' = "remember"
    /\ UNCHANGED <<cfg, sector, dirty, slot, want, warned, ipc, fstate, tunable>>

\* last_deck, cut to its length, and the check of cfg_save.
Remember ==
    /\ At("remember")
    /\ cfg' = [cfg EXCEPT !.last = Cut[want.name]]
    /\ pc' = IF Disarmed THEN "save" ELSE "warn"
    /\ UNCHANGED <<sector, dirty, slot, want, warned, ipc, fstate, tunable>>

\* do_save erases, then programs.
SaveErases ==
    /\ At("save") /\ sector' = BadCrc /\ pc' = "program"
    /\ UNCHANGED <<cfg, dirty, slot, want, warned, ipc, fstate, tunable>>

SavePrograms ==
    /\ At("program") /\ sector' = cfg
    /\ IF want = Nothing THEN pc' = "loop" /\ UNCHANGED warned
                         ELSE pc' = "send" /\ warned' = FALSE
    /\ UNCHANGED <<cfg, dirty, slot, want, ipc, fstate, tunable>>

SaveFails ==
    /\ At("save")
    /\ pc' = IF want = Nothing THEN "loop" ELSE "warn"
    /\ UNCHANGED <<cfg, sector, dirty, slot, want, warned, ipc, fstate, tunable>>

\* Mutant: whoever is armed unsaved is not told so.
Warned_Silently ==
    /\ At("warn") /\ pc' = "send"
    /\ UNCHANGED <<cfg, sector, dirty, slot, want, warned, ipc, fstate, tunable>>

\* WARN config save failed: the deck is armed all the same.
Warned ==
    /\ At("warn") /\ warned' = TRUE /\ pc' = "send"
    /\ UNCHANGED <<cfg, sector, dirty, slot, want, ipc, fstate, tunable>>

SendArm ==
    /\ At("send") /\ Send("ARM", NoName) /\ pc' = "loop"
    /\ UNCHANGED <<cfg, sector, dirty, slot, want, warned, fstate, tunable>>

----------------------------------------------------------------------------
(* The drive.                                                              *)

\* tud_task is called: in the main loop, or in con_printf.
UsbRuns == At("loop") \/ (Clogged /\ (At("print") \/ At("warn")))

\* tud_msc_write10_cb
HostWrites ==
    /\ UsbRuns
    /\ Disarmed /\ dirty' = TRUE
    /\ UNCHANGED <<cfg, sector, slot, pc, want, warned, ipc, fstate, tunable>>

\* storage_poll, or the host's SYNCHRONIZE CACHE: nobody asks whether a deck is
\* armed.
Flush ==
    /\ UsbRuns /\ dirty /\ dirty' = FALSE
    /\ UNCHANGED <<cfg, sector, slot, pc, want, warned, ipc, fstate, tunable>>

----------------------------------------------------------------------------
(* core1: feeder_on_ipc.                                                   *)

Core1 ==
    /\ ipc # <<>> /\ ipc' = Tail(ipc)
    /\ LET m == Head(ipc) IN
       /\ fstate' = CASE m.op = "ARM" -> "ARMED" [] m.op = "DISARM" -> "DISARMED"
                      [] OTHER -> fstate
       /\ tunable' = IF m.op = "SET_PARAM" THEN m.val ELSE tunable
    /\ UNCHANGED <<cfg, sector, dirty, slot, pc, want, warned>>

\* main and feeder_init, both cores anew.
PowerLoss ==
    /\ cfg' = CfgLoad(sector) /\ UNCHANGED sector
    /\ dirty' = FALSE /\ slot' = Nothing /\ pc' = "loop" /\ want' = Nothing
    /\ UNCHANGED warned
    /\ ipc' = <<>> /\ fstate' = "DISARMED" /\ tunable' = Default

Next ==
    \/ \E v \in Values : Set(v)
    \/ \E n \in Names, raw \in BOOLEAN : Arm(n, raw)
    \/ Save \/ Disarm \/ Press
    \/ LoadBegins \/ Filled \/ LoadFails \/ Printed \/ Remember
    \/ SaveErases \/ SavePrograms \/ SaveFails \/ Warned \/ SendArm
    \/ HostWrites \/ Flush \/ Core1 \/ PowerLoss

Spec == Init /\ [][Next]_vars

----------------------------------------------------------------------------
(* Properties.                                                             *)

TypeOK ==
    /\ cfg \in [tunable : Values, last : Names \cup {NoName}]
    /\ sector = BadCrc \/ sector \in [tunable : Values, last : Names \cup {NoName}]
    /\ slot \in DeckSet \cup {Nothing} /\ want \in DeckSet \cup {Nothing}
    /\ pc \in {"loop", "load", "fill", "print", "remember", "save", "program",
               "warn", "send"}
    /\ warned \in BOOLEAN
    /\ Len(ipc) <= QueueDepth
    /\ fstate \in {"DISARMED", "ARMED"} /\ dirty \in BOOLEAN /\ tunable \in Values

\* deckimg.h:6-7: the image "is built by core0 while DISARMED and is
\* read-only for core1 during a feed session": what the feeder feeds is a
\* whole deck, and nobody touches it until it is disarmed.
DeckReadOnly ==
    [][fstate = "ARMED" /\ fstate' = "ARMED" => slot # Nothing /\ slot' = slot]_vars

\* While a deck is armed, status calls its name the last, and a loss of power
\* does not change that unless a warning has said so (console.c:173-179): the
\* name is in the sector, with a crc that fits, before anything is fed, whatever
\* loads and saves failed or were interrupted before.  (As much of the name as
\* last_deck has room for.)
ArmedIsKept ==
    fstate = "ARMED" => /\ cfg.last = Cut[slot.name]
                        /\ warned \/ CfgLoad(sector).last = cfg.last

----------------------------------------------------------------------------
(* What the documentation says and the code does not keep to.              *)
(* TunablesLost shows the last; TLC refutes each of the others when        *)
(* TunablesLost.cfg has it in the last one's place.                        *)

\* "GP14 button: re-arm the last armed deck (persisted across reboot)"
\* (console.c:206), "Persist the full name (incl. @base) so the GP14 button
\* re-arms the same load address after a reboot" (console.c:173-174): what is
\* being fed is what the button would arm again.
ButtonRearms == fstate = "ARMED" => slot = Deck(cfg.last, FALSE)

\* ARCHITECTURE.md:273-276: flash is written "only while DISARMED", and
\* feeding only ever touches RAM.
FlashQuiet ==
    [][Flush \/ SaveErases \/ SavePrograms => fstate = "DISARMED"]_vars

\* The tunables that status shows and save keeps are those in use.
TunablesInStep == ipc = <<>> => tunable = cfg.tunable
=============================================================================
