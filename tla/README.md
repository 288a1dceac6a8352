# The RP2040 card reader for the GE-120: a TLA+ model

This directory models, checks and proves properties of the firmware in `src/`: a
Pico that stands in for the card reader on channel 1 of a GE-120. Core1 answers
the machine's commands and presents card columns on the wire; core0 keeps a USB
drive of decks, loads a deck into RAM, and offers a console and a button.

Paths below are relative to `src/`, so `feeder.c` is `src/src/feeder.c` of this
tree and `ARCHITECTURE.md` is `src/docs/ARCHITECTURE.md`. `PROJECT.json` maps every
definition to its lines.

    tlc -workers 2 -config FeederWild.cfg MCFeeder.tla    # any run: cfg and module
    tlapm FeederProofs.tla                                # any module of proofs

Contents: [1 inventory](#1-the-system), [2 modules](#2-the-modules-and-the-code),
[3 runs](#3-the-runs), [4 assumptions and bounds](#4-assumptions-bounds-and-fairness),
[5 proofs](#5-what-is-proved), [6 disagreements](#6-where-code-and-documents-disagree),
[7 not modelled](#7-what-is-not-modelled), [8 plan](#8-plan).

## 1 The system

Two cores, no operating system. Core0 runs one loop (`main.c:29-36`): USB,
console, trace, lazy flush, button. Core1 runs one loop (`core1_main.c:35-43`):
take a message from core0's queue, poll the deadlines, sleep; three interrupts
preempt it. They share the event ring, the status record `g_feeder_status`
(written by core1, read by core0), the deck image `g_deck[0]` (written by core0
while disarmed, read by core1 while armed) and the flash, whose writes stop core1.

    console, button --IPC queue--> feeder --TX FIFO--> presenter --LU00-07, LU08N,
       |                             ^  ^                             FININ--> GE-120
       |  builds g_deck[0]           |  +---- TX-FIFO-not-full interrupt
       v                             +------- RE command, TU03N feed <-------- GE-120
    deck loading <-- FAT reader <-- deck drive <-- USB host

| Component | State it keeps | Operations | What is hard | What makes it correct |
|---|---|---|---|---|
| **Feeder** `feeder.c` | armed deck, protocol state, cursor (card, column, half), pending command and FININ with their deadlines, modes, tunables, status lines | 11 read/control command codes, feed, FIFO interrupt, 8 console operations, deadline poll | handlers of three interrupt priorities and a loop; a deadline races the feed it stands in for; FININ outlives the card it belongs to; the FIFO runs up to five characters behind the cursor | the machine hears every card whole, in order and in one mode; the handshake is true; every read is answered |
| **Presenter** `wire_tx.c`, `presenter.pio` | state machine on/off, TX FIFO, pin latches | arm, disarm, push, release FININ, enable the interrupt | the level-triggered interrupt must never be left on with nothing to push | strobes and FININ follow the words pushed |
| **GE-120** (external) | waiting or in a transfer | commands, feeds, hearing characters | it latches fronts, so a false one is an error for good | - |
| **Wire receiver** `wire_rx.c`, `re_capture.pio` | program position, RX FIFO, latched edges | sample a 13-pin window per strobe, decode it, feed and command edges | command and feed take different ways through the chip, to handlers of different priority | each strobe's command is delivered once and in order, and before the feed that follows it |
| **Transcoding** `transcode.c` | - | column to byte in four modes | inverse of the encoders of `bin2deck.c` | decode(encode(b)) = b |
| **Deck parser, surgery** `deck.c`, `surgery.c` | an index into one column buffer | parse, drop empty cards, find the loader, three recipes | limits, duplicates of the hole-art section, a loader that is not marked | the deck is the capture's cards, less what the recipe takes out |
| **Synthesis** `bin2deck.c` | builder: image, load address, part of a card | begin, feed, end, one-card form | chunk and address boundaries | the loader program rebuilds the file in memory |
| **Deck loading** `deckload.c` | the job, scratch and destination image | capture, batch, binary | a read can fail anywhere; a failed load leaves a part behind | a load succeeds with the right deck or fails |
| **Deck drive** `storage.c`, `usb_composite.c` | flash, one dirty-able cached sector | block reads and writes, flush, lazy flush | erase before program, power loss, a write-back that cannot stop core1 | a block device |
| **FAT reader** `fat_ro.c` | one cached FAT sector, long name under assembly | mount, list, open, read | stale cache and name, entries that straddle sectors, a host that writes meanwhile or does not read what is printed | the host's files, under their names |
| **Console, button** `console.c`, `button.c` | what it is doing, last deck | arm, disarm, set, save, ... | checks core1's state across the queue; printing runs the USB stack, and waits for the host | a deck that is fed is whole and left alone, and its name is kept; flash is quiet while armed |
| **Configuration** `config.c` | `g_cfg`, flash sector with a CRC | load, save | power loss between erase and program | a sector loads as saved or not at all |
| **IPC queue** `ipc.c` | bounded queue | send (blocks), receive | the sender may be ahead of the receiver | in order, none lost |
| **Event ring** `monitor.c` | ring, counters of writer and reader | push, pop, drain | nested pushes, overwriting push against pop | events counted, in order, whole |

The full list with its status is in `PROJECT.json` `components`; the places where
the code can go wrong in a way a test would hardly reach are its `hazards`.

## 2 The modules and the code

| Module | Models | Extends / instantiates |
|---|---|---|
| `Presenter` | the PIO program, its FIFO and the calls of `wire_tx.c`, as parts of actions | - |
| `Ge` | the GE-120's side of channel 1 (external) | - |
| `Cards` | what the feeder looks at in a deck, and a card's image in each mode | - |
| `Feeder` | `feeder.c`: one action per handler, composed with the three above | `Presenter`, `Ge`, `Cards` |
| `FeederProps` | its properties | `Feeder` |
| `Hopper` | abstract card reader: what the machine is promised | `Cards` |
| `FeederRefinement` | refinement mapping from `Feeder` to `Hopper` | `FeederProps`, `Hopper` |
| `FeederProofs` | inductive invariant and theorems | `FeederProps`, `TLAPS` |
| `ProtocolProofs` | theorems for a machine that keeps to its protocol; the refinement, step by step | `FeederProofs`, `FeederRefinement`, `WellFoundedInduction` |
| `Transcode` | the column decoders and encoders | - |
| `Deck` | parser, loader search, surgery, synthesis, as operators on images | `Transcode` |
| `Deckload` | loading as a state machine | `Deck` |
| `DeckloadProps` | what a loaded deck has to be, stated over the files | `Deckload` |
| `Folding` | what the fold of an operator over a sequence computes, for every operator and sequence | `WellFoundedInduction`, `TLAPS` |
| `DeckloadProofs` | inductive invariant and theorems of loading; decoders invert encoders | `DeckloadProps`, `Folding` (once for each operator folded), `SequenceTheorems`, `TLAPS` |
| `BlockDevice` | abstract drive | - |
| `Storage` | the sector cache and the MSC callbacks | - |
| `StorageProps` | its properties and the refinement | `Storage`, `BlockDevice` |
| `StorageProofs` | inductive invariant, and the refinement proved | `StorageProps`, `TLAPS` |
| `Console` | session control on core0, the queue, core1's reaction, the configuration sector | - |
| `ConsoleProofs` | inductive invariant and theorems | `Console`, `TLAPS` |
| `FeederNest` | `feeder.c` again, statement by statement, under interrupts that nest | - |
| `FeederNestProps` | what survives the nesting, and what does not | `FeederNest` |
| `FeederNestProofs` | two inductive invariants and theorems | `FeederNestProps`, `SequenceTheorems`, `TLAPS` |
| `EventRing` | `ev_push` and `ev_pop`, store by store | - |
| `Receiver` | capture program, RX FIFO, core1's interrupts, the trace | `EventRing` |
| `ReceiverProps` | its properties, and that it uses the ring as `EventRing` has it | `Receiver` |
| `ReceiverProofs` | inductive invariants and theorems of the ring and of the receiver | `ReceiverProps`, `SequenceTheorems`, `TLAPS` |
| `FatImage` | a volume as `mkfatimg` or a host lays it out, by block | - |
| `Fat` | the FAT reader under `ls` and a load, against a host that writes and may not read | `FatImage` |
| `FatProps` | its properties, stated over the files of the volume | `Fat` |
| `MCFeeder`, `MCConsole`, `MCDeckload`, `MCReceiver`, `MCFat` | small instances for TLC | |

A definition whose name ends in `_Something` and whose comment begins with
*Mutant* is a plausible error in the definition it precedes; no action uses it.
Each property of a passing run is violated when the definition is replaced by
its mutant.

### Feeder

| Variables | Code |
|---|---|
| `deck`, `latched_mode`, `presenting`, `cmd_pending`, `finin_pending`, `post_loader_colbin` | the fields of `fd` of those names |
| `cmd_timer`, `finin_timer` | `fd.cmd_deadline`, `fd.finin_deadline`, as ticks to go; 0 once passed |
| `state`, `card`, `col`, `half`, `mode` | `g_feeder_status` |
| `lupob`, `fiden`, `pom01`, `luren` | the status lines (`status_pins.c`), logical levels |
| `sm_on`, `fifo`, `feed_irq`, `phase`, `left`, `lu`, `finin` | the presenter: enabled, TX FIFO, interrupt source, program position, tick count, output latches |
| `ge`, `got` | the machine: idle, read sent, in a transfer; characters heard |
| `prefill` | which contexts are inside `trigger_present`'s loop |
| `torn` | history: since the deck was armed an interrupt has come in between the stores of one of the main loop's handlers, to an effect that no order of whole handlers has |

| Action | Code |
|---|---|
| `ReRead`, `ReNoTransfer`, `ReResetError`, `ReCardReject` | `feeder_on_re_cmd` by groups of codes, `prepare_presentation` included |
| `Tu03Triggers`, `Tu03Advances` | `feeder_on_tu03` with and without a pending command |
| `TriggerPresent` and then `PrefillStep`, `PrefillEnd` | `trigger_present`, before, inside and after its loop |
| `TxFeed` | `feeder_on_txfeed`, one word |
| `IpcArm` ... `IpcSetPolicy` | `feeder_on_ipc`, an action per operation |
| `PollTriggers`, `PollReleases` | `feeder_poll` |
| `PollOvertaken`, `PollReentered` | its fallback, with a feed or a reject inside `advance_card`, or with a read command behind the store that turns `cmd_pending` off |
| `PollRepeats` | the fallback behind a feed that has presented a short card whole |
| `EjectOvertaken`, `EjectFed`, `ResetOvertaken` | an eject, a rewind, go or disarm, with a strobe or the TX interrupt between its stores |
| `ArmOvertaken` | an arm, rewind or go with a strobe around the store of its state, told as a step behind it |
| `PinOvertaken` | `lupob_update` in the main loop, with a strobe between the level and the pin |
| `PresentStray` | `present_next` with a cursor that has left the deck |
| `Strobe`, `Tick` | the PIO program: `pull`; one tick of strobe, gap and deadlines |
| `Clear` | the operator clears a machine that waits in vain |

`LupobUpdate` is the last conjunct of every handler because the code's last call
is `lupob_update`; it is written over the primed state, so a handler that moved
the call up, or forgot it, is a different action. `trigger_present` is split because it can
last for several characters, while strobes rise, the machine listens and commands
arrive. A character is a record naming the column it comes from and which part
of the column's byte it carries, so any loss, doubling or mixing shows.

Who comes into whom: the machine's strobes are some 100 us apart, so the RE and GPIO
handlers do not come into each other, and into the TX handler they come without harm
(`FeederNest`, statement by statement). But each of the three comes into a handler of the main
loop between any two stores. Where the outcome is that of one order of the two handlers,
there is nothing to add to the actions above. Where it is not, it is one of
the actions called `Overtaken`, which write down what is left behind: the cursor one card
too far, or outside the deck, a command that stays pending while a card is on, a card without
an interrupt, a column behind 0, a pin that shows the level of before. They set `torn`. From
then on handlers are whole again: the torn stretch is followed to show what arming makes of it,
not to list every run of it. `IpcArm` clears `torn`: a disarmed reader has no card on and no command pending, and only a strobe
that falls right around the store of `FS_ARMED_WAIT` comes into it to any effect, which `ArmOvertaken`
has as a step behind the arming. The properties say `~torn`; that the code does reach torn states, and
what they break, is what the refuted properties at the end of `FeederNestProps` state (section 6).

`Hopper` has neither FIFO nor lines nor deadlines: a deck, the card at the read
station, whether it has been read, the characters of it still to come, and those
the machine has heard. `FeederRefinement` maps *still to come* to the FIFO's words
followed by what the cursor has still to push, and *read* to `CARD_DONE` with an
empty FIFO. A torn feeder is a hopper that has `jammed`: nothing is promised of it until the next
deck is loaded.

### FeederNest

`todo[c]` holds the statements context `c` has still to execute: the RE interrupt,
the GPIO interrupt, the TX interrupt, the main loop, in this order of urgency
(`wire_rx.c:100,108`, `wire_tx.c:51`). `Body` replaces a call by the statements it
leads to with the values it has read; `Store` and `NextCard` write one field, `Push`
a word. `Loop`, `PollWaits`, `PollActs`, `PollPasses` and `Wakes` are core1's loop,
`feeder_poll` and `wfe` with the event register, which the end of a handler and
`ipc_send` set. `Read`, `Feed`, `TxTaken` start the handlers, `IpcSend` mails a rewind.
One-word cards, so `pushed` records card and column.

`cut` and `late` mark two races the code loses: an interrupt inside a rewind, a feed between
the fallback's look at a parked card and its advance. Five properties of `FeederNestProps`
are what the code says of itself there and does not keep: `RewindStorms` shows the first, and TLC refutes
each of the others when `RewindStorms.cfg` has it in the first one's place. The other six hold outside of `cut` and `late`; `BusyWhilePresenting` holds inside of them, too.

### Receiver and EventRing

`push[c]` and `pop` hold the position and the locals of `ev_push` in each context and
of `ev_pop`; `PushTime`, `PushEvent`, `PushPublish` are its stores, `log` the events in the
order of the counter. `Receiver` takes those actions inside the handlers:
`ReGets` is a pass of `pio1_irq0_handler` with the first statement of
`feeder_on_re_cmd`, `GpioTaken` and `GpioCalls` the SDK's dispatch of latched edges
and `gpio_irq_handler`, `TxTaken` and `MainLogs` the feeder's other events.
`StrobeRises` to `SmRearm` are the line and the capture program. `ImplementsRing`
is the refinement: the rest of the firmware uses the ring as `EventRing` has it, so
the theorems about `EventRing` are about the trace.

### Fat

`FatImage!ImageOf` computes the blocks of a volume from its files: boot record, FAT
entries packed in twelve bits or sixteen, directory entries with long names before their
short ones, data. `Fat` reads them: `Mount`, `NextCluster` through `fsec`, the directory
walk `w` with its buffer, `fat_read` in `call`. The host replaces blocks one at a time and
in any order (`written`), between commands, and where `ls` prints (`Printing`): there `con_printf` runs
the USB stack until the host has read enough or disconnects (`NamePrinted`, `ListPrinted`), and
nothing says that it ever does. `calm`: it has not written during the command. `stale`: a chain was followed
by a FAT sector cached before the host wrote it. `leftover`: a name was put together over
what another had left.

### Deck and Deckload

`Deck` is pure: `ProcessLine`, `CapParseFinish`, `FindLoader`, `SurgeryApply`,
`FlushCard`, `Bin2DeckFeed`, ... are the functions of those names over records for
`deck_image_t`, `cap_parser_t` and `bin2deck_t`. The index keeps its offsets and
the buffer is one sequence, because an error in an offset is what a copy can
get wrong. The text is abstracted to lines, each a header or a sequence of
tokens, each a column or not one. `Deckload` is `deckload.c` with a step for every
read (`ReadLine`, `ReadBytes`), so that it fails between any two of them
(`ReadFails`) and the next load begins from what is left. `DeckloadProps` states
the result from the files alone, without parser, offsets or builder;
`MemoryImage` runs the loader card's program on the synthesized cards, through
`transcode.c`'s decoders.

### Storage

`flash` is by block; `cache`, `dirty`, `quiet` are the fields of `cache` in
`storage.c` (`quiet`: no write for `FLUSH_IDLE_US`). `MscWrite` starts a call of
`storage_write_blocks`, `WriteBlock` and `CacheLoad` are passes of its loop,
`FlushForLoad`, `Synchronize` and `Poll` its three reasons to write back, in two steps:
`Erase` and `Program`. `PowerLoss` may come between the two, or while programming.
`FlushFails` gives up the call where `cache_load` returns false.

### Console

`pc` walks through `arm_named`: flush and mount (`Arm`), load (`LoadBegins`, `Filled`,
`LoadFails`), the message about a binary (`Printed`), `last_deck` (`Remember`, which cuts the
name to the 47 characters there is room for) and `cfg_save` (`SaveErases`, `SavePrograms`,
`SaveFails`), the warning when it failed (`Warned`), the message to core1 (`SendArm`). A deck
is a name and whether it was armed with `--raw`; the button (`Press`) has the cut name, and no
`--raw`. `Core1` takes a message. `HostWrites` and `Flush` are the drive's write callback and its
write-back, possible where core0 runs `tud_task`: in its loop, and where `con_printf` waits for room
(`UsbRuns`). Of feeder and drive it holds only what the console can see or disturb; those
have modules of their own.

## 3 The runs

Nine runs pass, three end in the violation they are there to show.

| Run | Checks | Shows |
|---|---|---|
| `FeederWild` | `FeederInv`, `CursorInDeck`, `FeedKept`, `LupobTruthful` | whatever machine and console do, before, after and between handlers and in the prefill loop: the invariant that is proved, and its parts that matter most; until the reader is torn, and again from the next arming on |
| `FeederMachine` | `Pelea`, `CommandAtRest`, `CardIntegrity`, `ImplementsHopper` | a machine that keeps to its protocol hears whole cards, in order, in one mode, with LUPOB busy from before the first strobe until after the last; the feeder, with FIFO, interrupts and deadlines, is an abstract card hopper; likewise |
| `FeederLive` | `FininOwned`, `FininFallsBetweenCards`, `ReadAnswered`, `ReadyAgain` | reads are answered, a standing FININ has an owner and comes down only between cards; cards end and the reader is ready again; unless it is torn, rewound or in error |
| `FeederNest` | `CardsInOrder`, `CardsWhole`, `FedExactlyWhilePresenting`, `BusyWhilePresenting`, `CommandsActedUpon`, `PresentationsEnd` | statement by statement, wherever a handler preempts another: cards whole and in order, fed exactly while presented, no command slept through |
| `Deckload` | `TypeOK`, `DeckIsTheCaptures`, `FeedableDeck`, `LoaderLeads`, `MemoryImage`, `RefusedForCause` | every job over a set of files gives the right deck or fails, in pieces of any size, failures and reloads included; and fails only for a reason: a read, a limit, nothing to load |
| `Storage` | `CleanCacheIsFlash`, `ImplementsBlockDevice`, `LazyFlush` | the drive is a block device that loses at most one sector to a power cut, and gets written back by itself |
| `Console` | `TypeOK`, `ArmedIsKept`, `DeckReadOnly` | with output and write-back that may fail at any point: a deck being fed is whole and untouched, and its name survives a loss of power unless a warning has said otherwise |
| `Trace` | `EveryEventCounted`, `PopsWhole`, `CommandsIntact`, `CommandBeforeFeed`, `EveryCommandHandled`, `ImplementsRing` | commands on their way from the strobe to the feeder and the trace: once each, in order, before their feeds; events counted, and whole unless overtaken |
| `Fat` | `LoadsTheFile`, `ListsTheFiles`, `CommandsEnd` | files load byte for byte and `ls` is the directory, on volumes of the tool and of a host, FAT12 and FAT16, when the host leaves the drive alone and no sector or name is left over; loads end whatever the host does, `ls` if the host reads what is printed or disconnects |
| `TunablesLost` | `TunablesInStep` | violated, as are the next two: see section 6 |
| `RewindStorms` | `IrqOnlyWhilePresenting` | violated |
| `StaleChain` | `RereadsTheResult` | violated |

Deadlock is checked in `Storage`, `Console`, `TunablesLost`, `Fat` and `StaleChain`. It is not in the
feeder's runs, those of `FeederNest` included (a reader that waits for a machine that sends nothing is at rest, not
stuck; that it does what it owes is what the liveness properties say), nor in `Trace`
(the machine stops after its last strobe), nor in `Deckload`, which stops at `MaxLoads`.

## 4 Assumptions, bounds and fairness

**The machine** (`WildGe`). With `WildGe = TRUE` commands and feeds come at any time and
nothing is heard. With `FALSE` the machine does what ARCHITECTURE.md 4-6 says: one
command at a time, the next after the transfer the last one started; a feed
after a read and before the first character, or between transfers. Safety of
the data on the wire is promised to that machine only; it is stated under this
condition because a machine that sends a read in the middle of a card gets two
half cards from any reader.

**Timing** (`DrainsInTime`). The FININ deadline starts when the last word is pushed, not
when it is strobed, so it must be no shorter than a full FIFO takes to drain
plus one character. `Pelea` and `FininFallsBetweenCards` need it; with the
defaults it is far from binding (five characters of 36 + 116 ticks of 100 ns are
76 us, the timeout is 1 ms: `ge_proto.h:73-79`), and `set` can break it (section 6).

**The console's operations** (`ConsoleOps`) differ by run, because some break a
property by design: `FeederWild` has all of them; `FeederMachine` leaves
out `EJECT` (it splices cards), and changes the policy only between cards;
`FeederLive` leaves out `REWIND` and `GO` (they leak FININ: with `REWIND` TLC finds `FininOwned` violated) and
`INJECT_ERROR` (it stops the reader on purpose).

**Console.** `Prompt`: core1 empties its queue before core0 takes its next step. Core1
needs microseconds; core0's next look at `g_feeder_status` comes after another
line over USB. Without it a second `arm` right behind a first reads a stale
`DISARMED`, which nothing in the code excludes but time; `DeckReadOnly` is then violated.
`Clogged`: the console's USB FIFO may be full, so that `con_printf` runs the USB stack.
`FlushFails`: the write-back before arming may fail (`flash_safe_execute` timing out on core1).
Both are TRUE in `Console` and `TunablesLost`; either is enough for TLC to find `FlashQuiet`
violated (section 6).

**Nesting.** In `FeederNest` the machine asks for the next card when it has heard the
last column of the one before (`asked`), and its strobes are some 100 us apart: the main
loop gets back to its top, or to `wfe`, between two of them (`struck`). A character keeps
the wire for some 15 us, and core1 is done with what it had begun at one when the next
word leaves the FIFO (`drawn`); a card is longer than the FIFO and the word on the wire
(`CardsOutlastFifo`). A deadline may be over whenever it is looked at. Stores take effect in program order; what a compiler may do
to them is not modelled.

**Capture.** A strobe lasts 1.2 us and the next comes long after the program has
come back to its start (`re_capture.pio:10-14`, ARCHITECTURE.md 4), unless the program is stalled
at a full FIFO: then the strobe is missed, and `CommandsIntact` says nothing any more.

**Bounds.**

| Constant | Value | Why it is enough |
|---|---|---|
| `Decks` | 2 or 3 cards of 3 columns (2 in `FeederWild`); loader first, or behind a title | first, middle and last card; first, middle and last column; a card longer than the FIFO in packed modes and longer by one in the others, or, in `FeederWild`, one that the FIFO holds whole, so that it ends in the prefill loop |
| `FifoDepth` | 2 (4 in the chip) | full, part full and empty; a card more than twice as long. The proofs hold for every depth |
| `WValues`, `GValues` | 0 | the strobe lasts w + 1 ticks and the gap g + 1, so nothing vanishes at 0. The proofs hold for every setting |
| `DValues` | 0 and 2; 2 in `FeederWild` | the fallback that is due at once, and one that a feed can beat |
| `FininValues` | 6; 2 in `FeederWild` | the least that meets `DrainsInTime` for those w, g and depth; in `FeederWild`, one that does not |
| `ColRange` | 256 | the width of the column counter; cards are shorter |
| `MaxCards` 6, `MaxCols` 95, `CardCols` 19, `BodyFirst` 2, `Chunk` 3, `IplMax` 9 | for 512, 40960, 80, 5, 66, 40 | captures at, below and above each limit; programs of 0 to 10 bytes cross the chunk three times, and one base crosses the end of the address space |
| `ReadSizes` | 1, 2, 4 | below, and above, a chunk |
| `MaxLoads` | 2 | each load after the remains of each other one, failed or not |
| `NSectors`, `PerSector`, `MaxCount`, `Data` | 2, 2, 2, two values | a call within a sector and one across two; old and new contents |
| `QueueDepth` | 2 (16) | full and not full |
| `Captures`, `Batches`, `Bins`, `Values` | two captures, a batch and a binary; two values | the ways of arming, with `--raw` and without; a name that is cut to one that another file has (`Cut`, in the configurations); the default and another. The proofs hold for any names |
| `torn` | one overtaken handler between two armings | what a second one makes of the state is not told apart |
| `NCards` 3, `NCols` 3, `FifoDepth` 1 (`FeederNest`) | for up to 512, 80, 4 | the shortest card that outlasts the FIFO; a card to skip to, and the deck's end. The proofs hold for every deck and depth |
| `MaxStrobes` 6, `MaxRewinds` 1 | - | three cards each with command and feed, or fewer with feeds too many; a rewind anywhere in them. The proofs hold for any number |
| `RingLen` 2 | for 1024 | overtaken by one event, and by a whole round; the proofs hold for every length |
| `RxDepth` 1, two commands each once, `MaxExtra` 1 | for 4 | a stalled program; two levels nested in a third; one feed or event of another context among them |
| `BS` 8, `EntSize` 4, `LfnLen` 2, `NameMax` 5, `Fat16From` 10 | for 512, 32, 13, 64, 4085 | entries of FAT12 across two sectors, a chain out of order, two sectors to a cluster, names of one part and of two and longer than the buffer |

**Fairness.** `Feeder!Fairness`: weak fairness of `Tick` and `Strobe` (the PIO runs off the
system clock), of `TxFeed` (an interrupt that stays pending is taken), of the
prefill loop and of `PollTriggers`, `PollReleases` (core1's loop comes round: it
does not sleep while a deadline is pending, `core1_main.c:41-42`). None for the machine's commands and feeds, none
for the console: every liveness property holds though they may fall silent.
`Storage!Fairness`: weak fairness of a call's own steps, of `storage_poll` in core0's
loop, and of time. None for the host, for failures or power; `LazyFlush` is for
a host that stops writing, since each write restarts the delay. `Hopper!Spec` has
weak fairness of delivering the next character of a hopper that is not jammed: part of what is
refined.
`FeederNest!Spec`: weak fairness of core1 and of the state machine; strong fairness of taking
the TX interrupt, which a more urgent one only holds up, and of finding a deadline over
that is looked at again and again. `Receiver!RxSpec`: weak fairness of core1's handlers;
none for the machine or for core0. `Fat!Spec`: weak fairness of a command's own steps; none
for the host, and so none for the steps behind a `con_printf`: `CommandsEnd` has a host that takes the
output in the end as a premise, for `ls`, and no premise for a load.

## 5 What is proved

Eight modules of proofs, checked by TLAPS. Each theorem holds for every value of the
constants that meets the named assumptions, which TLC evaluates in every run.

| Theorem | States |
|---|---|
| **`FeederProofs`** | |
| `FeederInvHolds` | `Spec => []FeederInv`, the inductive invariant; `FeederWild` checks it |
| `TypeCorrect` | types, torn or not; the FIFO never exceeds its depth |
| `ArmingFindsRest` | torn or not: a disarmed reader has no deck, and without a deck the presenter is off and FININ down |
| `CursorStaysInDeck` | unless torn, as the next two: `present_next` never indexes outside the deck, and a card begins at its first half column |
| `FeedHolds` | a card under way is being fed, and the FIFO interrupt is on only then |
| `HandshakeTruthful` | LUPOB is what `lupob_update` computes; the presenter runs exactly while armed |
| **`ProtocolProofs`** | *under* `Protocol`, and unless torn |
| `WireInvHolds` | the inductive invariant of wire and protocol, on top of `FeederInv` |
| `PeleaHolds` | LUPOB is busy while a strobe is out or a word is queued |
| `CommandsWaitAtRest` | a command waits for its card only with the wire at rest and no FININ standing |
| `FininIsOwned` | a standing FININ has a flag, so somebody will lower it; *and* `NoRewinds` |
| `FininFallsAtRest` | it comes down only between cards; *and* `NoRewinds` |
| `ImageInvHolds` | heard, queued and still to be pushed fit together as one image; *and* `NoSplices` |
| `CardsHeardWhole` | cards are heard whole, in order, in one mode; *and* `NoSplices` |
| `FeederImplementsHopper` | `Spec => HopperSafety`: the refinement of the run, less the hopper's fairness, to a hopper that jams when the feeder is torn; *and* `NoSplices` |
| **`FeederNestProofs`** | |
| `NestInvHolds` | where the nested contexts can be, and what f and the FIFO are then; *under* `CardsOutlastFifo`, as the next three |
| `CardsStayWhole` | no column left out or doubled, whatever preempts whatever |
| `FedWhilePresenting` | with nothing under way the TX interrupt is on exactly while a card is presented |
| `CardsKeepOrder` | the machine hears the cards one after the other, from the loader |
| `BusyInvHolds` | while a card is presented and the pin says ready, a context is about to clear it; under no condition |
| `BusyAtRest` | with nothing under way LUPOB is never ready while a card is presented, not even after a rewind that was interrupted |
| **`StorageProofs`** | |
| `StorageInvHolds` | types, and that a clean cache is the flash |
| `CleanCacheHolds` | `CleanCacheIsFlash` of the run |
| `DriveIsBlockDevice` | `Spec => ImplementsBlockDevice`, the whole refinement |
| **`DeckloadProofs`** | |
| `DeckloadInvariant` | the inductive invariant of loading |
| `DeckloadTypes` | limits and types, at every step and after every failure |
| `DecksAreTheCaptures` | a loaded deck is the captures' cards, less what the recipes take out |
| `LoadedDecksFeed` | it has a first card, and none without columns |
| `LoadersLead` | the feed starts at a marked loader card whenever the capture has one near its front |
| `RefusedOnlyForCause` | a load that no read stops is refused only if there is no room for its files |
| `DecksLoadTheProgram` | a synthesized deck loads the program where it belongs, a jump to it at 0, and nothing else |
| `ColumnBinary`, `HexColumn` | decode(encode(b)) = b, for every byte and every nibble |
| **`ReceiverProofs`** | |
| `RingCorrect` | the inductive invariant of ring, pushes and pop |
| `Counted` | the counter is the number of events pushed, however contexts nest |
| `Kept` | every unread event that is less than a ring's length behind is in its slot |
| `PoppedWhole` | a pop returns the oldest event held, whole, unless overtaken |
| `ReceiverCorrect` | the inductive invariant of capture program, FIFO, handlers and ring |
| `CommandsArrive` | strobed commands are delivered or in the FIFO, in order, until one is missed |
| `CommandsBeforeFeeds` | the feeder gets no feed before the commands captured ahead of it |
| `HandlersUseTheRing` | `RxSpec => ImplementsRing`: the handlers' pushes and core0's drain are steps of `EventRing` |
| `TraceWhole` | so `Counted`, `Kept` and `PoppedWhole` hold of the trace |
| **`ConsoleProofs`** | |
| `TypesHold` | types; the queue never exceeds its depth, however late core1 is |
| `ArmedDeckIsKept` | an armed deck's name is in the configuration and in the flash, or a warning has been given; *under* `Prompt`, as the next |
| `DeckIsReadOnly` | a deck being fed is whole, and nobody touches it until it is disarmed |

**Feeder.** From `FifoAssumption`, `WildGeAssumption`, `DecksAssumption` and `ParamsAssumption`:
a FIFO of at least one entry, decks of at least one card with at least one column
each and a loader card in range or none (what `Deckload`'s `FeedableDeck` checks of
every loaded deck), parameters that are numbers; both kinds of machine. None of the
parts of `FeederInv` but types is inductive alone:

- `CursorInDeck` at a trigger needs that a deck is armed whenever a command is
  pending, and at a push that one is whenever a card is presented
  (`SmFollowsDeck`); after the last column it needs that the column goes back to
  0, and that `advance_card` compares with the number of cards before it counts.
- `CursorAtStart` needs that every way by which `presenting` falls resets the
  column: the end of a card inside `present_next`, and `cursor_reset`. It is what
  `trigger_present` relies on.
- `NoIrqStorm` and `FeedKept` are the two directions of *the interrupt is on when it is
  needed*; the second has to hold through the prefill loop, in which a card can
  begin and end.
- `SmFollowsDeck` carries the disarmed reader: nothing queued, pending, presented.

Every part but `TypeOK` and `DisarmedAtRest` has `~torn` in it; those two hold in torn states,
with a cursor anywhere (`TypeOvertaken`). They are what the way back needs: arming finds no deck, an
idle presenter and FININ down (`DisarmedAtRest`), stores every field it relies on, and so
has all of `FeederInv` again (`ArmMends`). A rewind does not: it is no way out of a torn state.

The proof has one lemma per part (`TypeStep`, `CursorInDeckStep`, ...) and in each one
step per action. `NextColumn` covers the wrap of the 8-bit column counter, and
`PushType` a push to a full FIFO, which drops the word.

**Protocol.** From the same assumptions and `Protocol`: a machine that keeps to its
protocol (`~WildGe`), a FININ timeout no shorter than the FIFO takes to drain
(`DrainsInTime`), and cards longer than the FIFO (`CardsOutlastFifo`). The last is needed
because a whole card in the FIFO is over, for the feeder, before the machine has heard any of
it: a second feed before the first strobe then finds `CARD_DONE`, lowers FININ and
advances while all of the card is queued, and LUPOB is ready at once
(`feeder.c:278-283`). TLC finds `Pelea` violated so with cards of two columns and a FIFO of
two; in the chip it takes a card of at most four characters, and two feeds closer
together than the first strobe is to its trigger, which `Ge` does not exclude. `WireInv`
adds to `FeederInv`

- `Listening`, `CommandRests`: an idle machine has nothing on its way to it, and a pending
  command waits with wire and FIFO empty. Together they are `CommandAtRest`;
- `NothingHeard`: until the first character is heard all that was pushed is still
  queued, so that the presentation cannot be over (this is where `CardsOutlastFifo`
  enters);
- `LastWord`, `Owned`: only the last word of a card carries FININ, and from its push on
  FININ is pending; so LUPOB, which looks at `presenting` and `finin_pending`, covers
  the words queued and the one on the wire. That is `Pelea`;
- `Timed`: the deadline is farther away than the wire needs for what is queued, at
  the longest character any setting allows (`LongestChar`; `LongestCharFacts` shows by
  the least-element principle that there is one);
- `DisarmedEmpty`: a disarmed reader has no deck, and its cursor is at the start.

The invariants hold unless `torn`, and again after `IpcArm` (`ArmResets`); that an overtaken
handler takes FININ down between cards only, as whole ones do, is `OvertakenFallsAtRest`.

The steps are sorted by what they do to a card under way (`StepKinds`): pushes,
triggers, reads, releases of FININ, resets, the wire's own two, and all others. One lemma
per kind. `FininInv` (FININ stands only after the whole card) gives the two theorems
on FININ; a rewind or go breaks it, hence `NoRewinds`. `ImageInv` says that heard
plus queued is the beginning of the card's image up to the cursor, in the mode in which
the card was begun; a policy change or an eject in the middle of a card breaks it, hence
`NoSplices`.

**Hopper.** What the abstract reader has still to deliver is the FIFO and what the cursor has
not pushed. `RestFacts` is the one equation about it: while a card is under way it is what
its image has after the characters heard. So a push changes nothing abstract, the strobe
delivers the head, a trigger begins the next card, a feed past a finished card and
the console's operations are the hopper's of those names, and all else is a stutter; an overtaken
handler jams the hopper, and arming loads it. Enabledness of
delivery, and with it the hopper's fairness, stays with TLC.

**Nesting.** From `NestAssumption`. `NestInv` lists the stacks `todo[c]` can have, for each
context (`AtMain`, `AtTx`, `AtGpio`, `AtRe`), and with each of them the values of the
flags, the FIFO and the columns pushed (`Data`), as long as no interrupt has fallen into
a rewind (`cut`); `AtRewind` is the rewind itself, store by store. What makes it inductive:

- the contexts inside a card exclude each other: the TX interrupt is on only when
  the prefill loop is over, and no feed or command begins a card while one is on;
- the one exception is `Stale`. The fallback has looked at a pending command, a feed comes in
  and begins the card, and the main loop goes on to begin it too. `present_card` then
  finds `PRESENTING`, provided that the feed's handler has not ended the card in the
  meantime. `CardsOutlastFifo` (more columns than the FIFO and one more hold) and `drawn`
  say that it has not. With a card one column shorter TLC finds the next card begun, with no
  command, while the first is still queued (section 6), which no place of `NestInv`
  allows, though it finds no violation of the run's properties; without `drawn` it finds
  `FedExactlyWhilePresenting` violated;
- the cursor is one column ahead of `pushed` or level with it according to the
  statement a context is at (`Cursor`), and `due` counts the cards that have ended.

The proof runs one context after the other over lemmas for each call (`CallFinin` ...
`CallUpdate`), each store (`Stored...`), and the effects they have (`FillStep`,
`EndedStep`, `AdvanceStep`, `StartStep`, `PollStep`).

`BusyInv` is independent of all that and holds with no hypothesis. It does not say where a
context is, only which statements it can have before it (`Stmts`, `TxStmts`, ...), that
*set presenting* is followed by *update the pin* (`Starting`), and that a store to the pin
follows its computation at once (`Shape`). A context about to set the pin has computed
*ready*, so no card is presented; none begins before the store, because only a
pending command begins one, a command that comes in then has its strobe to itself
(`struck`), and a feed that finds no command has only `QuietStmts` before it
(`SetsAtRest`). Hence `PinOwed`: presented and *ready* at once only while some context
is about to clear the pin, which at rest none is.

**Drive.** From `StorageAssumption`; sectors of any number and size, calls of any length.
The disk of `BlockDevice` is what `storage_read_blocks` would return, block by block.
Each step maps to one of the abstract device or to a stutter: a write of one block
changes that block (`WriteBlockWrites`, which needs `CleanCacheIsFlash`: the rest of the
sector it caches is what the flash held); loading a clean sector and erasing a dirty
one are hidden by the cache; programming settles the sector; a loss of power
turns the blocks of the dirty sector, and no other, into what the flash has of them.

**Ring.** From `RingAssumption`; rings of any length, any contexts above each other, any events.
The invariant adds to the run's properties who may be writing (`Writer`: the lock is
held exactly by the one context that is between its first store and its last, and
that one works on the slot behind the last event) and what the reader has copied
(`Reader`: parts of the event it counts, unless overtaken). The step that needs both is a
store to the event that `PopEvent` is about to copy.

**Receiver.** From `ReceiverAssumption` and `TraceAssumption`. `Stacked` says that a context
inside `ev_push` has been entered and none above it has, so that the interrupt
lock of `EventRing` is what the nesting gives; `Caught` that a command captured before a
feed has been delivered or is in the FIFO. With the FIFO's interrupt the most urgent, the
feed's handler runs only when it is empty: that is `CommandBeforeFeed`. Each push and pop
is a step of `EventRing` and everything else a stutter, so the ring's theorems carry
over without being proved again.

**Folds.** Parser, surgery and synthesis are folds of an operator over lines, tokens, cards
or bytes, and so is what `DeckloadProps` compares them with. The community modules define a
fold by a recursive function, that is by CHOOSE. `Folding` shows by induction
over the length, from the least-element principle, that the function exists
(`IteratesExist`), that the fold is the last of its steps (`FoldSteps`), and so `FoldInvariant`,
induction over a sequence.
The operator is the module's constant; an instance of the module for each of the
model's operators (`Tokens`, `Filled`, `Dealt`, ...) has its theorems, and one lemma each
(`TokensFold`, ...) says that the model's `FoldLeft` is that instance's `Fold`.

**Loading.** From `DeckAssumption` and `DeckloadAssumption`: limits that are positive, a card with
room for a chunk and its header or for a loader of its own, an address space of 16 bits,
a loader card of `CardCols` columns; captures of any lines with any tokens, batches of at least one
source, programs of any bytes. Nothing is assumed of the cards. `DeckloadInv` has seven parts.
Those that hold at every step, a failed load and its remains included, are `JobInv`, `ScratchInv` and `DeckInv`:
cards lie in the buffer one behind the other (`ImgOK`). The others follow the job:

- `ParseInv`: the parser's cards are those of the lines read. `Parsed!Fold` says what they are
  card by card, with the empty ones; `PunchedFacts` and the lemmas before it show
  that without the empty ones they are `Punched`, which looks at the lines section by section;
- `KeptInv`: the destination is `DeckOf` the sources so far. `PicksFacts`
  has what a recipe picks as `Kept` has it, and `DealtFacts` that the copy goes through or is reported;
- `SynthInv`: the bytes read are in the memory that the deck so far loads, or on the card that is being
  filled (`Placed`), wherever pieces and cards end. A card moves its payload (`ScatterDecoded`), because
  the decoder takes back each column: the rows that `ByteToCol` punches differ
  (`RowsDiffer`), so each adds its own power of two (`BitsFacts`).

`RefusedForCause` needs a second invariant, `RoomInv`: what room is taken, the file takes. The columns
of an image are those of its cards (`Packed`), and the cards of a program are full ones
(`Evenly`). A line refused is then one header or one column too many of a capture whose lines so far
are counted in `ParsedCards` and never lose a column by another (`LineRefused`, `ParsedGrows`); a
recipe that fails has not the cards it takes out, or its deck has not the room (`SurgeryRoom`);
a card that cannot be flushed comes behind *c* others, which the program fills to the last byte, so
that the whole of it ends behind the address space or wants more cards than there are
(`Overrun`, `OverrunGrows`).

**Console.** From `ConsoleAssumption`, with any names, cut in any way, output that clogs and
write-backs that fail. Types need no more. For the other two, under `Prompt`, a step of core0 finds
the queue empty, so at most one message is on its way (`OneMessage`) and what core0 saw of the
feeder's state when it began to arm is still so when it sends the message; while a deck is
armed core0 is in its loop (`ArmedRests`). `Arming` follows the deck and its name from the check
to the message, and `Kept` says at its end that the sector has the name or the warning is out.

**Only model-checked.** Liveness, and the fairness in what `Hopper` promises: outside
what TLAPS proves. `LoadsTheFile` and `ListsTheFiles` of `Fat`, over the volumes of `MCFat`:
what they need first is a theory of `FatImage`'s layouts. Every other safety property of
a passing run is a theorem above.

## 6 Where code and documents disagree

Three runs end in a violation of what the repository says of itself, each quoted in
`PROJECT.json` `findings`.

- `RewindStorms`. A rewind, go or arm in the middle of a card clears `presenting` long
  before `wire_tx_arm` turns the FIFO interrupt off. A word that leaves the FIFO in between
  raises an interrupt that finds nothing to push and is raised again at once; on the
  chip the main loop never gets to the store that would end it. `wire_tx.c:26-27`:
  the interrupt is "enabled only while a card is being presented".
- `TunablesLost`. Saved tunables are loaded into `g_cfg` and shown by `status`, but never
  sent to the feeder, which starts with the compiled defaults (`feeder.c:58`).
- `StaleChain`. `next_cluster` keeps a FAT sector over mounts and host writes
  (`fat_ro.c:51-66`), so a rewritten file may be followed by its old chain.
  `fat_ro.h:6-7`: "this driver re-reads the result".

The others have no run of their own. Where a property is named, TLC refutes it when it takes the
place of the property of `RewindStorms.cfg` (the feeder's) or `TunablesLost.cfg` (the console's).

Interrupts inside handlers (`FeederNestProps`; in `Feeder`, the actions `Overtaken`):

- `PresentsCardsOfTheDeck`. A TU03N between the test and the increment of the fallback's
  `advance_card` (`feeder.c:109-114`) advances too: a card is skipped, and at the end of the deck the
  cursor leaves it, and what lies behind is presented. `feeder.c:104`: FS_DONE and FIDEN "once the
  deck is exhausted".
- `BusyFromCommandAccept`. `lupob_update` computes *ready*, a read command comes in, and the pin is set
  after it (`feeder.c:87-90`): ready until the card begins. `feeder.c:82-84`: "busy (low) from
  command-accept".
- `KeptFed`. A TU03N that triggers inside a rewind, or go, leaves `presenting` set with the
  interrupt off (`feeder.c:318`, `wire_tx.c:66`): busy and stalled until another rewind.
  `feeder.c:216`: "TXNFULL keeps it fed from here".
- `FromFirstColumn`. A FIFO interrupt between `cursor_reset`'s stores (`feeder.c:47-53`) leaves the
  column behind 0, and the card after it lacks its beginning, which `feeder.c:42-44` is about.
- A second read command while the first one's fallback is being triggered stays pending
  during the card it should follow (`PollReentered`).
- A feed that comes in after the fallback has decided to begin a card can, if the card has no more
  columns than the FIFO holds and one, present all of it before the main loop goes
  on (`feeder.c:187-198`). The main loop then begins the next card, with no command
  (`PollRepeats`). The parser takes cards of any number of columns.

Session control (`Console`):

- `ButtonRearms`. The button arms without `--raw` (`console.c:219`), and by a name of
  at most 47 characters (`console.c:176`), where a file's may have 63 and `@base` behind it.
  `console.c:206`: "re-arm the last armed deck".
- `FlashQuiet` (an action property: `PROPERTIES` in the cfg). A block the host writes while `arm_named`
  prints is written back 500 ms later, armed or not (`storage.c:116`), and so is one whose write-back
  failed before (`console.c:146`). ARCHITECTURE.md:273-276 says flash is written only while disarmed;
- `arm` saves values that were only `set` (`console.c:178`);
- `con_printf` waits without a limit for a connected host to read (`console.c:49-58`), and core0's
  loop with it: lazy flush, trace and button stand still.

In the feeder otherwise:

- `cursor_reset` (`feeder.c:51`) clears the flag of a standing FININ without
  lowering the pin: after a rewind or go nobody owns it, and it stays up until the next
  card's first word. `feeder.c:93-95`: it "must not leak into the next card". `FininOwned` of
  `FeederLive` fails with `REWIND` among `ConsoleOps`;
- `IPC_EJECT` (`feeder.c:326`) moves the cursor during a presentation too: the transfer
  goes on with the next card's columns. `ipc.h:28`: "skip current card". `CardIntegrity` fails
  with `EJECT` among `ConsoleOps`;
- a FININ timeout that breaks `DrainsInTime` (`set finin`) takes the pin down before
  or during the last strobe (`feeder.c:161`; ARCHITECTURE.md:125-128);
- a policy change between the two characters of a column loses the low nibble
  (`feeder.c:339`); the runs that rely on whole cards change it between cards;
- `FS_DONE` is shown as busy (`feeder.c:89`), where ARCHITECTURE.md:176 has it ready;
- RESET_ERROR after the end of the deck makes the reader ready with FIDEN still up
  (`feeder.c:249`);
- an injected error during a card is overwritten by the card's end
  (`feeder.c:162`);
- a card of more than 256 columns would never end: the column counter is a byte
  (`feeder.c:153`), a card's column count is not.

Elsewhere:

- each card's copy in the hole-art section counts against `DECK_MAX_CARDS` until
  the end of the file (`deck.c:56`), so a full capture of more than 256 cards is refused;
  `deckimg.h:4-5,16` and ARCHITECTURE.md:280 promise more;
- `ev_pop` copies a slot that core1 may be writing when the ring is full, and nobody
  checks afterwards (`monitor.c:55-63`): a line of the trace can have the time of one event
  and the kind of another. `PopsWhole` excludes it in so many words;
- `EV_TU00_EDGE` is meant to come before its command (`events.h:24-26`); the command's
  interrupt is the more urgent one, and logs first;
- a long name is not cleared when its entries turn out to belong to nothing
  (`fat_ro.c:142-153`): one that fills its last part, without a terminator, gets the tail of
  another. `fat_ro.h:43-44` promises the long name;
- `deckimg.h:50-52` describes the loader search as 0..3, else 0; `deck.c:143-145` looks
  at one more card and falls back to the second;
- SYNCHRONIZE CACHE reports success when the flush failed (`usb_composite.c:97`);
- the header comment of `usb_composite.c` says writes are refused.

## 7 What is not modelled

- *Nesting of interrupts*, statement by statement, in the operations `FeederNest` leaves out: modes,
  rejects, errors, the console's operations but for the rewind, and FININ's pin. `Feeder` has what it
  leaves behind as the actions `Overtaken`, once between two armings. What a compiler may do to the
  order of stores to fields that are not `volatile` is left out everywhere.
- *Wrap-around of 32 bits*: the ring's counters after 2^32 events, a block number times
  the block size in `storage_read_blocks`.
- *Statistics*: the counters of `status`, which no decision reads, and the text of a trace line.
- *Text.* Lines over `CAP_LINE_MAX`, the console's editing and output, the
  other console commands, which send the messages `Feeder` models.
- *Tables and offline code.* USB descriptors, the tests, the tools but for the layout of
  `mkfatimg`'s volumes and of `capstrip`'s captures.

Written differently from the code on purpose: constant ticks of the PIO
program between `pull` and strobe are part of the step that starts the strobe;
`bin2deck_feed` copies in pieces where `FeedByte` takes bytes, with a flush at the same
place; the deadlines are counters to zero where the code compares 64-bit times.

## 8 Plan

Order: the protocol first, since a wrong character on the wire is what the reader
exists to avoid; then what it is fed with; then where that is kept; then who
decides; then what happens inside a handler, on the way to it, and to the files. Those are
done. Next:

1. `FeederNest`: the modes and the FININ pin, so that `Feeder`, with its
   `Overtaken` actions, becomes its abstract specification.
2. `Console`: the wake-up of core1 by each message.
3. The column counter at its width, with cards of 256 columns and more, as decks
   that `Deckload` can build.

Proofs: `Fat`: that `ImageOf` lays out what `Mount` and `NextCluster` read back, and from it `LoadsTheFile`.
