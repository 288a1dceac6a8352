------------------------------- MODULE Feeder -------------------------------
(***************************************************************************)
(* The reader-side protocol engine of core1, src/src/feeder.c, on top of   *)
(* the presenter (module Presenter) and facing the GE-120 (module Ge).     *)
(*                                                                         *)
(* Contexts.  Everything runs on core1: the RE-command interrupt, the      *)
(* TU03N interrupt, the TX-FIFO interrupt (in falling priority) and the    *)
(* main loop, which takes console operations from the IPC queue and polls  *)
(* the two deadlines.  A handler that nothing comes into is one action,    *)
(* except that trigger_present is split where it can last: its busy-wait   *)
(* and prefill loop, during which the wire and every context of higher     *)
(* priority go on.                                                         *)
(*                                                                         *)
(* Preemption.  The machine's strobes are some 100 us apart, so the RE and *)
(* TU03N handlers do not come into each other, and they come into the TX   *)
(* handler without harm (FeederNest, statement by statement).  But one of  *)
(* them, or the TX handler, comes into a handler of the main loop between  *)
(* any two stores.  What that leaves behind, when it is not what one of    *)
(* the two orders leaves, are the actions called Overtaken.  They set      *)
(* `torn', a history variable that arming a deck clears.  Afterwards       *)
(* handlers are whole again: torn behaviours are followed to show what     *)
(* arming makes of them, not to list every one.                            *)
(*                                                                         *)
(* Not represented: the event log and the statistics counters, which no    *)
(* decision of the feeder reads; s_ticks and auto_rewind, which nothing    *)
(* reads; IPC_SET_PARAM's words for them.                                  *)
(***************************************************************************)
EXTENDS Presenter, Ge, Cards

CONSTANTS
    ColRange,       \* values of the column counter (256: it is a uint8_t)
    WValues, GValues, DValues, FininValues,  \* what `set' may choose
    WDef, GDef, DDef, FininDef,              \* feeder_init's defaults
    ReCommands,     \* commands the machine sends
    ConsoleOps      \* operations the console sends

ASSUME ParamsAssumption ==
    /\ ColRange \in Nat \ {0}
    /\ WValues \subseteq Nat /\ GValues \subseteq Nat
    /\ DValues \subseteq Nat /\ FininValues \subseteq Nat
    /\ WDef \in WValues /\ GDef \in GValues
    /\ DDef \in DValues /\ FininDef \in FininValues

VARIABLES
    deck,               \* fd.deck
    state,              \* g_feeder_status.state, .card, .col, .half, .mode
    card, col, half, mode,
    latched_mode,       \* fd.*
    post_loader_colbin,
    presenting, cmd_pending, finin_pending,
    cmd_timer,          \* ticks to cmd_deadline, 0 when no command is pending
    finin_timer,        \* ticks to finin_deadline, 0 when no FININ is
    d_us, finin_to_us, w_ticks, g_ticks,
    lupob, fiden, pom01, luren,     \* status pins, logical levels
    prefill,            \* contexts inside trigger_present's prefill loop
    torn                \* history: since the deck was armed an interrupt has come
                        \* into the stores of one of the main loop's handlers

cursor == <<card, col, half>>
params == <<d_us, finin_to_us, w_ticks, g_ticks, post_loader_colbin>>
modes  == <<mode, latched_mode>>
flags  == <<presenting, cmd_pending, finin_pending, cmd_timer, finin_timer>>
pins   == <<fiden, pom01, luren>>

smVars == <<sm_on, fifo, feed_irq, phase, left, lu>>

fdVars == <<deck, state, cursor, modes, params, flags, lupob, pins, prefill>>

sysVars == <<wireVars, geVars, fdVars>>

vars == <<sysVars, torn>>

----------------------------------------------------------------------------
(* Modes and words.                                                        *)

\* Mutant: a mode-select corrupts the loader card.
EffectiveMode_NoLoader(c) ==
    IF post_loader_colbin THEN "COLBIN" ELSE latched_mode

\* effective_mode: the loader card always reads in TC_HEX.
EffectiveMode(c) ==
    IF c = deck.loader_card    THEN "HEX"
    ELSE IF post_loader_colbin THEN "COLBIN"
                               ELSE latched_mode

\* The word present_next pushes for the cursor.  FININ rides the last
\* character of the card.
NextWord ==
    LET m == EffectiveMode(card) IN
    PresenterWord(CharAt(card, m, col, half),
                  LastCol(deck, card, col) /\ (Packed(m) => half = 1),
                  w_ticks, g_ticks)

\* Mutant: off by one at the end of the deck.
LastCard_Late == card >= deck.n_cards

LastCard == card + 1 >= deck.n_cards

----------------------------------------------------------------------------
(* The file's helpers, as parts of actions.                                *)

\* Mutant: a FININ still standing does not keep the reader busy.
Ready_IgnoresFinin ==
    /\ deck # NoDeck
    /\ ~presenting /\ ~cmd_pending
    /\ state \in {"ARMED_WAIT", "CARD_DONE"}

\* lupob_update, the single point of truth of the per-card handshake.
Ready ==
    /\ deck # NoDeck
    /\ ~presenting /\ ~cmd_pending /\ ~finin_pending
    /\ state \in {"ARMED_WAIT", "CARD_DONE"}

\* Mutant: the line is updated before the state changes.
LupobUpdate_TooEarly == lupob' = Ready

\* Computing the level and putting it are two statements: PinOvertaken.
LupobUpdate == lupob' = Ready'

\* Mutant: the half column survives.
CursorReset_KeepsHalf(c) ==
    /\ card' = c /\ col' = 0 /\ UNCHANGED half
    /\ presenting' = FALSE
    /\ cmd_pending' = FALSE   /\ cmd_timer' = 0
    /\ finin_pending' = FALSE /\ finin_timer' = 0

\* cursor_reset, for the deck that is armed after the step; IPC_GO then
\* overrides the card.  It stores field by field: ResetOvertaken.
CursorReset(c) ==
    /\ card' = c /\ col' = 0 /\ half' = 0
    /\ presenting' = FALSE
    /\ cmd_pending' = FALSE   /\ cmd_timer' = 0
    /\ finin_pending' = FALSE /\ finin_timer' = 0

\* Mutant: the flag goes down, the pin stays up.
FininRelease_FlagOnly ==
    finin_pending' = FALSE /\ finin_timer' = 0 /\ UNCHANGED finin

\* finin_release: the standing FININ, if there is one, is taken down.
FininRelease ==
    /\ finin_pending' = FALSE
    /\ finin_timer' = 0
    /\ IF finin_pending THEN WireTxReleaseFinin ELSE UNCHANGED finin

\* advance_card: the next card, or FS_DONE and FIDEN after the last one.  The
\* main loop's may be overtaken by another between test and increment.
AdvanceCard ==
    /\ col' = 0 /\ half' = 0
    /\ IF LastCard
       THEN state' = "DONE" /\ fiden' = TRUE /\ UNCHANGED card
       ELSE state' = "ARMED_WAIT" /\ card' = card + 1 /\ UNCHANGED fiden

\* The end of present_next's last column.
CardEnds ==
    /\ presenting' = FALSE
    /\ finin_pending' = TRUE /\ finin_timer' = finin_to_us
    /\ state' = "CARD_DONE"
    /\ feed_irq' = FALSE

\* present_next: push the cursor's word, move the cursor on; after the last
\* column the card is done and its FININ has to be released in time.  A torn
\* cursor may be out of the deck: PresentStray.
PresentNext ==
    /\ card < deck.n_cards
    /\ WireTxPush(NextWord)
    /\ IF NextWord.char.part = "hi"
       THEN half' = 1 /\ UNCHANGED col
       ELSE half' = 0 /\ col' = IF NextWord.fini THEN 0 ELSE (col + 1) % ColRange
    /\ IF NextWord.fini
       THEN CardEnds
       ELSE UNCHANGED <<presenting, finin_pending, finin_timer, state, feed_irq>>
    /\ UNCHANGED <<sm_on, phase, left, lu, finin, geVars, deck, card, modes,
                   params, cmd_pending, cmd_timer, lupob, pins>>

\* trigger_present, up to its prefill loop, which context ctx then enters.
\* A card that is done makes room for the next one first.
TriggerExhausted ==
    /\ state = "CARD_DONE" /\ LastCard
    /\ AdvanceCard
    /\ UNCHANGED <<mode, pom01, presenting, prefill>>

TriggerRefused ==
    /\ state \notin {"CARD_DONE", "ARMED_WAIT"}
    /\ UNCHANGED <<state, cursor, mode, fiden, pom01, presenting, prefill>>

\* The card is on, in the mode of card c.
Presents(ctx, c) ==
    /\ state' = "PRESENTING"
    /\ presenting' = TRUE
    /\ mode' = EffectiveMode(c)
    /\ pom01' = Packed(EffectiveMode(c))
    /\ prefill' = prefill \cup {ctx}

TriggerPresents(ctx) ==
    /\ \/ state = "ARMED_WAIT" /\ UNCHANGED cursor
       \/ /\ state = "CARD_DONE" /\ ~LastCard
          /\ card' = card + 1 /\ col' = 0 /\ half' = 0
    /\ Presents(ctx, card')
    /\ UNCHANGED fiden

TriggerPresent(ctx) ==
    /\ cmd_pending
    /\ cmd_pending' = FALSE /\ cmd_timer' = 0
    /\ TriggerExhausted \/ TriggerRefused \/ TriggerPresents(ctx)
    /\ UNCHANGED <<smVars, deck, latched_mode, params, luren>>
    /\ LupobUpdate

----------------------------------------------------------------------------
(* feeder_on_re_cmd, the RE-capture interrupt: one handler per group of    *)
(* command codes, and LUPOB refreshed at its end.                          *)

\* Mutant: the next command does not release the FININ.
ReadAccepted_NoRelease ==
    /\ deck # NoDeck /\ state \in {"ARMED_WAIT", "CARD_DONE"}
    /\ UNCHANGED <<finin, finin_pending, finin_timer>>
    /\ cmd_pending' = TRUE
    /\ cmd_timer' = d_us

\* prepare_presentation takes a read command only while no card moves.
ReadAccepted ==
    /\ deck # NoDeck /\ state \in {"ARMED_WAIT", "CARD_DONE"}
    /\ FininRelease
    /\ cmd_pending' = TRUE
    /\ cmd_timer' = d_us

ReadIgnored ==
    /\ deck = NoDeck \/ state \notin {"ARMED_WAIT", "CARD_DONE"}
    /\ UNCHANGED <<finin, finin_pending, finin_timer, cmd_pending, cmd_timer>>

Latches(re) ==
    latched_mode' = CASE re \in {"READ_NORMAL", "READ_MIXED"} -> "NORMAL"
                      [] re \in {"READ_BINARY", "PUT_BINARY"} -> "COLBIN"
                      [] OTHER                                -> latched_mode

IsRead(re) == re \in {"READ_UNCHANGED", "READ_NORMAL", "READ_MIXED", "READ_BINARY"}

OnRead(re) ==
    /\ IsRead(re)
    /\ GeMayCommand /\ GeReads
    /\ Latches(re)
    /\ ReadAccepted \/ ReadIgnored
    /\ UNCHANGED <<smVars, deck, state, cursor,
                   mode, params, presenting, pins, prefill>>

\* PUT_BINARY only latches its mode; the codes of "NO_ACTION" (EXAM,
\* NO_FUNCTION and every unknown one) only refresh LUPOB.
OnNoTransfer(re) ==
    /\ re \in {"PUT_BINARY", "NO_ACTION"}
    /\ GeMayCommand
    /\ Latches(re)
    /\ UNCHANGED <<wireVars, geVars, deck, state, cursor, mode, params, flags,
                   pins, prefill>>

OnResetError(re) ==
    /\ re = "RESET_ERROR"
    /\ GeMayCommand
    /\ luren' = FALSE
    /\ state' = IF state # "ERROR"     THEN state
                ELSE IF deck # NoDeck  THEN "ARMED_WAIT"
                                       ELSE "DISARMED"
    /\ UNCHANGED <<wireVars, geVars, deck, cursor, modes, params, flags, fiden,
                   pom01, prefill>>

OnCardReject(re) ==
    /\ re = "CARD_REJECT"
    /\ GeMayCommand
    /\ IF deck # NoDeck /\ state \in {"ARMED_WAIT", "CARD_DONE"}
       THEN FininRelease /\ AdvanceCard
       ELSE UNCHANGED <<finin, finin_pending, finin_timer, state, cursor, fiden>>
    /\ UNCHANGED <<smVars, geVars, deck, modes,
                   params, presenting, cmd_pending, cmd_timer, pom01, luren,
                   prefill>>

ReRead(re)       == OnRead(re)       /\ LupobUpdate
ReNoTransfer(re) == OnNoTransfer(re) /\ LupobUpdate
ReResetError(re) == OnResetError(re) /\ LupobUpdate
ReCardReject(re) == OnCardReject(re) /\ LupobUpdate

ReCommand ==
    \E re \in ReCommands :
        ReRead(re) \/ ReNoTransfer(re) \/ ReResetError(re) \/ ReCardReject(re)

----------------------------------------------------------------------------
(* feeder_on_tu03, the card-feed interrupt.                                *)

\* With a read command pending the feed is the trigger ...
Tu03Triggers ==
    /\ GeMayFeed /\ "irq" \notin prefill
    /\ FininRelease
    /\ TriggerPresent("irq")
    /\ UNCHANGED geVars

\* ... and otherwise it moves past the card that is done.
OnFeed ==
    /\ GeMayFeed /\ "irq" \notin prefill
    /\ ~cmd_pending
    /\ deck # NoDeck /\ state = "CARD_DONE"
    /\ FininRelease
    /\ AdvanceCard
    /\ UNCHANGED <<smVars, geVars, deck, modes,
                   params, presenting, cmd_pending, cmd_timer, pom01, luren,
                   prefill>>

Tu03Advances == OnFeed /\ LupobUpdate

----------------------------------------------------------------------------
(* The prefill loop and the TX-FIFO interrupt.  The interrupt of lower     *)
(* priority waits while the TU03N handler prefills; so does the main loop. *)

Running(ctx) == ctx \in prefill /\ (ctx = "main" => "irq" \notin prefill)

PrefillStep(ctx) ==
    /\ Running(ctx)
    /\ presenting /\ ~WireTxFull
    /\ PresentNext
    /\ UNCHANGED prefill

\* Mutant: the interrupt is not enabled after the prefill.
PrefillEnd_NoIrq(ctx) ==
    /\ Running(ctx)
    /\ ~presenting \/ WireTxFull
    /\ prefill' = prefill \ {ctx}
    /\ UNCHANGED <<wireVars, geVars, deck, state, cursor, modes, params, flags,
                   lupob, pins>>

PrefillEnd(ctx) ==
    /\ Running(ctx)
    /\ ~presenting \/ WireTxFull
    /\ prefill' = prefill \ {ctx}
    /\ feed_irq' = (presenting \/ feed_irq)
    /\ UNCHANGED <<sm_on, fifo, phase, left, lu, finin, geVars, deck, state,
                   cursor, modes, params, flags, lupob, pins>>

TxFeed ==
    /\ feed_irq /\ ~WireTxFull /\ "irq" \notin prefill
    /\ presenting
    /\ PresentNext
    /\ UNCHANGED prefill

----------------------------------------------------------------------------
(* feeder_on_ipc: the main loop runs a console operation.                  *)

MainLoop == prefill = {}

\* The console sends IPC_ARM only while it sees the feeder disarmed.
IpcArm ==
    /\ MainLoop /\ "ARM" \in ConsoleOps
    /\ state = "DISARMED"
    /\ deck' \in Decks
    /\ latched_mode' = "HEX" /\ mode' = "HEX"
    /\ CursorReset(FirstCard(deck'))
    /\ state' = "ARMED_WAIT"
    /\ fiden' = FALSE /\ pom01' = FALSE
    /\ WireTxArm
    /\ UNCHANGED <<geVars, params, luren, prefill>>
    /\ LupobUpdate

IpcDisarm ==
    /\ MainLoop /\ "DISARM" \in ConsoleOps
    /\ deck' = NoDeck
    /\ CursorReset(0)
    /\ state' = "DISARMED"
    /\ fiden' = FALSE /\ pom01' = FALSE
    /\ WireTxDisarm
    /\ UNCHANGED <<geVars, modes, params, luren, prefill>>
    /\ LupobUpdate

IpcRewind ==
    /\ MainLoop /\ "REWIND" \in ConsoleOps
    /\ CursorReset(FirstCard(deck))
    /\ IF deck # NoDeck
       THEN state' = "ARMED_WAIT" /\ fiden' = FALSE /\ WireTxArm
       ELSE UNCHANGED <<state, fiden, wireVars>>
    /\ UNCHANGED <<geVars, deck, modes, params, pom01, luren, prefill>>
    /\ LupobUpdate

\* To the n-th card in feeding order.
IpcGo ==
    /\ MainLoop /\ "GO" \in ConsoleOps
    /\ deck # NoDeck
    /\ \E tgt \in FirstCard(deck) .. deck.n_cards - 1 : CursorReset(tgt)
    /\ state' = "ARMED_WAIT"
    /\ fiden' = FALSE
    /\ WireTxArm
    /\ UNCHANGED <<geVars, deck, modes, params, pom01, luren, prefill>>
    /\ LupobUpdate

IpcEject ==
    /\ MainLoop /\ "EJECT" \in ConsoleOps
    /\ deck # NoDeck /\ ~LastCard
    /\ card' = card + 1 /\ col' = 0 /\ half' = 0
    /\ UNCHANGED <<wireVars, geVars, deck, state, modes, params, flags, pins,
                   prefill>>
    /\ LupobUpdate

\* A RESET_ERROR between the two stores takes the line down again.
IpcInjectError ==
    /\ MainLoop /\ "INJECT_ERROR" \in ConsoleOps
    /\ \/ luren' = TRUE
       \/ luren' = FALSE /\ "RESET_ERROR" \in ReCommands /\ GeMayCommand
    /\ state' = "ERROR"
    /\ UNCHANGED <<wireVars, geVars, deck, cursor, modes, params, flags, fiden,
                   pom01, prefill>>
    /\ LupobUpdate

\* One IPC_SET_PARAM sets one parameter.
IpcSetParam ==
    /\ MainLoop /\ "SET_PARAM" \in ConsoleOps
    /\ \/ w_ticks' \in WValues /\ UNCHANGED <<g_ticks, d_us, finin_to_us>>
       \/ g_ticks' \in GValues /\ UNCHANGED <<w_ticks, d_us, finin_to_us>>
       \/ d_us' \in DValues /\ UNCHANGED <<w_ticks, g_ticks, finin_to_us>>
       \/ finin_to_us' \in FininValues /\ UNCHANGED <<w_ticks, g_ticks, d_us>>
    /\ UNCHANGED <<wireVars, geVars, deck, state, cursor, modes, flags, pins,
                   prefill, post_loader_colbin>>
    /\ LupobUpdate

\* The policy decides the mode of every column: an operator may know better
\* than to change it while a card is under way.
IpcSetPolicy ==
    /\ MainLoop
    /\ \/ "SET_POLICY" \in ConsoleOps
       \/ "SET_POLICY_AT_REST" \in ConsoleOps /\ Drained /\ ~presenting
    /\ post_loader_colbin' \in BOOLEAN
    /\ UNCHANGED <<wireVars, geVars, deck, state, cursor, modes, flags, pins,
                   prefill, w_ticks, g_ticks, d_us, finin_to_us>>
    /\ LupobUpdate

IpcOp == IpcDisarm \/ IpcRewind \/ IpcGo \/ IpcEject
             \/ IpcInjectError \/ IpcSetParam \/ IpcSetPolicy

----------------------------------------------------------------------------
(* feeder_poll: the main loop finds a deadline passed.                     *)

\* Mutant: no fallback past a card that is done.
PollTriggers_NotParked ==
    /\ MainLoop
    /\ cmd_pending /\ cmd_timer = 0 /\ state # "CARD_DONE"
    /\ UNCHANGED <<finin, finin_pending, finin_timer, geVars>>
    /\ TriggerPresent("main")

PollTriggers ==
    /\ MainLoop
    /\ cmd_pending /\ cmd_timer = 0
    /\ UNCHANGED <<finin, finin_pending, finin_timer, geVars>>
    /\ TriggerPresent("main")

PollReleases ==
    /\ MainLoop
    /\ ~cmd_pending
    /\ finin_pending /\ finin_timer = 0
    /\ FininRelease
    /\ UNCHANGED <<smVars, geVars, deck, state,
                   cursor, modes, params, presenting, cmd_pending, cmd_timer,
                   pins, prefill>>
    /\ LupobUpdate

----------------------------------------------------------------------------
(* The main loop's handlers, overtaken: an interrupt comes in between two  *)
(* stores, and what is left is what neither order would leave.             *)

\* advance_card is called by the handler of a feed past a card that is done,
\* or by that of a reject.
Passes(re) == \/ re = "TU03N" /\ GeMayFeed /\ state = "CARD_DONE"
              \/ /\ re = "CARD_REJECT" /\ re \in ReCommands /\ GeMayCommand
                 /\ state \in {"ARMED_WAIT", "CARD_DONE"}

\* Into the fallback's trigger_present, whose command is off already: both
\* advance.  After the fallback's test for the last card its increment goes one
\* card farther, out of the deck perhaps; before it, or before the store of the
\* state, the deck runs out in the other handler, and the fallback finds it
\* exhausted or presents the last card all the same.
PollOvertaken ==
    /\ MainLoop
    /\ cmd_pending /\ cmd_timer = 0
    /\ deck # NoDeck /\ \E re \in {"TU03N", "CARD_REJECT"} : Passes(re)
    /\ cmd_pending' = FALSE /\ cmd_timer' = 0
    /\ FininRelease
    /\ LET next == IF state = "CARD_DONE" THEN card + 1 ELSE card IN
       /\ next < deck.n_cards
       /\ \/ /\ card' = next + 1
             /\ state = "ARMED_WAIT" => card' < deck.n_cards
             /\ \E c \in {next, card'} : Presents("main", c)
             /\ UNCHANGED fiden
          \/ /\ next + 1 = deck.n_cards /\ card' = next
             /\ fiden' = TRUE
             /\ \/ Presents("main", next)
                \/ state' = "DONE" /\ UNCHANGED <<mode, pom01, presenting, prefill>>
    /\ col' = 0 /\ half' = 0
    /\ UNCHANGED <<smVars, geVars, deck, latched_mode, params, luren>>
    /\ LupobUpdate

\* A read command comes into it and is accepted, the state being still that of
\* a waiting reader: it is pending while the card of the one before is on.
PollReentered ==
    /\ MainLoop
    /\ cmd_pending /\ cmd_timer = 0
    /\ deck # NoDeck
    /\ \E re \in ReCommands : IsRead(re) /\ Latches(re)
    /\ GeMayCommand /\ GeReads
    /\ FininRelease
    /\ TriggerExhausted \/ TriggerPresents("main")
    /\ cmd_pending' = TRUE /\ cmd_timer' = d_us
    /\ UNCHANGED <<smVars, deck, params, luren>>
    /\ LupobUpdate

\* And a feed triggers a card that the FIFO holds whole, before the fallback, which
\* has found the command pending, turns it off: it takes that card for one that is
\* parked and goes on to the next.  (Whether the fallback was due is not recorded.)
PollRepeats ==
    /\ MainLoop
    /\ deck # NoDeck /\ state = "CARD_DONE" /\ ~cmd_pending
    /\ finin_pending /\ finin_timer = finin_to_us
    /\ Len(Image(deck, card, EffectiveMode(card))) \in {Len(fifo), Len(fifo) + 1}
    /\ TriggerExhausted \/ TriggerPresents("main")
    /\ UNCHANGED <<wireVars, geVars, deck, latched_mode, params, cmd_pending, cmd_timer,
                   finin_pending, finin_timer, luren>>
    /\ LupobUpdate

\* Into IPC_EJECT: between its test and its increment, one card too far; or
\* into the increment, and the store undoes the other's.
EjectOvertaken ==
    /\ MainLoop /\ "EJECT" \in ConsoleOps
    /\ deck # NoDeck /\ ~LastCard
    /\ card' \in {card + 1, card + 2} /\ col' = 0 /\ half' = 0
    /\ FininRelease
    /\ \/ /\ \/ Passes("TU03N") /\ ~cmd_pending
             \/ Passes("CARD_REJECT")
          /\ state' = "ARMED_WAIT"
          /\ UNCHANGED <<mode, pom01, presenting, cmd_pending, cmd_timer, prefill>>
       \/ /\ Passes("TU03N") /\ cmd_pending
          /\ cmd_pending' = FALSE /\ cmd_timer' = 0
          /\ Presents("irq", card + 1)
    /\ UNCHANGED <<smVars, geVars, deck, latched_mode, params, fiden, luren>>
    /\ LupobUpdate

\* present_next with a cursor that no whole handler leaves: what lies there has
\* some column and ends some time.
PushesStray ==
    \E fini \in BOOLEAN :
       /\ WireTxPush(PresenterWord(CharAt(card, EffectiveMode(card), 0, 0), fini,
                                   w_ticks, g_ticks))
       /\ IF fini THEN CardEnds
          ELSE UNCHANGED <<presenting, finin_pending, finin_timer, state, feed_irq>>

\* The TX interrupt into IPC_EJECT: a column of the next card that is not its
\* first, and the half of it may stay behind.
EjectFed ==
    /\ MainLoop /\ "EJECT" \in ConsoleOps
    /\ deck # NoDeck /\ ~LastCard
    /\ presenting /\ feed_irq /\ ~WireTxFull
    /\ PushesStray
    /\ card' = card + 1 /\ col' = 0 /\ half' \in {0, 1}
    /\ UNCHANGED <<sm_on, phase, left, lu, finin, geVars, deck, modes, params,
                   cmd_pending, cmd_timer, pins, prefill>>
    /\ LupobUpdate

\* Into cursor_reset, or between it and wire_tx_arm or wire_tx_disarm: the TX
\* interrupt moves the cursor on, a feed passes the first card or triggers a
\* presentation, which is left without the interrupt that would feed it.
\* (Without a deck the cursor is whatever was read through a null pointer.)
CursorsInside(d, c) ==
    {<<0, 0>>} \cup IF presenting \/ cmd_pending
                   THEN (0 .. (IF d = NoDeck THEN 1 ELSE d.ncols[c] - 1)) \X {0, 1}
                   ELSE {}

ModesInside ==
    {mode} \cup IF cmd_pending THEN {EffectiveMode(c) : c \in 0 .. deck.n_cards - 1} ELSE {}

\* wire_tx_arm, when a strobe has taken FININ down before cursor_reset forgets it.
ArmReleased ==
    /\ sm_on' = TRUE /\ fifo' = <<>> /\ feed_irq' = FALSE
    /\ phase' = "pull" /\ left' = 0 /\ UNCHANGED lu
    /\ WireTxReleaseFinin

ResetOvertaken ==
    /\ MainLoop
    /\ presenting \/ (GeMayFeed /\ (cmd_pending \/ state = "CARD_DONE"))
    /\ presenting' \in {FALSE, cmd_pending}
    /\ \/ /\ "DISARM" \in ConsoleOps
          /\ deck' = NoDeck /\ state' = "DISARMED"
          /\ card' \in {0, 1}
          /\ WireTxDisarm
          /\ mode' \in ModesInside /\ pom01' = FALSE
       \/ /\ deck # NoDeck /\ UNCHANGED deck /\ state' = "ARMED_WAIT"
          /\ \E tgt \in FirstCard(deck) .. deck.n_cards - 1 :
                /\ \/ "REWIND" \in ConsoleOps /\ tgt = FirstCard(deck)
                   \/ "GO" \in ConsoleOps
                /\ \/ card' = tgt
                   \/ card' = tgt + 1 /\ card' < deck.n_cards /\ state = "CARD_DONE"
          /\ WireTxArm \/ (finin_pending /\ ArmReleased)
          /\ mode' \in ModesInside
          /\ pom01' = IF mode' = mode THEN pom01 ELSE Packed(mode')
    /\ \E cu \in CursorsInside(deck', card') : col' = cu[1] /\ half' = cu[2]
    /\ cmd_pending' = FALSE   /\ cmd_timer' = 0
    /\ finin_pending' = FALSE /\ finin_timer' = 0
    /\ fiden' = FALSE
    /\ UNCHANGED <<geVars, latched_mode, params, luren, prefill>>
    /\ LupobUpdate

\* Into IPC_ARM, IPC_REWIND or IPC_GO, on both sides of the store of the state,
\* told as what follows it: a reject of the deck's last card, whose FIDEN is taken
\* down; a read command that is not taken yet, or takes down a FININ already
\* forgotten.
ArmOvertaken ==
    /\ MainLoop
    /\ deck # NoDeck /\ state = "ARMED_WAIT" /\ ~presenting /\ ~cmd_pending /\ ~fiden
    /\ fifo = <<>> /\ phase = "pull"
    /\ card = FirstCard(deck) \/ "GO" \in ConsoleOps
    /\ GeMayCommand
    /\ \/ /\ "CARD_REJECT" \in ReCommands /\ LastCard
          /\ state' = "DONE"
          /\ UNCHANGED <<geVars, finin, latched_mode, cmd_pending, cmd_timer>>
       \/ /\ \E re \in ReCommands : IsRead(re) /\ Latches(re)
          /\ GeReads
          /\ UNCHANGED state
          /\ \/ UNCHANGED <<finin, cmd_pending, cmd_timer>>
             \/ WireTxReleaseFinin /\ cmd_pending' = TRUE /\ cmd_timer' = d_us
    /\ UNCHANGED <<smVars, deck, cursor, mode, params, presenting, finin_pending,
                   finin_timer, pins, prefill>>
    /\ LupobUpdate

\* Into lupob_update, with which every handler of the main loop ends, between
\* the level and the pin: the pin shows the level of before the strobe.
PinOvertaken ==
    /\ MainLoop
    /\ \/ OnFeed
       \/ \E re \in ReCommands :
             OnRead(re) \/ OnNoTransfer(re) \/ OnResetError(re) \/ OnCardReject(re)
    /\ Ready' # Ready
    /\ lupob' = Ready

\* present_next with a cursor out of the deck.
PresentStray ==
    /\ presenting /\ ~WireTxFull
    /\ \/ feed_irq /\ "irq" \notin prefill
       \/ \E ctx \in {"main", "irq"} : Running(ctx)
    /\ card >= deck.n_cards
    /\ PushesStray
    /\ UNCHANGED <<sm_on, phase, left, lu, finin, geVars, deck, cursor, modes,
                   params, cmd_pending, cmd_timer, lupob, pins, prefill>>

\* Once is enough: nothing is told apart in what a second one makes of it.
Overtaken == \/ /\ ~torn
                /\ \/ PollOvertaken \/ PollReentered \/ PollRepeats
                   \/ EjectOvertaken \/ EjectFed
                   \/ ResetOvertaken \/ ArmOvertaken \/ PinOvertaken
             \/ PresentStray

----------------------------------------------------------------------------
(* The wire, the machine and time.                                         *)

\* A strobe rises, and the machine hears its character.  What it hears of a
\* torn feed is not told apart.
Strobe ==
    /\ SmPull
    /\ IF torn THEN GeHearsNoise ELSE GeHears(Head(fifo).char)
    /\ UNCHANGED fdVars

CountDown(t) == IF t > 0 THEN t - 1 ELSE 0

\* Time passes for the presenter and for the deadlines.  A word in the FIFO
\* of an idle presenter is pulled first.
Tick ==
    /\ ~SmUrgent
    /\ phase # "pull" \/ cmd_timer > 0 \/ finin_timer > 0
    /\ SmTick
    /\ IF StrobeEnds THEN GeStrobeEnds(lu.fini) ELSE UNCHANGED geVars
    /\ cmd_timer' = CountDown(cmd_timer)
    /\ finin_timer' = CountDown(finin_timer)
    /\ UNCHANGED <<deck, state, cursor, modes, params, presenting, cmd_pending,
                   finin_pending, lupob, pins, prefill>>

\* The machine is cleared while the reader has nothing under way for it.
Clear ==
    /\ Drained /\ ~presenting /\ ~cmd_pending /\ MainLoop
    /\ GeClear
    /\ UNCHANGED <<wireVars, fdVars>>

----------------------------------------------------------------------------

Init ==
    /\ WireTxInit
    /\ GeInit
    /\ deck = NoDeck
    /\ state = "DISARMED"
    /\ card = 0 /\ col = 0 /\ half = 0
    /\ mode = "NORMAL" /\ latched_mode = "HEX"
    /\ post_loader_colbin = TRUE
    /\ presenting = FALSE
    /\ cmd_pending = FALSE   /\ cmd_timer = 0
    /\ finin_pending = FALSE /\ finin_timer = 0
    /\ d_us = DDef /\ finin_to_us = FininDef
    /\ w_ticks = WDef /\ g_ticks = GDef
    /\ lupob = FALSE /\ fiden = FALSE /\ pom01 = FALSE /\ luren = FALSE
    /\ prefill = {}
    /\ torn = FALSE

\* Handlers that nothing comes into, the wire, the machine and time.
Step ==
    \/ ReCommand
    \/ Tu03Triggers \/ Tu03Advances
    \/ \E ctx \in {"main", "irq"} : PrefillStep(ctx) \/ PrefillEnd(ctx)
    \/ TxFeed
    \/ IpcOp
    \/ PollTriggers \/ PollReleases
    \/ Strobe \/ Tick \/ Clear

\* RESET_ERROR in the middle of a card lets a machine that does not keep to its
\* protocol start another: two contexts are then inside present_next.
ErrorResetInCard == presenting' /\ state = "ERROR" /\ state' # "ERROR"

Next ==
    \/ Step /\ torn' = (torn \/ ErrorResetInCard)
    \/ Overtaken /\ torn' = TRUE
    \/ IpcArm /\ torn' = FALSE

\* Interrupts are taken, loops go on, and time passes.  Nothing is assumed
\* of the machine or of the console.
Fairness ==
    /\ WF_sysVars(Tick) /\ WF_sysVars(Strobe) /\ WF_sysVars(TxFeed)
    /\ \A ctx \in {"main", "irq"} :
          WF_sysVars(PrefillStep(ctx)) /\ WF_sysVars(PrefillEnd(ctx))
    /\ WF_sysVars(PollTriggers) /\ WF_sysVars(PollReleases)

Spec == Init /\ [][Next]_vars

FairSpec == Spec /\ Fairness

=============================================================================
