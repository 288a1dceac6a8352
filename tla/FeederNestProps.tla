-------------------------- MODULE FeederNestProps --------------------------
(***************************************************************************)
(* What survives the nesting of the interrupts in the feeder's handlers,   *)
(* and what does not.                                                      *)
(***************************************************************************)
EXTENDS FeederNest

\* No two contexts are inside present_next at once, whatever preempts
\* whatever: as long as no interrupt
\* falls into a rewind, a card is pushed from its first
\* column to its last, none left out or doubled, and its end is announced by
\* the last (present_next, trigger_present's prefill, the TX interrupt).
CardsWhole ==
    ~cut =>
        /\ \A i \in 1 .. Len(pushed) : pushed[i] = <<pushed[1][1], i - 1>>
        /\ AtRest /\ ~f.presenting => Len(pushed) \in {0, NCols}

\* With nothing under way the TX interrupt is on exactly while a card is being
\* presented: a presentation never stalls for want of it, and it never storms
\* on an idle FIFO, wherever in the hand-over from the prefill loop, or in the
\* end of a card, another handler came in.
FedExactlyWhilePresenting == AtRest /\ ~cut => (f.presenting <=> f.feed_irq)

\* LUPOB may be set from a value that was computed before a command came in
\* (see the README), but it is busy again before the card's handler is done:
\* with nothing under way, never ready while a card is presented.
BusyWhilePresenting == AtRest /\ f.presenting => ~f.lupob

\* The machine hears the cards one after the other, each from its first column,
\* and the loader after a rewind ("Feed: move to the next card", feeder.c:104):
\* a command is acted upon once, though both the feed and the deadline may
\* decide to (feeder.c:187), unless a feed falls between the fallback's look
\* at a parked card and its advance, or an interrupt into a rewind.
CardsInOrder ==
    pushed # <<>> /\ ~cut /\ ~late =>
        \/ pushed[1] = <<due, 0>>
        \/ pushed[1] = <<due - 1, 0>> /\ Len(pushed) = NCols

\* A command that was accepted is acted upon, by its feed or by the deadline:
\* core1 does not sleep through one that arrives between its look at the flags
\* and its wfe (core1_main.c:41).
CommandsActedUpon == f.cmd_pending ~> (~f.cmd_pending \/ cut)

\* Every presentation comes to its end.
PresentationsEnd == f.presenting ~> (~f.presenting \/ cut)

----------------------------------------------------------------------------

\* What the code says of itself, and a nested handler makes untrue.  RewindStorms
\* shows the first; TLC refutes each of the others when RewindStorms.cfg has it
\* in the first one's place.

\* "TXNFULL is level-triggered: enabled only while a card is being presented
\* (an idle empty FIFO would storm)" (wire_tx.c:26-27): whenever the main loop
\* could be interrupted by it, there is something to push.
IrqOnlyWhilePresenting ==
    f.feed_irq /\ (\A c \in Contexts \ {Main} : Idle(c)) => f.presenting

\* "Feed: move to the next card; FS_DONE + FIDEN once the deck is exhausted"
\* (feeder.c:104): no card is presented that the deck does not have.  A feed
\* between advance_card's test and its increment, in the fallback, moves on too.
PresentsCardsOfTheDeck == f.presenting => f.card < NCards

\* "busy (low) from command-accept until the FININ release" (feeder.c:82-83):
\* with nothing under way, not ready while a command is pending.  A command
\* between lupob_update's look at the flags and its pin leaves the old level.
BusyFromCommandAccept == AtRest /\ f.cmd_pending => ~f.lupob

\* "TXNFULL keeps it fed from here" (feeder.c:216): with nothing under way, a
\* card that is being presented has the interrupt that feeds it.  A feed in the
\* middle of a rewind presents one, and wire_tx_arm turns its source off.
KeptFed == AtRest /\ f.presenting => f.feed_irq

\* "the machine's IPL must get the loader first, or it executes junk"
\* (feeder.c:43-44): every presentation begins at the first column.  The TX
\* interrupt in the middle of cursor_reset moves the column on.
FromFirstColumn == pushed # <<>> => pushed[1][2] = 0

=============================================================================
