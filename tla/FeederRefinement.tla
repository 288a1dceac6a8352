-------------------------- MODULE FeederRefinement --------------------------
(***************************************************************************)
(* The feeder implements the hopper: the characters still to be delivered  *)
(* are those in the FIFO and, after them, those the cursor has still to    *)
(* push; a card has been read when its last word has left the FIFO.        *)
(***************************************************************************)
EXTENDS FeederProps

Unpushed ==
    IF presenting /\ ~torn
    THEN SubSeq(CurrentImage,
                Position(EffectiveMode(card), col, half) + 1, Len(CurrentImage))
    ELSE <<>>

H == INSTANCE Hopper WITH
        loaded <- deck,
        at     <- card,
        read   <- state = "CARD_DONE" /\ fifo = <<>>,
        out    <- state = "DONE",
        fault  <- state = "ERROR",
        rest   <- Queued \o Unpushed,
        heard  <- got,
        jammed <- torn

\* The feeder keeps the hopper's promise to a machine that keeps to its
\* protocol: no card skipped, doubled, spliced, cut short or read in the wrong
\* mode across commands, feeds, deadlines, faults and repositions in any order.
\* An interrupt between the stores of one of the main loop's handlers jams the
\* hopper: nothing is promised then until a deck is loaded, and all of it after.
ImplementsHopper == H!Spec

=============================================================================
