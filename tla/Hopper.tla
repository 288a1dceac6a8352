------------------------------- MODULE Hopper -------------------------------
(***************************************************************************)
(* What a card reader promises the machine it feeds, without FIFOs,        *)
(* interrupts, handshake lines or deadlines: cards pass the read station   *)
(* in order, none twice and none skipped except on request, and each is    *)
(* delivered character by character, whole, in one piece and in one mode.  *)
(* The promise is the one docs/ARCHITECTURE.md 5-6 makes; module           *)
(* FeederRefinement shows that the feeder keeps it.                        *)
(***************************************************************************)
EXTENDS Cards

VARIABLES
    loaded,     \* the deck in the hopper, or NoDeck
    at,         \* the card at the read station
    read,       \* that card has been delivered
    out,        \* the hopper has run out of cards
    fault,      \* it is in error, and takes no card
    rest,       \* characters of that card still to be delivered
    heard,      \* characters of the machine's current transfer
    jammed      \* nothing is promised until a deck is loaded

hopperVars == <<loaded, at, read, out, fault, rest, heard, jammed>>

Init ==
    /\ loaded = NoDeck /\ at = 0 /\ read = FALSE /\ out = FALSE /\ fault = FALSE
    /\ rest = <<>> /\ heard = <<>> /\ jammed = FALSE

\* The loader card is delivered in hex, whatever the machine has selected.
ModesOf(d, c) == IF c = d.loader_card THEN {"HEX"} ELSE Modes

\* The operator loads a deck, takes it out, or repositions it; a delivery
\* under way is cut short.
Place(d, c) ==
    /\ loaded' = d /\ at' = c
    /\ read' = FALSE /\ out' = FALSE /\ fault' = FALSE /\ rest' = <<>>
    /\ UNCHANGED heard

Load       == loaded = NoDeck /\ \E d \in Decks : Place(d, FirstCard(d))
Unload     == Place(NoDeck, 0)
Reposition == /\ loaded # NoDeck
              /\ \E c \in FirstCard(loaded) .. loaded.n_cards - 1 : Place(loaded, c)

Resting == loaded # NoDeck /\ ~out /\ ~fault /\ rest = <<>>

\* The next card takes the place of the one at the station, if there is one.
Pass ==
    /\ read' = FALSE
    /\ IF at + 1 >= loaded.n_cards THEN out' = TRUE /\ UNCHANGED at
                                   ELSE at' = at + 1 /\ UNCHANGED out
    /\ UNCHANGED <<loaded, fault, rest, heard>>

\* On a feed the card that has been read makes room; on a reject any card does.
Feed   == Resting /\ read /\ Pass
Reject == Resting /\ Pass

\* The machine starts a transfer (or is cleared).
NewTransfer ==
    /\ rest = <<>>
    /\ heard' = <<>>
    /\ UNCHANGED <<loaded, at, read, out, fault, rest>>

\* A delivery begins, with the next card if this one has been read.
Deliver ==
    /\ Resting /\ heard = <<>>
    /\ at' = IF read THEN at + 1 ELSE at
    /\ at' < loaded.n_cards
    /\ \E m \in ModesOf(loaded, at') : rest' = Image(loaded, at', m)
    /\ read' = FALSE
    /\ UNCHANGED <<loaded, out, fault, heard>>

\* A fault does not stop the delivery under way.  Once mended, the hopper
\* takes the card at the station for one that has not been read.
Breaks ==
    /\ fault' = TRUE /\ read' = FALSE /\ out' = FALSE
    /\ UNCHANGED <<loaded, at, rest, heard>>

Mended ==
    /\ fault /\ fault' = FALSE
    /\ UNCHANGED <<loaded, at, read, out, rest, heard>>

\* The next character is heard; after the last one the card has been read.
HearChar ==
    /\ rest # <<>>
    /\ heard' = Append(heard, Head(rest))
    /\ rest' = Tail(rest)
    /\ read' = (Tail(rest) = <<>> /\ ~fault)
    /\ UNCHANGED <<loaded, at, out, fault, jammed>>

\* What goes on in a hopper that is not jammed.
Runs == Unload \/ Reposition \/ Feed \/ Reject \/ NewTransfer
            \/ Deliver \/ HearChar \/ Breaks \/ Mended

\* It jams, and then anything may happen in it; loading a deck clears it.
Next == \/ jammed'
        \/ Load /\ ~jammed'
        \/ Runs /\ ~jammed /\ ~jammed'

\* A delivery that has begun goes on.
Spec == Init /\ [][Next]_hopperVars /\ WF_hopperVars(~jammed /\ HearChar)

=============================================================================
