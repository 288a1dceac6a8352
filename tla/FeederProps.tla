---------------------------- MODULE FeederProps ----------------------------
(***************************************************************************)
(* What is expected of the feeder.  The first part holds whatever the      *)
(* machine and the console do (module FeederProofs proves it); the second  *)
(* part is promised to a machine that keeps to its protocol (WildGe =      *)
(* FALSE), under the condition DrainsInTime on the timing parameters.      *)
(*                                                                         *)
(* An interrupt that comes in between two stores of a handler of the main  *)
(* loop breaks nearly all of it (FeederNestProps shows how).  What is said *)
(* here holds as long as that has not happened since the deck was armed:   *)
(* ~torn.  Arming repairs whatever it has done.                            *)
(***************************************************************************)
EXTENDS Feeder

WordSet == [char : CharSet, fini : BOOLEAN, w : Nat, g : Nat]
States  == {"DISARMED", "ARMED_WAIT", "PRESENTING", "CARD_DONE", "DONE", "ERROR"}

\* Types of every variable, those of the wire, of the machine and of the
\* feeder.
WireTypeOK ==
    /\ sm_on \in BOOLEAN /\ feed_irq \in BOOLEAN /\ finin \in BOOLEAN
    /\ fifo \in Seq(WordSet) /\ Len(fifo) <= FifoDepth
    /\ phase \in {"pull", "strobe", "gap"}
    /\ left \in Nat /\ (left = 0 <=> phase = "pull")
    /\ lu \in WordSet \cup {NoWord} /\ (phase # "pull" => lu \in WordSet)

GeTypeOK == ge \in {"idle", "armed", "xfer"} /\ got \in Seq(CharSet)

CursorTypeOK == card \in Nat /\ col \in Nat /\ half \in {0, 1}

ParamsTypeOK ==
    /\ d_us \in DValues /\ finin_to_us \in FininValues
    /\ w_ticks \in WValues /\ g_ticks \in GValues
    /\ post_loader_colbin \in BOOLEAN

ControlTypeOK ==
    /\ deck \in Decks \cup {NoDeck}
    /\ state \in States
    /\ mode \in Modes /\ latched_mode \in Modes
    /\ presenting \in BOOLEAN /\ cmd_pending \in BOOLEAN /\ finin_pending \in BOOLEAN
    /\ cmd_timer \in Nat /\ finin_timer \in Nat
    /\ prefill \subseteq {"main", "irq"}

PinsTypeOK ==
    lupob \in BOOLEAN /\ fiden \in BOOLEAN /\ pom01 \in BOOLEAN /\ luren \in BOOLEAN

SysTypeOK == /\ WireTypeOK /\ GeTypeOK
             /\ CursorTypeOK /\ ParamsTypeOK /\ ControlTypeOK /\ PinsTypeOK

TypeOK == SysTypeOK /\ torn \in BOOLEAN

\* The cursor does not leave the armed deck: present_next indexes d->idx[card]
\* and the card's columns with it (feeder.c:127-131) and checks neither.  It
\* takes an eject, a reject or a feed in the middle of another handler's
\* advance to make it do so.
CursorInDeck ==
    ~torn /\ deck # NoDeck => card < deck.n_cards /\ col < deck.ncols[card]

\* A presentation always begins at the first half of the first column:
\* trigger_present does not set the cursor, it relies on every way out of a
\* card having reset it.
CursorAtStart == ~torn /\ ~presenting => col = 0 /\ half = 0

\* The level-triggered FIFO interrupt is enabled only while a card is being
\* presented: "an idle empty FIFO would storm" (wire_tx.c:26-28).  Between
\* handlers, that is: inside a rewind it is not so (FeederNestProps).
NoIrqStorm == ~torn /\ feed_irq => presenting

\* A card that is being presented is being fed: by a prefill loop or by the
\* interrupt.  Nothing else would ever push its remaining columns.  A feed in
\* the middle of a rewind leaves a card that nothing feeds, until a deck is armed.
FeedKept == ~torn /\ presenting => feed_irq \/ prefill # {}

\* LUPOB's level is the one lupob_update computes: no handler forgets the call
\* ("called after every state change", feeder.c:84), and arming a deck mends a
\* line that a strobe in the middle of lupob_update had left wrong.
LupobTruthful == ~torn => lupob = Ready

\* The state machine runs exactly while a deck is armed, and only then holds
\* words (wire_tx.c:4-6).
SmFollowsDeck == ~torn =>
    /\ sm_on <=> deck # NoDeck
    /\ ~sm_on => fifo = <<>> /\ phase = "pull" /\ ~presenting /\ ~cmd_pending
                 /\ ~finin_pending /\ prefill = {}

\* What arming relies on, however torn the state it finds: a disarmed reader has
\* no deck, its state machine is off and its FININ down.
DisarmedAtRest ==
    /\ state = "DISARMED" => deck = NoDeck
    /\ deck = NoDeck => ~sm_on /\ ~finin
    /\ ge = "armed" => got = <<>>

\* All of it: the invariant that is inductive.  Each part leans on the others
\* (see the README): the deck is indexed only because no card is presented
\* without one, a card is fed only because each begins at its start and
\* leaves the interrupt as it found it.
FeederInv ==
    /\ TypeOK /\ DisarmedAtRest
    /\ CursorInDeck /\ CursorAtStart
    /\ NoIrqStorm /\ FeedKept
    /\ LupobTruthful /\ SmFollowsDeck

----------------------------------------------------------------------------
(* What a card is presented as, and what of it is under way.               *)

CurrentImage == Image(deck, card, EffectiveMode(card))

Queued == [i \in 1 .. Len(fifo) |-> fifo[i].char]

UnderWay == presenting \/ fifo # <<>>

\* LUPOB says busy from before the first strobe of a card to after its last
\* one (presenter.pio:16-22: "busy across the whole card also satisfies
\* PELEA").  The FININ deadline runs from the push of the last word, so this
\* needs DrainsInTime.
Pelea == ~torn /\ (LU08 \/ fifo # <<>>) => ~lupob

\* A read command is only ever pending between cards, with the FININ of the
\* card before released: the new card's trigger finds the wire its own.
CommandAtRest == ~torn /\ cmd_pending => ~UnderWay /\ ~finin_pending

\* A FININ left standing after its strobe has an owner who will release it
\* (feeder.c:93-95: TU03N, the next command or the timeout).
FininOwned == ~torn /\ finin /\ ~LU08 => finin_pending

\* FININ is taken down between cards: never during a strobe (wire_tx.c:109-
\* 113), and never by the next card's first word, into which it would then
\* have leaked.
FininFallsBetweenCards ==
    [][~torn /\ finin /\ ~finin' /\ sm_on' => fifo = <<>> /\ ~LU08]_vars

\* Through the FIFO, the interrupts and the prefill loop, the machine listens
\* and hears the card's characters in order, none lost, doubled or foreign:
\* also of the first card after a rewind or a jump in the middle of another,
\* unless an interrupt has come in between cursor_reset's stores.
CardIntegrity ==
    ~torn /\ UnderWay =>
        LET sent == got \o Queued IN
        /\ ge # "idle"
        /\ Len(sent) <= Len(CurrentImage)
        /\ sent = SubSeq(CurrentImage, 1, Len(sent))

\* Every accepted read command is answered: by a whole card, or by FIDEN when
\* there is none left -- with or without a TU03N feed.
ReadAnswered ==
    cmd_pending /\ ge = "armed" ~> ge = "idle" \/ fiden \/ deck = NoDeck \/ torn

\* A card, once begun, ends with a ready front for the machine to see, unless
\* the machine is faster, the deck exhausted or the reader disarmed.
ReadyAgain == presenting ~> lupob \/ cmd_pending \/ fiden \/ deck = NoDeck \/ torn

\* The timing condition: the deadline does not pass before the FIFO and the
\* word being strobed have left the wire.
DrainsInTime ==
    \A w \in WValues, g \in GValues, t \in FininValues :
        t >= (FifoDepth + 1) * (w + 1 + g + 1)

=============================================================================
