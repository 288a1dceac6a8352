----------------------------- MODULE Presenter -----------------------------
(***************************************************************************)
(* The wire side of the reader: PIO0's presenter state machine, its TX     *)
(* FIFO and the calls src/src/wire_tx.c offers the feeder.                 *)
(*                                                                         *)
(* The operators below are parts of the feeder's actions (module Feeder    *)
(* extends this one), except SmPull and SmTick, which are the state        *)
(* machine's own steps.  A word of the FIFO is a record whose fields w, g  *)
(* and fini are the strobe width, the gap and the FININ bit; what else it  *)
(* carries is the composing module's business.                             *)
(*                                                                         *)
(* Time is counted in ticks.  The few constant ticks the program spends    *)
(* between `pull' and the strobe, and the one after it, are folded into    *)
(* the step that starts the strobe, resp. the gap.                         *)
(***************************************************************************)
EXTENDS Integers, Sequences

CONSTANTS
    FifoDepth,      \* entries of the TX FIFO (4 in the chip)
    NoWord          \* the data pins of an idle, disarmed wire

ASSUME FifoAssumption == FifoDepth \in Nat \ {0}

VARIABLES
    sm_on,          \* the state machine is enabled
    fifo,           \* words pushed and not yet pulled
    feed_irq,       \* the TX-FIFO-not-full interrupt source is enabled
    phase,          \* where the program is: "pull", "strobe" or "gap"
    left,           \* ticks left in that phase
    lu,             \* the word whose data bits stand on LU00-LU07
    finin           \* the FININ pin

wireVars == <<sm_on, fifo, feed_irq, phase, left, lu, finin>>

----------------------------------------------------------------------------

\* wire_tx_init leaves the state machine disabled, every pin inactive.
WireTxInit ==
    /\ sm_on = FALSE
    /\ fifo = <<>>
    /\ feed_irq = FALSE
    /\ phase = "pull"
    /\ left = 0
    /\ lu = NoWord
    /\ finin = FALSE

WireTxFull == Len(fifo) >= FifoDepth

\* LU08N, the character strobe: the program's side-set.
LU08 == phase = "strobe"

\* The last character has left the wire: nothing queued, nothing strobing.
Drained == fifo = <<>> /\ phase = "pull"

\* Both stop the program where it is and empty the FIFO.  Arming restarts it
\* at its first instruction without touching the data and FININ pins;
\* disarming clears them.
\* Mutant: the FIFO keeps its words.
WireTxArm_KeepsFifo ==
    /\ sm_on' = TRUE
    /\ feed_irq' = FALSE
    /\ phase' = "pull"
    /\ left' = 0
    /\ UNCHANGED <<fifo, lu, finin>>

WireTxArm ==
    /\ sm_on' = TRUE
    /\ fifo' = <<>>
    /\ feed_irq' = FALSE
    /\ phase' = "pull"
    /\ left' = 0
    /\ UNCHANGED <<lu, finin>>

WireTxDisarm ==
    /\ sm_on' = FALSE
    /\ fifo' = <<>>
    /\ feed_irq' = FALSE
    /\ phase' = "pull"
    /\ left' = 0
    /\ lu' = NoWord
    /\ finin' = FALSE

\* A presentation word: a character, its FININ bit, and the strobe and gap
\* widths, for which it has 8 and 15 bits.
PresenterWord(char, fini, w, g) ==
    [char |-> char, fini |-> fini, w |-> w % 256, g |-> g % 32768]

\* pio_sm_put drops the word when the FIFO is full.
WireTxPush(word) ==
    fifo' = IF WireTxFull THEN fifo ELSE Append(fifo, word)

\* SET on the FININ pin alone, slotted into the program by pio_sm_exec.
WireTxReleaseFinin == finin' = FALSE

----------------------------------------------------------------------------

\* `pull block' has a word to take: it does so within a tick.
SmUrgent == sm_on /\ phase = "pull" /\ fifo # <<>>

\* pull; out pins; out x; the strobe rises.  `jmp x--' loops w + 1 times.
SmPull ==
    LET word == Head(fifo) IN
    /\ SmUrgent
    /\ fifo' = Tail(fifo)
    /\ lu' = word
    /\ finin' = word.fini
    /\ phase' = "strobe"
    /\ left' = word.w + 1
    /\ UNCHANGED <<sm_on, feed_irq>>

\* The strobe falls when its ticks are over, and the gap of g + 1 ticks
\* starts.
StrobeEnds == phase = "strobe" /\ left = 1

\* One tick of the program: a loop counts down, the strobe gives way to the
\* gap, the gap to the next pull; stalled at `pull block' nothing changes.
SmTick ==
    /\ \/ left > 1 /\ left' = left - 1 /\ UNCHANGED phase
       \/ StrobeEnds /\ left' = lu.g + 1 /\ phase' = "gap"
       \/ phase = "gap" /\ left = 1 /\ left' = 0 /\ phase' = "pull"
       \/ phase = "pull" /\ UNCHANGED <<left, phase>>
    /\ UNCHANGED <<sm_on, fifo, feed_irq, lu, finin>>

=============================================================================
