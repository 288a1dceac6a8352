--------------------------- MODULE ReceiverProps ---------------------------
(***************************************************************************)
(* What is expected of the receiver and the trace, beyond what EventRing   *)
(* states of the ring itself.                                              *)
(***************************************************************************)
EXTENDS Receiver

\* What the capture program has sampled and not yet queued, or is to sample.
InCapture ==
    CASE sm = "push"                        -> <<ReByte(isr)>>
      [] sm = "wait1" /\ line # NoCommand   -> <<line>>
      [] OTHER                              -> <<>>

InRxFifo == [i \in 1 .. Len(rx_fifo) |-> ReByte(rx_fifo[i])]

\* Every strobe's command is delivered to the feeder exactly once, in order
\* and with its own bits, as long as the FIFO has not made the program miss
\* one ("exactly one capture per pulse", re_capture.pio:29).
CommandsIntact == ~missed => delivered \o InRxFifo \o InCapture = strobed

\* When feeder_on_tu03 looks for a pending command, every command captured
\* before that feed has been handled, though the two take different ways
\* through the chip: a feed is never taken for one without a command
\* (feeder.c:273-278) because it overtook its own.
CommandBeforeFeed ==
    Runs(Gpio) /\ ~Pushing(Gpio) /\ called /\ Head(todo) = "TU03"
        => Len(delivered) >= due

\* Whatever nests, what has been captured reaches the feeder: the handlers
\* return, and leave core1's interrupts as they found them.
EveryCommandHandled == rx_fifo # <<>> ~> rx_fifo = <<>>

\* The handlers use the ring as EventRing has it, one context at a time behind
\* the lock, so that what is proved of the ring is true of the trace.
ImplementsRing == Spec

=============================================================================
