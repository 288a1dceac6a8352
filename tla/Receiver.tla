------------------------------ MODULE Receiver ------------------------------
(***************************************************************************)
(* How the machine's strobes reach core1 and the trace: the capture        *)
(* program of src/pio/re_capture.pio and its RX FIFO, the interrupts of    *)
(* src/src/wire_rx.c, nested by priority, and the trace that core0 prints  *)
(* from the event ring (module EventRing, src/src/monitor.c).              *)
(*                                                                         *)
(* Of the feeder a handler shows what the trace can see of it, its         *)
(* ev_push, and when it is called.  A command is the set of RE lines that  *)
(* are asserted.                                                           *)
(***************************************************************************)
EXTENDS EventRing, Functions

CONSTANTS
    RxDepth,        \* entries of the RX FIFO (4 in the chip)
    Commands,       \* what the machine puts on the RE lines, each once
    NoCommand,      \* between strobes
    Junk,           \* what the other pins of the window may read
    MaxExtra        \* bound: feeds and events of the feeder's other contexts

ASSUME ReceiverAssumption ==
    /\ RxDepth \in Nat \ {0}
    /\ Commands \subseteq SUBSET (0 .. 7) /\ NoCommand \notin Commands
    /\ Junk \subseteq SUBSET (7 .. 11)

VARIABLES
    line,           \* the command being strobed, or NoCommand
    sm, isr,        \* the capture program: "wait1", "push" or "wait0"; its word
    rx_fifo,
    edges,          \* GPIO edges latched and not acknowledged
    active,         \* interrupt levels inside their handlers
    todo,           \* the edges the GPIO handler has still to serve
    called,         \* the first of which has called feeder or ev_push
    strobed, missed, delivered, due, extra       \* history

rxVars == <<line, sm, isr, rx_fifo>>
irqVars == <<edges, active, todo, called>>
wireHistory == <<strobed, missed>>
vars == <<ringVars, rxVars, irqVars, wireHistory, delivered, due, extra>>

\* Core1's loop and its interrupts, the more urgent the higher: the priorities
\* that wire_rx_init and wire_tx_init set.
Main == 0
Tx   == 1

\* Mutant: the feed is the more urgent.
Gpio_AboveRe == 4

Gpio == 2
Re   == 3

\* What the handlers log: commands, feeds and command edges, and the feeder's
\* own events.
ASSUME TraceAssumption ==
    /\ Contexts = {Main, Tx, Gpio, Re}
    /\ {"RE_CMD"} \X Commands \subseteq Events
    /\ {"TU00", "TU03", "PRESENT_END", "PRESENT_START"} \X {{}} \subseteq Events

----------------------------------------------------------------------------
(* The wire and the capture program.                                       *)

\* `in pins, 13': RE01-07 at bits 0-6, RE00 at bit 12, junk between.
Window(cmd, junk) ==
    {b - 1 : b \in cmd \ {0}} \cup {12 : b \in cmd \cap {0}} \cup junk

\* The command byte again.
ReByte(w) == {0 : b \in w \cap {12}} \cup {b + 1 : b \in w \cap 0 .. 6}

Full == Len(rx_fifo) >= RxDepth

SmCanStep == CASE sm = "wait1" -> line # NoCommand
               [] sm = "push"  -> ~Full
               [] sm = "wait0" -> line = NoCommand

\* A command strobe.  The next comes long after a program that is not stalled
\* has come back to its start; one that is stalled will not see it.
StrobeRises ==
    /\ line = NoCommand /\ ~SmCanStep
    /\ \E cmd \in Commands \ Range(strobed) :
          line' = cmd /\ strobed' = Append(strobed, cmd)
    /\ missed' = (missed \/ sm # "wait1")
    /\ edges' = edges \cup {"TU00"}
    /\ UNCHANGED <<ringVars, sm, isr, rx_fifo, active, todo, called,
                   delivered, due, extra>>

\* It lasts 1.2 us, four times what the program needs to sample it.
StrobeFalls ==
    /\ line # NoCommand /\ sm # "wait1"
    /\ line' = NoCommand
    /\ UNCHANGED <<ringVars, sm, isr, rx_fifo, irqVars, wireHistory,
                   delivered, due, extra>>

\* A feed strobe.  What was captured before it is to be handled before it.
Feed ==
    /\ ~SmCanStep
    /\ extra < MaxExtra /\ extra' = extra + 1
    /\ edges' = edges \cup {"TU03"}
    /\ due' = Len(delivered) + Len(rx_fifo)
    /\ UNCHANGED <<ringVars, rxVars, active, todo, called,
                   wireHistory, delivered>>

SmSample ==
    /\ sm = "wait1" /\ line # NoCommand
    /\ \E junk \in Junk : isr' = Window(line, junk)
    /\ sm' = "push"
    /\ UNCHANGED <<line, rx_fifo>>

SmPush ==
    /\ sm = "push" /\ ~Full
    /\ rx_fifo' = Append(rx_fifo, isr)
    /\ sm' = "wait0" /\ isr' = {}
    /\ UNCHANGED line

\* Mutant: without the final wait.
SmRearm_AtOnce ==
    /\ sm = "wait0"
    /\ sm' = "wait1"
    /\ UNCHANGED <<line, isr, rx_fifo>>

SmRearm ==
    /\ sm = "wait0" /\ line = NoCommand
    /\ sm' = "wait1"
    /\ UNCHANGED <<line, isr, rx_fifo>>

Capture ==
    /\ SmSample \/ SmPush \/ SmRearm
    /\ UNCHANGED <<ringVars, irqVars, wireHistory, delivered, due, extra>>

----------------------------------------------------------------------------
(* Core1: interrupts nest by priority.  RX-not-empty is a level, edges are *)
(* latched until acknowledged.                                             *)

Preempts(c, d) == c > d

Pending(c) == CASE c = Re   -> rx_fifo # <<>>
                [] c = Gpio -> edges # {}
                [] OTHER    -> FALSE

\* Context c goes on: nothing that preempts it is inside a handler, or about
\* to be.
Runs(c) ==
    /\ c = Main \/ c \in active
    /\ \A d \in active : d # c => Preempts(c, d)
    /\ irq_off \/ \A d \in {Gpio, Re} \ active : Pending(d) => ~Preempts(d, c)

\* An interrupt is taken, the most urgent first.
Takes(c) ==
    /\ ~irq_off /\ c \notin active
    /\ \A d \in active : Preempts(c, d)
    /\ \A d \in {Gpio, Re} \ active : Pending(d) => d <= c
    /\ active' = active \cup {c}

Returns(c) == Runs(c) /\ ~Pushing(c) /\ active' = active \ {c}

\* ev_push goes on, in whatever context runs.
PushGoesOn(c) ==
    /\ Runs(c)
    /\ PushStores(c) \/ PushPublish(c)
    /\ UNCHANGED <<rd, pop, rxVars, irqVars, wireHistory,
                   delivered, due, extra>>

\* pio1_irq0_handler empties the FIFO; feeder_on_re_cmd begins with ev_push.
ReTaken ==
    /\ Pending(Re) /\ Takes(Re)
    /\ UNCHANGED <<ringVars, rxVars, edges, todo, called,
                   wireHistory, delivered, due, extra>>

ReGets ==
    /\ Runs(Re) /\ ~Pushing(Re) /\ rx_fifo # <<>>
    /\ rx_fifo' = Tail(rx_fifo)
    /\ delivered' = Append(delivered, ReByte(Head(rx_fifo)))
    /\ PushLock(Re, <<"RE_CMD", ReByte(Head(rx_fifo))>>)
    /\ UNCHANGED <<rd, pop, line, sm, isr, irqVars, wireHistory,
                   due, extra>>

ReReturns ==
    /\ Returns(Re) /\ rx_fifo = <<>>
    /\ UNCHANGED <<ringVars, rxVars, edges, todo, called,
                   wireHistory, delivered, due, extra>>

\* The SDK's handler looks at the latched edges once, in the order of the
\* pins, and acknowledges each before gpio_irq_handler is called for it.
GpioTaken ==
    /\ Pending(Gpio) /\ Takes(Gpio)
    /\ todo' = (IF "TU03" \in edges THEN <<"TU03">> ELSE <<>>)
               \o (IF "TU00" \in edges THEN <<"TU00">> ELSE <<>>)
    /\ called' = FALSE
    /\ UNCHANGED <<ringVars, rxVars, edges, wireHistory,
                   delivered, due, extra>>

GpioCalls ==
    /\ Runs(Gpio) /\ ~Pushing(Gpio) /\ todo # <<>> /\ ~called
    /\ edges' = edges \ {Head(todo)}
    /\ called' = TRUE
    /\ PushLock(Gpio, <<Head(todo), {}>>)
    /\ UNCHANGED <<rd, pop, rxVars, active, todo,
                   wireHistory, delivered, due, extra>>

\* After its push feeder_on_tu03 looks for a pending command.
GpioServed ==
    /\ Runs(Gpio) /\ ~Pushing(Gpio) /\ called
    /\ todo' = Tail(todo) /\ called' = FALSE
    /\ UNCHANGED <<ringVars, rxVars, edges, active,
                   wireHistory, delivered, due, extra>>

GpioReturns ==
    /\ Returns(Gpio) /\ todo = <<>>
    /\ UNCHANGED <<ringVars, rxVars, edges, todo, called,
                   wireHistory, delivered, due, extra>>

\* The feeder logs what it does from its main loop and from the TX interrupt.
TxTaken ==
    /\ extra < MaxExtra /\ extra' = extra + 1
    /\ Takes(Tx)
    /\ PushLock(Tx, <<"PRESENT_END", {}>>)
    /\ UNCHANGED <<rd, pop, rxVars, edges, todo, called,
                   wireHistory, delivered, due>>

TxReturns ==
    /\ Tx \in active /\ Returns(Tx)
    /\ UNCHANGED <<ringVars, rxVars, edges, todo, called,
                   wireHistory, delivered, due, extra>>

MainLogs ==
    /\ extra < MaxExtra /\ extra' = extra + 1
    /\ active = {} /\ Runs(Main) /\ ~irq_off
    /\ PushLock(Main, <<"PRESENT_START", {}>>)
    /\ UNCHANGED <<rd, pop, rxVars, irqVars, wireHistory, delivered,
                   due>>

----------------------------------------------------------------------------

\* Mutant: with the trace off the ring is emptied.
Drain_Discards ==
    /\ Pop \/ (rd' = wr /\ UNCHANGED <<pushVars, pop>>)
    /\ UNCHANGED <<rxVars, irqVars, wireHistory, delivered, due, extra>>

\* Core0: monitor_drain pops and prints, when the trace is on and the main
\* loop gets there; with the trace off the ring is left alone.
Drain ==
    /\ Pop
    /\ UNCHANGED <<rxVars, irqVars, wireHistory, delivered, due, extra>>

----------------------------------------------------------------------------

RxInit ==
    /\ Init
    /\ line = NoCommand /\ sm = "wait1" /\ isr = {} /\ rx_fifo = <<>>
    /\ edges = {} /\ active = {} /\ todo = <<>> /\ called = FALSE
    /\ strobed = <<>> /\ missed = FALSE /\ delivered = <<>>
    /\ due = 0 /\ extra = 0

Core1 ==
    \/ \E c \in Contexts : PushGoesOn(c)
    \/ ReTaken \/ ReGets \/ ReReturns
    \/ GpioTaken \/ GpioCalls \/ GpioServed \/ GpioReturns
    \/ TxReturns

RxNext ==
    \/ StrobeRises \/ StrobeFalls \/ Feed \/ Capture
    \/ Core1 \/ TxTaken \/ MainLogs
    \/ Drain

\* Core1 goes on.  Nothing is assumed of the machine, or of core0.
RxSpec == RxInit /\ [][RxNext]_vars /\ WF_vars(Core1)

=============================================================================
