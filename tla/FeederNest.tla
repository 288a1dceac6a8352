----------------------------- MODULE FeederNest -----------------------------
(***************************************************************************)
(* src/src/feeder.c statement by statement, under the interrupts that nest *)
(* in its handlers: the RE command above the card feed above the TX FIFO   *)
(* above the main loop (src/src/wire_rx.c, src/src/core1_main.c).  Module  *)
(* Feeder has the same handlers as single steps.                           *)
(*                                                                         *)
(* todo[c] is what context c has still to execute, the call stack          *)
(* flattened: a call is replaced by the statements it leads to, with the   *)
(* values it has read.  One step reads the fields a condition needs, or    *)
(* writes one of them.  A deck is armed throughout; of a card only its     *)
(* columns are counted, one word each; a deadline may be over whenever it  *)
(* is looked at.                                                           *)
(***************************************************************************)
EXTENDS Integers, Sequences

CONSTANTS
    NCards, Loader,     \* the deck's cards, 0 .. NCards - 1, and its loader card
    NCols,              \* columns of a card
    FifoDepth,          \* the TX FIFO's
    MaxStrobes, MaxRewinds  \* bounds

ASSUME NestAssumption ==
    /\ NCards \in Nat \ {0} /\ Loader \in 0 .. NCards - 1
    /\ NCols \in Nat \ {0} /\ FifoDepth \in Nat \ {0}

VARIABLES
    f,          \* g_feeder_status, fd, the LUPOB pin and the TX interrupt source
    fifo,       \* words in the TX FIFO
    todo,       \* context -> the statements it has still to execute
    event,      \* core1's event register, which ends a wfe
    mail,       \* rewinds in the queue
    asked,      \* the machine waits for the last column of a card
    struck,     \* a strobe has come since the main loop was last at its top
    drawn,      \* a word has left the FIFO since then
    pushed,     \* history: the columns pushed since trigger_present, in order
    due,        \* history: the card the machine is to hear next
    cut, late,  \* history: an interrupt has come into a rewind, a feed between
                \* the fallback's look at a parked card and its advance
    strobes, rewinds    \* bounded

vars == <<f, fifo, todo, event, mail, asked, struck, drawn, pushed, due, cut, late, strobes, rewinds>>

Main == 0
Tx   == 1
Gpio == 2
Re   == 3
Contexts == {Main, Tx, Gpio, Re}

----------------------------------------------------------------------------
(* Statements, and the functions of feeder.c as the statements a call of   *)
(* them leads to.                                                          *)

Put(field, value) == <<"put", field, value>>

Init ==
    /\ f = [state |-> "ARMED_WAIT", card |-> Loader, col |-> 0,
            presenting |-> FALSE, cmd_pending |-> FALSE,
            finin_pending |-> FALSE, lupob |-> TRUE, feed_irq |-> FALSE]
    /\ fifo = 0
    /\ todo = [c \in Contexts |-> <<>>]
    /\ event = FALSE /\ mail = 0 /\ asked = FALSE /\ struck = FALSE /\ drawn = FALSE
    /\ pushed = <<>> /\ due = Loader /\ cut = FALSE /\ late = FALSE
    /\ strobes = 0 /\ rewinds = 0

Ready == /\ ~f.presenting /\ ~f.cmd_pending /\ ~f.finin_pending
         /\ f.state \in {"ARMED_WAIT", "CARD_DONE"}

FininRelease ==
    IF f.finin_pending THEN <<Put("finin_pending", FALSE)>> ELSE <<>>

AdvanceCard ==
    <<Put("col", 0)>> \o IF f.card + 1 >= NCards
                         THEN <<Put("state", "DONE")>>
                         ELSE <<<<"card++">>, Put("state", "ARMED_WAIT")>>

\* Mutant: the interrupt is left on.
PresentNext_LeavesIrq ==
    <<<<"push", f.card, f.col>>>> \o
    IF f.col + 1 < NCols
    THEN <<Put("col", f.col + 1)>>
    ELSE <<Put("col", 0), Put("presenting", FALSE),
           Put("finin_pending", TRUE), Put("state", "CARD_DONE")>>

PresentNext ==
    <<<<"push", f.card, f.col>>>> \o
    IF f.col + 1 < NCols
    THEN <<Put("col", f.col + 1)>>
    ELSE <<Put("col", 0), Put("presenting", FALSE),
           Put("finin_pending", TRUE), Put("state", "CARD_DONE"),
           Put("feed_irq", FALSE)>>

\* feeder_on_re_cmd with a read command, and prepare_presentation.
OnRead ==
    (IF f.state \in {"ARMED_WAIT", "CARD_DONE"}
     THEN <<<<"finin_release">>, Put("cmd_pending", TRUE), <<"lupob_update">>>>
     ELSE <<>>) \o <<<<"lupob_update">>>>

OnTu03 ==
    CASE f.cmd_pending          -> <<<<"finin_release">>, <<"trigger_present">>>>
      [] ~f.cmd_pending /\ f.state = "CARD_DONE" ->
            <<<<"finin_release">>, <<"advance_card">>, <<"lupob_update">>>>
      [] OTHER                  -> <<>>

OnTxfeed == IF f.presenting THEN <<<<"present_next">>>> ELSE <<>>

\* Mutant: the command is taken off only when the card has advanced.
TriggerPresent_ClearsLate ==
    IF f.cmd_pending THEN <<<<"parked">>, Put("cmd_pending", FALSE)>> ELSE <<>>

TriggerPresent ==
    IF f.cmd_pending THEN <<Put("cmd_pending", FALSE), <<"parked">>>> ELSE <<>>

Parked == (IF f.state = "CARD_DONE" THEN <<<<"advance_card">>>> ELSE <<>>)
          \o <<<<"present_card">>>>

\* Mutant: the pin is left as it is while a card is presented.
PresentCard_NoUpdate ==
    IF f.state = "ARMED_WAIT"
    THEN <<Put("state", "PRESENTING"), Put("presenting", TRUE), <<"prefill">>>>
    ELSE <<<<"lupob_update">>>>

PresentCard ==
    IF f.state = "ARMED_WAIT"
    THEN <<Put("state", "PRESENTING"), Put("presenting", TRUE),
           <<"lupob_update">>, <<"prefill">>>>
    ELSE <<<<"lupob_update">>>>

\* Mutants: the interrupt is turned on before the prefill, which it then joins;
\* the loop leaves the rest of the card to the handler of a full FIFO.
Prefill_UnderIrq ==
    CASE f.presenting /\ ~f.feed_irq        -> <<Put("feed_irq", TRUE), <<"prefill">>>>
      [] f.presenting /\ f.feed_irq /\ fifo < FifoDepth ->
            <<<<"present_next">>, <<"prefill">>>>
      [] OTHER                              -> <<>>

Prefill_NoIrq ==
    IF f.presenting /\ fifo < FifoDepth THEN <<<<"present_next">>, <<"prefill">>>>
                                         ELSE <<>>

Prefill ==
    CASE f.presenting /\ fifo < FifoDepth   -> <<<<"present_next">>, <<"prefill">>>>
      [] f.presenting /\ fifo >= FifoDepth  -> <<Put("feed_irq", TRUE)>>
      [] OTHER                              -> <<>>

\* IPC_REWIND: cursor_reset, wire_tx_arm, and the pin.
Rewind ==
    <<Put("card", Loader), Put("col", 0), Put("presenting", FALSE),
      Put("cmd_pending", FALSE), Put("finin_pending", FALSE),
      Put("state", "ARMED_WAIT"), Put("feed_irq", FALSE), <<"clear">>,
      <<"lupob_update">>>>

Calls == {"finin_release", "advance_card", "present_next", "on_read", "on_tu03",
          "on_txfeed", "trigger_present", "parked", "present_card", "prefill",
          "lupob_update"}

Body(call) ==
    CASE call = "finin_release"   -> FininRelease
      [] call = "advance_card"    -> AdvanceCard
      [] call = "present_next"    -> PresentNext
      [] call = "on_read"         -> OnRead
      [] call = "on_tu03"         -> OnTu03
      [] call = "on_txfeed"       -> OnTxfeed
      [] call = "trigger_present" -> TriggerPresent
      [] call = "parked"          -> Parked
      [] call = "present_card"    -> PresentCard
      [] call = "prefill"         -> Prefill
      [] call = "lupob_update"    -> <<Put("lupob", Ready)>>

----------------------------------------------------------------------------
(* Contexts.                                                               *)

Idle(c) == todo[c] = <<>>

\* Context c is the most urgent one with something to do.
Runs(c) == ~Idle(c) /\ \A d \in Contexts : d > c => Idle(d)

At(c, ops) == Runs(c) /\ Head(todo[c])[1] \in ops

Then(c, stmts) == todo' = [todo EXCEPT ![c] = stmts \o Tail(@)]

\* An interrupt handler that has nothing left returns, and sets the event
\* register.
Returns(c) == event' = (event \/ (c # Main /\ todo'[c] = <<>>))

Call(c) ==
    /\ At(c, Calls)
    /\ Then(c, Body(Head(todo[c])[1]))
    /\ Returns(c)
    /\ UNCHANGED <<f, fifo, mail, asked, struck, drawn, pushed, due, cut, late, strobes, rewinds>>

Store(c) ==
    /\ At(c, {"put"})
    /\ LET field == Head(todo[c])[2]
           value == Head(todo[c])[3] IN
       /\ f' = [f EXCEPT ![field] = value]
       /\ pushed' = IF field = "presenting" /\ value THEN <<>> ELSE pushed
       /\ due' = IF field = "state" /\ value = "CARD_DONE"
                 THEN pushed[1][1] + 1 ELSE due
    /\ Then(c, <<>>)
    /\ Returns(c)
    /\ UNCHANGED <<fifo, mail, asked, struck, drawn, cut, late, strobes, rewinds>>

\* g_feeder_status.card++ reads the field once more.
NextCard(c) ==
    /\ At(c, {"card++"})
    /\ f' = [f EXCEPT !.card = @ + 1]
    /\ Then(c, <<>>)
    /\ UNCHANGED <<fifo, event, mail, asked, struck, drawn, pushed, due, cut, late, strobes, rewinds>>

\* pio_sm_put drops a word the FIFO has no room for.
Push(c) ==
    /\ At(c, {"push"})
    /\ fifo' = IF fifo < FifoDepth THEN fifo + 1 ELSE fifo
    /\ pushed' = Append(pushed, Tail(Head(todo[c])))
    /\ Then(c, <<>>)
    /\ UNCHANGED <<f, event, mail, asked, struck, drawn, due, cut, late, strobes, rewinds>>

\* wire_tx_arm; from here on the machine is to hear the loader.
ClearFifo ==
    /\ At(Main, {"clear"})
    /\ fifo' = 0 /\ pushed' = <<>> /\ due' = Loader /\ asked' = FALSE
    /\ Then(Main, <<>>)
    /\ UNCHANGED <<f, event, mail, struck, drawn, cut, late, strobes, rewinds>>

----------------------------------------------------------------------------
(* core1's main loop: the queue, feeder_poll, wfe.                         *)

Loop ==
    /\ \A c \in Contexts : Idle(c)
    /\ struck' = FALSE /\ drawn' = FALSE
    /\ \/ /\ mail > 0 /\ mail' = mail - 1
          /\ todo' = [todo EXCEPT ![Main] = Rewind]
       \/ /\ mail = 0 /\ UNCHANGED mail
          /\ todo' = [todo EXCEPT ![Main] = <<<<"poll_cmd">>>>]
    /\ UNCHANGED <<f, fifo, event, asked, pushed, due, cut, late, strobes, rewinds>>

PollUnchanged ==
    UNCHANGED <<f, fifo, event, mail, asked, struck, drawn, pushed, due, cut, late, strobes, rewinds>>

\* Mutant: the loop does not hear that it is to keep polling.
PollWaits_Sleeps ==
    /\ \/ At(Main, {"poll_cmd"}) /\ f.cmd_pending
       \/ At(Main, {"poll_finin"}) /\ f.finin_pending
    /\ Then(Main, <<<<"wfe">>>>) /\ PollUnchanged

\* A deadline is not over yet: back to the top of the loop.
PollWaits ==
    /\ \/ At(Main, {"poll_cmd"}) /\ f.cmd_pending
       \/ At(Main, {"poll_finin"}) /\ f.finin_pending
    /\ Then(Main, <<>>) /\ PollUnchanged

\* It is over.
PollActs ==
    /\ \/ /\ At(Main, {"poll_cmd"}) /\ f.cmd_pending
          /\ Then(Main, <<<<"trigger_present">>, <<"poll_finin">>>>)
       \/ /\ At(Main, {"poll_finin"}) /\ f.finin_pending
          /\ Then(Main, <<<<"finin_release">>, <<"lupob_update">>, <<"wfe">>>>)
    /\ PollUnchanged

\* There is none.
PollPasses ==
    /\ \/ At(Main, {"poll_cmd"}) /\ ~f.cmd_pending /\ Then(Main, <<<<"poll_finin">>>>)
       \/ At(Main, {"poll_finin"}) /\ ~f.finin_pending /\ Then(Main, <<<<"wfe">>>>)
    /\ PollUnchanged

\* wfe waits for the event register to be set, and clears it.
Wakes ==
    /\ At(Main, {"wfe"}) /\ event
    /\ event' = FALSE
    /\ Then(Main, <<>>)
    /\ UNCHANGED <<f, fifo, mail, asked, struck, drawn, pushed, due, cut, late, strobes, rewinds>>

----------------------------------------------------------------------------
(* Around core1.                                                           *)

\* Nothing is under way.
AtRest ==
    /\ \A c \in Contexts \ {Main} : Idle(c)
    /\ todo[Main] \in {<<>>, <<<<"poll_cmd">>>>, <<<<"wfe">>>>}

\* IPC_REWIND has not emptied the FIFO yet.
Rewinding == \E i \in 1 .. Len(todo[Main]) : todo[Main][i] = <<"clear">>

\* trigger_present, in the main loop, is about to advance.
Advancing == \E i \in 2 .. Len(todo[Main]) : todo[Main][i] = <<"present_card">>

\* The machine's strobes are some 100 us apart: the handlers of one, and what
\* the main loop had begun before it, are done by the next.
Strobe(c, call) ==
    /\ struck => AtRest
    /\ Idle(c)
    /\ strobes < MaxStrobes /\ strobes' = strobes + 1
    /\ struck' = TRUE
    /\ todo' = [todo EXCEPT ![c] = <<<<call>>>>]
    /\ cut' = (cut \/ Rewinding)
    /\ UNCHANGED <<f, fifo, event, mail, drawn, pushed, due, rewinds>>

\* A read command; the next one when its card has been heard.
Read == ~asked /\ asked' = TRUE /\ Strobe(Re, "on_read") /\ UNCHANGED late

\* A feed, after a command or at any other time.
Feed == Strobe(Gpio, "on_tu03") /\ late' = (late \/ Advancing) /\ UNCHANGED asked

\* TX-not-full is a level.
TxTaken ==
    /\ f.feed_irq /\ fifo < FifoDepth
    /\ \A c \in Contexts \ {Main} : Idle(c)
    /\ todo' = [todo EXCEPT ![Tx] = <<<<"on_txfeed">>>>]
    /\ cut' = (cut \/ Rewinding)
    /\ UNCHANGED <<f, fifo, event, mail, asked, struck, drawn, pushed, due, late, strobes,
                   rewinds>>

\* A character keeps the wire for some 15 us: what core1 had begun at one is
\* done by the next.
SmPulls ==
    /\ drawn => AtRest
    /\ fifo > 0 /\ fifo' = fifo - 1
    /\ drawn' = TRUE
    /\ asked' = (asked /\ (fifo > 1 \/ Len(pushed) < NCols))
    /\ UNCHANGED <<f, todo, event, mail, struck, pushed, due, cut, late, strobes, rewinds>>

\* ipc_send ends with sev.
IpcSend ==
    /\ rewinds < MaxRewinds /\ rewinds' = rewinds + 1
    /\ mail' = mail + 1 /\ event' = TRUE
    /\ UNCHANGED <<f, fifo, todo, asked, struck, drawn, pushed, due, cut, late, strobes>>

----------------------------------------------------------------------------

Core1 ==
    \/ \E c \in Contexts : Call(c) \/ Store(c) \/ NextCard(c) \/ Push(c)
    \/ ClearFifo
    \/ Loop \/ PollWaits \/ PollActs \/ PollPasses \/ Wakes

Next ==
    \/ Core1 \/ TxTaken \/ SmPulls
    \/ Read \/ Feed
    \/ IpcSend

\* Core1 goes on, takes its interrupts, and sees a deadline over when it keeps
\* looking; the state machine takes its words.  Nothing is assumed of the
\* machine or the console.
Spec ==
    /\ Init /\ [][Next]_vars
    /\ WF_vars(Core1) /\ WF_vars(SmPulls) /\ SF_vars(TxTaken) /\ SF_vars(PollActs)

=============================================================================
