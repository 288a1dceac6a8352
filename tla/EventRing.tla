----------------------------- MODULE EventRing -----------------------------
(***************************************************************************)
(* The event ring of src/src/monitor.c: ev_push on core1, from the main    *)
(* loop and from three interrupt levels that nest, against ev_pop on       *)
(* core0, store by store.  A slot is two words, the time stamp and the     *)
(* word of kind, argument and sequence number; the compiler's copy of it   *)
(* reads the two one after the other.                                      *)
(*                                                                         *)
(* The counters wr and rd are uint32_t in the code.  Their wrap after 2^32 *)
(* events is left out: RingLen divides it, so slots and differences come   *)
(* out the same unless the reader is that far behind.                      *)
(***************************************************************************)
EXTENDS Integers, Sequences

CONSTANTS
    RingLen,        \* EV_RING_LEN
    Contexts,       \* core1's contexts, numbered by urgency
    Events,         \* what is logged: kind and argument
    NoEvent         \* the contents of a slot never written

ASSUME RingAssumption ==
    /\ RingLen \in Nat \ {0}
    /\ Contexts \subseteq Nat
    /\ NoEvent \notin Events

VARIABLES
    ev, wr, rd,     \* g_events
    clock,          \* time_us_32(), advanced by every reading of it
    irq_off,        \* core1's interrupts are disabled
    push,           \* where each context is inside ev_push, and its locals
    pop,            \* where core0 is inside ev_pop, and its locals
    log             \* history: the events pushed, in the order of wr

ringVars == <<ev, wr, rd, clock, irq_off, push, pop, log>>

pushVars == <<ev, wr, clock, irq_off, push, log>>

\* ev[n & (EV_RING_LEN - 1)]
Slot(n) == n % RingLen

Word == [t |-> 0, event |-> NoEvent]

NoPush == [pc |-> "out", n |-> 0, word |-> Word]
NoPop  == [pc |-> "out", wr |-> 0, n |-> 0, word |-> Word]

----------------------------------------------------------------------------
(* ev_push(e), called by context c: take the lock and read wr; store the   *)
(* time; store the rest; publish and release the lock.                     *)

\* Mutant: the host build's ev_lock.
Locks_Not == FALSE

Locks == TRUE

PushLock(c, e) ==
    /\ push[c].pc = "out"
    /\ push' = [push EXCEPT ![c] =
                  [pc |-> "time", n |-> wr, word |-> [t |-> 0, event |-> e]]]
    /\ irq_off' = Locks
    /\ UNCHANGED <<ev, wr, clock, log>>

\* Mutant: the counter is published before the slot is written.
PushTime_Published(c) ==
    /\ push[c].pc = "time"
    /\ clock' = clock + 1
    /\ ev' = [ev EXCEPT ![Slot(push[c].n)].t = clock']
    /\ push' = [push EXCEPT ![c].pc = "event", ![c].word.t = clock']
    /\ wr' = push[c].n + 1
    /\ UNCHANGED <<irq_off, log>>

PushTime(c) ==
    /\ push[c].pc = "time"
    /\ clock' = clock + 1
    /\ ev' = [ev EXCEPT ![Slot(push[c].n)].t = clock']
    /\ push' = [push EXCEPT ![c].pc = "event", ![c].word.t = clock']
    /\ UNCHANGED <<wr, irq_off, log>>

PushEvent(c) ==
    /\ push[c].pc = "event"
    /\ ev' = [ev EXCEPT ![Slot(push[c].n)].event = push[c].word.event]
    /\ push' = [push EXCEPT ![c].pc = "publish"]
    /\ UNCHANGED <<wr, clock, irq_off, log>>

\* Mutant: interrupts are not restored.
PushPublish_StaysOff(c) ==
    /\ push[c].pc = "publish"
    /\ wr' = push[c].n + 1
    /\ log' = Append(log, push[c].word)
    /\ push' = [push EXCEPT ![c] = NoPush]
    /\ UNCHANGED <<ev, clock, irq_off>>

PushPublish(c) ==
    /\ push[c].pc = "publish"
    /\ wr' = push[c].n + 1
    /\ irq_off' = FALSE
    /\ log' = Append(log, push[c].word)
    /\ push' = [push EXCEPT ![c] = NoPush]
    /\ UNCHANGED <<ev, clock>>

PushStores(c) == PushTime(c) \/ PushEvent(c)

Pushing(c) == push[c].pc # "out"

\* A context runs when none more urgent is inside a push, and one that is not
\* inside one starts only while interrupts are enabled.
Uppermost(c) == \A h \in Contexts : Pushing(h) => h <= c

Push(c) ==
    /\ Uppermost(c)
    /\ \/ ~irq_off /\ \E e \in Events : PushLock(c, e)
       \/ PushStores(c)
       \/ PushPublish(c)
    /\ UNCHANGED <<rd, pop>>

----------------------------------------------------------------------------
(* ev_pop: read wr and rd and skip what is lost; copy the slot's two       *)
(* words; store rd.  An empty ring returns 0 at once.                      *)

RingEmpty == rd = wr

\* The number of the event that is popped next.
Oldest == IF wr - rd > RingLen THEN wr - RingLen ELSE rd

PopLoad ==
    /\ pop.pc = "out"
    /\ ~RingEmpty
    /\ pop' = [pc |-> "time", wr |-> wr, n |-> Oldest, word |-> Word]
    /\ UNCHANGED rd

PopTime ==
    /\ pop.pc = "time"
    /\ pop' = [pop EXCEPT !.pc = "event", !.word.t = ev[Slot(pop.n)].t]
    /\ UNCHANGED rd

PopEvent ==
    /\ pop.pc = "event"
    /\ pop' = [pop EXCEPT !.pc = "store", !.word.event = ev[Slot(pop.n)].event]
    /\ UNCHANGED rd

PopStore ==
    /\ pop.pc = "store"
    /\ rd' = pop.n + 1
    /\ pop' = NoPop

Pop == (PopLoad \/ PopTime \/ PopEvent \/ PopStore) /\ UNCHANGED pushVars

----------------------------------------------------------------------------

Init ==
    /\ ev = [s \in 0 .. RingLen - 1 |-> Word]
    /\ wr = 0 /\ rd = 0
    /\ clock = 0
    /\ irq_off = FALSE
    /\ push = [c \in Contexts |-> NoPush]
    /\ pop = NoPop
    /\ log = <<>>

Next == Pop \/ \E c \in Contexts : Push(c)

Spec == Init /\ [][Next]_ringVars

----------------------------------------------------------------------------
(* What the trace can rely on.                                             *)

\* Every event is counted, and none written over by one that preempts its
\* push: wr is the number of events pushed (monitor.c:37-39).
EveryEventCounted == wr = Len(log)

\* The oldest event that the ring still held when the pop under way began.
OldestHeld == IF pop.wr > rd + RingLen THEN pop.wr - RingLen ELSE rd

\* A push has begun since then that writes its slot.
Overtaken ==
    \/ wr > OldestHeld + RingLen
    \/ wr = OldestHeld + RingLen /\ \E c \in Contexts : Pushing(c)

\* A pop returns that event, whole, although core1 goes on pushing: unless the
\* writer comes round to the very slot that is being copied.
PopsWhole ==
    pop.pc = "store" /\ ~Overtaken
        => OldestHeld < Len(log) /\ pop.word = log[OldestHeld + 1]

\* What is still unread is in the ring: the reader that is not RingLen events
\* behind will find every event, and one that is will find the last ones
\* (monitor.c:111-112).  The slot being written is the one lost.
KeepsLatest ==
    \A n \in 0 .. wr - 1 :
        n + RingLen > wr \/ (n + RingLen = wr /\ ~irq_off)
            => ev[Slot(n)] = log[n + 1]
=============================================================================
