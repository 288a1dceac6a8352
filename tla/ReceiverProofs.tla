--------------------------- MODULE ReceiverProofs ---------------------------
(***************************************************************************)
(* The receiver, for every depth of its FIFO, every set of commands and    *)
(* whatever the other pins read: what is strobed is what the feeder gets,  *)
(* commands overtake no feed, and the nested handlers use the event ring   *)
(* as module EventRing has it, so that its theorems hold of the trace.     *)
(***************************************************************************)
EXTENDS ReceiverProps, SequenceTheorems, TLAPS

----------------------------------------------------------------------------
(* The ring, for every length, every set of contexts and any number of     *)
(* events: each event is counted, the unread ones are in the ring, and a   *)
(* pop that is not overtaken is whole.                                     *)

WordSet == [t : Nat, event : Events \cup {NoEvent}]

PushSet == [pc : {"out", "time", "event", "publish"}, n : Nat, word : WordSet]

PopSet == [pc : {"out", "time", "event", "store"},
           wr : Nat, n : Nat, word : WordSet]

RingTypeOK ==
    /\ ev \in [0 .. RingLen - 1 -> WordSet]
    /\ wr \in Nat /\ rd \in Nat /\ clock \in Nat
    /\ irq_off \in BOOLEAN
    /\ push \in [Contexts -> PushSet]
    /\ pop \in PopSet
    /\ log \in Seq(WordSet)

\* One context at most is inside ev_push, it holds the lock, and what it has
\* stored is in the slot behind the last event.
Writer ==
    /\ irq_off <=> \E c \in Contexts : Pushing(c)
    /\ \A c, d \in Contexts : Pushing(c) /\ Pushing(d) => c = d
    /\ \A c \in Contexts :
          /\ Pushing(c) => push[c].n = wr
          /\ push[c].pc \in {"event", "publish"} => ev[Slot(wr)].t = push[c].word.t
          /\ push[c].pc = "publish" => ev[Slot(wr)].event = push[c].word.event

\* The reader is behind the writer, and what it has copied is the event it
\* counts, unless it has been overtaken.
Reader ==
    /\ rd <= wr
    /\ pop.pc # "out" => pop.wr <= wr /\ rd < pop.wr /\ pop.n = OldestHeld
    /\ pop.pc \in {"event", "store"} /\ ~Overtaken
          => pop.word.t = log[pop.n + 1].t
    /\ pop.pc = "store" /\ ~Overtaken
          => pop.word.event = log[pop.n + 1].event

RingInv == RingTypeOK /\ EveryEventCounted /\ Writer /\ KeepsLatest /\ Reader

----------------------------------------------------------------------------
(* Slots.                                                                  *)

LEMMA DivMod ==
    ASSUME NEW R \in Nat \ {0}, NEW a \in Nat
    PROVE  a = R * (a \div R) + (a % R) /\ a % R \in 0 .. R - 1 /\ a \div R \in Nat
  OBVIOUS

LEMMA Multiple ==
    ASSUME NEW R \in Nat \ {0}, NEW q \in Int, q >= 1
    PROVE  R * q >= R
  OBVIOUS

LEMMA ModDiffer ==
    ASSUME NEW R \in Nat \ {0}, NEW a \in Nat, NEW b \in Nat, a < b, b < a + R
    PROVE  a % R # b % R
<1> SUFFICES ASSUME a % R = b % R PROVE FALSE
  OBVIOUS
<1> DEFINE p == a \div R
           q == b \div R
<1>1. a = R * p + (a % R) /\ p \in Nat
  BY DivMod
<1>2. b = R * q + (b % R) /\ q \in Nat
  BY DivMod
<1>3. b - a = R * (q - p)
  BY <1>1, <1>2
<1> HIDE DEF p, q
<1>4. CASE q - p <= 0
  <2>1. R * (q - p) <= 0
    BY <1>1, <1>2, <1>4
  <2> QED BY <1>3, <2>1
<1>5. CASE q - p >= 1
  <2>1. R * (q - p) >= R
    BY <1>1, <1>2, <1>5, Multiple
  <2> QED BY <1>3, <2>1
<1> QED BY <1>1, <1>2, <1>4, <1>5

LEMMA SlotInRing == ASSUME NEW n \in Nat PROVE Slot(n) \in 0 .. RingLen - 1
  BY RingAssumption, DivMod DEF Slot

\* Different events less than RingLen apart are in different slots.
LEMMA SlotsDiffer ==
    ASSUME NEW a \in Nat, NEW b \in Nat, a # b,
           b < a + RingLen, a < b + RingLen
    PROVE  Slot(a) # Slot(b)
<1>1. RingLen \in Nat \ {0}
  BY RingAssumption
<1>2. CASE a < b
  <2>1. a % RingLen # b % RingLen
    BY <1>1, <1>2, ModDiffer
  <2> QED BY <2>1 DEF Slot
<1>3. CASE b < a
  <2>1. b % RingLen # a % RingLen
    BY <1>1, <1>3, ModDiffer
  <2> QED BY <2>1 DEF Slot
<1> QED BY <1>2, <1>3

----------------------------------------------------------------------------

LEMMA RingInit == Init => RingInv
<1> SUFFICES ASSUME Init PROVE RingInv
  OBVIOUS
<1>1. Word \in WordSet
  BY DEF Word, WordSet
<1>2. RingTypeOK
  BY <1>1, RingAssumption DEF Init, RingTypeOK, PushSet, PopSet, NoPush, NoPop
<1>3. \A c \in Contexts : push[c].pc = "out"
  BY DEF Init, NoPush
<1>4. pop.pc = "out"
  BY DEF Init, NoPop
<1>5. EveryEventCounted
  BY DEF Init, EveryEventCounted
<1>6. Writer
  BY <1>3 DEF Init, Writer, Pushing
<1>7. KeepsLatest
  BY DEF Init, KeepsLatest
<1>8. Reader
  BY <1>4 DEF Init, Reader
<1> QED BY <1>2, <1>5, <1>6, <1>7, <1>8 DEF RingInv

\* The steps of a push, each with what it leaves alone.
PushStep(c) ==
    \/ ~irq_off /\ (\E e \in Events : PushLock(c, e)) /\ UNCHANGED <<rd, pop>>
    \/ PushTime(c) /\ UNCHANGED <<rd, pop>>
    \/ PushEvent(c) /\ UNCHANGED <<rd, pop>>
    \/ PushPublish(c) /\ UNCHANGED <<rd, pop>>

LEMMA StepCases ==
    ASSUME [Next]_ringVars
    PROVE  \/ \E c \in Contexts : PushStep(c)
           \/ PopLoad /\ UNCHANGED pushVars
           \/ PopTime /\ UNCHANGED pushVars
           \/ PopEvent /\ UNCHANGED pushVars
           \/ PopStore /\ UNCHANGED pushVars
           \/ UNCHANGED ringVars
  BY DEF Next, Push, Pop, PushStep, PushStores

LEMMA TypeStep ==
    ASSUME RingTypeOK, [Next]_ringVars
    PROVE  RingTypeOK'
<1> USE DEF RingTypeOK
<1>1. ASSUME NEW c \in Contexts, PushStep(c) PROVE RingTypeOK'
  <2>1. ASSUME NEW e \in Events, PushLock(c, e), UNCHANGED <<rd, pop>>
        PROVE  RingTypeOK'
    <3>1. [pc |-> "time", n |-> wr, word |-> [t |-> 0, event |-> e]] \in PushSet
      BY DEF PushSet, WordSet
    <3> QED BY <2>1, <3>1 DEF PushLock, Locks
  <2>2. CASE PushTime(c) /\ UNCHANGED <<rd, pop>>
    <3>1. push[c] \in PushSet /\ clock' \in Nat
      BY <2>2 DEF PushTime
    <3>2. [push[c] EXCEPT !.pc = "event", !.word.t = clock'] \in PushSet
      BY <3>1 DEF PushSet, WordSet
    <3>3. push' \in [Contexts -> PushSet]
      BY <2>2, <3>2 DEF PushTime
    <3>4. Slot(push[c].n) \in 0 .. RingLen - 1
      BY <3>1, SlotInRing DEF PushSet
    <3>5. [ev[Slot(push[c].n)] EXCEPT !.t = clock'] \in WordSet
      BY <3>1, <3>4 DEF WordSet
    <3> QED BY <2>2, <3>1, <3>3, <3>5 DEF PushTime
  <2>3. CASE PushEvent(c) /\ UNCHANGED <<rd, pop>>
    <3>1. push[c] \in PushSet
      OBVIOUS
    <3>2. [push[c] EXCEPT !.pc = "publish"] \in PushSet
      BY <3>1 DEF PushSet
    <3>3. Slot(push[c].n) \in 0 .. RingLen - 1
      BY <3>1, SlotInRing DEF PushSet
    <3>4. [ev[Slot(push[c].n)] EXCEPT !.event = push[c].word.event] \in WordSet
      BY <3>1, <3>3 DEF WordSet, PushSet
    <3> QED BY <2>3, <3>2, <3>4 DEF PushEvent
  <2>4. CASE PushPublish(c) /\ UNCHANGED <<rd, pop>>
    <3>1. push[c] \in PushSet /\ push[c].n + 1 \in Nat /\ push[c].word \in WordSet
      BY DEF PushSet
    <3>2. NoPush \in PushSet
      BY DEF PushSet, WordSet, NoPush, Word
    <3>3. push' \in [Contexts -> PushSet]
      BY <2>4, <3>2 DEF PushPublish
    <3>4. log' \in Seq(WordSet)
      BY <2>4, <3>1 DEF PushPublish
    <3> QED BY <2>4, <3>1, <3>3, <3>4 DEF PushPublish
  <2> QED BY <1>1, <2>1, <2>2, <2>3, <2>4 DEF PushStep
<1>2. CASE PopLoad /\ UNCHANGED pushVars
  <2>1. Oldest \in Nat
    BY RingAssumption DEF Oldest
  <2>2. Word \in WordSet
    BY DEF Word, WordSet
  <2> QED BY <1>2, <2>1, <2>2 DEF PopLoad, pushVars, PopSet
<1>3. CASE PopTime /\ UNCHANGED pushVars
  <2>1. ev[Slot(pop.n)] \in WordSet
    BY SlotInRing DEF PopSet
  <2>2. pop' \in PopSet
    BY <1>3, <2>1 DEF PopTime, PopSet, WordSet
  <2> QED BY <1>3, <2>2 DEF PopTime, pushVars
<1>4. CASE PopEvent /\ UNCHANGED pushVars
  <2>1. ev[Slot(pop.n)] \in WordSet
    BY SlotInRing DEF PopSet
  <2>2. pop' \in PopSet
    BY <1>4, <2>1 DEF PopEvent, PopSet, WordSet
  <2> QED BY <1>4, <2>2 DEF PopEvent, pushVars
<1>5. CASE PopStore /\ UNCHANGED pushVars
  <2>1. NoPop \in PopSet
    BY DEF PopSet, WordSet, NoPop, Word
  <2>2. pop.n + 1 \in Nat
    BY DEF PopSet
  <2> QED BY <1>5, <2>1, <2>2 DEF PopStore, pushVars
<1>6. CASE UNCHANGED ringVars
  BY <1>6 DEF ringVars
<1> QED BY <1>1, <1>2, <1>3, <1>4, <1>5, <1>6, StepCases

----------------------------------------------------------------------------
(* The writer.                                                             *)

\* A context inside ev_push is the only one, and is at slot wr.
LEMMA OneWriter ==
    ASSUME RingInv, NEW c \in Contexts, Pushing(c)
    PROVE  /\ irq_off
           /\ push[c].n = wr
           /\ \A d \in Contexts : d # c => ~Pushing(d)
  BY DEF RingInv, Writer

LEMMA PushLockWrites ==
    ASSUME RingInv, NEW c \in Contexts, NEW e \in Events,
           ~irq_off, PushLock(c, e)
    PROVE  Writer' /\ EveryEventCounted'
<1>1. \A d \in Contexts : ~Pushing(d)
  BY DEF RingInv, Writer
<1>2. /\ push'[c].pc = "time" /\ push'[c].n = wr /\ wr' = wr /\ irq_off'
      /\ \A d \in Contexts : d # c => push'[d] = push[d]
  BY DEF RingInv, RingTypeOK, PushLock, Locks
<1>3. Pushing(c)' /\ \A d \in Contexts : d # c => ~Pushing(d)'
  BY <1>1, <1>2 DEF Pushing
<1>4. \A d \in Contexts : d # c => push'[d].pc = "out"
  BY <1>3 DEF Pushing
<1>5. Writer'
  BY <1>2, <1>3, <1>4 DEF Writer
<1>6. EveryEventCounted'
  BY DEF RingInv, EveryEventCounted, PushLock
<1> QED BY <1>5, <1>6

LEMMA PushTimeWrites ==
    ASSUME RingInv, NEW c \in Contexts, PushTime(c)
    PROVE  Writer' /\ EveryEventCounted'
<1>1. Pushing(c)
  BY DEF PushTime, Pushing
<1>2. /\ irq_off /\ push[c].n = wr
      /\ \A d \in Contexts : d # c => ~Pushing(d)
  BY <1>1, OneWriter
<1>3. /\ push'[c].pc = "event" /\ push'[c].n = wr /\ push'[c].word.t = clock'
      /\ \A d \in Contexts : d # c => push'[d] = push[d]
      /\ wr' = wr /\ irq_off' = irq_off
  BY <1>2 DEF RingInv, RingTypeOK, PushSet, WordSet, PushTime
<1>4. Slot(wr) \in 0 .. RingLen - 1
  BY SlotInRing DEF RingInv, RingTypeOK
<1>5. ev'[Slot(wr)].t = clock'
  BY <1>2, <1>4 DEF RingInv, RingTypeOK, WordSet, PushTime
<1>6. Pushing(c)' /\ \A d \in Contexts : d # c => ~Pushing(d)'
  BY <1>2, <1>3 DEF Pushing
<1>7. \A d \in Contexts : d # c => push'[d].pc = "out"
  BY <1>6 DEF Pushing
<1>8. Slot(wr)' = Slot(wr)
  BY <1>3 DEF Slot
<1>9. Writer'
  BY <1>2, <1>3, <1>5, <1>6, <1>7, <1>8 DEF Writer
<1>10. EveryEventCounted'
  BY DEF RingInv, EveryEventCounted, PushTime
<1> QED BY <1>9, <1>10

LEMMA PushEventWrites ==
    ASSUME RingInv, NEW c \in Contexts, PushEvent(c)
    PROVE  Writer' /\ EveryEventCounted'
<1>1. Pushing(c)
  BY DEF PushEvent, Pushing
<1>2. /\ irq_off /\ push[c].n = wr
      /\ \A d \in Contexts : d # c => ~Pushing(d)
  BY <1>1, OneWriter
<1>3. /\ push'[c].pc = "publish" /\ push'[c].n = wr
      /\ push'[c].word = push[c].word
      /\ \A d \in Contexts : d # c => push'[d] = push[d]
      /\ wr' = wr /\ irq_off' = irq_off
  BY <1>2 DEF RingInv, RingTypeOK, PushSet, WordSet, PushEvent
<1>4. Slot(wr) \in 0 .. RingLen - 1
  BY SlotInRing DEF RingInv, RingTypeOK
<1>5. ev[Slot(wr)].t = push[c].word.t
  BY DEF RingInv, Writer, PushEvent
<1>6. ev'[Slot(wr)].t = push[c].word.t /\ ev'[Slot(wr)].event = push[c].word.event
  BY <1>2, <1>4, <1>5 DEF RingInv, RingTypeOK, WordSet, PushEvent
<1>7. Pushing(c)' /\ \A d \in Contexts : d # c => ~Pushing(d)'
  BY <1>2, <1>3 DEF Pushing
<1>8. \A d \in Contexts : d # c => push'[d].pc = "out"
  BY <1>7 DEF Pushing
<1>9. Slot(wr)' = Slot(wr)
  BY <1>3 DEF Slot
<1>10. Writer'
  BY <1>2, <1>3, <1>6, <1>7, <1>8, <1>9 DEF Writer
<1>11. EveryEventCounted'
  BY DEF RingInv, EveryEventCounted, PushEvent
<1> QED BY <1>10, <1>11

LEMMA PushPublishWrites ==
    ASSUME RingInv, NEW c \in Contexts, PushPublish(c)
    PROVE  Writer' /\ EveryEventCounted'
<1>1. Pushing(c)
  BY DEF PushPublish, Pushing
<1>2. /\ push[c].n = wr
      /\ \A d \in Contexts : d # c => ~Pushing(d)
  BY <1>1, OneWriter
<1>3. /\ push'[c].pc = "out"
      /\ \A d \in Contexts : d # c => push'[d] = push[d]
      /\ ~irq_off'
  BY DEF RingInv, RingTypeOK, PushPublish, NoPush
<1>4. \A d \in Contexts : push'[d].pc = "out"
  BY <1>2, <1>3 DEF Pushing
<1>5. Writer'
  BY <1>3, <1>4 DEF Writer, Pushing
<1>6. push[c].word \in WordSet
  BY DEF RingInv, RingTypeOK, PushSet
<1>7. EveryEventCounted'
  BY <1>2, <1>6 DEF RingInv, RingTypeOK, EveryEventCounted, PushPublish
<1> QED BY <1>5, <1>7

----------------------------------------------------------------------------
(* What is unread stays in the ring.                                       *)

\* A push that is under way writes no slot but the one it is about to publish.
LEMMA StoresKeep ==
    ASSUME RingInv, NEW c \in Contexts, PushTime(c) \/ PushEvent(c)
    PROVE  KeepsLatest'
<1>1. Pushing(c)
  BY DEF PushTime, PushEvent, Pushing
<1>2. irq_off /\ push[c].n = wr
  BY <1>1, OneWriter
<1>3. wr' = wr /\ irq_off' = irq_off /\ log' = log
  BY DEF PushTime, PushEvent
<1>4. \A s \in 0 .. RingLen - 1 : s # Slot(wr) => ev'[s] = ev[s]
  BY <1>2 DEF RingInv, RingTypeOK, PushTime, PushEvent
<1>5. ASSUME NEW n \in 0 .. wr - 1, n + RingLen > wr
      PROVE  ev'[Slot(n)] = log[n + 1]
  <2>1. n \in Nat /\ wr \in Nat /\ RingLen \in Nat /\ n # wr
        /\ n < wr + RingLen /\ wr < n + RingLen
    BY <1>5, RingAssumption DEF RingInv, RingTypeOK
  <2>2. Slot(n) # Slot(wr)
    BY <2>1, SlotsDiffer
  <2>3. Slot(n) \in 0 .. RingLen - 1
    BY <2>1, SlotInRing
  <2> QED BY <1>4, <1>5, <2>2, <2>3 DEF RingInv, KeepsLatest
<1>6. \A n : Slot(n)' = Slot(n)
  BY DEF Slot
<1> QED BY <1>2, <1>3, <1>5, <1>6 DEF KeepsLatest

\* The slot published holds the event that the push counts.
LEMMA PublishKeeps ==
    ASSUME RingInv, NEW c \in Contexts, PushPublish(c)
    PROVE  KeepsLatest'
<1>1. Pushing(c)
  BY DEF PushPublish, Pushing
<1>2. irq_off /\ push[c].n = wr
  BY <1>1, OneWriter
<1>3. /\ wr' = wr + 1 /\ ev' = ev
      /\ wr \in Nat /\ RingLen \in Nat /\ Len(log) = wr
      /\ push[c].word \in WordSet
      /\ log' = Append(log, push[c].word) /\ log \in Seq(WordSet)
  BY <1>2, RingAssumption
     DEF RingInv, RingTypeOK, EveryEventCounted, PushPublish, PushSet
<1>4. Slot(wr) \in 0 .. RingLen - 1
  BY <1>3, SlotInRing
<1>5. ev[Slot(wr)] = push[c].word
  <2>1. ev[Slot(wr)].t = push[c].word.t /\ ev[Slot(wr)].event = push[c].word.event
    BY DEF RingInv, Writer, PushPublish
  <2>2. ev[Slot(wr)] \in WordSet
    BY <1>4 DEF RingInv, RingTypeOK
  <2> QED BY <1>3, <2>1, <2>2 DEF WordSet
<1>6. ASSUME NEW n \in 0 .. wr, n + RingLen >= wr + 1
      PROVE  ev'[Slot(n)] = log'[n + 1]
  <2>1. CASE n = wr
    BY <1>3, <1>5, <2>1
  <2>2. CASE n < wr
    <3>1. n \in 0 .. wr - 1 /\ n + RingLen > wr
      BY <1>3, <1>6, <2>2
    <3>2. ev[Slot(n)] = log[n + 1]
      BY <3>1 DEF RingInv, KeepsLatest
    <3> QED BY <1>3, <3>1, <3>2
  <2> QED BY <1>3, <2>1, <2>2
<1>7. \A n : Slot(n)' = Slot(n)
  BY DEF Slot
<1> QED BY <1>3, <1>6, <1>7 DEF KeepsLatest

----------------------------------------------------------------------------
(* The reader.                                                             *)

\* The event that a pop counts has been pushed.
LEMMA HeldIsPushed ==
    ASSUME RingInv, pop.pc # "out"
    PROVE  /\ pop.n = OldestHeld
           /\ OldestHeld \in Nat /\ OldestHeld < wr
<1>1. /\ wr \in Nat /\ rd \in Nat /\ pop.wr \in Nat
      /\ RingLen \in Nat /\ RingLen > 0
  BY RingAssumption DEF RingInv, RingTypeOK, PopSet
<1>2. pop.wr <= wr /\ rd < pop.wr /\ pop.n = OldestHeld
  BY DEF RingInv, Reader
<1> QED BY <1>1, <1>2 DEF OldestHeld

\* A step of the writer overtakes a pop for good, and leaves alone what the
\* pop has been overtaken by nobody to read.
LEMMA WriterPasses ==
    ASSUME RingInv, NEW c \in Contexts, PushStep(c)
    PROVE  Reader'
<1>1. /\ rd' = rd /\ pop' = pop
      /\ wr \in Nat /\ rd \in Nat /\ RingLen \in Nat /\ Len(log) = wr
      /\ pop.wr \in Nat /\ pop.n \in Nat /\ log \in Seq(WordSet)
  BY RingAssumption DEF RingInv, RingTypeOK, EveryEventCounted, PushStep, PopSet
<1>2. OldestHeld' = OldestHeld
  BY <1>1 DEF OldestHeld
<1>3. \/ wr' = wr /\ log' = log /\ Pushing(c)'
      \/ wr' = wr + 1 /\ Pushing(c) /\ log' = Append(log, push[c].word)
         /\ push[c].word \in WordSet
  <2>1. CASE wr' = wr /\ log' = log /\ push'[c].pc # "out"
    BY <2>1 DEF Pushing
  <2>2. CASE PushPublish(c)
    <3>1. Pushing(c)
      BY <2>2 DEF PushPublish, Pushing
    <3>2. push[c].n = wr
      BY <3>1, OneWriter
    <3> QED BY <2>2, <3>1, <3>2 DEF PushPublish, RingInv, RingTypeOK, PushSet
  <2>3. ASSUME NEW e \in Events, PushLock(c, e)
        PROVE  wr' = wr /\ log' = log /\ push'[c].pc # "out"
    BY <2>3 DEF PushLock, RingInv, RingTypeOK
  <2>4. ASSUME PushTime(c)
        PROVE  wr' = wr /\ log' = log /\ push'[c].pc # "out"
    BY <2>4 DEF PushTime, RingInv, RingTypeOK, PushSet
  <2>5. ASSUME PushEvent(c)
        PROVE  wr' = wr /\ log' = log /\ push'[c].pc # "out"
    BY <2>5 DEF PushEvent, RingInv, RingTypeOK, PushSet
  <2> QED BY <2>1, <2>2, <2>3, <2>4, <2>5 DEF PushStep
<1>4. wr' \in Nat /\ wr' >= wr
  BY <1>1, <1>3
<1>5. pop.pc # "out" => OldestHeld \in Nat /\ OldestHeld < wr /\ pop.n = OldestHeld
  BY HeldIsPushed
<1>6. pop.pc # "out" /\ ~Overtaken' => ~Overtaken
  <2> SUFFICES ASSUME pop.pc # "out", Overtaken PROVE Overtaken'
    OBVIOUS
  <2>1. CASE wr > OldestHeld + RingLen
    BY <1>1, <1>2, <1>4, <1>5, <2>1 DEF Overtaken
  <2>2. CASE wr = OldestHeld + RingLen
    BY <1>1, <1>2, <1>3, <1>5, <2>2 DEF Overtaken
  <2> QED BY <2>1, <2>2 DEF Overtaken
<1>7. pop.pc # "out" => log'[pop.n + 1] = log[pop.n + 1]
  BY <1>1, <1>3, <1>5
<1>8. /\ rd' <= wr'
      /\ pop'.pc # "out" => pop'.wr <= wr' /\ rd' < pop'.wr /\ pop'.n = OldestHeld'
  BY <1>1, <1>2, <1>4 DEF RingInv, Reader
<1> QED BY <1>1, <1>6, <1>7, <1>8 DEF RingInv, Reader

\* A pop that is not overtaken copies the event that it counts.
LEMMA PopsOldest ==
    ASSUME RingInv, pop.pc # "out", ~Overtaken
    PROVE  ev[Slot(pop.n)] = log[pop.n + 1]
<1>1. /\ pop.n = OldestHeld /\ OldestHeld \in Nat /\ OldestHeld < wr
      /\ wr \in Nat /\ RingLen \in Nat
  BY HeldIsPushed, RingAssumption DEF RingInv, RingTypeOK
<1>2. pop.n \in 0 .. wr - 1
  BY <1>1
<1>3. pop.n + RingLen > wr \/ (pop.n + RingLen = wr /\ ~irq_off)
  BY <1>1, <1>2 DEF Overtaken, RingInv, Writer
<1> QED BY <1>2, <1>3 DEF RingInv, KeepsLatest

LEMMA ReaderReads ==
    ASSUME RingInv, UNCHANGED pushVars,
           PopLoad \/ PopTime \/ PopEvent \/ PopStore
    PROVE  Reader'
<1>1. /\ wr' = wr /\ log' = log /\ push' = push /\ ev' = ev
      /\ wr \in Nat /\ rd \in Nat /\ RingLen \in Nat
      /\ pop.wr \in Nat /\ pop.n \in Nat /\ pop.word \in WordSet
  BY RingAssumption DEF RingInv, RingTypeOK, PopSet, pushVars
<1>2. CASE PopLoad
  <2>1. rd' = rd /\ pop'.pc = "time" /\ pop'.wr = wr /\ pop'.n = Oldest /\ rd < wr
    BY <1>1, <1>2 DEF PopLoad, RingEmpty, RingInv, Reader
  <2>2. OldestHeld' = Oldest
    BY <1>1, <2>1 DEF OldestHeld, Oldest
  <2> QED BY <1>1, <2>1, <2>2 DEF Reader
<1>3. CASE PopTime
  <2>1. /\ rd' = rd /\ pop.pc = "time"
        /\ pop'.pc = "event" /\ pop'.wr = pop.wr /\ pop'.n = pop.n
        /\ pop'.word.t = ev[Slot(pop.n)].t
    BY <1>3 DEF PopTime, RingInv, RingTypeOK, PopSet, WordSet
  <2>2. OldestHeld' = OldestHeld /\ Overtaken' = Overtaken
    BY <1>1, <2>1 DEF OldestHeld, Overtaken, Pushing
  <2>3. ~Overtaken => ev[Slot(pop.n)] = log[pop.n + 1]
    BY <2>1, PopsOldest
  <2> QED BY <1>1, <2>1, <2>2, <2>3 DEF RingInv, Reader
<1>4. CASE PopEvent
  <2>1. /\ rd' = rd /\ pop.pc = "event"
        /\ pop'.pc = "store" /\ pop'.wr = pop.wr /\ pop'.n = pop.n
        /\ pop'.word.t = pop.word.t
        /\ pop'.word.event = ev[Slot(pop.n)].event
    BY <1>4 DEF PopEvent, RingInv, RingTypeOK, PopSet, WordSet
  <2>2. OldestHeld' = OldestHeld /\ Overtaken' = Overtaken
    BY <1>1, <2>1 DEF OldestHeld, Overtaken, Pushing
  <2>3. ~Overtaken => ev[Slot(pop.n)] = log[pop.n + 1]
    BY <2>1, PopsOldest
  <2> QED BY <1>1, <2>1, <2>2, <2>3 DEF RingInv, Reader
<1>5. CASE PopStore
  <2>1. rd' = pop.n + 1 /\ pop'.pc = "out" /\ pop.pc # "out"
    BY <1>5 DEF PopStore, NoPop
  <2>2. pop.n < wr
    BY <2>1, HeldIsPushed
  <2> QED BY <1>1, <2>1, <2>2 DEF Reader
<1> QED BY <1>2, <1>3, <1>4, <1>5

----------------------------------------------------------------------------

LEMMA RingStep ==
    ASSUME RingInv, [Next]_ringVars
    PROVE  RingInv'
<1>1. RingTypeOK'
  BY TypeStep DEF RingInv
<1>2. ASSUME NEW c \in Contexts, PushStep(c)
      PROVE  EveryEventCounted' /\ Writer' /\ KeepsLatest' /\ Reader'
  <2>1. Reader'
    BY <1>2, WriterPasses
  <2>2. ASSUME NEW e \in Events, PushLock(c, e), ~irq_off
        PROVE  EveryEventCounted' /\ Writer' /\ KeepsLatest'
    <3>1. EveryEventCounted' /\ Writer'
      BY <2>2, PushLockWrites
    <3>2. KeepsLatest'
      BY <2>2 DEF RingInv, KeepsLatest, PushLock, Locks, Slot
    <3> QED BY <3>1, <3>2
  <2>3. ASSUME PushTime(c)
        PROVE  EveryEventCounted' /\ Writer' /\ KeepsLatest'
    BY <2>3, PushTimeWrites, StoresKeep
  <2>4. ASSUME PushEvent(c)
        PROVE  EveryEventCounted' /\ Writer' /\ KeepsLatest'
    BY <2>4, PushEventWrites, StoresKeep
  <2>5. ASSUME PushPublish(c)
        PROVE  EveryEventCounted' /\ Writer' /\ KeepsLatest'
    BY <2>5, PushPublishWrites, PublishKeeps
  <2> QED BY <1>2, <2>1, <2>2, <2>3, <2>4, <2>5 DEF PushStep
<1>3. ASSUME UNCHANGED pushVars, PopLoad \/ PopTime \/ PopEvent \/ PopStore
      PROVE  EveryEventCounted' /\ Writer' /\ KeepsLatest' /\ Reader'
  <2>1. Reader'
    BY <1>3, ReaderReads
  <2>2. EveryEventCounted' /\ Writer' /\ KeepsLatest'
    BY <1>3 DEF RingInv, pushVars, EveryEventCounted, Writer, KeepsLatest,
                Pushing, Slot
  <2> QED BY <2>1, <2>2
<1>4. CASE UNCHANGED ringVars
  <2>1. EveryEventCounted' /\ Writer' /\ KeepsLatest'
    BY <1>4 DEF ringVars, RingInv, EveryEventCounted, Writer, KeepsLatest,
                Pushing, Slot
  <2>2. OldestHeld' = OldestHeld /\ Overtaken' = Overtaken
    BY <1>4 DEF ringVars, OldestHeld, Overtaken, Pushing
  <2>3. Reader'
    BY <1>4, <2>2 DEF ringVars, RingInv, Reader
  <2> QED BY <1>1, <2>1, <2>3 DEF RingInv
<1> QED BY <1>1, <1>2, <1>3, <1>4, StepCases DEF RingInv

THEOREM RingCorrect == Spec => []RingInv
<1>1. Init => RingInv
  BY RingInit
<1>2. RingInv /\ [Next]_ringVars => RingInv'
  BY RingStep
<1> QED BY <1>1, <1>2, PTL DEF Spec

\* No push is lost under another that preempts it.
THEOREM Counted == Spec => []EveryEventCounted
<1>1. RingInv => EveryEventCounted
  BY DEF RingInv
<1> QED BY <1>1, RingCorrect, PTL

\* The last RingLen events are in the ring, but the one being written over.
THEOREM Kept == Spec => []KeepsLatest
<1>1. RingInv => KeepsLatest
  BY DEF RingInv
<1> QED BY <1>1, RingCorrect, PTL

\* core0 prints an event of core1's as it was pushed, in spite of the pushes
\* made meanwhile, unless they go all the way round the ring.
THEOREM PoppedWhole == Spec => []PopsWhole
<1>1. ASSUME RingInv, pop.pc = "store", ~Overtaken
      PROVE  OldestHeld < Len(log) /\ pop.word = log[OldestHeld + 1]
  <2>1. /\ pop.n = OldestHeld /\ OldestHeld \in 0 .. Len(log) - 1
        /\ pop.word.t = log[pop.n + 1].t
        /\ pop.word.event = log[pop.n + 1].event
    BY <1>1, RingAssumption
       DEF RingInv, RingTypeOK, EveryEventCounted, Reader, OldestHeld, PopSet
  <2>2. pop.word \in WordSet /\ log[pop.n + 1] \in WordSet
    BY <1>1, <2>1 DEF RingInv, RingTypeOK, PopSet
  <2>3. pop.word = log[pop.n + 1]
    BY <2>1, <2>2 DEF WordSet
  <2> QED BY <2>1, <2>3
<1>2. RingInv => PopsWhole
  BY <1>1 DEF PopsWhole
<1> QED BY <1>2, RingCorrect, PTL

----------------------------------------------------------------------------
(* The receiver.                                                           *)

Edges == {"TU03", "TU00"}

Windows == {Window(cmd, junk) : cmd \in Commands, junk \in Junk}

RxTypeOK ==
    /\ line \in Commands \cup {NoCommand}
    /\ sm \in {"wait1", "push", "wait0"}
    /\ sm = "push" => isr \in Windows
    /\ rx_fifo \in Seq(Windows)
    /\ edges \subseteq Edges
    /\ active \subseteq {Tx, Gpio, Re}
    /\ todo \in Seq(Edges)
    /\ called \in BOOLEAN /\ (called => todo # <<>>)
    /\ missed \in BOOLEAN
    /\ strobed \in Seq(Commands) /\ delivered \in Seq(Commands)
    /\ due \in Nat /\ extra \in Nat

\* A context inside ev_push has been entered, and none above it has.
Stacked ==
    \A c \in Contexts : Pushing(c) =>
        /\ c = Main \/ c \in active
        /\ \A d \in active : d <= c

\* What was captured before the last feed is delivered, or in the FIFO.
Caught == due <= Len(delivered) + Len(rx_fifo)

RxInv == RxTypeOK /\ RingInv /\ Stacked /\ Caught /\ CommandsIntact

----------------------------------------------------------------------------
(* Words and contexts.                                                     *)

\* The window holds the command, whatever the pins between read.
LEMMA WindowDecodes ==
    ASSUME NEW cmd \in Commands, NEW junk \in Junk
    PROVE  ReByte(Window(cmd, junk)) = cmd
  <1> USE ReceiverAssumption
  <1>1. cmd \subseteq 0 .. 7 /\ junk \subseteq 7 .. 11
    OBVIOUS
  <1>2. Window(cmd, junk) \cap {12} = {12 : b \in cmd \cap {0}}
    BY <1>1 DEF Window
  <1>3. Window(cmd, junk) \cap 0 .. 6 = {b - 1 : b \in cmd \ {0}}
    BY <1>1 DEF Window
  <1>4. {0 : b \in Window(cmd, junk) \cap {12}} = cmd \cap {0}
    BY <1>2
  <1>5. {b + 1 : b \in Window(cmd, junk) \cap 0 .. 6} = cmd \ {0}
    <2>1. ASSUME NEW x \in cmd \ {0}
          PROVE  x \in {b + 1 : b \in Window(cmd, junk) \cap 0 .. 6}
      <3>1. x \in Int /\ x - 1 \in Window(cmd, junk) \cap 0 .. 6
        BY <1>1, <1>3
      <3>2. x = (x - 1) + 1
        BY <3>1
      <3> QED
        BY <3>1, <3>2
    <2>2. ASSUME NEW x \in {b + 1 : b \in Window(cmd, junk) \cap 0 .. 6}
          PROVE  x \in cmd \ {0}
      <3>1. PICK b \in Window(cmd, junk) \cap 0 .. 6 : x = b + 1
        OBVIOUS
      <3>2. PICK y \in cmd \ {0} : b = y - 1
        BY <1>3
      <3>3. y \in Int
        BY <1>1
      <3> QED
        BY <3>1, <3>2, <3>3
    <2> QED
      BY <2>1, <2>2
  <1> QED
    BY <1>4, <1>5 DEF ReByte

LEMMA WindowIsCommand ==
    ASSUME NEW w \in Windows
    PROVE  ReByte(w) \in Commands
  BY WindowDecodes DEF Windows

\* A handler that runs outside ev_push finds nobody inside it: a push cannot
\* be preempted.
LEMMA NobodyPushes ==
    ASSUME RxTypeOK, RingInv, Stacked, NEW c \in {Gpio, Re}, Runs(c), ~Pushing(c)
    PROVE  ~irq_off /\ \A h \in Contexts : ~Pushing(h)
  <1>1. c \in active /\ \A d \in active : d # c => c > d
    BY DEF Runs, Preempts, Main, Gpio, Re
  <1>2. ASSUME NEW h \in Contexts, Pushing(h) PROVE FALSE
    <2>1. h # c /\ c <= h
      BY <1>1, <1>2 DEF Stacked
    <2>2. h \in active
      BY <1>2, <2>1 DEF Stacked, Main, Gpio, Re
    <2>3. h \in Int /\ c \in Int
      BY <2>2 DEF RxTypeOK, Tx, Gpio, Re
    <2> QED
      BY <1>1, <2>1, <2>2, <2>3
  <1> QED
    BY <1>2 DEF RingInv, Writer

\* With interrupts enabled nobody is inside ev_push.
LEMMA UnlockedNobody ==
    ASSUME RingInv, ~irq_off
    PROVE  \A h \in Contexts : ~Pushing(h)
  BY DEF RingInv, Writer

----------------------------------------------------------------------------
(* Every step is one of the ring, or leaves the ring alone.                *)

\* The actions during which a context takes the lock, and the event it logs.
LEMMA LocksForRing ==
    ASSUME NEW c \in Contexts, NEW e \in Events, ~irq_off,
           \A h \in Contexts : ~Pushing(h),
           PushLock(c, e), UNCHANGED <<rd, pop>>
    PROVE  Push(c)
  BY DEF Push, Uppermost

LEMMA ReGetsPushes ==
    ASSUME RxInv, ReGets
    PROVE  Push(Re)
  <1> USE DEF RxInv
  <1>1. Head(rx_fifo) \in Windows
    BY DEF RxTypeOK, ReGets
  <1>2. <<"RE_CMD", ReByte(Head(rx_fifo))>> \in Events
    BY <1>1, WindowIsCommand, TraceAssumption
  <1>3. ~irq_off /\ \A h \in Contexts : ~Pushing(h)
    BY NobodyPushes DEF ReGets
  <1> QED
    BY <1>2, <1>3, LocksForRing, TraceAssumption DEF ReGets

LEMMA GpioCallsPushes ==
    ASSUME RxInv, GpioCalls
    PROVE  Push(Gpio)
  <1> USE DEF RxInv
  <1>1. Head(todo) \in Edges
    BY DEF RxTypeOK, GpioCalls
  <1>2. <<Head(todo), {}>> \in Events
    BY <1>1, TraceAssumption DEF Edges
  <1>3. ~irq_off /\ \A h \in Contexts : ~Pushing(h)
    BY NobodyPushes DEF GpioCalls
  <1> QED
    BY <1>2, <1>3, LocksForRing, TraceAssumption DEF GpioCalls

LEMMA TxTakenPushes ==
    ASSUME RxInv, TxTaken
    PROVE  Push(Tx)
  <1>1. <<"PRESENT_END", {}>> \in Events
    BY TraceAssumption
  <1>2. ~irq_off /\ \A h \in Contexts : ~Pushing(h)
    BY UnlockedNobody DEF RxInv, TxTaken, Takes
  <1> QED
    BY <1>1, <1>2, LocksForRing, TraceAssumption DEF TxTaken

LEMMA MainLogsPushes ==
    ASSUME RxInv, MainLogs
    PROVE  Push(Main)
  <1>1. <<"PRESENT_START", {}>> \in Events
    BY TraceAssumption
  <1>2. ~irq_off /\ \A h \in Contexts : ~Pushing(h)
    BY UnlockedNobody DEF RxInv, MainLogs
  <1> QED
    BY <1>1, <1>2, LocksForRing, TraceAssumption DEF MainLogs

LEMMA PushGoesOnPushes ==
    ASSUME RxInv, NEW c \in Contexts, PushGoesOn(c)
    PROVE  Push(c) /\ Pushing(c)
  <1>1. Pushing(c)
    BY DEF PushGoesOn, PushStores, PushTime, PushEvent, PushPublish, Pushing
  <1>2. Uppermost(c)
    <2>1. \A h \in Contexts : Pushing(h) => h = c
      BY <1>1, OneWriter DEF RxInv
    <2>2. c \in Int
      BY TraceAssumption DEF Main, Tx, Gpio, Re
    <2> QED
      BY <2>1, <2>2 DEF Uppermost
  <1> QED
    BY <1>1, <1>2 DEF Push, PushGoesOn

LEMMA RingSteps ==
    ASSUME RxInv, [RxNext]_vars
    PROVE  [Next]_ringVars
  <1>1. ASSUME NEW c \in Contexts, Push(c)
        PROVE  Next
    BY <1>1 DEF Next
  <1>2. ASSUME UNCHANGED ringVars
        PROVE  [Next]_ringVars
    BY <1>2
  <1>3. CASE \E c \in Contexts : PushGoesOn(c)
    BY <1>1, <1>3, PushGoesOnPushes
  <1>4. CASE ReGets
    BY <1>1, <1>4, ReGetsPushes, TraceAssumption
  <1>5. CASE GpioCalls
    BY <1>1, <1>5, GpioCallsPushes, TraceAssumption
  <1>6. CASE TxTaken
    BY <1>1, <1>6, TxTakenPushes, TraceAssumption
  <1>7. CASE MainLogs
    BY <1>1, <1>7, MainLogsPushes, TraceAssumption
  <1>8. CASE Drain
    BY <1>8 DEF Drain, Next
  <1>9. CASE \/ StrobeRises \/ StrobeFalls \/ Feed \/ Capture
            \/ ReTaken \/ ReReturns \/ GpioTaken \/ GpioServed \/ GpioReturns
            \/ TxReturns \/ UNCHANGED vars
    BY <1>2, <1>9 DEF StrobeRises, StrobeFalls, Feed, Capture, ReTaken, ReReturns,
       GpioTaken, GpioServed, GpioReturns, TxReturns, vars
  <1> QED
    BY <1>3, <1>4, <1>5, <1>6, <1>7, <1>8, <1>9 DEF RxNext, Core1

----------------------------------------------------------------------------
(* The handlers: types, nesting and the commands they deliver.             *)

LEMMA ReGetsTypes ==
    ASSUME RxTypeOK, ReGets
    PROVE  /\ rx_fifo' \in Seq(Windows) /\ delivered' \in Seq(Commands)
           /\ Len(rx_fifo') = Len(rx_fifo) - 1 /\ Len(delivered') = Len(delivered) + 1
  <1>1. Head(rx_fifo) \in Windows /\ Tail(rx_fifo) \in Seq(Windows)
        /\ Len(Tail(rx_fifo)) = Len(rx_fifo) - 1
    BY HeadTailProperties DEF RxTypeOK, ReGets
  <1>2. ReByte(Head(rx_fifo)) \in Commands
    BY <1>1, WindowIsCommand
  <1>3. /\ delivered' \in Seq(Commands)
        /\ Len(delivered') = Len(delivered) + 1
    BY <1>2, AppendProperties DEF RxTypeOK, ReGets
  <1> QED
    BY <1>1, <1>3 DEF ReGets

LEMMA CaptureTypes ==
    ASSUME RxTypeOK, Capture
    PROVE  RxTypeOK'
  <1>1. CASE SmSample
    <2>1. isr' \in Windows
      BY <1>1 DEF SmSample, Windows, RxTypeOK
    <2> QED
      BY <1>1, <2>1 DEF Capture, SmSample, RxTypeOK, irqVars, wireHistory
  <1>2. CASE SmPush
    <2>1. rx_fifo' \in Seq(Windows)
      BY <1>2, AppendProperties DEF SmPush, RxTypeOK
    <2> QED
      BY <1>2, <2>1 DEF Capture, SmPush, RxTypeOK, irqVars, wireHistory
  <1>3. CASE SmRearm
    BY <1>3 DEF Capture, SmRearm, RxTypeOK, irqVars, wireHistory
  <1> QED
    BY <1>1, <1>2, <1>3 DEF Capture

LEMMA RxTypeStep ==
    ASSUME RxTypeOK, [RxNext]_vars
    PROVE  RxTypeOK'
  <1> USE DEF RxTypeOK, rxVars, irqVars, wireHistory
  <1>1. CASE StrobeRises
    <2>1. PICK cmd \in Commands : line' = cmd /\ strobed' = Append(strobed, cmd)
      BY <1>1 DEF StrobeRises
    <2>2. strobed' \in Seq(Commands)
      BY <2>1, AppendProperties
    <2> QED
      BY <1>1, <2>1, <2>2 DEF StrobeRises, Edges
  <1>2. CASE StrobeFalls
    BY <1>2 DEF StrobeFalls
  <1>3. CASE Feed
    <2>1. Len(delivered) \in Nat /\ Len(rx_fifo) \in Nat
      BY LenProperties
    <2> QED
      BY <1>3, <2>1 DEF Feed, Edges
  <1>4. CASE Capture
    BY <1>4, CaptureTypes
  <1>5. CASE \E c \in Contexts : PushGoesOn(c)
    BY <1>5 DEF PushGoesOn
  <1>6. CASE ReTaken
    BY <1>6 DEF ReTaken, Takes
  <1>7. CASE ReGets
    BY <1>7, ReGetsTypes DEF ReGets
  <1>8. CASE ReReturns
    BY <1>8 DEF ReReturns, Returns
  <1>9. CASE GpioTaken
    <2>1. todo' \in Seq(Edges)
      <3>1. /\ (IF "TU03" \in edges THEN <<"TU03">> ELSE <<>>) \in Seq(Edges)
            /\ (IF "TU00" \in edges THEN <<"TU00">> ELSE <<>>) \in Seq(Edges)
        <4>1. <<>> \in Seq(Edges) /\ <<"TU03">> \in Seq(Edges) /\ <<"TU00">> \in Seq(Edges)
          BY DEF Edges
        <4> QED
          BY <4>1, Zenon
      <3> QED
        BY <1>9, <3>1, ConcatProperties DEF GpioTaken
    <2> QED
      BY <1>9, <2>1 DEF GpioTaken, Takes
  <1>10. CASE GpioCalls
    BY <1>10 DEF GpioCalls
  <1>11. CASE GpioServed
    <2>1. todo # <<>> => Tail(todo) \in Seq(Edges)
      BY HeadTailProperties
    <2> QED
      BY <1>11, <2>1 DEF GpioServed
  <1>12. CASE GpioReturns \/ TxReturns
    BY <1>12 DEF GpioReturns, TxReturns, Returns
  <1>13. CASE TxTaken
    BY <1>13 DEF TxTaken, Takes
  <1>14. CASE MainLogs
    BY <1>14 DEF MainLogs
  <1>15. CASE Drain
    BY <1>15 DEF Drain
  <1>16. CASE UNCHANGED vars
    BY <1>16 DEF vars
  <1> QED
    BY <1>1, <1>2, <1>3, <1>4, <1>5, <1>6, <1>7, <1>8, <1>9, <1>10, <1>11, <1>12,
       <1>13, <1>14, <1>15, <1>16 DEF RxNext, Core1

\* Who enters ev_push has entered its handler; who is inside one does not leave
\* it, and is not preempted.
LEMMA StackedStep ==
    ASSUME RxInv, [RxNext]_vars
    PROVE  Stacked'
  <1> USE DEF RxInv
  <1>1. ASSUME NEW c \in Contexts, NEW e \in Events, PushLock(c, e),
               \A h \in Contexts : ~Pushing(h),
               c = Main \/ c \in active', \A d \in active' : d <= c
        PROVE  Stacked'
    <2>1. \A h \in Contexts : Pushing(h)' => h = c
      BY <1>1 DEF PushLock, Pushing, RingInv, RingTypeOK
    <2> QED
      BY <1>1, <2>1 DEF Stacked
  <1>2. ASSUME push' = push, active' = active
        PROVE  Stacked'
    BY <1>2 DEF Stacked, Pushing
  <1>3. ASSUME push' = push, \A h \in Contexts : ~Pushing(h)
        PROVE  Stacked'
    BY <1>3 DEF Stacked, Pushing
  <1>4. ASSUME NEW c \in Contexts, Returns(c), push' = push
        PROVE  Stacked'
    BY <1>4 DEF Returns, Stacked, Pushing
  <1>5. CASE \E c \in Contexts : PushGoesOn(c)
    <2>1. PICK c \in Contexts : PushGoesOn(c)
      BY <1>5
    <2>2. \A h \in Contexts : Pushing(h)' => Pushing(h)
      BY <2>1 DEF PushGoesOn, PushStores, PushTime, PushEvent, PushPublish, Pushing,
         RingInv, RingTypeOK, NoPush
    <2> QED
      BY <2>1, <2>2 DEF PushGoesOn, Stacked, irqVars
  <1>6. CASE ReGets
    <2>1. PICK e \in Events : PushLock(Re, e)
      BY <1>6, WindowIsCommand, HeadTailProperties, TraceAssumption DEF ReGets, RxTypeOK
    <2>2. ~irq_off /\ \A h \in Contexts : ~Pushing(h)
      BY <1>6, NobodyPushes DEF ReGets
    <2>3. Re \in active' /\ \A d \in active' : d <= Re
      BY <1>6 DEF ReGets, Runs, Main, Tx, Gpio, Re, irqVars, RxTypeOK
    <2> QED
      BY <1>1, <2>1, <2>2, <2>3, TraceAssumption
  <1>7. CASE GpioCalls
    <2>1. <<Head(todo), {}>> \in Events
      BY <1>7, HeadTailProperties, TraceAssumption DEF GpioCalls, RxTypeOK, Edges
    <2>2. ~irq_off /\ \A h \in Contexts : ~Pushing(h)
      BY <1>7, NobodyPushes DEF GpioCalls
    <2>3. Gpio \in active' /\ \A d \in active' : d <= Gpio
      BY <1>7 DEF GpioCalls, Runs, Preempts, Main, Tx, Gpio, Re, RxTypeOK
    <2> QED
      BY <1>1, <1>7, <2>1, <2>2, <2>3, TraceAssumption DEF GpioCalls
  <1>8. CASE TxTaken
    <2>1. <<"PRESENT_END", {}>> \in Events
      BY TraceAssumption
    <2>2. Tx \in active' /\ \A d \in active' : d <= Tx
      BY <1>8 DEF TxTaken, Takes, Preempts, Main, Tx, Gpio, Re, RxTypeOK
    <2> QED
      BY <1>1, <1>8, <2>1, <2>2, UnlockedNobody, TraceAssumption DEF TxTaken, Takes
  <1>9. CASE MainLogs
    <2>1. <<"PRESENT_START", {}>> \in Events
      BY TraceAssumption
    <2>2. active' = {}
      BY <1>9 DEF MainLogs, irqVars
    <2> QED
      BY <1>1, <1>9, <2>1, <2>2, UnlockedNobody, TraceAssumption DEF MainLogs
  <1>10. CASE ReTaken \/ GpioTaken
    BY <1>3, <1>10, UnlockedNobody DEF ReTaken, GpioTaken, Takes, ringVars
  <1>11. CASE ReReturns \/ GpioReturns \/ TxReturns
    BY <1>4, <1>11, TraceAssumption DEF ReReturns, GpioReturns, TxReturns, ringVars
  <1>12. CASE StrobeRises \/ StrobeFalls \/ Feed \/ Capture \/ GpioServed
    BY <1>2, <1>12 DEF StrobeRises, StrobeFalls, Feed, Capture, GpioServed, ringVars, irqVars
  <1>13. CASE Drain \/ UNCHANGED vars
    BY <1>2, <1>13 DEF Drain, Pop, pushVars, vars, ringVars, irqVars
  <1> QED
    BY <1>5, <1>6, <1>7, <1>8, <1>9, <1>10, <1>11, <1>12, <1>13 DEF RxNext, Core1

LEMMA CaughtStep ==
    ASSUME RxInv, [RxNext]_vars
    PROVE  Caught'
  <1> USE DEF RxInv
  <1>1. Len(delivered) \in Nat /\ Len(rx_fifo) \in Nat /\ due \in Nat
    BY LenProperties DEF RxTypeOK
  <1>2. CASE Feed
    BY <1>2, <1>1 DEF Feed, Caught, rxVars
  <1>3. CASE ReGets
    BY <1>1, <1>3, ReGetsTypes DEF ReGets, Caught
  <1>4. CASE Capture
    <2>1. Len(rx_fifo') >= Len(rx_fifo)
      <3>1. CASE SmPush
        <4>1. Len(rx_fifo') = Len(rx_fifo) + 1
          BY <3>1, AppendProperties DEF SmPush, RxTypeOK
        <4> QED
          BY <1>1, <4>1
      <3>2. CASE SmSample \/ SmRearm
        BY <1>1, <3>2 DEF SmSample, SmRearm
      <3> QED
        BY <1>4, <3>1, <3>2 DEF Capture
    <2>2. Len(rx_fifo') \in Nat
      BY <1>4, CaptureTypes, LenProperties DEF RxTypeOK
    <2> QED
      BY <1>1, <1>4, <2>1, <2>2 DEF Capture, Caught
  <1>5. ASSUME UNCHANGED <<delivered, rx_fifo, due>>
        PROVE  Caught'
    BY <1>5 DEF Caught
  <1> QED
    BY <1>2, <1>3, <1>4, <1>5
       DEF RxNext, Core1, vars, rxVars, StrobeRises, StrobeFalls, PushGoesOn, ReTaken,
           ReReturns, GpioTaken, GpioCalls, GpioServed, GpioReturns, TxReturns, TxTaken,
           MainLogs, Drain

----------------------------------------------------------------------------
(* The commands on their way.                                              *)

InRxFifoOf(words) == [i \in 1 .. Len(words) |-> ReByte(words[i])]

LEMMA FifoCommands ==
    ASSUME NEW words \in Seq(Windows)
    PROVE  InRxFifoOf(words) \in Seq(Commands) /\ Len(InRxFifoOf(words)) = Len(words)
  BY WindowIsCommand DEF InRxFifoOf

LEMMA FifoAppend ==
    ASSUME NEW words \in Seq(Windows), NEW w \in Windows
    PROVE  InRxFifoOf(Append(words, w)) = InRxFifoOf(words) \o <<ReByte(w)>>
  BY WindowIsCommand DEF InRxFifoOf

LEMMA FifoTail ==
    ASSUME NEW words \in Seq(Windows), words # <<>>
    PROVE  InRxFifoOf(words) = <<ReByte(Head(words))>> \o InRxFifoOf(Tail(words))
  BY WindowIsCommand DEF InRxFifoOf

LEMMA CaptureCommands ==
    ASSUME RxTypeOK
    PROVE  InCapture \in Seq(Commands)
  <1>1. sm = "push" => ReByte(isr) \in Commands
    BY WindowIsCommand DEF RxTypeOK
  <1> QED
    BY <1>1 DEF InCapture, RxTypeOK

LEMMA IntactCapture ==
    ASSUME RxTypeOK, CommandsIntact, Capture, ~missed
    PROVE  CommandsIntact'
  <1> DEFINE D == delivered  F == InRxFifoOf(rx_fifo)
  <1>1. D \in Seq(Commands) /\ F \in Seq(Commands)
    BY FifoCommands DEF RxTypeOK
  <1>2. (D \o F) \o InCapture = strobed /\ InRxFifo = F /\ InRxFifo' = InRxFifoOf(rx_fifo')
    BY DEF CommandsIntact, InRxFifo, InRxFifoOf
  <1>3. UNCHANGED <<delivered, strobed, missed, line>>
    BY DEF Capture, wireHistory, SmSample, SmPush, SmRearm
  <1>4. CASE SmSample
    <2>1. PICK junk \in Junk : isr' = Window(line, junk)
      BY <1>4 DEF SmSample
    <2>2. line \in Commands /\ ReByte(isr') = line
      BY <1>4, <2>1, WindowDecodes DEF SmSample, RxTypeOK
    <2>3. InCapture = <<line>> /\ InCapture' = <<line>> /\ rx_fifo' = rx_fifo
      BY <1>3, <1>4, <2>2 DEF SmSample, InCapture
    <2> QED
      BY <1>2, <1>3, <2>3 DEF CommandsIntact
  <1>5. CASE SmPush
    <2> DEFINE X == <<ReByte(isr)>>
    <2>1. isr \in Windows /\ X \in Seq(Commands)
      BY <1>5, WindowIsCommand DEF SmPush, RxTypeOK
    <2>2. InCapture = X /\ InCapture' = <<>>
      BY <1>5 DEF SmPush, InCapture
    <2>3. InRxFifo' = F \o X
      BY <1>2, <1>5, <2>1, FifoAppend DEF SmPush, RxTypeOK
    <2>4. (D \o (F \o X)) \o <<>> = (D \o F) \o X
      <3> HIDE DEF D, F, X
      <3>1. F \o X \in Seq(Commands) /\ D \o (F \o X) \in Seq(Commands)
        BY <1>1, <2>1, ConcatProperties
      <3> QED
        BY <1>1, <2>1, <3>1, ConcatEmptySeq, ConcatAssociative
    <2> QED
      BY <1>2, <1>3, <2>2, <2>3, <2>4 DEF CommandsIntact
  <1>6. CASE SmRearm
    <2>1. InCapture = <<>> /\ InCapture' = <<>> /\ rx_fifo' = rx_fifo
      BY <1>3, <1>6 DEF SmRearm, InCapture
    <2> QED
      BY <1>2, <1>3, <2>1 DEF CommandsIntact
  <1> QED
    BY <1>4, <1>5, <1>6 DEF Capture

LEMMA IntactReGets ==
    ASSUME RxTypeOK, CommandsIntact, ReGets, ~missed
    PROVE  CommandsIntact'
  <1> DEFINE D == delivered  x == ReByte(Head(rx_fifo))  G == InRxFifoOf(Tail(rx_fifo))
             C == InCapture
  <1>1. Head(rx_fifo) \in Windows /\ Tail(rx_fifo) \in Seq(Windows)
    BY HeadTailProperties DEF ReGets, RxTypeOK
  <1>2. D \in Seq(Commands) /\ x \in Commands /\ G \in Seq(Commands) /\ C \in Seq(Commands)
    BY <1>1, WindowIsCommand, FifoCommands, CaptureCommands DEF RxTypeOK
  <1>3. InRxFifo = <<x>> \o G
    BY FifoTail DEF ReGets, RxTypeOK, InRxFifo, InRxFifoOf
  <1>4. InRxFifo' = G /\ InCapture' = C /\ delivered' = Append(D, x)
        /\ missed' = missed /\ strobed' = strobed
    BY DEF ReGets, InRxFifo, InRxFifoOf, InCapture, wireHistory
  <1>5. D \o (<<x>> \o G) = Append(D, x) \o G
    <2> HIDE DEF D, x, G
    <2>1. <<x>> \in Seq(Commands) /\ Append(D, x) = D \o <<x>>
      BY <1>2, AppendIsConcat
    <2> QED
      BY <1>2, <2>1, ConcatAssociative
  <1> QED
    BY <1>3, <1>4, <1>5 DEF CommandsIntact

LEMMA IntactStrobe ==
    ASSUME RxTypeOK, CommandsIntact, StrobeRises, ~missed, sm = "wait1"
    PROVE  CommandsIntact'
  <1> DEFINE D == delivered  F == InRxFifoOf(rx_fifo)
  <1>1. PICK cmd \in Commands : line' = cmd /\ strobed' = Append(strobed, cmd)
    BY DEF StrobeRises
  <1>2. D \in Seq(Commands) /\ F \in Seq(Commands) /\ InRxFifo = F /\ InRxFifo' = F
        /\ delivered' = D
    BY FifoCommands DEF RxTypeOK, StrobeRises, InRxFifo, InRxFifoOf
  <1>3. InCapture = <<>> /\ InCapture' = <<cmd>>
    BY <1>1, ReceiverAssumption DEF StrobeRises, InCapture
  <1>4. (D \o F) \o <<cmd>> = Append((D \o F) \o <<>>, cmd)
    <2> HIDE DEF D, F
    <2>1. D \o F \in Seq(Commands)
      BY <1>2, ConcatProperties
    <2> QED
      BY <2>1, ConcatEmptySeq, AppendIsConcat
  <1> QED
    BY <1>1, <1>2, <1>3, <1>4 DEF CommandsIntact

LEMMA IntactStep ==
    ASSUME RxTypeOK, CommandsIntact, [RxNext]_vars
    PROVE  CommandsIntact'
  <1>1. CASE StrobeRises
    BY <1>1, IntactStrobe DEF StrobeRises, CommandsIntact, RxTypeOK
  <1>2. CASE StrobeFalls
    BY <1>2 DEF StrobeFalls, CommandsIntact, InCapture, InRxFifo, RxTypeOK, wireHistory
  <1>3. CASE Capture
    BY <1>3, IntactCapture DEF Capture, CommandsIntact, wireHistory
  <1>4. CASE ReGets
    BY <1>4, IntactReGets DEF ReGets, CommandsIntact, wireHistory
  <1>5. ASSUME UNCHANGED <<rxVars, wireHistory, delivered>>
        PROVE  CommandsIntact'
    BY <1>5 DEF CommandsIntact, InCapture, InRxFifo, rxVars, wireHistory
  <1> QED
    BY <1>1, <1>2, <1>3, <1>4, <1>5
       DEF RxNext, Core1, vars, Feed, PushGoesOn, ReTaken,
           ReReturns, GpioTaken, GpioCalls, GpioServed, GpioReturns, TxReturns, TxTaken,
           MainLogs, Drain

----------------------------------------------------------------------------
(* The theorems.                                                           *)

LEMMA RxInitInv == RxInit => RxInv
  <1> SUFFICES ASSUME RxInit PROVE RxInv
    OBVIOUS
  <1>1. RxTypeOK
    <2>1. rx_fifo = <<>> /\ todo = <<>> /\ strobed = <<>> /\ delivered = <<>>
      BY DEF RxInit
    <2>2. /\ rx_fifo \in Seq(Windows) /\ todo \in Seq(Edges)
          /\ strobed \in Seq(Commands) /\ delivered \in Seq(Commands)
      BY <2>1, EmptySeq
    <2> QED
      BY <2>2 DEF RxInit, RxTypeOK
  <1>2. RingInv
    BY RingInit DEF RxInit
  <1>3. Stacked
    BY DEF RxInit, Init, Stacked, Pushing, NoPush
  <1>4. Caught
    BY DEF RxInit, Caught
  <1>5. CommandsIntact
    <2>1. InRxFifo = <<>> /\ InCapture = <<>>
      BY DEF RxInit, InRxFifo, InCapture
    <2> QED
      BY <2>1 DEF RxInit, CommandsIntact
  <1> QED
    BY <1>1, <1>2, <1>3, <1>4, <1>5 DEF RxInv

LEMMA RxStep == RxInv /\ [RxNext]_vars => RxInv'
  <1> SUFFICES ASSUME RxInv, [RxNext]_vars PROVE RxInv'
    OBVIOUS
  <1>1. RingInv'
    BY RingSteps, RingStep DEF RxInv
  <1> QED
    BY <1>1, RxTypeStep, StackedStep, CaughtStep, IntactStep DEF RxInv

\* The invariant of receiver, handlers and ring.
THEOREM ReceiverCorrect == RxSpec => []RxInv
  BY RxInitInv, RxStep, PTL DEF RxSpec

\* Every strobe is one command, delivered to the feeder once, in order and with
\* its own bits, as long as the FIFO has not stalled the program.
THEOREM CommandsArrive == RxSpec => []CommandsIntact
  <1>1. RxInv => CommandsIntact
    BY DEF RxInv
  <1> QED
    BY <1>1, ReceiverCorrect, PTL

\* When the feed's handler looks for a pending command, every command that was
\* captured before the feed has been handled.
THEOREM CommandsBeforeFeeds == RxSpec => []CommandBeforeFeed
  <1>1. RxInv => CommandBeforeFeed
    <2> SUFFICES ASSUME RxInv, Runs(Gpio), ~Pushing(Gpio)
                 PROVE  Len(delivered) >= due
      BY DEF CommandBeforeFeed
    <2> USE DEF RxInv
    <2>1. ~irq_off
      BY NobodyPushes
    <2>2. Re \notin active
      BY DEF Runs, Preempts, Main, Gpio, Re
    <2>3. rx_fifo = <<>>
      BY <2>1, <2>2 DEF Runs, Pending, Preempts, Gpio, Re
    <2>4. Len(delivered) \in Nat /\ due \in Nat /\ Len(rx_fifo) = 0
      BY <2>3, LenProperties DEF RxTypeOK
    <2> QED
      BY <2>4 DEF Caught
  <1> QED
    BY <1>1, ReceiverCorrect, PTL

\* The nested handlers and the drain use the ring as module EventRing has it.
THEOREM HandlersUseTheRing == RxSpec => ImplementsRing
  <1>1. RxInit => Init
    BY DEF RxInit
  <1>2. RxInv /\ [RxNext]_vars => [Next]_ringVars
    BY RingSteps
  <1> QED
    BY <1>1, <1>2, ReceiverCorrect, PTL DEF RxSpec, ImplementsRing, Spec

\* So what is proved of the ring is true of the trace.
COROLLARY TraceWhole == RxSpec => [](EveryEventCounted /\ KeepsLatest /\ PopsWhole)
  BY HandlersUseTheRing, Counted, Kept, PoppedWhole, PTL DEF ImplementsRing

=============================================================================
