--------------------------- MODULE ConsoleProofs ---------------------------
(***************************************************************************)
(* Session control, for every set of decks, every depth of the queue and   *)
(* all values of the tunable; the console's FIFO may be full and writing   *)
(* the drive back may fail.  The types need no more.  The rest holds when  *)
(* core1 takes a message before core0's next step: then core0 gets past    *)
(* the check that nothing is armed only with an empty queue, and from      *)
(* there to the message of arming nothing else arms.  Without it neither   *)
(* theorem holds, as README.md explains.                                   *)
(***************************************************************************)
EXTENDS Console, TLAPS

Messages ==
    [op : {"SET_PARAM"}, val : Values] \cup [op : {"ARM", "DISARM"}, val : {NoName}]

\* Arming is about a deck until it has remembered which.
Wanted == pc \in {"load", "fill", "print", "remember"} => want \in DeckSet

Typed == TypeOK /\ ipc \in Seq(Messages) /\ Wanted

\* The configuration in the flash names the last deck, unless a warning said so.
Kept == warned \/ CfgLoad(sector).last = cfg.last

\* A whole deck, the one that the configuration names.
Feedable == slot \in DeckSet /\ cfg.last = Cut[slot.name] /\ Kept

\* One message at most is on its way, and core0 waits in its loop.
OneMessage ==
    \/ ipc = <<>>
    \/ /\ pc = "loop"
       /\ \E m \in Messages : ipc = <<m>> /\ (m.op = "ARM" => Disarmed /\ Feedable)

\* An armed deck stays feedable: core0 is not arming another.
ArmedRests == ~Disarmed => pc = "loop" /\ Feedable

\* What arming has done so far; a plain `save' is about no deck.
Arming ==
    /\ pc \in {"warn", "send"} => want # Nothing
    /\ pc \in {"print", "remember"} => slot = want
    /\ pc \in {"save", "program", "warn", "send"} /\ want # Nothing
          => slot = want /\ cfg.last = Cut[want.name]
    /\ pc = "send" => Kept

ConsoleInv == Typed /\ OneMessage /\ ArmedRests /\ Arming

----------------------------------------------------------------------------
(* The types, however slowly core1 takes its messages.                     *)

LEMMA NothingIsNoDeck == Nothing \notin DeckSet
  BY ConsoleAssumption DEF Nothing, DeckSet

LEMMA DeckIsOne == ASSUME NEW n \in Names, NEW raw \in BOOLEAN PROVE Deck(n, raw) \in DeckSet
  BY DEF Deck, DeckSet

\* What core0 sends is all there is in an empty queue.
LEMMA Sent ==
    ASSUME Typed, NEW op, NEW val, Send(op, val), [op |-> op, val |-> val] \in Messages
    PROVE  /\ ipc' \in Seq(Messages) /\ Len(ipc') <= QueueDepth
           /\ ipc = <<>> => ipc' = <<[op |-> op, val |-> val]>>
  <1> DEFINE m == [op |-> op, val |-> val]
  <1>1. ipc \in Seq(Messages) /\ m \in Messages /\ Len(ipc) < QueueDepth
    BY DEF Typed, Send
  <1>2. ipc' = Append(ipc, m)
    BY DEF Send
  <1> HIDE DEF m
  <1>3. ipc' \in Seq(Messages) /\ Len(ipc') = Len(ipc) + 1
    BY <1>1, <1>2
  <1>4. ipc = <<>> => ipc' = <<m>>
    BY <1>1, <1>2
  <1>5. Len(ipc') <= QueueDepth
    BY <1>1, <1>3, ConsoleAssumption
  <1> QED
    BY <1>3, <1>4, <1>5 DEF m

LEMMA TypedInit == Init => Typed
  <1> SUFFICES ASSUME Init PROVE Typed
    OBVIOUS
  <1>1. ipc \in Seq(Messages) /\ Len(ipc) <= QueueDepth
    BY ConsoleAssumption DEF Init
  <1> QED
    BY <1>1, ConsoleAssumption DEF Init, Typed, TypeOK, Wanted, Defaults

LEMMA TypedStep ==
    ASSUME Typed, [Next]_vars
    PROVE  Typed'
  <1> USE ConsoleAssumption DEF Typed
  <1> DEFINE Cfgs == [tunable : Values, last : Names \cup {NoName}]
  <1>1. ASSUME NEW v \in Values, Set(v) PROVE Typed'
    <2>1. [op |-> "SET_PARAM", val |-> v] \in Messages
      BY DEF Messages
    <2>2. ipc' \in Seq(Messages) /\ Len(ipc') <= QueueDepth
      BY <1>1, <2>1, Sent DEF Set
    <2>3. cfg' \in Cfgs
      BY <1>1 DEF Set, TypeOK
    <2> QED
      BY <1>1, <2>2, <2>3 DEF Set, TypeOK, Wanted
  <1>2. ASSUME NEW n \in Names, NEW raw \in BOOLEAN, Arm(n, raw) PROVE Typed'
    <2>1. dirty' \in BOOLEAN /\ want' \in DeckSet
      BY <1>2, DeckIsOne DEF Arm, TypeOK
    <2> QED
      BY <1>2, <2>1 DEF Arm, TypeOK, Wanted
  <1>3. CASE Disarm
    <2>1. [op |-> "DISARM", val |-> NoName] \in Messages
      BY DEF Messages
    <2>2. ipc' \in Seq(Messages) /\ Len(ipc') <= QueueDepth
      BY <1>3, <2>1, Sent DEF Disarm
    <2> QED
      BY <1>3, <2>2 DEF Disarm, TypeOK, Wanted
  <1>4. CASE SendArm
    <2>1. [op |-> "ARM", val |-> NoName] \in Messages
      BY DEF Messages
    <2>2. ipc' \in Seq(Messages) /\ Len(ipc') <= QueueDepth
      BY <1>4, <2>1, Sent DEF SendArm
    <2> QED
      BY <1>4, <2>2 DEF SendArm, TypeOK, Wanted
  <1>5. CASE Remember
    <2>1. want.name \in Names
      BY <1>5 DEF Remember, At, Wanted, DeckSet
    <2>2. cfg' \in Cfgs
      BY <1>5, <2>1 DEF Remember, TypeOK
    <2> QED
      BY <1>5, <2>2 DEF Remember, TypeOK, Wanted
  <1>6. CASE Press
    BY <1>2, <1>6 DEF Press, TypeOK
  <1>7. CASE Core1
    <2>1. Head(ipc) \in Messages /\ ipc' \in Seq(Messages) /\ Len(ipc') <= QueueDepth
      BY <1>7 DEF Core1, TypeOK
    <2>2. fstate' \in {"DISARMED", "ARMED"} /\ tunable' \in Values
      BY <1>7, <2>1 DEF Core1, TypeOK, Messages
    <2> QED
      BY <1>7, <2>1, <2>2 DEF Core1, TypeOK, Wanted
  <1>8. CASE PowerLoss
    <2>1. cfg' \in Cfgs
      BY <1>8 DEF PowerLoss, CfgLoad, Defaults, TypeOK
    <2>2. ipc' \in Seq(Messages) /\ Len(ipc') <= QueueDepth
      BY <1>8 DEF PowerLoss
    <2> QED
      BY <1>8, <2>1, <2>2 DEF PowerLoss, TypeOK, Wanted
  <1>9. CASE Save \/ LoadBegins \/ LoadFails \/ Printed
    BY <1>9 DEF Save, LoadBegins, LoadFails, Printed, At, TypeOK, Wanted
  <1>10. CASE Filled
    BY <1>10 DEF Filled, At, TypeOK, Wanted
  <1>11. CASE SaveErases \/ SavePrograms \/ SaveFails \/ Warned
    BY <1>11 DEF SaveErases, SavePrograms, SaveFails, Warned, At, TypeOK, Wanted
  <1>12. CASE HostWrites \/ Flush
    BY <1>12 DEF HostWrites, Flush, TypeOK, Wanted
  <1>13. CASE UNCHANGED vars
    BY <1>13 DEF vars, TypeOK, Wanted
  <1> QED
    BY <1>1, <1>2, <1>3, <1>4, <1>5, <1>6, <1>7, <1>8, <1>9, <1>10, <1>11, <1>12, <1>13
    DEF Next

\* The queue never holds more than it can however late core1 is, since a send
\* waits for room (ipc.c), and nothing nameless is ever remembered.
THEOREM TypesHold == Spec => []TypeOK
  <1>1. Typed => TypeOK
    BY DEF Typed
  <1> QED
    BY <1>1, TypedInit, TypedStep, PTL DEF Spec

----------------------------------------------------------------------------
(* What is armed, when core1 is prompt.                                    *)

\* A step of core0 finds the queue empty.
LEMMA Empty == ASSUME Prompt, NEW l, At(l) PROVE pc = l /\ ipc = <<>>
  BY DEF At

\* Where core0 lets the USB stack run.
LEMMA UsbPlaces ==
    ASSUME Prompt, UsbRuns PROVE pc \in {"loop", "print", "warn"} /\ ipc = <<>>
  BY DEF UsbRuns, At

LEMMA ConsoleInit == Init => ConsoleInv
  BY TypedInit DEF Init, ConsoleInv, OneMessage, ArmedRests, Arming, Disarmed

LEMMA ConsoleStep ==
    ASSUME Prompt, ConsoleInv, [Next]_vars
    PROVE  ConsoleInv'
  <1> USE DEF ConsoleInv
  <1> DEFINE Inv == OneMessage /\ ArmedRests /\ Arming
  <1> SUFFICES Inv'
    BY TypedStep
  <1>1. ASSUME NEW v \in Values, Set(v) PROVE Inv'
    <2>1. pc = "loop" /\ ipc = <<>>
      BY <1>1, Empty DEF Set
    <2>2. [op |-> "SET_PARAM", val |-> v] \in Messages
      BY DEF Messages
    <2>3. ipc' = <<[op |-> "SET_PARAM", val |-> v]>>
      BY <1>1, <2>1, <2>2, Sent DEF Set
    <2>4. cfg'.last = cfg.last
      BY <1>1 DEF Set, Typed, TypeOK
    <2>5. Feedable => Feedable'
      BY <1>1, <2>4 DEF Set, Feedable, Kept, CfgLoad
    <2>6. OneMessage'
      BY <1>1, <2>1, <2>2, <2>3 DEF Set, OneMessage
    <2> QED
      BY <1>1, <2>1, <2>5, <2>6 DEF Set, ArmedRests, Arming, Disarmed
  <1>2. ASSUME NEW n \in Names, NEW raw \in BOOLEAN, Arm(n, raw) PROVE Inv'
    <2>1. pc = "loop" /\ ipc = <<>> /\ Disarmed
      BY <1>2, Empty DEF Arm
    <2> QED
      BY <1>2, <2>1 DEF Arm, OneMessage, ArmedRests, Arming, Disarmed
  <1>3. CASE Save
    <2>1. ipc = <<>> /\ Disarmed
      BY <1>3, Empty DEF Save
    <2> QED
      BY <1>3, <2>1 DEF Save, OneMessage, ArmedRests, Arming, Disarmed
  <1>4. CASE Disarm
    <2>1. pc = "loop" /\ ipc = <<>>
      BY <1>4, Empty DEF Disarm
    <2>2. [op |-> "DISARM", val |-> NoName] \in Messages
      BY DEF Messages
    <2>3. ipc' = <<[op |-> "DISARM", val |-> NoName]>>
      BY <1>4, <2>1, <2>2, Sent DEF Disarm
    <2>4. OneMessage'
      BY <1>4, <2>1, <2>2, <2>3 DEF Disarm, OneMessage
    <2> QED
      BY <1>4, <2>1, <2>4 DEF Disarm, ArmedRests, Arming, Disarmed, Feedable, Kept, CfgLoad
  <1>5. CASE Press
    <2>1. cfg.last \in Names
      BY <1>5 DEF Press, Typed, TypeOK
    <2> QED
      BY <1>2, <1>5, <2>1 DEF Press
  <1>6. CASE LoadBegins
    <2>1. pc = "load" /\ ipc = <<>>
      BY <1>6, Empty DEF LoadBegins
    <2> QED
      BY <1>6, <2>1 DEF LoadBegins, OneMessage, ArmedRests, Arming, Disarmed
  <1>7. CASE Filled
    <2>1. pc = "fill" /\ ipc = <<>>
      BY <1>7, Empty DEF Filled
    <2> QED
      BY <1>7, <2>1 DEF Filled, OneMessage, ArmedRests, Arming, Disarmed
  <1>8. CASE LoadFails
    <2>1. pc \in {"load", "fill"} /\ ipc = <<>>
      BY <1>8, Empty DEF LoadFails
    <2> QED
      BY <1>8, <2>1 DEF LoadFails, OneMessage, ArmedRests, Arming, Disarmed
  <1>9. CASE Printed
    <2>1. pc = "print" /\ ipc = <<>>
      BY <1>9, Empty DEF Printed
    <2> QED
      BY <1>9, <2>1 DEF Printed, OneMessage, ArmedRests, Arming, Disarmed
  <1>10. CASE Remember
    <2>1. pc = "remember" /\ ipc = <<>>
      BY <1>10, Empty DEF Remember
    <2>2. cfg'.last = Cut[want.name] /\ slot = want
      BY <1>10, <2>1 DEF Remember, Typed, TypeOK, Arming
    <2>3. want # Nothing
      BY <2>1, NothingIsNoDeck DEF Typed, Wanted
    <2>4. pc' \in {"save", "warn"} /\ fstate = "DISARMED"
      BY <1>10, <2>1 DEF Remember, ArmedRests, Disarmed
    <2> QED
      BY <1>10, <2>1, <2>2, <2>3, <2>4
      DEF Remember, OneMessage, ArmedRests, Arming, Disarmed
  <1>11. CASE SaveErases
    <2>1. pc = "save" /\ ipc = <<>>
      BY <1>11, Empty DEF SaveErases
    <2> QED
      BY <1>11, <2>1 DEF SaveErases, OneMessage, ArmedRests, Arming, Disarmed
  <1>12. CASE SavePrograms
    <2>1. pc = "program" /\ ipc = <<>> /\ Disarmed
      BY <1>12, Empty DEF SavePrograms, ArmedRests
    <2>2. CfgLoad(sector').last = cfg'.last
      BY <1>12 DEF SavePrograms, CfgLoad, Defaults, BadCrc
    <2> QED
      BY <1>12, <2>1, <2>2 DEF SavePrograms, OneMessage, ArmedRests, Arming, Disarmed, Kept,
                               CfgLoad
  <1>13. CASE SaveFails
    <2>1. pc = "save" /\ ipc = <<>> /\ Disarmed
      BY <1>13, Empty DEF SaveFails, ArmedRests
    <2> QED
      BY <1>13, <2>1 DEF SaveFails, OneMessage, ArmedRests, Arming, Disarmed
  <1>14. CASE Warned
    <2>1. pc = "warn" /\ ipc = <<>> /\ Disarmed
      BY <1>14, Empty DEF Warned, ArmedRests
    <2> QED
      BY <1>14, <2>1 DEF Warned, OneMessage, ArmedRests, Arming, Disarmed, Kept
  <1>15. CASE SendArm
    <2>1. pc = "send" /\ ipc = <<>>
      BY <1>15, Empty DEF SendArm
    <2>2. [op |-> "ARM", val |-> NoName] \in Messages
      BY DEF Messages
    <2>3. ipc' = <<[op |-> "ARM", val |-> NoName]>>
      BY <1>15, <2>1, <2>2, Sent DEF SendArm
    <2>4. Disarmed /\ Feedable
      BY <2>1 DEF ArmedRests, Arming, Feedable, Typed, TypeOK
    <2>5. Disarmed' /\ Feedable'
      BY <1>15, <2>4 DEF SendArm, Disarmed, Feedable, Kept, CfgLoad
    <2>6. OneMessage'
      BY <1>15, <2>2, <2>3, <2>5 DEF SendArm, OneMessage
    <2> QED
      BY <1>15, <2>5, <2>6 DEF SendArm, ArmedRests, Arming
  <1>16. CASE HostWrites \/ Flush
    <2>1. ipc = <<>>
      BY <1>16, UsbPlaces DEF HostWrites, Flush
    <2>2. UNCHANGED <<cfg, sector, slot, pc, want, warned, ipc, fstate>>
      BY <1>16 DEF HostWrites, Flush
    <2> QED
      BY <2>1, <2>2 DEF OneMessage, ArmedRests, Arming, Disarmed, Feedable, Kept, CfgLoad
  <1>17. CASE Core1
    <2>1. PICK m \in Messages : ipc = <<m>> /\ (m.op = "ARM" => Disarmed /\ Feedable)
      BY <1>17 DEF Core1, OneMessage
    <2>2. pc = "loop"
      BY <1>17 DEF Core1, OneMessage
    <2>3. Head(ipc) = m /\ ipc' = <<>>
      BY <1>17, <2>1 DEF Core1
    <2>4. fstate' = "DISARMED" \/ m.op = "ARM" \/ fstate' = fstate
      BY <1>17, <2>3 DEF Core1
    <2>5. Feedable => Feedable'
      BY <1>17 DEF Core1, Feedable, Kept, CfgLoad
    <2>6. ArmedRests'
      BY <1>17, <2>1, <2>2, <2>4, <2>5 DEF Core1, ArmedRests, Disarmed
    <2> QED
      BY <1>17, <2>2, <2>3, <2>6 DEF Core1, OneMessage, Arming
  <1>18. CASE PowerLoss
    BY <1>18 DEF PowerLoss, OneMessage, ArmedRests, Arming, Disarmed
  <1>19. CASE UNCHANGED vars
    BY <1>19
    DEF vars, OneMessage, ArmedRests, Arming, Disarmed, Feedable, Kept, CfgLoad
  <1> QED
    BY <1>1, <1>2, <1>3, <1>4, <1>5, <1>6, <1>7, <1>8, <1>9, <1>10, <1>11, <1>12,
       <1>13, <1>14, <1>15, <1>16, <1>17, <1>18, <1>19 DEF Next

LEMMA ConsoleInvHolds == ASSUME Prompt PROVE Spec => []ConsoleInv
  BY ConsoleInit, ConsoleStep, PTL DEF Spec

\* While a deck is armed the configuration names it, as far as the name fits, and
\* so does the one in the flash unless the operator was warned, whatever loads and
\* saves failed or were interrupted before; as long as core1 is prompt.
THEOREM ArmedDeckIsKept == ASSUME Prompt PROVE Spec => []ArmedIsKept
  <1>1. ConsoleInv => ArmedIsKept
    BY DEF ConsoleInv, ArmedRests, ArmedIsKept, Disarmed, Feedable, Kept
  <1> QED
    BY <1>1, ConsoleInvHolds, PTL

\* The deck is whole when it is armed, and nobody touches it until it is
\* disarmed, as long as core1 is prompt: loading another begins with the check
\* that nothing is armed.
THEOREM DeckIsReadOnly == ASSUME Prompt PROVE Spec => DeckReadOnly
  <1>1. ConsoleInv /\ [Next]_vars =>
          [fstate = "ARMED" /\ fstate' = "ARMED" => slot # Nothing /\ slot' = slot]_vars
    <2> SUFFICES ASSUME ConsoleInv, Next, fstate = "ARMED"
                 PROVE  slot # Nothing /\ (fstate' = "ARMED" => slot' = slot)
      BY DEF vars
    <2>1. pc = "loop" /\ slot # Nothing
      BY NothingIsNoDeck DEF ConsoleInv, ArmedRests, Disarmed, Feedable
    <2>2. ~LoadBegins /\ ~Filled
      BY <2>1, Empty DEF LoadBegins, Filled, At
    <2>3. PowerLoss => fstate' = "DISARMED"
      BY DEF PowerLoss
    <2> QED
      BY <2>1, <2>2, <2>3
      DEF Next, Set, Arm, Save, Disarm, Press, LoadFails, Printed, Remember, SaveErases,
          SavePrograms, SaveFails, Warned, SendArm, HostWrites, Flush, Core1
  <1> QED
    BY <1>1, ConsoleInvHolds, PTL DEF Spec, DeckReadOnly

=============================================================================
