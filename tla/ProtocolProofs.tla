--------------------------- MODULE ProtocolProofs ---------------------------
(***************************************************************************)
(* What the feeder promises a machine that keeps to its protocol, for      *)
(* every deck, FIFO depth and timing: a read command finds the wire at     *)
(* rest, LUPOB is busy as long as anything of a card is on its way, a      *)
(* FININ left standing has an owner and comes down between cards, and      *)
(* cards are heard whole, in order and in one mode.  From these the feeder *)
(* implements the hopper, step by step.                                    *)
(*                                                                         *)
(* WireInv is inductive together with FeederInv.  Its parts follow a card: *)
(* while the machine is idle nothing is on its way (Listening), a pending  *)
(* command waits for its card at rest (CommandRests), until the first      *)
(* character is heard all of the card is still to come (NothingHeard),     *)
(* only its last word carries FININ (LastWord), from the push of that word *)
(* on FININ is pending (Owned), and its deadline is farther away than the  *)
(* wire needs to send what is queued (Timed).                              *)
(***************************************************************************)
EXTENDS FeederRefinement, FeederProofs, WellFoundedInduction

\* A card is not in the FIFO as a whole before its first character is heard.
CardsOutlastFifo ==
    \A d \in Decks : \A c \in 0 .. d.n_cards - 1 : d.ncols[c] > FifoDepth

\* The conditions of all theorems here.
Protocol == ~WildGe /\ DrainsInTime /\ CardsOutlastFifo

\* The console does not move the cursor while a FININ may stand.
NoRewinds == {"REWIND", "GO"} \cap ConsoleOps = {}

\* The console changes neither card nor policy in the middle of a card, and
\* the column counter is wide enough for the cards.
NoSplices ==
    /\ {"EJECT", "SET_POLICY"} \cap ConsoleOps = {}
    /\ \A d \in Decks : \A c \in 0 .. d.n_cards - 1 : d.ncols[c] <= ColRange

----------------------------------------------------------------------------
(* The invariant.                                                          *)

\* The longest a character can take with any setting.
LongestChar ==
    CHOOSE m \in 0 .. FininDef :
        /\ \A w \in WValues, g \in GValues : w + 1 + g + 1 <= m
        /\ \A t \in FininValues : t >= (FifoDepth + 1) * m

\* Ticks until the character on the wire has left it.
OnWire == IF phase = "strobe"   THEN left + lu.g + 1
          ELSE IF phase = "gap" THEN left
                                ELSE 0

Listening == ge = "idle" => ~UnderWay /\ ~LU08 /\ ~cmd_pending

CommandRests ==
    cmd_pending => ge = "armed" /\ ~UnderWay /\ ~LU08 /\ ~finin_pending

NothingHeard ==
    ge = "armed" =>
        /\ got = <<>> /\ ~LU08
        /\ fifo # <<>> => presenting
        /\ presenting => Len(fifo) >= col

LastWord ==
    /\ \A i \in 1 .. Len(fifo) : fifo[i].fini <=> i = Len(fifo) /\ ~presenting
    /\ LU08 /\ lu.fini => ~UnderWay

Owned ==
    /\ LU08 \/ fifo # <<>> => presenting \/ finin_pending
    /\ presenting => ~finin_pending /\ state \in {"PRESENTING", "ERROR"}
    /\ fifo # <<>> /\ ~presenting => state \in {"CARD_DONE", "ERROR"}

Timed ==
    /\ \A i \in 1 .. Len(fifo) : fifo[i].w + 1 + fifo[i].g + 1 <= LongestChar
    /\ OnWire <= LongestChar
    /\ finin_pending => finin_timer >= OnWire + Len(fifo) * LongestChar

DisarmedEmpty ==
    /\ state = "DISARMED" => deck = NoDeck
    /\ deck = NoDeck => card = 0

WireInv == /\ Listening /\ CommandRests /\ NothingHeard
           /\ LastWord /\ Owned /\ Timed /\ DisarmedEmpty

----------------------------------------------------------------------------
(* The steps by what they do to a card under way.                          *)

Kept == UNCHANGED <<sm_on, fifo, phase, left, lu, geVars, presenting, cmd_pending>>

\* A handler or a console operation that leaves the FININ alone.
Others ==
    /\ Kept /\ UNCHANGED <<deck, finin, finin_pending, finin_timer>>
    /\ \/ UNCHANGED state
       \/ state' = "ERROR"
       \/ /\ GeMayCommand /\ state = "ERROR"
          /\ state' = IF deck # NoDeck THEN "ARMED_WAIT" ELSE "DISARMED"
    /\ \/ UNCHANGED cursor
       \/ "EJECT" \in ConsoleOps /\ deck # NoDeck /\ col' = 0
    /\ \/ UNCHANGED <<latched_mode, post_loader_colbin>>
       \/ GeMayCommand \/ ~UnderWay \/ "SET_POLICY" \in ConsoleOps

\* The FININ is taken down: between commands, by a feed, or by the deadline.
Releases ==
    /\ Kept /\ UNCHANGED <<deck, modes, params>>
    /\ FininRelease
    /\ \/ GeMayCommand
       \/ GeMayFeed /\ ~cmd_pending /\ state = "CARD_DONE"
       \/ finin_pending /\ finin_timer = 0
    /\ \/ UNCHANGED <<state, cursor>>
       \/ AdvanceCard /\ deck # NoDeck /\ state \in {"ARMED_WAIT", "CARD_DONE"}

\* The console arms, disarms or repositions; a rewind without a deck does
\* nothing to a wire that is at rest.
Resets ==
    /\ fifo' = <<>> /\ phase' = "pull" /\ left' = 0
    /\ ~presenting' /\ ~cmd_pending' /\ ~finin_pending'
    /\ UNCHANGED geVars
    /\ \/ /\ deck = NoDeck /\ deck' \in Decks
          /\ card' = FirstCard(deck') /\ state' = "ARMED_WAIT" /\ UNCHANGED finin
       \/ deck' = NoDeck /\ card' = 0 /\ state' = "DISARMED" /\ ~sm_on' /\ ~finin'
       \/ /\ {"REWIND", "GO"} \cap ConsoleOps # {}
          /\ deck # NoDeck /\ UNCHANGED deck
          /\ card' \in FirstCard(deck) .. deck.n_cards - 1 /\ state' = "ARMED_WAIT"
       \/ deck = NoDeck /\ UNCHANGED <<deck, card, state, finin, fifo, presenting>>

Pushes == presenting /\ ~WireTxFull /\ PresentNext

Triggers ==
    /\ FininRelease \/ UNCHANGED <<finin, finin_pending, finin_timer>>
    /\ UNCHANGED geVars
    /\ \E ctx \in {"main", "irq"} : TriggerPresent(ctx)

Reads == \E re \in ReCommands : ReRead(re)

\* Every step of the feeder is one of these, or the wire's, time's or the
\* machine's.
LEMMA StepKinds ==
    ASSUME FeederInv, ~torn, DisarmedEmpty, [Step]_sysVars
    PROVE  \/ Others \/ Releases \/ Resets \/ Pushes \/ Triggers \/ Reads
           \/ Strobe \/ Tick \/ Clear
  <1>. USE DEF smVars, cursor, modes, params, pins, flags, geVars, wireVars, fdVars, Kept
  <1>1. CASE \E re \in ReCommands : ReNoTransfer(re)
    BY <1>1 DEF ReNoTransfer, OnNoTransfer, Others
  <1>2. CASE \E re \in ReCommands : ReResetError(re)
    BY <1>2 DEF ReResetError, OnResetError, Others
  <1>3. CASE \E re \in ReCommands : ReCardReject(re)
    <2>1. GeMayCommand /\ Kept /\ UNCHANGED <<deck, modes, params>>
      BY <1>3 DEF ReCardReject, OnCardReject
    <2>2. CASE deck # NoDeck /\ state \in {"ARMED_WAIT", "CARD_DONE"}
      BY <1>3, <2>1, <2>2 DEF ReCardReject, OnCardReject, Releases
    <2>3. CASE ~(deck # NoDeck /\ state \in {"ARMED_WAIT", "CARD_DONE"})
      <3>1. UNCHANGED <<finin, finin_pending, finin_timer, state, cursor>>
        BY <1>3, <2>3 DEF ReCardReject, OnCardReject
      <3>. QED
        BY <2>1, <3>1 DEF Others
    <2>. QED
      BY <2>2, <2>3
  <1>4. CASE Tu03Triggers
    BY <1>4 DEF Tu03Triggers, Triggers
  <1>5. CASE Tu03Advances
    BY <1>5 DEF Tu03Advances, OnFeed, Releases
  <1>6. CASE \E ctx \in {"main", "irq"} : PrefillStep(ctx)
    BY <1>6 DEF PrefillStep, Pushes
  <1>7. CASE \E ctx \in {"main", "irq"} : PrefillEnd(ctx)
    BY <1>7 DEF PrefillEnd, Others
  <1>8. CASE TxFeed
    BY <1>8 DEF TxFeed, Pushes
  <1>10. CASE IpcDisarm
    BY <1>10 DEF IpcDisarm, CursorReset, WireTxDisarm, Resets
  <1>11. CASE IpcRewind
    <2>1. /\ ~presenting' /\ ~cmd_pending' /\ ~finin_pending'
          /\ presenting' = FALSE /\ UNCHANGED <<geVars, deck>>
          /\ card' = FirstCard(deck)
          /\ {"REWIND", "GO"} \cap ConsoleOps # {}
      BY <1>11 DEF IpcRewind, CursorReset
    <2>2. CASE deck # NoDeck
      <3>1. state' = "ARMED_WAIT" /\ WireTxArm
        BY <1>11, <2>2 DEF IpcRewind
      <3>2. card' \in FirstCard(deck) .. deck.n_cards - 1
        <4>1. deck \in Decks
          BY <2>2 DEF FeederInv, TypeOK, SysTypeOK, ControlTypeOK
        <4>2. FirstCard(deck) \in Nat /\ FirstCard(deck) < deck.n_cards /\ deck.n_cards \in Nat
          BY <4>1, FirstCardInDeck, DecksAssumption
        <4>. QED
          BY <2>1, <4>2
      <3>. QED
        BY <2>1, <2>2, <3>1, <3>2 DEF WireTxArm, Resets
    <2>3. CASE deck = NoDeck
      <3>1. UNCHANGED <<wireVars, state>>
        BY <1>11, <2>3 DEF IpcRewind
      <3>2. fifo = <<>> /\ phase = "pull" /\ left = 0 /\ presenting = FALSE
        BY <2>3 DEF FeederInv, SmFollowsDeck, TypeOK, SysTypeOK, WireTypeOK, ControlTypeOK
      <3>3. card' = 0 /\ card = 0
        BY <2>1, <2>3 DEF FirstCard, DisarmedEmpty
      <3>. QED
        BY <2>1, <2>3, <3>1, <3>2, <3>3 DEF Resets
    <2>. QED
      BY <2>2, <2>3
  <1>12. CASE IpcGo
    <2>1. /\ ~presenting' /\ ~cmd_pending' /\ ~finin_pending'
          /\ {"REWIND", "GO"} \cap ConsoleOps # {}
          /\ card' \in FirstCard(deck) .. deck.n_cards - 1
      BY <1>12 DEF IpcGo, CursorReset
    <2>. QED
      BY <1>12, <2>1 DEF IpcGo, WireTxArm, Resets
  <1>13. CASE IpcEject
    BY <1>13 DEF IpcEject, Others
  <1>14. CASE IpcInjectError
    BY <1>14 DEF IpcInjectError, Others
  <1>15. CASE IpcSetParam
    BY <1>15 DEF IpcSetParam, Others
  <1>16. CASE IpcSetPolicy
    BY <1>16 DEF IpcSetPolicy, Others, Drained, UnderWay
  <1>17. CASE PollTriggers
    BY <1>17 DEF PollTriggers, Triggers
  <1>18. CASE PollReleases
    BY <1>18 DEF PollReleases, Releases
  <1>19. CASE UNCHANGED sysVars
    BY <1>19 DEF sysVars, Others
  <1>. QED
    BY <1>1, <1>2, <1>3, <1>4, <1>5, <1>6, <1>7, <1>8, <1>10, <1>11, <1>12, <1>13,
       <1>14, <1>15, <1>16, <1>17, <1>18, <1>19 DEF Step, ReCommand, IpcOp, Reads

\* Arming finds the reader at rest, whatever has overtaken it before.
LEMMA ArmResets ==
    ASSUME FeederInv, IpcArm
    PROVE  Resets /\ deck' # NoDeck /\ ~finin'
  <1>. USE DEF flags, geVars
  <1>1. deck = NoDeck /\ deck' # NoDeck
    BY DecksAssumption DEF IpcArm, FeederInv, DisarmedAtRest
  <1>2. ~finin /\ finin' = finin
    BY <1>1 DEF IpcArm, WireTxArm, FeederInv, DisarmedAtRest
  <1>. QED
    BY <1>1, <1>2 DEF IpcArm, CursorReset, WireTxArm, Resets

----------------------------------------------------------------------------
(* The longest character, and how long the FIFO takes.                     *)

\* Sets of naturals have a least element.
LEMMA LeastNatural ==
    ASSUME NEW S \in SUBSET Nat, S # {}
    PROVE  \E x \in S : \A y \in S : x <= y
  <1>. DEFINE R == {p \in Nat \X Nat : p[1] < p[2]}
  <1>1. IsWellFoundedOn(R, Nat)
    BY NatLessThanWellFounded DEF OpToRel
  <1>2. PICK x \in S : \A y \in S : ~ (<<y, x>> \in R)
    BY <1>1, WFMin
  <1>3. ASSUME NEW y \in S PROVE x <= y
    <2>1. x \in Nat /\ y \in Nat /\ ~ (<<y, x>> \in R)
      BY <1>2
    <2>2. ~ (y < x)
      BY <2>1
    <2>. QED
      BY <2>1, <2>2
  <1>. QED
    BY <1>3

\* Under DrainsInTime there is a longest character, and every deadline leaves
\* time for one on the wire and a full FIFO behind it.
LEMMA LongestCharFacts ==
    ASSUME DrainsInTime
    PROVE  /\ LongestChar \in Nat /\ LongestChar > 0
           /\ \A w \in WValues, g \in GValues : w + 1 + g + 1 <= LongestChar
           /\ \A t \in FininValues : t >= (FifoDepth + 1) * LongestChar
  <1>. DEFINE Bounds == {m \in 0 .. FininDef : \A w \in WValues, g \in GValues : w + 1 + g + 1 <= m}
  <1>1. FininDef \in Bounds
    <2>1. FininDef \in Nat
      BY ParamsAssumption
    <2>2. ASSUME NEW w \in WValues, NEW g \in GValues
          PROVE  w + 1 + g + 1 <= FininDef
      <3>. DEFINE l == w + 1 + g + 1
      <3>1. l \in Nat
        BY ParamsAssumption
      <3>2. FininDef >= (FifoDepth + 1) * l
        BY ParamsAssumption DEF DrainsInTime
      <3>. HIDE DEF l
      <3>3. (FifoDepth + 1) * l = FifoDepth * l + l /\ FifoDepth * l \in Nat
        BY <3>1, FifoAssumption
      <3>4. l <= FininDef
        BY <2>1, <3>1, <3>2, <3>3
      <3>. QED
        BY <3>4 DEF l
    <2>. QED
      BY <2>1, <2>2
  <1>2. PICK m \in Bounds : \A n \in Bounds : m <= n
    <2>1. Bounds \in SUBSET Nat /\ Bounds # {}
      BY <1>1
    <2>. HIDE DEF Bounds
    <2>. QED
      BY <2>1, LeastNatural
  <1>3. \E w \in WValues, g \in GValues : m = w + 1 + g + 1
    <2>1. SUFFICES ASSUME \A w \in WValues, g \in GValues : m # w + 1 + g + 1
                   PROVE  FALSE
      OBVIOUS
    <2>2. \A w \in WValues, g \in GValues : w + 1 + g + 1 <= m - 1
      BY <2>1, ParamsAssumption
    <2>3. m - 1 \in 0 .. FininDef
      BY <2>2, ParamsAssumption
    <2>4. m - 1 \in Bounds
      BY <2>2, <2>3
    <2>. QED
      BY <1>2, <2>4
  <1>4. \A t \in FininValues : t >= (FifoDepth + 1) * m
    BY <1>3 DEF DrainsInTime
  <1>5. /\ LongestChar \in 0 .. FininDef
        /\ \A w \in WValues, g \in GValues : w + 1 + g + 1 <= LongestChar
        /\ \A t \in FininValues : t >= (FifoDepth + 1) * LongestChar
    BY <1>2, <1>4 DEF LongestChar
  <1>. QED
    BY <1>5, ParamsAssumption

\* A queue of n characters takes no longer than one of n + 1, less a character.
LEMMA QueueTime ==
    ASSUME NEW n \in Nat, NEW m \in Nat
    PROVE  /\ (n + 1) * m = n * m + m
           /\ n * m \in Nat
           /\ n <= FifoDepth => n * m <= FifoDepth * m
           /\ (FifoDepth + 1) * m = FifoDepth * m + m
           /\ n * m = 0 /\ m > 0 => n = 0
  BY FifoAssumption

----------------------------------------------------------------------------
(* WireInv is kept, kind by kind.                                          *)

\* A protocol-true machine sends no command while anything is on its way.
LEMMA CommandsAtRest ==
    ASSUME Protocol, Listening, GeMayCommand
    PROVE  ge = "idle" /\ ~UnderWay /\ ~LU08 /\ ~cmd_pending
  BY DEF Protocol, GeMayCommand, Listening

LEMMA OthersKeepWire ==
    ASSUME Protocol, FeederInv, ~torn, WireInv, Others
    PROVE  WireInv'
  <1>. USE DEF Others, Kept, WireInv, UnderWay, LU08, geVars, cursor
  <1>1. (Listening /\ CommandRests /\ LastWord)'
    BY DEF Listening, CommandRests, LastWord
  <1>2. NothingHeard'
    <2>1. UNCHANGED col \/ col' = 0
      OBVIOUS
    <2>. QED
      BY <2>1 DEF NothingHeard, FeederInv, TypeOK, SysTypeOK, WireTypeOK
  <1>3. Owned'
    BY CommandsAtRest DEF Owned
  <1>4. Timed'
    BY DEF Timed, OnWire
  <1>5. DisarmedEmpty'
    BY DEF DisarmedEmpty
  <1>. QED
    BY <1>1, <1>2, <1>3, <1>4, <1>5

\* When FININ is taken down nothing of a card is on its way: by the deadline
\* because of Timed, by a feed because the card that is done has been heard.
LEMMA ReleasesAtRest ==
    ASSUME Protocol, FeederInv, ~torn, WireInv, Releases
    PROVE  ~UnderWay /\ ~LU08
  <1>1. CASE GeMayCommand
    BY <1>1, CommandsAtRest DEF WireInv
  <1>2. CASE GeMayFeed /\ ~cmd_pending /\ state = "CARD_DONE"
    <2>1. ge \in {"idle", "armed"}
      BY <1>2 DEF Protocol, GeMayFeed
    <2>2. ~presenting
      BY <1>2 DEF WireInv, Owned
    <2>. QED
      BY <2>1, <2>2 DEF WireInv, Listening, NothingHeard, UnderWay
  <1>3. CASE finin_pending /\ finin_timer = 0
    <2>1. LongestChar \in Nat /\ LongestChar > 0
      BY LongestCharFacts DEF Protocol
    <2>2. Len(fifo) \in Nat /\ left \in Nat /\ (left = 0 <=> phase = "pull")
          /\ (phase # "pull" => lu \in WordSet) /\ fifo \in Seq(WordSet)
      BY DEF FeederInv, TypeOK, SysTypeOK, WireTypeOK
    <2>3. OnWire \in Nat /\ (phase # "pull" => OnWire > 0)
      BY <2>2 DEF OnWire, WordSet, FeederInv, TypeOK, SysTypeOK, WireTypeOK
    <2>4. 0 >= OnWire + Len(fifo) * LongestChar
      BY <1>3 DEF WireInv, Timed
    <2>5. Len(fifo) * LongestChar \in Nat
          /\ (Len(fifo) * LongestChar = 0 => Len(fifo) = 0)
      <3>. DEFINE n == Len(fifo)
      <3>. HIDE DEF n
      <3>1. n \in Nat
        BY <2>2 DEF n
      <3>2. n * LongestChar \in Nat /\ (n * LongestChar = 0 => n = 0)
        BY <2>1, <3>1, QueueTime
      <3>. QED
        BY <3>2 DEF n
    <2>6. OnWire = 0 /\ Len(fifo) = 0
      BY <2>3, <2>4, <2>5
    <2>7. fifo = <<>> /\ phase = "pull"
      BY <2>2, <2>3, <2>6, EmptySeq
    <2>8. ~presenting
      BY <1>3 DEF WireInv, Owned
    <2>. QED
      BY <2>7, <2>8 DEF UnderWay, LU08
  <1>. QED
    BY <1>1, <1>2, <1>3 DEF Releases

LEMMA ReleasesKeepWire ==
    ASSUME Protocol, FeederInv, ~torn, WireInv, Releases
    PROVE  WireInv'
  <1>1. ~UnderWay /\ ~LU08
    BY ReleasesAtRest
  <1>. USE DEF Releases, Kept, WireInv, UnderWay, LU08, geVars, cursor
  <1>2. ~finin_pending'
    BY DEF FininRelease
  <1>3. (Listening /\ CommandRests /\ LastWord /\ Owned)'
    BY <1>1, <1>2 DEF Listening, CommandRests, LastWord, Owned
  <1>4. NothingHeard'
    BY <1>1 DEF NothingHeard
  <1>5. Timed'
    BY <1>2 DEF Timed, OnWire
  <1>6. DisarmedEmpty'
    BY DEF DisarmedEmpty, AdvanceCard
  <1>. QED
    BY <1>3, <1>4, <1>5, <1>6

LEMMA ResetsKeepWire ==
    ASSUME Protocol, FeederInv, Resets, DisarmedEmpty \/ deck' # NoDeck
    PROVE  WireInv'
  <1>. USE DEF Resets, WireInv, UnderWay, LU08, geVars
  <1>1. (Listening /\ CommandRests /\ Owned)'
    BY DEF Listening, CommandRests, Owned
  <1>2. NothingHeard'
    BY DEF NothingHeard, FeederInv, DisarmedAtRest
  <1>3. LastWord'
    BY DEF LastWord
  <1>4. DisarmedEmpty'
    BY DecksAssumption DEF DisarmedEmpty
  <1>5. Timed'
    <2>1. LongestChar \in Nat
      BY LongestCharFacts DEF Protocol
    <2>. QED
      BY <2>1 DEF Timed, OnWire
  <1>. QED
    BY <1>1, <1>2, <1>3, <1>4, <1>5

LEMMA TriggersKeepWire ==
    ASSUME Protocol, FeederInv, ~torn, WireInv, Triggers
    PROVE  WireInv'
  <1>. USE DEF WireInv, UnderWay, LU08, geVars
  <1>1. ge = "armed" /\ ~UnderWay /\ ~LU08 /\ ~finin_pending
    BY DEF Triggers, TriggerPresent, CommandRests
  <1>2. /\ UNCHANGED <<fifo, phase, left, lu, geVars, deck>>
        /\ ~cmd_pending' /\ ~finin_pending'
    BY <1>1 DEF Triggers, TriggerPresent, FininRelease, smVars
  <1>3. deck # NoDeck /\ col = 0
    BY <1>1 DEF Triggers, TriggerPresent, FeederInv, SmFollowsDeck, CursorAtStart
  <1>4. \/ ~presenting' /\ state' # "DISARMED"
        \/ ~presenting' /\ UNCHANGED state
        \/ state' = "PRESENTING" /\ col' = 0
    BY <1>1, <1>3 DEF Triggers, TriggerPresent, TriggerExhausted, TriggerRefused,
                      TriggerPresents, Presents, AdvanceCard, cursor
  <1>5. (Listening /\ CommandRests /\ Owned)'
    BY <1>1, <1>2, <1>4 DEF Listening, CommandRests, Owned
  <1>6. NothingHeard'
    BY <1>1, <1>2, <1>4, EmptySeq DEF NothingHeard
  <1>7. LastWord'
    BY <1>1, <1>2 DEF LastWord
  <1>8. Timed'
    BY <1>1, <1>2 DEF Timed, OnWire
  <1>9. DisarmedEmpty'
    BY <1>2, <1>3, <1>4 DEF DisarmedEmpty
  <1>. QED
    BY <1>5, <1>6, <1>7, <1>8, <1>9

LEMMA ReadsKeepWire ==
    ASSUME Protocol, FeederInv, ~torn, WireInv, Reads
    PROVE  WireInv'
  <1>. USE DEF WireInv, UnderWay, LU08
  <1>1. GeMayCommand /\ GeReads
        /\ UNCHANGED <<fifo, phase, left, lu, presenting, deck, state, card, col>>
    BY DEF Reads, ReRead, OnRead, smVars, cursor
  <1>2. ~UnderWay /\ ~LU08 /\ ~cmd_pending
    BY <1>1, CommandsAtRest
  <1>3. ge' = "armed" /\ got' = <<>>
    BY <1>1 DEF GeReads, Protocol
  <1>4. \/ ~finin_pending'
        \/ UNCHANGED <<cmd_pending, finin_pending, finin_timer>>
    BY DEF Reads, ReRead, OnRead, ReadAccepted, ReadIgnored, FininRelease
  <1>5. (Listening /\ CommandRests /\ Owned /\ NothingHeard)'
    BY <1>1, <1>2, <1>3, <1>4 DEF Listening, CommandRests, Owned, NothingHeard
  <1>6. LastWord'
    BY <1>1, <1>2 DEF LastWord
  <1>7. Timed'
    BY <1>1, <1>4 DEF Timed, OnWire
  <1>8. DisarmedEmpty'
    BY <1>1 DEF DisarmedEmpty
  <1>. QED
    BY <1>5, <1>6, <1>7, <1>8

LEMMA ClearKeepsWire ==
    ASSUME Protocol, FeederInv, ~torn, WireInv, Clear
    PROVE  WireInv'
  <1>. USE DEF WireInv, UnderWay, LU08
  <1>1. fifo = <<>> /\ phase = "pull" /\ ~presenting /\ ~cmd_pending /\ ge' = "idle"
    BY DEF Clear, Drained, GeClear
  <1>2. UNCHANGED <<wireVars, fdVars>>
    BY DEF Clear
  <1>. USE <1>1, <1>2 DEF wireVars, fdVars, flags, cursor
  <1>3. (Listening /\ CommandRests /\ Owned /\ NothingHeard)'
    BY DEF Listening, CommandRests, Owned, NothingHeard
  <1>4. LastWord'
    BY DEF LastWord
  <1>5. Timed'
    BY DEF Timed, OnWire
  <1>6. DisarmedEmpty'
    BY DEF DisarmedEmpty
  <1>. QED
    BY <1>3, <1>4, <1>5, <1>6

\* What a push does to the queue, and the flags that go with its last word.
LEMMA PushFacts ==
    ASSUME FeederInv, ~torn, Pushes
    PROVE  /\ fifo \in Seq(WordSet) /\ NextWord \in WordSet
           /\ Len(fifo) < FifoDepth /\ Len(fifo') = Len(fifo) + 1
           /\ \A i \in 1 .. Len(fifo) : fifo'[i] = fifo[i]
           /\ fifo'[Len(fifo) + 1] = NextWord
           /\ NextWord.fini \in BOOLEAN
           /\ NextWord.fini => ~presenting' /\ finin_pending' /\ state' = "CARD_DONE"
                               /\ finin_timer' = finin_to_us
           /\ ~NextWord.fini => UNCHANGED <<presenting, finin_pending, finin_timer, state>>
           /\ UNCHANGED <<sm_on, phase, left, lu, finin, geVars, deck, card, modes,
                          params, cmd_pending>>
  <1>1. fifo \in Seq(WordSet) /\ Len(fifo) \in Nat /\ Len(fifo) <= FifoDepth
    BY DEF FeederInv, TypeOK, SysTypeOK, WireTypeOK
  <1>2. NextWord \in WordSet
    BY NextWordType DEF FeederInv, TypeOK, SysTypeOK
  <1>3. Len(fifo) < FifoDepth /\ fifo' = Append(fifo, NextWord)
    BY <1>1, FifoAssumption DEF Pushes, PresentNext, CardEnds, WireTxPush, WireTxFull
  <1>4. /\ Len(fifo') = Len(fifo) + 1
        /\ \A i \in 1 .. Len(fifo) : fifo'[i] = fifo[i]
        /\ fifo'[Len(fifo) + 1] = NextWord
    BY <1>1, <1>2, <1>3, AppendProperties
  <1>5. /\ NextWord.fini => ~presenting' /\ finin_pending' /\ state' = "CARD_DONE"
                            /\ finin_timer' = finin_to_us
        /\ ~NextWord.fini => UNCHANGED <<presenting, finin_pending, finin_timer, state>>
    BY DEF Pushes, PresentNext, CardEnds
  <1>6. UNCHANGED <<sm_on, phase, left, lu, finin, geVars, deck, card, modes,
                    params, cmd_pending>>
    BY DEF Pushes, PresentNext, CardEnds
  <1>7. NextWord.fini \in BOOLEAN
    BY <1>2 DEF WordSet
  <1>. QED
    BY <1>1, <1>2, <1>3, <1>4, <1>5, <1>6, <1>7

\* The fields of a word are no longer than the parameters they are cut from.
LEMMA NextWordTime ==
    ASSUME DrainsInTime, FeederInv
    PROVE  NextWord.w + 1 + NextWord.g + 1 <= LongestChar
  <1>1. w_ticks \in WValues /\ g_ticks \in GValues /\ w_ticks \in Nat /\ g_ticks \in Nat
    BY ParamsAssumption DEF FeederInv, TypeOK, SysTypeOK, ParamsTypeOK
  <1>2. NextWord.w = w_ticks % 256 /\ NextWord.g = g_ticks % 32768
    BY DEF NextWord, PresenterWord
  <1>3. w_ticks % 256 <= w_ticks /\ g_ticks % 32768 <= g_ticks
        /\ w_ticks % 256 \in Nat /\ g_ticks % 32768 \in Nat
    BY <1>1
  <1>4. w_ticks + 1 + g_ticks + 1 <= LongestChar /\ LongestChar \in Nat
    BY <1>1, LongestCharFacts
  <1>. QED
    BY <1>1, <1>2, <1>3, <1>4

LEMMA PushesKeepWire ==
    ASSUME Protocol, FeederInv, ~torn, WireInv, Pushes
    PROVE  WireInv'
  <1>1. presenting /\ ~finin_pending /\ ge # "idle" /\ ~cmd_pending
        /\ state \in {"PRESENTING", "ERROR"} /\ deck # NoDeck
    BY DEF Pushes, WireInv, Owned, Listening, CommandRests, UnderWay, FeederInv,
           SmFollowsDeck
  <1>2. deck \in Decks /\ card \in Nat /\ card < deck.n_cards /\ col \in Nat
    BY <1>1 DEF FeederInv, TypeOK, SysTypeOK, ControlTypeOK, CursorTypeOK, CursorInDeck
  <1>3. LongestChar \in Nat /\ LongestChar > 0
    BY LongestCharFacts DEF Protocol
  <1>4. Len(fifo) \in Nat /\ Len(fifo) + 1 \in Nat
    BY PushFacts
  <1>. USE DEF WireInv, UnderWay, LU08, geVars
  <1>5. (Listening /\ CommandRests)'
    BY <1>1, PushFacts DEF Listening, CommandRests
  <1>6. Owned'
    <2>1. \/ ~presenting' /\ finin_pending' /\ state' = "CARD_DONE"
          \/ presenting' /\ ~finin_pending' /\ state' \in {"PRESENTING", "ERROR"}
      BY <1>1, PushFacts
    <2>. QED
      BY <2>1 DEF Owned
  <1>7. DisarmedEmpty'
    BY <1>1, PushFacts DEF DisarmedEmpty
  <1>8. LastWord'
    <2>1. ASSUME NEW i \in 1 .. Len(fifo)
          PROVE  fifo'[i].fini = FALSE
      <3>1. fifo[i] \in WordSet
        BY PushFacts, ElementOfSeq
      <3>2. ~fifo[i].fini
        BY <1>1 DEF LastWord
      <3>. QED
        BY <3>1, <3>2, PushFacts DEF WordSet
    <2>2. fifo'[Len(fifo) + 1].fini <=> ~presenting'
      <3>1. fifo'[Len(fifo) + 1] = NextWord
        BY PushFacts
      <3>2. NextWord.fini <=> ~presenting'
        BY <1>1, PushFacts
      <3>. QED
        BY <3>1, <3>2, Zenon
    <2>3. ASSUME NEW i \in 1 .. Len(fifo')
          PROVE  fifo'[i].fini <=> i = Len(fifo') /\ ~presenting'
      <3>1. Len(fifo') = Len(fifo) + 1
        BY PushFacts
      <3>2. CASE i \in 1 .. Len(fifo)
        <4>1. i # Len(fifo')
          BY <1>4, <3>1, <3>2
        <4>. QED
          BY <2>1, <3>2, <4>1, Zenon
      <3>3. CASE i = Len(fifo) + 1
        BY <2>2, <3>1, <3>3, Zenon
      <3>4. i \in 1 .. Len(fifo) \/ i = Len(fifo) + 1
        BY <1>4, <3>1
      <3>. QED
        BY <3>2, <3>3, <3>4
    <2>4. UNCHANGED <<phase, lu>>
      BY PushFacts
    <2>5. ~(LU08 /\ lu.fini)
      BY <1>1 DEF LastWord
    <2>. QED
      BY <2>3, <2>4, <2>5 DEF LastWord
  <1>9. NothingHeard'
    <2>1. SUFFICES ASSUME ge = "armed" PROVE NothingHeard'
      BY PushFacts DEF NothingHeard
    <2>2. Len(fifo) >= col /\ got = <<>> /\ ~LU08
      BY <1>1, <2>1 DEF NothingHeard
    <2>3. presenting'
      <3>1. SUFFICES ASSUME NextWord.fini PROVE FALSE
        BY <1>1, PushFacts
      <3>2. LastCol(deck, card, col)
        BY <3>1, NextWordFields, Zenon
      <3>3. card \in 0 .. deck.n_cards - 1
        BY <1>2, DecksAssumption
      <3>4. deck.ncols[card] > FifoDepth /\ deck.ncols[card] \in Nat
        BY <1>2, <3>3, DecksAssumption DEF Protocol, CardsOutlastFifo
      <3>. QED
        BY <1>2, <1>4, <2>2, <3>2, <3>4, PushFacts, FifoAssumption DEF LastCol
    <2>4. col' <= col + 1 /\ col' \in Nat
      <3>1. col' \in {col, 0, (col + 1) % ColRange}
        BY DEF Pushes, PresentNext, CardEnds
      <3>. QED
        BY <1>2, <3>1, NextColumn
    <2>5. Len(fifo') >= col'
      BY <1>2, <1>4, <2>2, <2>4, PushFacts
    <2>. QED
      BY <2>2, <2>3, <2>5, PushFacts DEF NothingHeard
  <1>10. Timed'
    <2>1. \A i \in 1 .. Len(fifo') : fifo'[i].w + 1 + fifo'[i].g + 1 <= LongestChar
      <3>1. ASSUME NEW i \in 1 .. Len(fifo')
            PROVE  i \in 1 .. Len(fifo) \/ i = Len(fifo) + 1
        BY <1>4, PushFacts
      <3>2. ASSUME NEW i \in 1 .. Len(fifo)
            PROVE  fifo'[i].w + 1 + fifo'[i].g + 1 <= LongestChar
        BY PushFacts DEF Timed
      <3>3. fifo'[Len(fifo) + 1].w + 1 + fifo'[Len(fifo) + 1].g + 1 <= LongestChar
        BY PushFacts, NextWordTime DEF Protocol
      <3>. QED
        BY <3>1, <3>2, <3>3
    <2>2. OnWire' = OnWire /\ OnWire <= LongestChar /\ OnWire \in Nat
      BY PushFacts DEF OnWire, Timed, FeederInv, TypeOK, SysTypeOK, WireTypeOK, WordSet
    <2>3. ASSUME finin_pending'
          PROVE  finin_timer' >= OnWire' + Len(fifo') * LongestChar
      <3>. DEFINE n == Len(fifo')
      <3>1. n \in Nat /\ n <= FifoDepth /\ FifoDepth \in Nat
        BY <1>4, PushFacts, FifoAssumption
      <3>2. finin_timer' = finin_to_us
        BY <1>1, <2>3, PushFacts
      <3>3. finin_to_us >= (FifoDepth + 1) * LongestChar /\ finin_to_us \in Nat
        BY LongestCharFacts, ParamsAssumption DEF Protocol, FeederInv, TypeOK, SysTypeOK,
                                                  ParamsTypeOK
      <3>. HIDE DEF n
      <3>4. /\ n * LongestChar \in Nat /\ n * LongestChar <= FifoDepth * LongestChar
            /\ (FifoDepth + 1) * LongestChar = FifoDepth * LongestChar + LongestChar
            /\ FifoDepth * LongestChar \in Nat
        BY <1>3, <3>1, QueueTime
      <3>5. finin_timer' >= OnWire' + n * LongestChar
        BY <1>3, <2>2, <3>2, <3>3, <3>4
      <3>. QED
        BY <3>5 DEF n
    <2>. QED
      BY <2>1, <2>2, <2>3 DEF Timed
  <1>. QED
    BY <1>5, <1>6, <1>7, <1>8, <1>9, <1>10

LEMMA StrobeKeepsWire ==
    ASSUME Protocol, FeederInv, ~torn, WireInv, Strobe
    PROVE  WireInv'
  <1>1. /\ fifo \in Seq(WordSet) /\ fifo # <<>> /\ phase = "pull" /\ left = 0
        /\ Len(fifo) \in Nat
    BY DEF Strobe, SmPull, SmUrgent, FeederInv, TypeOK, SysTypeOK, WireTypeOK
  <1>2. /\ fifo' = Tail(fifo) /\ lu' = Head(fifo) /\ phase' = "strobe"
        /\ left' = Head(fifo).w + 1
        /\ UNCHANGED <<deck, state, card, col, presenting, cmd_pending, finin_pending,
                       finin_timer>>
    BY DEF Strobe, SmPull, fdVars, cursor, flags
  <1>3. /\ Head(fifo) = fifo[1] /\ Len(fifo) \in Nat /\ Len(fifo) >= 1
        /\ Len(fifo') = Len(fifo) - 1 /\ Len(fifo') \in Nat
        /\ \A i \in 1 .. Len(fifo') : fifo'[i] = fifo[i + 1]
    BY <1>1, <1>2, HeadTailProperties
  <1>4. ge # "idle" /\ ge' = "xfer"
    BY <1>1 DEF Strobe, GeHears, WireInv, Listening, UnderWay
  <1>5. \A i \in 1 .. Len(fifo') : i + 1 \in 1 .. Len(fifo)
    BY <1>3
  <1>. USE DEF WireInv, UnderWay, LU08
  <1>6. (Listening /\ CommandRests /\ NothingHeard /\ DisarmedEmpty)'
    BY <1>1, <1>2, <1>4 DEF Listening, CommandRests, NothingHeard, DisarmedEmpty
  <1>7. Owned'
    BY <1>1, <1>2 DEF Owned
  <1>8. LastWord'
    <2>1. ASSUME NEW i \in 1 .. Len(fifo')
          PROVE  fifo'[i].fini <=> i = Len(fifo') /\ ~presenting'
      <3>1. i + 1 \in 1 .. Len(fifo) /\ fifo'[i] = fifo[i + 1]
        BY <1>3, <1>5
      <3>2. fifo[i + 1].fini <=> i + 1 = Len(fifo) /\ ~presenting
        BY <3>1 DEF LastWord
      <3>3. i + 1 = Len(fifo) <=> i = Len(fifo')
        BY <1>3
      <3>. QED
        BY <1>2, <3>1, <3>2, <3>3, Zenon
    <2>2. ASSUME lu'.fini
          PROVE  ~presenting' /\ fifo' = <<>>
      <3>1. lu' = fifo[1] /\ 1 \in 1 .. Len(fifo)
        BY <1>2, <1>3
      <3>2. 1 = Len(fifo) /\ ~presenting
        BY <2>2, <3>1 DEF LastWord
      <3>3. Len(fifo) = 1
        BY <3>2, Zenon
      <3>4. Len(fifo') = 0
        BY <1>3, <3>3
      <3>. QED
        BY <1>1, <1>2, <3>2, <3>4, HeadTailProperties, EmptySeq
    <2>. QED
      BY <2>1, <2>2 DEF LastWord
  <1>9. Timed'
    <2>1. \A i \in 1 .. Len(fifo') : fifo'[i].w + 1 + fifo'[i].g + 1 <= LongestChar
      BY <1>3, <1>5 DEF Timed
    <2>2. OnWire' <= LongestChar /\ OnWire' \in Nat
      <3>1. OnWire' = fifo[1].w + 1 + fifo[1].g + 1
        BY <1>2, <1>3 DEF OnWire
      <3>2. 1 \in 1 .. Len(fifo) /\ fifo[1] \in WordSet
        BY <1>1, <1>3, ElementOfSeq
      <3>. QED
        BY <3>1, <3>2 DEF Timed, WordSet
    <2>3. ASSUME finin_pending'
          PROVE  finin_timer' >= OnWire' + Len(fifo') * LongestChar
      <3>. DEFINE n == Len(fifo')
      <3>1. n \in Nat /\ Len(fifo) = n + 1
        BY <1>3
      <3>2. finin_timer' >= 0 + (n + 1) * LongestChar
        BY <1>1, <1>2, <2>3, <3>1 DEF Timed, OnWire
      <3>3. LongestChar \in Nat /\ finin_timer' \in Nat
        BY <1>2, LongestCharFacts DEF Protocol, FeederInv, TypeOK, SysTypeOK, ControlTypeOK
      <3>. HIDE DEF n
      <3>4. (n + 1) * LongestChar = n * LongestChar + LongestChar /\ n * LongestChar \in Nat
        BY <3>1, <3>3, QueueTime
      <3>5. finin_timer' >= OnWire' + n * LongestChar
        BY <2>2, <3>2, <3>3, <3>4
      <3>. QED
        BY <3>5 DEF n
    <2>. QED
      BY <2>1, <2>2, <2>3 DEF Timed
  <1>. QED
    BY <1>6, <1>7, <1>8, <1>9

LEMMA TickKeepsWire ==
    ASSUME Protocol, FeederInv, ~torn, WireInv, Tick
    PROVE  WireInv'
  <1>1. /\ fifo \in Seq(WordSet) /\ Len(fifo) \in Nat
        /\ phase \in {"pull", "strobe", "gap"} /\ left \in Nat /\ (left = 0 <=> phase = "pull")
        /\ (phase # "pull" => lu \in WordSet)
        /\ finin_timer \in Nat
    BY DEF FeederInv, TypeOK, SysTypeOK, WireTypeOK, ControlTypeOK
  <1>2. UNCHANGED <<sm_on, fifo, lu, deck, state, card, col, presenting, cmd_pending,
                    finin_pending>>
    BY DEF Tick, SmTick, cursor
  <1>3. \/ phase' = phase
        \/ phase = "strobe" /\ phase' = "gap"
        \/ phase = "gap" /\ phase' = "pull"
    BY DEF Tick, SmTick, StrobeEnds
  <1>4. /\ got' = got
        /\ \/ ge' = ge
           \/ /\ phase = "strobe" /\ phase' = "gap"
              /\ lu.fini /\ ge = "xfer" /\ ge' = "idle"
    BY <1>1 DEF Tick, SmTick, StrobeEnds, GeStrobeEnds, geVars
  <1>. USE DEF WireInv, UnderWay, LU08
  <1>5. (Listening /\ CommandRests /\ NothingHeard /\ Owned /\ DisarmedEmpty)'
    <2>1. Listening'
      BY <1>2, <1>3, <1>4 DEF Listening, LastWord, CommandRests
    <2>2. CommandRests' /\ Owned' /\ DisarmedEmpty'
      BY <1>2, <1>3, <1>4 DEF CommandRests, Owned, DisarmedEmpty
    <2>3. NothingHeard'
      BY <1>2, <1>3, <1>4 DEF NothingHeard
    <2>. QED
      BY <2>1, <2>2, <2>3
  <1>6. LastWord'
    BY <1>2, <1>3 DEF LastWord
  <1>7. Timed'
    <2>1. LongestChar \in Nat
      BY LongestCharFacts DEF Protocol
    <2>2. OnWire \in Nat /\ (OnWire = 0 <=> phase = "pull")
      BY <1>1 DEF OnWire, WordSet
    <2>3. OnWire' = IF OnWire > 0 THEN OnWire - 1 ELSE 0
      BY <1>1, <1>2 DEF OnWire, Tick, SmTick, StrobeEnds, WordSet
    <2>4. finin_timer' = IF finin_timer > 0 THEN finin_timer - 1 ELSE 0
      BY DEF Tick, CountDown
    <2>5. ASSUME finin_pending'
          PROVE  finin_timer' >= OnWire' + Len(fifo') * LongestChar
      <3>. DEFINE q == Len(fifo) * LongestChar
      <3>1. q \in Nat /\ (Len(fifo) = 0 => q = 0)
        BY <1>1, <2>1, QueueTime
      <3>2. finin_timer >= OnWire + q
        BY <1>2, <2>5 DEF Timed
      <3>3. CASE phase = "pull"
        <4>1. fifo = <<>>
          BY <3>3 DEF Tick, SmUrgent, FeederInv, SmFollowsDeck
        <4>2. Len(fifo) = 0
          BY <4>1
        <4>. HIDE DEF q
        <4>3. finin_timer' >= OnWire' + q
          BY <1>1, <2>2, <2>3, <2>4, <3>1, <3>3, <4>2
        <4>. QED
          BY <1>2, <4>3 DEF q
      <3>4. CASE phase # "pull"
        <4>. HIDE DEF q
        <4>1. finin_timer' >= OnWire' + q
          BY <1>1, <2>2, <2>3, <2>4, <3>1, <3>2, <3>4
        <4>. QED
          BY <1>2, <4>1 DEF q
      <3>. QED
        BY <3>3, <3>4
    <2>. QED
      BY <1>2, <2>1, <2>2, <2>3, <2>5 DEF Timed
  <1>. QED
    BY <1>5, <1>6, <1>7

----------------------------------------------------------------------------
(* The theorems.                                                           *)

\* The wire is at rest, without FININ, before a deck is first armed.
LEMMA WireInvInit ==
    ASSUME Protocol, Init
    PROVE  WireInv
  <1>. USE DEF Init, WireTxInit, GeInit
  <1>1. Listening /\ CommandRests /\ NothingHeard /\ Owned /\ DisarmedEmpty
    BY DEF Listening, CommandRests, NothingHeard, Owned, DisarmedEmpty, UnderWay, LU08
  <1>2. LastWord
    BY DEF LastWord, LU08
  <1>3. Timed
    BY LongestCharFacts DEF Protocol, Timed, OnWire
  <1>. QED
    BY <1>1, <1>2, <1>3 DEF WireInv

LEMMA WireInvStep ==
    ASSUME Protocol, FeederInv, ~torn, WireInv, [Step]_sysVars
    PROVE  WireInv'
  BY StepKinds, OthersKeepWire, ReleasesKeepWire, ResetsKeepWire, PushesKeepWire,
     TriggersKeepWire, ReadsKeepWire, StrobeKeepsWire, TickKeepsWire, ClearKeepsWire
     DEF WireInv

\* A step that ends untorn is a handler in one piece from an untorn state, or
\* arms a deck.
LEMMA UntornSteps ==
    ASSUME [Next]_vars, ~torn'
    PROVE  IpcArm \/ (~torn /\ [Step]_sysVars)
  <1>1. CASE UNCHANGED vars
    BY <1>1 DEF vars
  <1>2. CASE Step /\ torn' = (torn \/ ErrorResetInCard)
    <2>1. ~(torn \/ ErrorResetInCard)
      BY <1>2
    <2>. QED
      BY <1>2, <2>1
  <1>3. CASE Overtaken /\ torn' = TRUE
    BY <1>3
  <1>. QED
    BY <1>1, <1>2, <1>3 DEF Next

\* Toward a machine that keeps to its protocol the wire invariant holds,
\* whatever the console does, until an interrupt comes in between the stores of
\* a handler of the main loop; and again from the next arming on.
THEOREM WireInvHolds ==
    ASSUME Protocol
    PROVE  Spec => [](torn \/ WireInv)
  <1>1. Init => WireInv
    BY WireInvInit
  <1>2. FeederInv /\ (torn \/ WireInv) /\ [Next]_vars => (torn \/ WireInv)'
    <2>1. SUFFICES ASSUME FeederInv, torn \/ WireInv, [Next]_vars, ~torn'
                   PROVE  WireInv'
      OBVIOUS
    <2>2. CASE IpcArm
      BY <2>1, <2>2, ArmResets, ResetsKeepWire
    <2>3. CASE ~torn /\ [Step]_sysVars
      BY <2>1, <2>3, WireInvStep
    <2>. QED
      BY <2>1, <2>2, <2>3, UntornSteps
  <1>. QED
    BY <1>1, <1>2, FeederInvHolds, PTL DEF Spec

\* LUPOB is busy while a strobe is out or a word is queued, FININ strobe and
\* all: the flag finin_pending outlives the wire (presenter.pio:16-22,
\* feeder.c:80-91).  As long as no interrupt has come in between the stores of
\* a handler of the main loop since the deck was armed.
THEOREM PeleaHolds ==
    ASSUME Protocol
    PROVE  Spec => []Pelea
  <1>1. FeederInv /\ (torn \/ WireInv) => Pelea
    <2>1. SUFFICES ASSUME FeederInv, WireInv, ~torn, LU08 \/ fifo # <<>>
                   PROVE  ~lupob
      BY DEF Pelea
    <2>2. presenting \/ finin_pending
      BY <2>1 DEF WireInv, Owned
    <2>3. ~Ready
      BY <2>2 DEF Ready
    <2>. QED
      BY <2>1, <2>3 DEF FeederInv, LupobTruthful
  <1>. QED
    BY <1>1, FeederInvHolds, WireInvHolds, PTL

\* A pending read command waits at rest (feeder.c:255-275): when its card is
\* triggered, the wire is free and no FININ stands: until a read command comes
\* into the trigger of the one before.
THEOREM CommandsWaitAtRest ==
    ASSUME Protocol
    PROVE  Spec => []CommandAtRest
  <1>1. torn \/ WireInv => CommandAtRest
    BY DEF WireInv, CommandRests, CommandAtRest
  <1>. QED
    BY <1>1, WireInvHolds, PTL

----------------------------------------------------------------------------
(* FININ.                                                                  *)

\* Once up, FININ is pending, and nothing is queued behind its strobe.
FininInv == finin => finin_pending /\ ~presenting /\ fifo = <<>>

\* cursor_reset forgets a standing FININ without taking it down, so a console
\* that repositions is excluded.
LEMMA FininInvStep ==
    ASSUME Protocol, NoRewinds, FeederInv, ~torn, WireInv, FininInv, [Step]_sysVars
    PROVE  FininInv'
  <1>. USE DEF FininInv
  <1>1. CASE Others
    BY <1>1 DEF Others, Kept
  <1>2. CASE Releases
    <2>1. ~finin'
      BY <1>2 DEF Releases, FininRelease, WireTxReleaseFinin
    <2>. QED
      BY <2>1
  <1>3. CASE Resets
    <2>1. \/ ~finin'
          \/ deck = NoDeck /\ finin' = finin
      BY <1>3 DEF Resets, NoRewinds
    <2>2. deck = NoDeck => ~finin_pending
      BY DEF FeederInv, SmFollowsDeck
    <2>. QED
      BY <2>1, <2>2
  <1>4. CASE Pushes
    BY <1>4, PushFacts DEF Pushes
  <1>5. CASE Triggers
    <2>1. ~finin_pending /\ fifo = <<>>
      BY <1>5 DEF Triggers, TriggerPresent, WireInv, CommandRests, UnderWay
    <2>2. finin' = finin
      BY <1>5, <2>1 DEF Triggers, FininRelease
    <2>. QED
      BY <2>1, <2>2
  <1>6. CASE Reads
    <2>1. UNCHANGED <<fifo, presenting>>
      BY <1>6 DEF Reads, ReRead, OnRead, smVars
    <2>2. \/ FininRelease
          \/ UNCHANGED <<finin, finin_pending>>
      BY <1>6 DEF Reads, ReRead, OnRead, ReadAccepted, ReadIgnored
    <2>. QED
      BY <2>1, <2>2 DEF FininRelease, WireTxReleaseFinin
  <1>7. CASE Strobe
    <2>1. /\ fifo # <<>> /\ finin' = Head(fifo).fini /\ lu' = Head(fifo)
          /\ fifo' = Tail(fifo) /\ phase' = "strobe"
          /\ UNCHANGED <<presenting, finin_pending>>
      BY <1>7 DEF Strobe, SmPull, SmUrgent, fdVars, flags
    <2>2. LastWord'
      BY <1>7, StrobeKeepsWire DEF WireInv
    <2>3. ASSUME finin'
          PROVE  ~presenting' /\ fifo' = <<>>
      BY <2>1, <2>2, <2>3 DEF LastWord, UnderWay, LU08
    <2>. QED
      BY <2>1, <2>3 DEF WireInv, Owned
  <1>8. CASE Tick
    BY <1>8 DEF Tick, SmTick
  <1>9. CASE Clear
    BY <1>9 DEF Clear, wireVars, fdVars, flags
  <1>. QED
    BY StepKinds, <1>1, <1>2, <1>3, <1>4, <1>5, <1>6, <1>7, <1>8, <1>9 DEF WireInv

\* FININ comes down at rest, unless the reader is disarmed with it.
LEMMA FininFallsStep ==
    ASSUME Protocol, NoRewinds, FeederInv, ~torn, WireInv, FininInv, [Step]_sysVars
    PROVE  finin /\ ~finin' /\ sm_on' => fifo = <<>> /\ ~LU08
  <1>. SUFFICES ASSUME finin, ~finin', sm_on'
                PROVE  ~LU08
    BY DEF FininInv
  <1>1. CASE Others
    BY <1>1 DEF Others
  <1>2. CASE Releases
    BY <1>2, ReleasesAtRest
  <1>3. CASE Resets
    <2>1. deck = NoDeck /\ finin' = finin
      BY <1>3 DEF Resets, NoRewinds
    <2>. QED
      BY <2>1
  <1>4. CASE Pushes
    BY <1>4 DEF Pushes, FininInv
  <1>5. CASE Triggers
    BY <1>5 DEF Triggers, TriggerPresent, WireInv, CommandRests, FininInv
  <1>6. CASE Reads
    <2>1. GeMayCommand
      BY <1>6 DEF Reads, ReRead, OnRead
    <2>. QED
      BY <2>1, CommandsAtRest DEF WireInv
  <1>7. CASE Strobe
    BY <1>7 DEF Strobe, SmPull, SmUrgent, LU08
  <1>8. CASE Tick
    <2>1. UNCHANGED finin
      BY <1>8 DEF Tick, SmTick
    <2>. QED
      BY <2>1
  <1>9. CASE Clear
    <2>1. UNCHANGED finin
      BY <1>9 DEF Clear, wireVars
    <2>. QED
      BY <2>1
  <1>. QED
    BY StepKinds, <1>1, <1>2, <1>3, <1>4, <1>5, <1>6, <1>7, <1>8, <1>9 DEF WireInv

\* Nor does an interrupt in the middle of one of the main loop's handlers bring
\* it down: while a command is pending, or for a feed or a command, the wire is
\* at rest.
LEMMA OvertakenFallsAtRest ==
    ASSUME Protocol, NoRewinds, FeederInv, ~torn, WireInv, Overtaken
    PROVE  finin /\ ~finin' /\ sm_on' => ~LU08
  <1>. SUFFICES ASSUME finin, ~finin', sm_on'
                PROVE  ~LU08
    OBVIOUS
  <1>1. CASE cmd_pending
    BY <1>1 DEF WireInv, CommandRests
  <1>2. CASE GeMayCommand
    BY <1>2, CommandsAtRest DEF WireInv
  <1>3. CASE GeMayFeed /\ state = "CARD_DONE"
    <2>1. ge \in {"idle", "armed"}
      BY <1>3 DEF Protocol, GeMayFeed
    <2>. QED
      BY <2>1 DEF WireInv, Listening, NothingHeard
  <1>4. CASE ResetOvertaken
    <2>1. WireTxDisarm
      BY <1>4 DEF ResetOvertaken, NoRewinds
    <2>. QED
      BY <2>1 DEF WireTxDisarm
  <1>5. CASE PollOvertaken \/ PollReentered
    BY <1>1, <1>5 DEF PollOvertaken, PollReentered
  <1>6. CASE EjectOvertaken
    BY <1>2, <1>3, <1>6 DEF EjectOvertaken, Passes
  <1>7. CASE PinOvertaken
    BY <1>2, <1>3, <1>7 DEF PinOvertaken, OnFeed, OnRead, OnNoTransfer, OnResetError,
                            OnCardReject
  <1>8. CASE ArmOvertaken
    BY <1>2, <1>8 DEF ArmOvertaken
  <1>9. CASE PresentStray \/ EjectFed \/ PollRepeats
    BY <1>9 DEF PresentStray, EjectFed, PollRepeats, wireVars
  <1>. QED
    BY <1>4, <1>5, <1>6, <1>7, <1>8, <1>9 DEF Overtaken

LEMMA FininInvHolds ==
    ASSUME Protocol, NoRewinds
    PROVE  Spec => [](torn \/ FininInv)
  <1>1. Init => FininInv
    BY DEF Init, WireTxInit, FininInv
  <1>2. FeederInv /\ (torn \/ WireInv) /\ (torn \/ FininInv) /\ [Next]_vars
        => (torn \/ FininInv)'
    <2>1. SUFFICES ASSUME FeederInv, torn \/ WireInv, torn \/ FininInv, [Next]_vars, ~torn'
                   PROVE  FininInv'
      OBVIOUS
    <2>2. CASE IpcArm
      BY <2>1, <2>2, ArmResets DEF FininInv
    <2>3. CASE ~torn /\ [Step]_sysVars
      BY <2>1, <2>3, FininInvStep
    <2>. QED
      BY <2>1, <2>2, <2>3, UntornSteps
  <1>. QED
    BY <1>1, <1>2, FeederInvHolds, WireInvHolds, PTL DEF Spec

\* A FININ that stands after its strobe will be taken down: finin_pending
\* brings TU03N, the next command and the deadline (feeder.c:93-95).
THEOREM FininIsOwned ==
    ASSUME Protocol, NoRewinds
    PROVE  Spec => []FininOwned
  <1>1. torn \/ FininInv => FininOwned
    BY DEF FininInv, FininOwned
  <1>. QED
    BY <1>1, FininInvHolds, PTL

\* FININ never falls during a strobe, and the word of the next card never
\* finds it standing (wire_tx.c:109-113).  The step in which an interrupt first
\* comes into a handler of the main loop is included.
THEOREM FininFallsAtRest ==
    ASSUME Protocol, NoRewinds
    PROVE  Spec => FininFallsBetweenCards
  <1>1. FeederInv /\ (torn \/ WireInv) /\ (torn \/ FininInv) /\ [Next]_vars
        => [~torn /\ finin /\ ~finin' /\ sm_on' => fifo = <<>> /\ ~LU08]_vars
    <2>1. SUFFICES ASSUME FeederInv, WireInv, FininInv, [Next]_vars, ~torn,
                          finin, ~finin', sm_on'
                   PROVE  fifo = <<>> /\ ~LU08
      OBVIOUS
    <2>2. CASE [Step]_sysVars
      BY <2>1, <2>2, FininFallsStep
    <2>3. CASE Overtaken
      BY <2>1, <2>3, OvertakenFallsAtRest DEF FininInv
    <2>4. CASE IpcArm
      BY <2>1, <2>4 DEF IpcArm, WireTxArm
    <2>. QED
      BY <2>1, <2>2, <2>3, <2>4 DEF Next, vars
  <1>. QED
    BY <1>1, FeederInvHolds, WireInvHolds, FininInvHolds, PTL DEF Spec,
                                                                  FininFallsBetweenCards

----------------------------------------------------------------------------
(* Characters.                                                             *)

\* How much of the current card has been pushed.
Pushed == IF presenting THEN Position(EffectiveMode(card), col, half)
                        ELSE Len(CurrentImage)

HalfOk == presenting /\ ~Packed(EffectiveMode(card)) => half = 0

\* What has been heard and what is queued is the beginning of the card.
ImageInv ==
    /\ HalfOk
    /\ UnderWay =>
          /\ Len(got) + Len(fifo) = Pushed
          /\ \A i \in 1 .. Len(got) : got[i] = CurrentImage[i]
          /\ \A i \in 1 .. Len(fifo) : fifo[i].char = CurrentImage[Len(got) + i]

\* The character of column k, half h, stands at its position in the image.
LEMMA ImageFacts ==
    ASSUME NEW d \in Decks, NEW c \in Nat, c < d.n_cards, NEW m
    PROVE  /\ d.ncols[c] \in Nat /\ d.ncols[c] > 0
           /\ Image(d, c, m) \in Seq(CharSet)
           /\ Len(Image(d, c, m)) = Position(m, d.ncols[c], 0)
           /\ Len(Image(d, c, m)) \in Nat \ {0}
           /\ \A k \in Nat, h \in {0, 1} :
                 k < d.ncols[c] /\ (~Packed(m) => h = 0)
                 => /\ Position(m, k, h) + 1 \in 1 .. Len(Image(d, c, m))
                    /\ Image(d, c, m)[Position(m, k, h) + 1] = CharAt(c, m, k, h)
  <1>. DEFINE n == d.ncols[c]
  <1>1. n \in Nat /\ n > 0
    <2>1. c \in 0 .. d.n_cards - 1
      BY DecksAssumption
    <2>. QED
      BY <2>1, DecksAssumption
  <1>. HIDE DEF n
  <1>2. CASE Packed(m)
    <2>. DEFINE f == [i \in 1 .. 2 * n |-> CharAt(c, m, (i - 1) \div 2, (i - 1) % 2)]
    <2>1. Image(d, c, m) = f /\ Position(m, n, 0) = 2 * n
      BY <1>1, <1>2 DEF Image, Position, n
    <2>2. 2 * n \in Nat /\ 2 * n > 0
      BY <1>1
    <2>3. \A i \in 1 .. 2 * n : CharAt(c, m, (i - 1) \div 2, (i - 1) % 2) \in CharSet
      BY <1>1 DEF CharAt, CharSet
    <2>4. f \in Seq(CharSet) /\ Len(f) = 2 * n
      BY <2>2, <2>3
    <2>5. ASSUME NEW k \in Nat, NEW h \in {0, 1}, k < n
          PROVE  /\ Position(m, k, h) + 1 \in 1 .. 2 * n
                 /\ f[Position(m, k, h) + 1] = CharAt(c, m, k, h)
      <3>1. Position(m, k, h) = 2 * k + h
        BY <1>2 DEF Position
      <3>2. 2 * k + h + 1 \in 1 .. 2 * n
        BY <1>1, <2>5
      <3>3. (2 * k + h + 1 - 1) \div 2 = k /\ (2 * k + h + 1 - 1) % 2 = h
        OBVIOUS
      <3>4. f[2 * k + h + 1] = CharAt(c, m, (2 * k + h + 1 - 1) \div 2, (2 * k + h + 1 - 1) % 2)
        BY <3>2
      <3>. QED
        BY <3>1, <3>2, <3>3, <3>4
    <2>. HIDE DEF f
    <2>. QED
      BY <1>1, <2>1, <2>2, <2>4, <2>5 DEF n
  <1>3. CASE ~Packed(m)
    <2>. DEFINE f == [i \in 1 .. n |-> CharAt(c, m, i - 1, 0)]
    <2>1. Image(d, c, m) = f /\ Position(m, n, 0) = n
      BY <1>1, <1>3 DEF Image, Position, n
    <2>2. \A i \in 1 .. n : CharAt(c, m, i - 1, 0) \in CharSet
      BY <1>1 DEF CharAt, CharSet
    <2>3. f \in Seq(CharSet) /\ Len(f) = n
      BY <1>1, <2>2
    <2>4. ASSUME NEW k \in Nat, k < n
          PROVE  /\ Position(m, k, 0) + 1 \in 1 .. n
                 /\ f[Position(m, k, 0) + 1] = CharAt(c, m, k, 0)
      <3>1. Position(m, k, 0) = k
        BY <1>3 DEF Position
      <3>2. k + 1 \in 1 .. n /\ k + 1 - 1 = k
        BY <1>1, <2>4
      <3>. QED
        BY <3>1, <3>2
    <2>. HIDE DEF f
    <2>. QED
      BY <1>1, <1>3, <2>1, <2>3, <2>4 DEF n
  <1>. QED
    BY <1>2, <1>3

\* What is presented depends on the cursor's card and on the mode only.
LEMMA SameImage ==
    ASSUME UNCHANGED <<deck, card, latched_mode, post_loader_colbin>>
    PROVE  EffectiveMode(card)' = EffectiveMode(card) /\ CurrentImage' = CurrentImage
  <1>1. EffectiveMode(card)' = EffectiveMode(card)
    BY DEF EffectiveMode
  <1>. QED
    BY <1>1 DEF CurrentImage, Image, Position

\* A push appends the next character of the image.
LEMMA PushInImage ==
    ASSUME NoSplices, FeederInv, ~torn, HalfOk, Pushes
    PROVE  /\ Pushed \in Nat /\ Pushed + 1 \in 1 .. Len(CurrentImage)
           /\ NextWord.char = CurrentImage[Pushed + 1]
           /\ Pushed' = Pushed + 1
           /\ HalfOk'
           /\ CurrentImage' = CurrentImage
  <1>. DEFINE m == EffectiveMode(card)
  <1>1. presenting /\ deck \in Decks /\ card \in Nat /\ card < deck.n_cards
        /\ col \in Nat /\ half \in {0, 1} /\ col < deck.ncols[card]
    BY DEF Pushes, FeederInv, SmFollowsDeck, TypeOK, SysTypeOK, ControlTypeOK,
           CursorTypeOK, CursorInDeck
  <1>2. deck.ncols[card] \in Nat /\ deck.ncols[card] <= ColRange
    <2>1. card \in 0 .. deck.n_cards - 1
      BY <1>1, DecksAssumption
    <2>. QED
      BY <1>1, <2>1, DecksAssumption DEF NoSplices
  <1>3. UNCHANGED <<deck, card, latched_mode, post_loader_colbin>>
    BY PushFacts DEF modes, params
  <1>4. m' = m /\ CurrentImage' = CurrentImage
    BY <1>3, SameImage
  <1>5. ~Packed(m) => half = 0
    BY <1>1 DEF HalfOk
  <1>6. Pushed = Position(m, col, half) /\ Pushed \in Nat
    BY <1>1 DEF Pushed, Position
  <1>7. /\ Pushed + 1 \in 1 .. Len(CurrentImage)
        /\ CurrentImage[Pushed + 1] = CharAt(card, m, col, half)
        /\ Len(CurrentImage) = Position(m, deck.ncols[card], 0)
    BY <1>1, <1>5, <1>6, ImageFacts DEF CurrentImage
  <1>8. NextWord.char = CharAt(card, m, col, half)
        /\ (NextWord.fini <=> LastCol(deck, card, col) /\ (Packed(m) => half = 1))
    BY NextWordFields
  <1>9. CASE NextWord.fini
    <2>1. col + 1 = deck.ncols[card] /\ (Packed(m) => half = 1)
      <3>1. LastCol(deck, card, col) /\ (Packed(m) => half = 1)
        BY <1>8, <1>9, Zenon
      <3>. QED
        BY <1>1, <1>2, <3>1 DEF LastCol
    <2>2. Len(CurrentImage) = Pushed + 1
      BY <1>1, <1>2, <1>5, <1>6, <1>7, <2>1 DEF Position
    <2>3. ~presenting'
      BY <1>9, PushFacts
    <2>4. Pushed' = Len(CurrentImage')
      BY <2>3 DEF Pushed
    <2>. QED
      BY <1>4, <1>6, <1>7, <1>8, <2>2, <2>3, <2>4 DEF HalfOk
  <1>10. CASE ~NextWord.fini
    <2>1. presenting'
      BY <1>1, <1>10, PushFacts
    <2>2. Pushed' = Position(m, col', half')
      BY <1>4, <2>1 DEF Pushed, Position
    <2>3. CASE Packed(m) /\ half = 0
      <3>1. col' = col /\ half' = 1
        BY <1>8, <2>3 DEF CharAt, Pushes, PresentNext, CardEnds
      <3>. QED
        BY <1>1, <1>4, <1>6, <1>7, <1>8, <2>2, <2>3, <3>1 DEF Position, HalfOk
    <2>4. CASE ~(Packed(m) /\ half = 0)
      <3>1. Packed(m) => half = 1
        BY <1>1, <2>4
      <3>2. ~LastCol(deck, card, col)
        BY <1>8, <1>10, <3>1, Zenon
      <3>3. col + 1 < ColRange
        BY <1>1, <1>2, <3>2, ParamsAssumption DEF LastCol
      <3>4. (col + 1) % ColRange = col + 1
        BY <1>1, <3>3, ParamsAssumption
      <3>5. NextWord.char.part # "hi"
        BY <1>8, <2>4 DEF CharAt
      <3>6. half' = 0 /\ col' = col + 1
        BY <1>10, <3>4, <3>5 DEF Pushes, PresentNext, CardEnds
      <3>7. Pushed' = Pushed + 1
        BY <1>1, <1>5, <1>6, <2>2, <3>1, <3>6 DEF Position
      <3>. QED
        BY <1>4, <1>6, <1>7, <1>8, <3>6, <3>7 DEF HalfOk
    <2>. QED
      BY <2>3, <2>4
  <1>. QED
    BY <1>9, <1>10

LEMMA ImageInvStep ==
    ASSUME Protocol, NoSplices, FeederInv, ~torn, WireInv, ImageInv, [Step]_sysVars
    PROVE  ImageInv'
  <1>1. fifo \in Seq(WordSet) /\ Len(fifo) \in Nat /\ got \in Seq(CharSet) /\ Len(got) \in Nat
    BY DEF FeederInv, TypeOK, SysTypeOK, WireTypeOK, GeTypeOK
  <1>2. ASSUME ~UnderWay' PROVE ImageInv'
    BY <1>2 DEF ImageInv, HalfOk, UnderWay
  <1>3. CASE Others
    <2>1. SUFFICES ASSUME UnderWay' PROVE ImageInv'
      BY <1>2
    <2>2. UnderWay
      BY <1>3, <2>1 DEF Others, Kept, UnderWay
    <2>3. ~GeMayCommand
      BY <2>2, CommandsAtRest DEF WireInv
    <2>4. UNCHANGED <<fifo, got, presenting, deck, cursor, latched_mode, post_loader_colbin>>
      BY <1>3, <2>2, <2>3 DEF Others, Kept, NoSplices, geVars
    <2>5. EffectiveMode(card)' = EffectiveMode(card) /\ CurrentImage' = CurrentImage
      BY <2>4, SameImage DEF cursor
    <2>6. Pushed' = Pushed /\ HalfOk'
      BY <2>4, <2>5 DEF ImageInv, Pushed, HalfOk, cursor, Position
    <2>. QED
      BY <2>2, <2>4, <2>5, <2>6 DEF ImageInv
  <1>4. CASE Releases
    <2>1. ~UnderWay'
      BY <1>4, ReleasesAtRest DEF Releases, Kept, UnderWay
    <2>. QED
      BY <1>2, <2>1
  <1>5. CASE Resets
    BY <1>2, <1>5 DEF Resets, UnderWay
  <1>6. CASE Pushes
    <2>1. UnderWay /\ got' = got /\ HalfOk
      BY <1>6, PushFacts DEF Pushes, UnderWay, ImageInv, geVars
    <2>2. /\ Pushed \in Nat /\ Pushed' = Pushed + 1 /\ HalfOk' /\ CurrentImage' = CurrentImage
          /\ NextWord.char = CurrentImage[Pushed + 1]
      BY <1>6, <2>1, PushInImage
    <2>3. /\ Len(fifo') = Len(fifo) + 1 /\ fifo'[Len(fifo) + 1] = NextWord
          /\ \A i \in 1 .. Len(fifo) : fifo'[i] = fifo[i]
      BY <1>6, PushFacts
    <2>4. Len(got') + Len(fifo') = Pushed'
      <3>1. Len(got) + Len(fifo) = Pushed
        BY <2>1 DEF ImageInv
      <3>2. Len(got') = Len(got)
        BY <2>1
      <3>3. Len(fifo') = Len(fifo) + 1
        BY <2>3
      <3>4. Pushed' = Pushed + 1
        BY <2>2
      <3>5. Len(got) \in Nat /\ Len(fifo) \in Nat
        BY <1>1
      <3>. QED
        BY <3>1, <3>2, <3>3, <3>4, <3>5
    <2>5. ASSUME NEW i \in 1 .. Len(fifo')
          PROVE  fifo'[i].char = CurrentImage'[Len(got') + i]
      <3>1. CASE i \in 1 .. Len(fifo)
        BY <2>1, <2>2, <2>3, <3>1 DEF ImageInv
      <3>2. CASE i = Len(fifo) + 1
        <4>1. Len(got) + i = Pushed + 1
          BY <1>1, <2>1, <2>2, <3>2 DEF ImageInv
        <4>. QED
          BY <2>1, <2>2, <2>3, <3>2, <4>1
      <3>. QED
        BY <1>1, <2>3, <3>1, <3>2
    <2>. QED
      BY <2>1, <2>2, <2>4, <2>5 DEF ImageInv
  <1>7. CASE Triggers
    <2>1. SUFFICES ASSUME UnderWay' PROVE ImageInv'
      BY <1>2
    <2>2. ge = "armed" /\ ~UnderWay /\ got = <<>>
      BY <1>7 DEF Triggers, TriggerPresent, WireInv, CommandRests, NothingHeard
    <2>3. fifo' = <<>> /\ got' = <<>>
      BY <1>7, <2>2 DEF Triggers, TriggerPresent, smVars, geVars, UnderWay
    <2>4. presenting' /\ ~presenting
      BY <2>1, <2>2, <2>3 DEF UnderWay
    <2>5. col' = 0 /\ half' = 0
      BY <1>7, <2>4 DEF Triggers, TriggerPresent, TriggerExhausted, TriggerRefused,
                        TriggerPresents, Presents, cursor, FeederInv, CursorAtStart
    <2>6. Pushed' = 0
      BY <2>4, <2>5 DEF Pushed, Position
    <2>. QED
      BY <2>3, <2>5, <2>6, EmptySeq DEF ImageInv, HalfOk
  <1>8. CASE Reads
    <2>1. GeMayCommand /\ UNCHANGED <<fifo, presenting>>
      BY <1>8 DEF Reads, ReRead, OnRead, smVars
    <2>2. ~UnderWay'
      BY <2>1, CommandsAtRest DEF WireInv, UnderWay
    <2>. QED
      BY <1>2, <2>2
  <1>9. CASE Strobe
    <2>1. /\ fifo # <<>> /\ fifo' = Tail(fifo)
          /\ UNCHANGED fdVars
      BY <1>9 DEF Strobe, SmPull, SmUrgent
    <2>2. UnderWay /\ ge # "idle"
      BY <2>1 DEF UnderWay, WireInv, Listening
    <2>3. got' = Append(got, Head(fifo).char)
      BY <1>9, <2>2 DEF Strobe, GeHears
    <2>4. /\ Head(fifo) = fifo[1] /\ Len(fifo) >= 1 /\ Len(fifo') = Len(fifo) - 1
          /\ \A i \in 1 .. Len(fifo') : fifo'[i] = fifo[i + 1]
      BY <1>1, <2>1, HeadTailProperties
    <2>5. fifo[1].char = CurrentImage[Len(got) + 1]
      BY <1>1, <2>2, <2>4 DEF ImageInv
    <2>6. fifo[1].char \in CharSet
      BY <1>1, <2>1, <2>4, PullType DEF FeederInv, TypeOK, SysTypeOK
    <2>7. /\ Len(got') = Len(got) + 1
          /\ \A i \in 1 .. Len(got) : got'[i] = got[i]
          /\ got'[Len(got) + 1] = CurrentImage[Len(got) + 1]
      BY <1>1, <2>3, <2>4, <2>5, <2>6, AppendProperties
    <2>8. CurrentImage' = CurrentImage /\ Pushed' = Pushed /\ HalfOk'
      <3>1. UNCHANGED <<deck, cursor, presenting, latched_mode, post_loader_colbin>>
        BY <2>1 DEF fdVars, modes, params, flags
      <3>2. EffectiveMode(card)' = EffectiveMode(card) /\ CurrentImage' = CurrentImage
        BY <3>1, SameImage DEF cursor
      <3>. QED
        BY <3>1, <3>2 DEF Pushed, HalfOk, ImageInv, cursor, Position
    <2>9. Len(got') + Len(fifo') = Pushed'
      BY <1>1, <2>2, <2>4, <2>7, <2>8 DEF ImageInv
    <2>10. ASSUME NEW i \in 1 .. Len(got')
           PROVE  got'[i] = CurrentImage'[i]
      <3>1. i \in 1 .. Len(got) \/ i = Len(got) + 1
        BY <1>1, <2>7
      <3>. QED
        BY <2>2, <2>7, <2>8, <3>1 DEF ImageInv
    <2>11. ASSUME NEW i \in 1 .. Len(fifo')
           PROVE  fifo'[i].char = CurrentImage'[Len(got') + i]
      <3>1. i + 1 \in 1 .. Len(fifo) /\ Len(got) + (i + 1) = Len(got') + i
        BY <1>1, <2>4, <2>7
      <3>2. fifo[i + 1].char = CurrentImage[Len(got) + (i + 1)]
        BY <2>2, <3>1 DEF ImageInv
      <3>. QED
        BY <2>4, <2>8, <3>1, <3>2
    <2>. QED
      BY <2>8, <2>9, <2>10, <2>11 DEF ImageInv
  <1>10. CASE Tick
    <2>1. UNCHANGED <<fifo, got, presenting, deck, cursor, modes, params>>
      BY <1>10 DEF Tick, SmTick, GeStrobeEnds, geVars
    <2>2. EffectiveMode(card)' = EffectiveMode(card) /\ CurrentImage' = CurrentImage
      BY <2>1, SameImage DEF cursor, modes, params
    <2>. QED
      BY <2>1, <2>2 DEF ImageInv, Pushed, HalfOk, cursor, Position, UnderWay
  <1>11. CASE Clear
    <2>1. ~UnderWay'
      BY <1>11 DEF Clear, Drained, UnderWay, wireVars, fdVars, flags
    <2>. QED
      BY <1>2, <2>1
  <1>. QED
    BY StepKinds, <1>3, <1>4, <1>5, <1>6, <1>7, <1>8, <1>9, <1>10, <1>11 DEF WireInv

\* What is queued and what has been heard are parts of the card's image, and
\* the cursor is where the last of them leaves it (feeder.c:123-165): until an
\* interrupt comes in between the stores of a handler of the main loop, and
\* again from the next arming on.
THEOREM ImageInvHolds ==
    ASSUME Protocol, NoSplices
    PROVE  Spec => [](torn \/ ImageInv)
  <1>1. Init => ImageInv
    BY DEF Init, WireTxInit, ImageInv, HalfOk, UnderWay
  <1>2. FeederInv /\ (torn \/ WireInv) /\ (torn \/ ImageInv) /\ [Next]_vars
        => (torn \/ ImageInv)'
    <2>1. SUFFICES ASSUME FeederInv, torn \/ WireInv, torn \/ ImageInv, [Next]_vars, ~torn'
                   PROVE  ImageInv'
      OBVIOUS
    <2>2. CASE IpcArm
      BY <2>1, <2>2, ArmResets DEF Resets, ImageInv, HalfOk, UnderWay
    <2>3. CASE ~torn /\ [Step]_sysVars
      BY <2>1, <2>3, ImageInvStep
    <2>. QED
      BY <2>1, <2>2, <2>3, UntornSteps
  <1>. QED
    BY <1>1, <1>2, FeederInvHolds, WireInvHolds, PTL DEF Spec

\* The machine hears every card's characters in order, none lost, doubled or
\* foreign (feeder.c:123-165, 195-216), as long as the console leaves the card
\* at the station and the policy alone and no interrupt comes in between the
\* stores of cursor_reset or of the fallback's trigger_present.
THEOREM CardsHeardWhole ==
    ASSUME Protocol, NoSplices
    PROVE  Spec => []CardIntegrity
  <1>1. ASSUME FeederInv, ~torn, WireInv, ImageInv
        PROVE  CardIntegrity
    <2>. DEFINE sent == got \o Queued
    <2>1. SUFFICES ASSUME UnderWay
                   PROVE  /\ ge # "idle"
                          /\ Len(sent) <= Len(CurrentImage)
                          /\ sent = SubSeq(CurrentImage, 1, Len(sent))
      BY Zenon DEF CardIntegrity
    <2>2. ge # "idle"
      BY <1>1, <2>1 DEF WireInv, Listening
    <2>3. got \in Seq(CharSet) /\ Len(got) \in Nat /\ fifo \in Seq(WordSet) /\ Len(fifo) \in Nat
      BY <1>1 DEF FeederInv, TypeOK, SysTypeOK, WireTypeOK, GeTypeOK
    <2>4. Queued \in Seq(CharSet) /\ Len(Queued) = Len(fifo)
          /\ \A i \in 1 .. Len(fifo) : Queued[i] = fifo[i].char
      <3>1. ASSUME NEW i \in 1 .. Len(fifo)
            PROVE  fifo[i].char \in CharSet
        <4>1. fifo[i] \in WordSet
          BY <2>3, ElementOfSeq
        <4>. QED
          BY <4>1 DEF WordSet
      <3>. QED
        BY <2>3, <3>1 DEF Queued
    <2>5. deck \in Decks /\ card \in Nat /\ card < deck.n_cards
      <3>1. deck # NoDeck
        BY <1>1, <2>1 DEF FeederInv, SmFollowsDeck, UnderWay
      <3>. QED
        BY <1>1, <3>1 DEF FeederInv, TypeOK, SysTypeOK, ControlTypeOK, CursorTypeOK,
                          CursorInDeck
    <2>6. CurrentImage \in Seq(CharSet) /\ Len(CurrentImage) \in Nat
      BY <2>5, ImageFacts DEF CurrentImage
    <2>7. Pushed \in Nat /\ Pushed <= Len(CurrentImage)
      <3>1. CASE presenting
        <4>1. col \in Nat /\ half \in {0, 1} /\ col < deck.ncols[card]
              /\ (~Packed(EffectiveMode(card)) => half = 0)
          BY <1>1, <2>5, <3>1, DecksAssumption
             DEF FeederInv, TypeOK, SysTypeOK, CursorTypeOK, CursorInDeck, ImageInv, HalfOk
        <4>2. Position(EffectiveMode(card), col, half) + 1 \in 1 .. Len(CurrentImage)
          BY <2>5, <4>1, ImageFacts DEF CurrentImage
        <4>3. Position(EffectiveMode(card), col, half) \in Nat
          BY <4>1 DEF Position
        <4>. QED
          BY <2>6, <3>1, <4>2, <4>3 DEF Pushed
      <3>2. CASE ~presenting
        BY <2>6, <3>2 DEF Pushed
      <3>. QED
        BY <3>1, <3>2
    <2>8. /\ sent \in Seq(CharSet) /\ Len(sent) = Pushed
          /\ \A i \in 1 .. Len(got) : sent[i] = got[i]
          /\ \A i \in Len(got) + 1 .. Len(sent) : sent[i] = Queued[i - Len(got)]
      <3>1. /\ sent \in Seq(CharSet) /\ Len(sent) = Len(got) + Len(Queued)
            /\ \A i \in 1 .. Len(sent) :
                  sent[i] = IF i <= Len(got) THEN got[i] ELSE Queued[i - Len(got)]
        BY <2>3, <2>4, ConcatProperties
      <3>2. Len(sent) = Pushed
        BY <1>1, <2>1, <2>4, <3>1 DEF ImageInv
      <3>. HIDE DEF sent
      <3>3. \A i \in 1 .. Len(got) : sent[i] = got[i]
        BY <2>3, <2>4, <3>1
      <3>4. \A i \in Len(got) + 1 .. Len(sent) : sent[i] = Queued[i - Len(got)]
        BY <2>3, <2>4, <3>1
      <3>. QED
        BY <3>1, <3>2, <3>3, <3>4
    <2>9. ASSUME NEW i \in 1 .. Len(sent)
          PROVE  sent[i] = CurrentImage[i]
      <3>1. CASE i <= Len(got)
        BY <1>1, <2>1, <2>3, <2>8, <3>1 DEF ImageInv
      <3>2. CASE i > Len(got)
        <4>1. i - Len(got) \in 1 .. Len(fifo) /\ Len(got) + (i - Len(got)) = i
          BY <1>1, <2>1, <2>3, <2>8, <3>2 DEF ImageInv
        <4>2. sent[i] = fifo[i - Len(got)].char
          BY <2>3, <2>4, <2>8, <3>2, <4>1
        <4>3. fifo[i - Len(got)].char = CurrentImage[Len(got) + (i - Len(got))]
          BY <1>1, <2>1, <4>1 DEF ImageInv
        <4>. QED
          BY <4>1, <4>2, <4>3
      <3>. QED
        BY <2>3, <2>7, <2>8, <3>1, <3>2
    <2>. DEFINE part == SubSeq(CurrentImage, 1, Len(sent))
    <2>10. part \in Seq(CharSet) /\ Len(part) = Len(sent)
           /\ \A i \in 1 .. Len(sent) : part[i] = CurrentImage[i]
      BY <2>6, <2>7, <2>8
    <2>11. sent = part
      <3>. HIDE DEF sent, part
      <3>. QED
        BY <2>8, <2>9, <2>10, SeqEqual
    <2>. QED
      BY <2>2, <2>7, <2>8, <2>11
  <1>2. FeederInv /\ (torn \/ WireInv) /\ (torn \/ ImageInv) => CardIntegrity
    BY <1>1 DEF CardIntegrity
  <1>. QED
    BY <1>2, FeederInvHolds, WireInvHolds, ImageInvHolds, PTL

----------------------------------------------------------------------------
(* The feeder implements the hopper, step by step: under the mapping of    *)
(* module FeederRefinement its initial states are the hopper's, and every  *)
(* step of firmware, wire, machine, console or time is a step of the       *)
(* hopper or leaves all of it unchanged.  That a delivery goes on (the     *)
(* hopper's fairness) is a matter of ENABLED and stays with TLC.           *)
(*                                                                         *)
(* The argument is one equation, RestFacts: while a card is under way,     *)
(* what the FIFO holds and what the cursor has still to push is together   *)
(* what the image has after the characters heard.  So a push changes       *)
(* nothing that the hopper can see, and a strobe takes the head.           *)

\* The hopper's specification without its fairness.
HopperSafety == H!Init /\ [][H!Next]_(H!hopperVars)

\* The state functions that stand for the hopper's variables.
Read == state = "CARD_DONE" /\ fifo = <<>>
Rest == Queued \o Unpushed

\* A step that the hopper does not see.
Unseen ==
    /\ UNCHANGED <<deck, card, got, torn>>
    /\ Read' = Read /\ (state = "DONE")' = (state = "DONE")
    /\ (state = "ERROR")' = (state = "ERROR")
    /\ Rest' = Rest

\* The invariants that the mapping needs, as long as the hopper is not jammed.
Inv == ~torn /\ FeederInv /\ WireInv /\ ImageInv

\* What is still to be delivered: at rest nothing, under way what comes after
\* the characters that have been heard, and there is something.
RestFacts ==
    IF UnderWay
    THEN /\ CurrentImage \in Seq(CharSet) /\ Len(got) < Len(CurrentImage)
         /\ Rest = SubSeq(CurrentImage, Len(got) + 1, Len(CurrentImage))
         /\ Rest # <<>>
    ELSE Rest = <<>>

----------------------------------------------------------------------------
(* The hopper's copies of the operators of module Cards.                   *)

LEMMA SameImages == \A d, c, m : H!Image(d, c, m) = Image(d, c, m)
  BY DEF H!Image, Image, H!Position, Position, H!Packed, Packed, H!CharAt, CharAt

LEMMA SameFirstCard == \A d : H!FirstCard(d) = FirstCard(d)
  BY DEF H!FirstCard, FirstCard

----------------------------------------------------------------------------
(* What is still to be delivered.                                          *)

LEMMA QueuedFacts ==
    ASSUME FeederInv
    PROVE  /\ Queued \in Seq(CharSet) /\ Len(Queued) = Len(fifo) /\ Len(fifo) \in Nat
           /\ \A i \in 1 .. Len(fifo) : Queued[i] = fifo[i].char
           /\ fifo = <<>> <=> Len(fifo) = 0
           /\ got \in Seq(CharSet) /\ Len(got) \in Nat
  <1>1. fifo \in Seq(WordSet) /\ Len(fifo) \in Nat /\ got \in Seq(CharSet) /\ Len(got) \in Nat
    BY DEF FeederInv, TypeOK, SysTypeOK, WireTypeOK, GeTypeOK
  <1>2. ASSUME NEW i \in 1 .. Len(fifo)
        PROVE  fifo[i].char \in CharSet
    <2>1. fifo[i] \in WordSet
      BY <1>1, ElementOfSeq
    <2>. QED
      BY <2>1 DEF WordSet
  <1>3. fifo = <<>> <=> Len(fifo) = 0
    BY <1>1, EmptySeq
  <1>. QED
    BY <1>1, <1>2, <1>3 DEF Queued

LEMMA RestAtRest ==
    ASSUME ~UnderWay
    PROVE  Rest = <<>>
  <1>1. fifo = <<>> /\ ~presenting
    BY DEF UnderWay
  <1>2. Queued = <<>> /\ Unpushed = <<>>
    BY <1>1 DEF Queued, Unpushed
  <1>3. <<>> \o <<>> = <<>>
    OBVIOUS
  <1>. QED
    BY <1>2, <1>3 DEF Rest

LEMMA RestUnderWay ==
    ASSUME Inv, UnderWay
    PROVE  /\ CurrentImage \in Seq(CharSet) /\ Len(got) < Len(CurrentImage)
           /\ Rest = SubSeq(CurrentImage, Len(got) + 1, Len(CurrentImage))
           /\ Rest # <<>>
  <1>1. deck # NoDeck /\ deck \in Decks /\ card \in Nat /\ card < deck.n_cards
    BY DEF Inv, FeederInv, SmFollowsDeck, UnderWay, TypeOK, SysTypeOK, ControlTypeOK,
           CursorTypeOK, CursorInDeck
  <1>. DEFINE L == Len(CurrentImage)
              g == Len(got)
              n == Len(fifo)
              R == SubSeq(CurrentImage, g + 1, L)
  <1>2. CurrentImage \in Seq(CharSet) /\ L \in Nat
    BY <1>1, ImageFacts DEF CurrentImage
  <1>3. /\ Pushed \in Nat /\ Pushed <= L
        /\ presenting => Pushed < L
    <2>1. CASE presenting
      <3>1. /\ col \in Nat /\ half \in {0, 1} /\ col < deck.ncols[card]
            /\ ~Packed(EffectiveMode(card)) => half = 0
        BY <1>1, <2>1 DEF Inv, FeederInv, TypeOK, SysTypeOK, CursorTypeOK, CursorInDeck,
                          ImageInv, HalfOk
      <3>2. Position(EffectiveMode(card), col, half) + 1 \in 1 .. Len(CurrentImage)
        BY <1>1, <3>1, ImageFacts DEF CurrentImage
      <3>3. Position(EffectiveMode(card), col, half) \in Nat
        BY <3>1 DEF Position
      <3>. QED
        BY <1>2, <2>1, <3>2, <3>3 DEF Pushed
    <2>2. CASE ~presenting
      BY <1>2, <2>2 DEF Pushed
    <2>. QED
      BY <2>1, <2>2
  <1>4. /\ g \in Nat /\ n \in Nat /\ Queued \in Seq(CharSet) /\ Len(Queued) = n
        /\ \A i \in 1 .. n : Queued[i] = CurrentImage[g + i]
        /\ g + n = Pushed
    BY QueuedFacts DEF Inv, ImageInv
  <1>5. g < L
    BY <1>2, <1>3, <1>4, QueuedFacts DEF Inv, UnderWay
  <1>6. /\ Unpushed \in Seq(CharSet) /\ Len(Unpushed) = L - Pushed
        /\ \A i \in 1 .. L - Pushed : Unpushed[i] = CurrentImage[Pushed + i]
    <2>1. CASE presenting
      <3>1. Unpushed = SubSeq(CurrentImage, Pushed + 1, L)
        BY <2>1 DEF Unpushed, Pushed, Inv
      <3>2. \A i \in Pushed + 1 .. L : CurrentImage[i] \in CharSet
        BY <1>2, <1>3, ElementOfSeq
      <3>. QED
        BY <1>2, <1>3, <3>1, <3>2, SubSeqProperties
    <2>2. CASE ~presenting
      <3>1. Unpushed = <<>> /\ Pushed = L
        BY <2>2 DEF Unpushed, Pushed
      <3>. QED
        BY <1>2, <3>1, EmptySeq
    <2>. QED
      BY <2>1, <2>2
  <1>7. /\ R \in Seq(CharSet) /\ Len(R) = L - g
        /\ \A i \in 1 .. L - g : R[i] = CurrentImage[g + i]
    <2>1. \A i \in g + 1 .. L : CurrentImage[i] \in CharSet
      BY <1>2, <1>4, ElementOfSeq
    <2>. QED
      BY <1>2, <1>4, <1>5, <2>1, SubSeqProperties
  <1>. USE <1>2, <1>3, <1>4, <1>5
  <1>. HIDE DEF L, g, n, R
  <1>8. /\ Rest \in Seq(CharSet) /\ Len(Rest) = n + (L - Pushed)
        /\ \A i \in 1 .. n + (L - Pushed) :
              Rest[i] = IF i <= n THEN Queued[i] ELSE Unpushed[i - n]
    <2>1. /\ Rest \in Seq(CharSet) /\ Len(Rest) = Len(Queued) + Len(Unpushed)
          /\ \A i \in 1 .. Len(Queued) + Len(Unpushed) :
                Rest[i] = IF i <= Len(Queued) THEN Queued[i] ELSE Unpushed[i - Len(Queued)]
      <3>1. Queued \in Seq(CharSet) /\ Unpushed \in Seq(CharSet)
        BY <1>6
      <3>. QED
        BY ONLY <3>1, ConcatProperties, Zenon DEF Rest
    <2>. QED
      BY <1>6, <2>1
  <1>9. Len(Rest) = L - g /\ Len(Rest) = Len(R)
    BY <1>7, <1>8
  <1>10. ASSUME NEW i \in 1 .. Len(Rest)
         PROVE  Rest[i] = R[i]
    <2>1. i \in 1 .. L - g /\ R[i] = CurrentImage[g + i]
      BY <1>7, <1>9
    <2>2. CASE i <= n
      <3>1. Rest[i] = Queued[i] /\ i \in 1 .. n
        BY <1>4, <1>8, <2>2
      <3>. QED
        BY <1>4, <2>1, <3>1
    <2>3. CASE i > n
      <3>1. Rest[i] = Unpushed[i - n] /\ i - n \in 1 .. L - Pushed
        BY <1>2, <1>3, <1>4, <1>8, <2>1, <2>3
      <3>2. Pushed + (i - n) = g + i
        BY <1>3, <1>4, <2>1
      <3>3. Unpushed[i - n] = CurrentImage[Pushed + (i - n)]
        BY <1>6, <3>1
      <3>. QED
        BY <2>1, <3>1, <3>2, <3>3
    <2>. QED
      BY <1>4, <2>1, <2>2, <2>3
  <1>11. Rest = R
    BY <1>7, <1>8, <1>9, <1>10, SeqEqual
  <1>12. Rest # <<>>
    BY <1>2, <1>4, <1>5, <1>9
  <1>. QED
    BY <1>11, <1>12 DEF L, g, R

LEMMA RestFactsHold == Inv => RestFacts
  BY RestAtRest, RestUnderWay DEF RestFacts

\* As long as what is heard and what is presented stay, so does the rest.
LEMMA RestStays ==
    ASSUME RestFacts, RestFacts', CurrentImage' = CurrentImage \/ ~UnderWay, got' = got,
           UnderWay' <=> UnderWay
    PROVE  Rest' = Rest
  <1>1. CASE UnderWay
    BY <1>1 DEF RestFacts
  <1>2. CASE ~UnderWay
    BY <1>2 DEF RestFacts
  <1>. QED
    BY <1>1, <1>2

----------------------------------------------------------------------------
(* The steps.                                                              *)

LEMMA UnseenStutters ==
    ASSUME Unseen
    PROVE  UNCHANGED H!hopperVars
  <1>1. Read' = Read /\ (state = "DONE")' = (state = "DONE")
        /\ (state = "ERROR")' = (state = "ERROR") /\ Rest' = Rest
    BY DEF Unseen
  <1>2. UNCHANGED <<deck, card, got, torn>>
    BY DEF Unseen
  <1>. QED
    BY <1>1, <1>2 DEF H!hopperVars, Read, Rest

\* The hopper's variables after a step, in terms of the feeder's.
LEMMA UnseenSteps ==
    ASSUME UNCHANGED <<deck, card, got, state, torn>>, Rest' = Rest,
           state = "CARD_DONE" => (fifo' = <<>> <=> fifo = <<>>)
    PROVE  Unseen
  BY DEF Unseen, Read

LEMMA PassMaps ==
    ASSUME AdvanceCard, UNCHANGED <<deck, got>>, Rest = <<>>, Rest' = <<>>,
           deck # NoDeck, state \in {"ARMED_WAIT", "CARD_DONE"}
    PROVE  H!Reject
  <1>1. state \notin {"DONE", "ERROR"} /\ state' \notin {"CARD_DONE", "ERROR"}
    BY DEF AdvanceCard
  <1>2. H!Resting
    BY <1>1 DEF H!Resting, Rest
  <1>3. H!Pass
    <2>1. (state = "CARD_DONE" /\ fifo = <<>>)' = FALSE
      BY <1>1
    <2>2. IF card + 1 >= deck.n_cards THEN (state = "DONE")' = TRUE /\ UNCHANGED card
                                      ELSE card' = card + 1 /\ (state = "DONE")' = (state = "DONE")
      BY <1>1 DEF AdvanceCard, LastCard
    <2>3. (state = "ERROR")' = (state = "ERROR")
      BY <1>1
    <2>. QED
      BY <2>1, <2>2, <2>3 DEF H!Pass, Rest
  <1>. QED
    BY <1>2, <1>3 DEF H!Reject

LEMMA OthersMap ==
    ASSUME Protocol, NoSplices, torn = FALSE, torn' = FALSE,
           Inv, RestFacts, RestFacts', Others
    PROVE  [H!Next]_(H!hopperVars)
  <1>1. /\ UNCHANGED <<deck, cursor, got, fifo, presenting>>
        /\ UnderWay' <=> UnderWay
    BY DEF Others, Kept, NoSplices, geVars, UnderWay
  <1>2. UnderWay => UNCHANGED <<latched_mode, post_loader_colbin>>
    BY CommandsAtRest DEF Others, NoSplices, Inv, WireInv
  <1>3. CurrentImage' = CurrentImage \/ ~UnderWay
    BY <1>1, <1>2, SameImage DEF cursor
  <1>4. Rest' = Rest
    BY <1>1, <1>3, RestStays
  <1>5. CASE UNCHANGED state
    BY <1>1, <1>4, <1>5, UnseenSteps, UnseenStutters DEF cursor
  <1>6. CASE state' = "ERROR"
    <2>1. H!Breaks
      BY <1>1, <1>4, <1>6 DEF H!Breaks, Rest, cursor
    <2>. QED
      BY <2>1 DEF H!Next, H!Runs
  <1>7. CASE state = "ERROR" /\ state' \in {"ARMED_WAIT", "DISARMED"}
    <2>1. H!Mended
      BY <1>1, <1>4, <1>7 DEF H!Mended, Rest, cursor
    <2>. QED
      BY <2>1 DEF H!Next, H!Runs
  <1>. QED
    BY <1>5, <1>6, <1>7 DEF Others

LEMMA ReleasesMap ==
    ASSUME Protocol, NoSplices, torn = FALSE, torn' = FALSE,
           Inv, RestFacts, RestFacts', Releases
    PROVE  [H!Next]_(H!hopperVars)
  <1>1. ~UnderWay /\ UNCHANGED <<deck, got, fifo, presenting>>
    BY ReleasesAtRest DEF Releases, Kept, geVars, Inv
  <1>2. Rest = <<>> /\ Rest' = <<>>
    BY <1>1 DEF RestFacts, UnderWay
  <1>3. CASE UNCHANGED <<state, cursor>>
    BY <1>1, <1>2, <1>3, UnseenSteps, UnseenStutters DEF cursor
  <1>4. CASE AdvanceCard /\ deck # NoDeck /\ state \in {"ARMED_WAIT", "CARD_DONE"}
    BY <1>1, <1>2, <1>4, PassMaps DEF H!Next, H!Runs
  <1>. QED
    BY <1>3, <1>4 DEF Releases

LEMMA ResetsMap ==
    ASSUME Protocol, NoSplices, torn = FALSE, torn' = FALSE,
           Inv, RestFacts, RestFacts', Resets
    PROVE  [H!Next]_(H!hopperVars)
  <1>1. got' = got /\ fifo' = <<>> /\ ~UnderWay'
    BY DEF Resets, geVars, UnderWay
  <1>2. Rest' = <<>>
    BY <1>1 DEF RestFacts
  <1>3. ASSUME NEW d, NEW c, deck' = d, card' = c, state' \in {"ARMED_WAIT", "DISARMED"}
        PROVE  H!Place(d, c)
    BY <1>1, <1>2, <1>3 DEF H!Place, Rest
  <1>4. CASE /\ deck = NoDeck /\ deck' \in Decks
             /\ card' = FirstCard(deck') /\ state' = "ARMED_WAIT"
    <2>1. H!Place(deck', H!FirstCard(deck'))
      BY <1>3, <1>4, SameFirstCard
    <2>2. H!Load
      BY <1>4, <2>1 DEF H!Load
    <2>. QED
      BY <2>2 DEF H!Next, H!Runs
  <1>5. CASE deck' = NoDeck /\ card' = 0 /\ state' = "DISARMED"
    <2>1. H!Unload
      BY <1>3, <1>5 DEF H!Unload
    <2>. QED
      BY <2>1 DEF H!Next, H!Runs
  <1>6. CASE /\ deck # NoDeck /\ UNCHANGED deck
             /\ card' \in FirstCard(deck) .. deck.n_cards - 1 /\ state' = "ARMED_WAIT"
    <2>1. H!Place(deck, card')
      BY <1>3, <1>6
    <2>2. H!Reposition
      BY <1>6, <2>1, SameFirstCard DEF H!Reposition
    <2>. QED
      BY <2>2 DEF H!Next, H!Runs
  <1>7. CASE deck = NoDeck /\ UNCHANGED <<deck, card, state, finin, fifo, presenting>>
    <2>1. Rest' = Rest
      BY <1>1, <1>2, <1>7 DEF RestFacts, UnderWay
    <2>. QED
      BY <1>1, <1>7, <2>1, UnseenSteps, UnseenStutters
  <1>. QED
    BY <1>4, <1>5, <1>6, <1>7 DEF Resets

LEMMA PushesMap ==
    ASSUME Protocol, NoSplices, torn = FALSE, torn' = FALSE,
           Inv, RestFacts, RestFacts', Pushes
    PROVE  [H!Next]_(H!hopperVars)
  <1>1. presenting /\ UnderWay /\ UNCHANGED <<got, deck, card>> /\ Len(fifo') = Len(fifo) + 1
    BY PushFacts DEF Pushes, UnderWay, geVars, Inv
  <1>2. fifo' # <<>> /\ UnderWay'
    BY <1>1, QueuedFacts DEF Inv, UnderWay
  <1>3. CurrentImage' = CurrentImage
    BY PushInImage DEF Inv, ImageInv
  <1>4. Rest' = Rest
    BY <1>1, <1>2, <1>3, RestStays
  <1>5. state \in {"PRESENTING", "ERROR"} /\ state' \in {state, "CARD_DONE"}
    BY <1>1, PushFacts DEF Inv, WireInv, Owned
  <1>6. CASE state = "ERROR" /\ state' = "CARD_DONE"
    <2>1. H!Mended
      BY <1>1, <1>2, <1>4, <1>6 DEF H!Mended, Rest
    <2>. QED
      BY <2>1 DEF H!Next, H!Runs
  <1>7. CASE ~(state = "ERROR" /\ state' = "CARD_DONE")
    <2>1. Unseen
      BY <1>1, <1>2, <1>4, <1>5, <1>7 DEF Unseen, Read
    <2>. QED
      BY <2>1, UnseenStutters
  <1>. QED
    BY <1>6, <1>7

LEMMA TriggersMap ==
    ASSUME Protocol, NoSplices, torn = FALSE, torn' = FALSE,
           Inv, RestFacts, RestFacts', Inv', Triggers
    PROVE  [H!Next]_(H!hopperVars)
  <1>1. /\ ~UnderWay /\ ~presenting /\ fifo = <<>> /\ fifo' = <<>>
        /\ got = <<>> /\ UNCHANGED <<got, deck>> /\ deck # NoDeck
    BY DEF Triggers, TriggerPresent, smVars, geVars, Inv, WireInv, CommandRests,
           NothingHeard, UnderWay, FeederInv, SmFollowsDeck
  <1>2. Rest = <<>>
    BY <1>1 DEF RestFacts
  <1>3. CASE TriggerExhausted
    <2>1. Rest' = <<>>
      BY <1>1, <1>3 DEF RestFacts, TriggerExhausted, UnderWay
    <2>. QED
      BY <1>1, <1>2, <1>3, <2>1, PassMaps DEF TriggerExhausted, H!Next, H!Runs
  <1>4. CASE TriggerRefused
    <2>1. UNCHANGED <<card, state>> /\ Rest' = <<>>
      BY <1>1, <1>4 DEF RestFacts, TriggerRefused, UnderWay, cursor
    <2>. QED
      BY <1>1, <1>2, <2>1, UnseenSteps, UnseenStutters
  <1>5. ASSUME NEW ctx, TriggerPresents(ctx)
        PROVE  H!Deliver
    <2>1. /\ presenting' /\ state' = "PRESENTING" /\ col' = 0 /\ half' = 0
          /\ UNCHANGED <<latched_mode, post_loader_colbin>>
      BY <1>1, <1>5 DEF Triggers, TriggerPresent, TriggerPresents, Presents, cursor,
                        params, Inv, FeederInv, CursorAtStart
    <2>2. \/ state = "ARMED_WAIT" /\ card' = card
          \/ state = "CARD_DONE" /\ card' = card + 1
      BY <1>5 DEF TriggerPresents, Presents, cursor
    <2>3. card' < deck.n_cards
      BY <1>1, <2>1 DEF Inv, FeederInv, CursorInDeck
    <2>4. Rest' = CurrentImage'
      <3>1. UnderWay' /\ Len(got') = 0
        BY <1>1, <2>1, EmptySeq DEF UnderWay
      <3>2. CurrentImage' \in Seq(CharSet)
            /\ Rest' = SubSeq(CurrentImage', 1, Len(CurrentImage'))
        BY <3>1 DEF RestFacts
      <3>. QED
        BY <3>2, SubSeqFull
    <2>5. \E m \in H!ModesOf(deck, card') : Rest' = H!Image(deck, card', m)
      <3>1. CurrentImage' = Image(deck, card', EffectiveMode(card)')
        BY <1>1 DEF CurrentImage, Image, Position
      <3>2. EffectiveMode(card)' \in H!ModesOf(deck, card')
        <4>1. latched_mode' \in Modes
          BY DEF Inv, FeederInv, TypeOK, SysTypeOK, ControlTypeOK
        <4>. QED
          BY <1>1, <4>1 DEF EffectiveMode, H!ModesOf, H!Modes, Modes
      <3>. QED
        BY <2>4, <3>1, <3>2, SameImages
    <2>6. H!Resting /\ got = <<>>
      BY <1>1, <1>2, <2>2 DEF H!Resting, Rest
    <2>7. card' = IF state = "CARD_DONE" /\ fifo = <<>> THEN card + 1 ELSE card
      BY <1>1, <2>2
    <2>8. /\ (state = "CARD_DONE" /\ fifo = <<>>)' = FALSE
          /\ (state = "DONE")' = (state = "DONE") /\ (state = "ERROR")' = (state = "ERROR")
      BY <2>1, <2>2
    <2>. QED
      BY <1>1, <2>3, <2>5, <2>6, <2>7, <2>8 DEF H!Deliver, Rest
  <1>. QED
    BY <1>3, <1>4, <1>5 DEF Triggers, TriggerPresent, H!Next, H!Runs

LEMMA NewTransferMaps ==
    ASSUME torn = FALSE, torn' = FALSE, UNCHANGED <<deck, card, state, fifo>>,
           Rest = <<>>, Rest' = <<>>, got' = <<>>
    PROVE  H!Next
  <1>1. H!NewTransfer
    BY DEF H!NewTransfer, Rest
  <1>. QED
    BY <1>1 DEF H!Next, H!Runs

LEMMA ReadsMap ==
    ASSUME Protocol, NoSplices, torn = FALSE, torn' = FALSE,
           Inv, RestFacts, RestFacts', Reads
    PROVE  [H!Next]_(H!hopperVars)
  <1>1. /\ GeMayCommand /\ got' = <<>>
        /\ UNCHANGED <<deck, card, state, fifo, presenting>>
    BY DEF Reads, ReRead, OnRead, GeReads, smVars, cursor
  <1>2. ~UnderWay /\ ~UnderWay'
    BY <1>1, CommandsAtRest DEF Inv, WireInv, UnderWay
  <1>. QED
    BY <1>1, <1>2, NewTransferMaps DEF RestFacts

LEMMA ClearMaps ==
    ASSUME Protocol, NoSplices, torn = FALSE, torn' = FALSE,
           Inv, RestFacts, RestFacts', Clear
    PROVE  [H!Next]_(H!hopperVars)
  <1>1. /\ ~UnderWay /\ got' = <<>>
        /\ UNCHANGED <<deck, card, state, fifo, presenting>>
    BY DEF Clear, Drained, UnderWay, GeClear, wireVars, fdVars, cursor, flags
  <1>2. ~UnderWay'
    BY <1>1 DEF UnderWay
  <1>. QED
    BY <1>1, <1>2, NewTransferMaps DEF RestFacts

LEMMA TickMaps ==
    ASSUME Protocol, NoSplices, torn = FALSE, torn' = FALSE,
           Inv, RestFacts, RestFacts', Tick
    PROVE  [H!Next]_(H!hopperVars)
  <1>1. UNCHANGED <<deck, card, got, state, fifo, presenting, latched_mode, post_loader_colbin>>
    BY DEF Tick, SmTick, GeStrobeEnds, geVars, cursor, modes, params
  <1>2. CurrentImage' = CurrentImage
    BY <1>1, SameImage
  <1>3. Rest' = Rest
    BY <1>1, <1>2, RestStays DEF UnderWay
  <1>. QED
    BY <1>1, <1>3, UnseenSteps, UnseenStutters

LEMMA StrobeMaps ==
    ASSUME Protocol, NoSplices, torn = FALSE, torn' = FALSE,
           Inv, RestFacts, RestFacts', Strobe
    PROVE  [H!Next]_(H!hopperVars)
  <1>1. /\ fifo # <<>> /\ fifo' = Tail(fifo) /\ UNCHANGED fdVars
        /\ UnderWay /\ got' = Append(got, Head(fifo).char)
    BY DEF Strobe, SmPull, SmUrgent, GeHears, UnderWay, Inv, WireInv, Listening
  <1>2. /\ UNCHANGED <<deck, card, col, half, state, presenting, latched_mode,
                       post_loader_colbin>>
        /\ CurrentImage' = CurrentImage
    <2>1. UNCHANGED <<deck, card, col, half, state, presenting, latched_mode,
                      post_loader_colbin>>
      BY <1>1 DEF fdVars, cursor, flags, modes, params
    <2>. QED
      BY <2>1, SameImage
  <1>. DEFINE L == Len(CurrentImage)
              g == Len(got)
  <1>3. /\ CurrentImage \in Seq(CharSet) /\ L \in Nat /\ g \in Nat /\ g < L
        /\ Rest = SubSeq(CurrentImage, g + 1, L) /\ Rest # <<>>
    BY <1>1, QueuedFacts DEF RestFacts, Inv
  <1>4. Rest \in Seq(CharSet) /\ Len(Rest) = L - g
        /\ Head(Rest) = CurrentImage[g + 1]
        /\ Tail(Rest) = SubSeq(CurrentImage, g + 2, L)
    <2>1. g + 1 \in 1 .. Len(CurrentImage) /\ L \in g + 1 .. Len(CurrentImage)
      BY <1>3
    <2>. QED
      BY <1>3, <2>1, HeadTailOfSubSeq, SubSeqProperties
  <1>5. Head(fifo).char = Head(Rest) /\ Head(fifo).char \in CharSet
    <2>1. Head(fifo) = fifo[1] /\ 1 \in 1 .. Len(fifo)
      BY <1>1, QueuedFacts DEF Inv
    <2>2. fifo[1].char = CurrentImage[g + 1]
      BY <1>1, <2>1 DEF Inv, ImageInv
    <2>3. Head(fifo).char \in CharSet
      BY <1>1, PullType DEF Inv, FeederInv, TypeOK, SysTypeOK
    <2>. QED
      BY <1>4, <2>1, <2>2, <2>3
  <1>6. got' = Append(got, Head(Rest)) /\ Len(got') = g + 1
    BY <1>1, <1>5, QueuedFacts, AppendProperties DEF Inv
  <1>7. Rest' = Tail(Rest) /\ (UnderWay' <=> Tail(Rest) # <<>>)
    <2>1. CASE UnderWay'
      <3>1. Rest' = SubSeq(CurrentImage, g + 2, L) /\ Rest' # <<>>
        BY <1>2, <1>3, <1>6, <2>1 DEF RestFacts
      <3>. QED
        BY <1>4, <2>1, <3>1
    <2>2. CASE ~UnderWay'
      <3>1. Rest' = <<>> /\ ~presenting /\ fifo' = <<>>
        BY <1>2, <2>2 DEF RestFacts, UnderWay
      <3>2. Len(fifo) = 1
        <4>1. fifo \in Seq(WordSet) /\ fifo # <<>>
          BY <1>1 DEF Inv, FeederInv, TypeOK, SysTypeOK, WireTypeOK
        <4>2. Len(Tail(fifo)) = Len(fifo) - 1 /\ Len(fifo) \in Nat
          BY <4>1, HeadTailProperties
        <4>3. Tail(fifo) = <<>>
          BY <1>1, <3>1
        <4>4. Len(Tail(fifo)) = 0
          BY ONLY <4>3, EmptySeq
        <4>. QED
          BY <4>2, <4>4
      <3>3. g + Len(fifo) = L
        BY <1>1, <3>1 DEF Inv, ImageInv, Pushed
      <3>4. SubSeq(CurrentImage, g + 2, L) = <<>>
        BY <1>3, <3>2, <3>3, SubSeqEmpty
      <3>. QED
        BY <1>4, <2>2, <3>1, <3>4
    <2>. QED
      BY <2>1, <2>2
  <1>8. (state = "CARD_DONE" /\ fifo = <<>>)' = (Tail(Rest) = <<>> /\ ~(state = "ERROR"))
    <2>1. presenting => state \in {"PRESENTING", "ERROR"}
      BY DEF Inv, WireInv, Owned
    <2>2. ~presenting => state \in {"CARD_DONE", "ERROR"}
      BY <1>1 DEF Inv, WireInv, Owned
    <2>3. Tail(Rest) = <<>> <=> ~presenting /\ fifo' = <<>>
      BY <1>2, <1>7 DEF UnderWay
    <2>4. state' = state
      BY <1>2
    <2>. QED
      BY <2>1, <2>2, <2>3, <2>4
  <1>9. H!HearChar
    BY <1>2, <1>3, <1>6, <1>7, <1>8 DEF H!HearChar, Rest
  <1>. QED
    BY <1>9 DEF H!Next, H!Runs

LEMMA StepMaps ==
    ASSUME Protocol, NoSplices, torn = FALSE, torn' = FALSE,
           Inv, Inv', RestFacts, RestFacts', [Step]_sysVars
    PROVE  [H!Next]_(H!hopperVars)
  BY StepKinds, OthersMap, ReleasesMap, ResetsMap, PushesMap, TriggersMap, ReadsMap,
     StrobeMaps, TickMaps, ClearMaps DEF Inv, WireInv

\* Arming clears a jam.
LEMMA ArmMaps ==
    ASSUME FeederInv, IpcArm, ~torn'
    PROVE  H!Next
  <1>1. /\ deck = NoDeck /\ deck' \in Decks /\ card' = FirstCard(deck')
        /\ state' = "ARMED_WAIT" /\ got' = got
        /\ fifo' = <<>> /\ ~presenting'
    BY ArmResets, DecksAssumption DEF IpcArm, CursorReset, WireTxArm, FeederInv,
                                      DisarmedAtRest, geVars
  <1>2. Rest' = <<>>
    <2>1. Queued' = <<>> /\ Unpushed' = <<>>
      BY <1>1 DEF Queued, Unpushed
    <2>2. <<>> \o <<>> = <<>>
      OBVIOUS
    <2>. QED
      BY <2>1, <2>2 DEF Rest
  <1>3. H!Place(deck', H!FirstCard(deck'))
    BY <1>1, <1>2, SameFirstCard DEF H!Place, Rest
  <1>4. H!Load
    BY <1>1, <1>3 DEF H!Load
  <1>. QED
    BY <1>4 DEF H!Next

----------------------------------------------------------------------------
(* The theorem.                                                            *)

LEMMA InitMaps ==
    ASSUME Init
    PROVE  H!Init
  <1>1. Rest = <<>> /\ got = <<>>
    BY RestAtRest DEF Init, WireTxInit, GeInit, UnderWay
  <1>. QED
    BY <1>1 DEF Init, H!Init, Rest

\* The feeder keeps the hopper's promise to a machine that keeps to its
\* protocol: across any interleaving of commands, feeds, deadlines, faults and
\* repositions no card is skipped, doubled, spliced, cut short or read in the
\* wrong mode (docs/ARCHITECTURE.md 5-6, feeder.c as a whole), until an
\* interrupt comes in between the stores of one of the main loop's handlers; and
\* from the next arming on all of it again.
THEOREM FeederImplementsHopper ==
    ASSUME Protocol, NoSplices
    PROVE  Spec => HopperSafety
  <1>1. Init => H!Init
    BY InitMaps
  <1>. DEFINE I == FeederInv /\ (torn \/ Inv)
  <1>2. (Inv => RestFacts)'
    BY RestFactsHold, PTL
  <1>3. I /\ I' /\ [Next]_vars => [H!Next]_(H!hopperVars)
    <2>1. SUFFICES ASSUME I, I', [Next]_vars
                   PROVE  [H!Next]_(H!hopperVars)
      OBVIOUS
    <2>2. CASE torn'
      BY <2>2 DEF H!Next
    <2>3. CASE ~torn' /\ IpcArm
      BY <2>1, <2>3, ArmMaps
    <2>4. CASE ~torn' /\ ~torn /\ [Step]_sysVars
      <3>1. torn = FALSE /\ torn' = FALSE
        BY <2>1, <2>4 DEF FeederInv, TypeOK
      <3>2. Inv /\ Inv'
        BY <2>1, <2>4
      <3>3. RestFacts /\ RestFacts'
        BY <3>2, <1>2, RestFactsHold
      <3>. QED
        BY <2>4, <3>1, <3>2, <3>3, StepMaps
    <2>. QED
      BY <2>1, <2>2, <2>3, <2>4, UntornSteps
  <1>4. Spec => []I
    <2>1. FeederInv /\ (torn \/ WireInv) /\ (torn \/ ImageInv) => I
      BY DEF Inv
    <2>. QED
      BY <2>1, FeederInvHolds, WireInvHolds, ImageInvHolds, PTL
  <1>. QED
    BY <1>1, <1>3, <1>4, PTL DEF Spec, HopperSafety

=============================================================================
