---------------------------- MODULE FeederProofs ----------------------------
(***************************************************************************)
(* What holds of the feeder for every deck, every FIFO depth, every value  *)
(* of the parameters, every machine and every sequence of console          *)
(* operations.  FeederInv is inductive.  The parts need each other: the    *)
(* cursor stays in the deck because a deck is armed whenever a command is  *)
(* pending or a card is presented (SmFollowsDeck); it starts a card at the *)
(* first column because every path on which `presenting' falls resets it.  *)
(* Steps with an interrupt between two stores keep only the types and      *)
(* DisarmedAtRest (TypeOvertaken, DisarmedAtRestStep), and from those two  *)
(* alone arming brings back all of it (ArmMends).                          *)
(***************************************************************************)
EXTENDS FeederProps, SequenceTheorems, TLAPS

----------------------------------------------------------------------------
(* Facts about decks, words and the FIFO.                                  *)

\* What the firmware may assume of an armed deck (deckload.c builds no other).
LEMMA DeckFacts ==
    ASSUME deck \in Decks \cup {NoDeck}, deck # NoDeck
    PROVE  /\ deck \in Decks
           /\ deck.n_cards \in Nat /\ deck.n_cards > 0
           /\ deck.loader_card \in Int
           /\ \A c \in Nat : c < deck.n_cards => deck.ncols[c] \in Nat /\ deck.ncols[c] > 0
  BY DecksAssumption

\* cursor_reset puts the cursor on a card of the deck (feeder.c:45-46).
LEMMA FirstCardInDeck ==
    ASSUME NEW d \in Decks
    PROVE  FirstCard(d) \in Nat /\ FirstCard(d) < d.n_cards
  BY DecksAssumption DEF FirstCard

\* The column counter, a uint8_t, wraps: it never gets ahead of the column.
LEMMA NextColumn ==
    ASSUME NEW k \in Nat
    PROVE  (k + 1) % ColRange \in Nat /\ (k + 1) % ColRange <= k + 1
  BY ParamsAssumption

\* The fields of the word present_next pushes.
LEMMA NextWordFields ==
    /\ NextWord.char = CharAt(card, EffectiveMode(card), col, half)
    /\ NextWord.fini <=> LastCol(deck, card, col) /\ (Packed(EffectiveMode(card)) => half = 1)
  <1>. DEFINE c == CharAt(card, EffectiveMode(card), col, half)
              f == LastCol(deck, card, col) /\ (Packed(EffectiveMode(card)) => half = 1)
  <1>1. \A x, y, w, g : PresenterWord(x, y, w, g).char = x
                       /\ PresenterWord(x, y, w, g).fini = y
    BY DEF PresenterWord
  <1>2. NextWord = PresenterWord(c, f, w_ticks, g_ticks)
    BY DEF NextWord
  <1>3. CASE f
    <2>1. NextWord = PresenterWord(c, TRUE, w_ticks, g_ticks)
      BY <1>2, <1>3
    <2>2. NextWord.char = c /\ NextWord.fini = TRUE
      BY <1>1, <2>1, Zenon
    <2>. QED
      BY <1>3, <2>2, Zenon
  <1>4. CASE ~f
    <2>1. NextWord = PresenterWord(c, FALSE, w_ticks, g_ticks)
      BY <1>2, <1>4
    <2>2. NextWord.char = c /\ NextWord.fini = FALSE
      BY <1>1, <2>1, Zenon
    <2>. QED
      BY <1>4, <2>2, Zenon
  <1>. QED
    BY <1>3, <1>4, Zenon

\* present_next pushes a word, whatever the cursor.
LEMMA NextWordType ==
    ASSUME CursorTypeOK, ParamsTypeOK
    PROVE  NextWord \in WordSet
  <1>1. w_ticks % 256 \in Nat /\ g_ticks % 32768 \in Nat
    BY ParamsAssumption DEF ParamsTypeOK
  <1>2. QED
    BY <1>1 DEF CursorTypeOK, NextWord, PresenterWord, CharAt, CharSet, WordSet, LastCol, Packed

\* The level lupob_update computes is a level.
LEMMA ReadyType == Ready \in BOOLEAN /\ Ready' \in BOOLEAN
  BY DEF Ready

\* Packed is a predicate.
LEMMA PackedType == \A m : Packed(m) \in BOOLEAN
  BY DEF Packed

\* A push, dropped at a full FIFO or not, leaves at most FifoDepth words.
LEMMA PushType ==
    ASSUME SysTypeOK, WireTxPush(NextWord)
    PROVE  fifo' \in Seq(WordSet) /\ Len(fifo') <= FifoDepth
  BY NextWordType, FifoAssumption DEF SysTypeOK, WireTypeOK, WireTxPush, WireTxFull

\* A cleared FIFO.
LEMMA EmptyType == <<>> \in Seq(WordSet) /\ Len(<<>>) <= FifoDepth
  BY EmptySeq, FifoAssumption

\* The word at the head of the FIFO and what `pull' leaves behind it.
LEMMA PullType ==
    ASSUME WireTypeOK, fifo # <<>>
    PROVE  /\ Head(fifo) \in WordSet
           /\ Head(fifo).char \in CharSet /\ Head(fifo).fini \in BOOLEAN
           /\ Head(fifo).w \in Nat
           /\ Tail(fifo) \in Seq(WordSet) /\ Len(Tail(fifo)) <= FifoDepth
  <1>1. fifo \in Seq(WordSet) /\ Len(fifo) \in Nat /\ Len(fifo) <= FifoDepth
    BY DEF WireTypeOK
  <1>2. Head(fifo) \in WordSet /\ Tail(fifo) \in Seq(WordSet) /\ Len(Tail(fifo)) = Len(fifo) - 1
    BY <1>1, HeadTailProperties
  <1>. QED
    BY <1>1, <1>2, FifoAssumption DEF WordSet

----------------------------------------------------------------------------
(* The steps.  `USE' keeps the groups of variables open throughout.        *)

\* What goes on in one piece.
Whole == IpcArm \/ Step

\* The handlers of a command and of a feed past a card, whatever the level they
\* leave on LUPOB.
LEMMA TypeOn ==
    ASSUME SysTypeOK, lupob' \in BOOLEAN,
           \/ OnFeed
           \/ \E re \in ReCommands :
                 OnRead(re) \/ OnNoTransfer(re) \/ OnResetError(re) \/ OnCardReject(re)
    PROVE  SysTypeOK'
  <1>. USE DEF SysTypeOK, smVars, cursor, modes, params, pins, flags, geVars, wireVars, fdVars
  <1>1. CASE \E re \in ReCommands : OnRead(re)
    <2>1. (CursorTypeOK /\ ParamsTypeOK)'
      BY <1>1 DEF CursorTypeOK, ParamsTypeOK, OnRead, ReadAccepted, ReadIgnored, Latches, FininRelease, WireTxReleaseFinin, GeReads
    <2>2. WireTypeOK'
      BY <1>1 DEF WireTypeOK, OnRead, ReadAccepted, ReadIgnored, Latches, FininRelease, WireTxReleaseFinin, GeReads
    <2>3. GeTypeOK'
      BY <1>1 DEF GeTypeOK, OnRead, ReadAccepted, ReadIgnored, Latches, FininRelease, WireTxReleaseFinin, GeReads
    <2>4. ControlTypeOK'
      <3>1. d_us \in Nat
        BY ParamsAssumption DEF ParamsTypeOK
      <3>2. latched_mode' \in Modes
        BY <1>1 DEF ControlTypeOK, OnRead, Latches, Modes
      <3>3. \/ ~finin_pending' /\ finin_timer' = 0 /\ cmd_pending' /\ cmd_timer' = d_us
            \/ UNCHANGED <<finin_pending, finin_timer, cmd_pending, cmd_timer>>
        BY <1>1 DEF OnRead, ReadAccepted, ReadIgnored, FininRelease
      <3>4. UNCHANGED <<deck, state, mode, presenting, prefill>>
        BY <1>1 DEF OnRead
      <3>5. finin_pending' \in BOOLEAN /\ cmd_pending' \in BOOLEAN
        BY <1>1 DEF OnRead, ReadAccepted, ReadIgnored, FininRelease, ControlTypeOK
      <3>. QED
        BY <3>1, <3>2, <3>3, <3>4, <3>5 DEF ControlTypeOK
    <2>5. PinsTypeOK'
      BY <1>1 DEF PinsTypeOK, OnRead, ReadAccepted, ReadIgnored, Latches, FininRelease, WireTxReleaseFinin, GeReads
    <2>. QED  BY <2>1, <2>2, <2>3, <2>4, <2>5
  <1>2. CASE \E re \in ReCommands : OnNoTransfer(re)
    <2>1. (WireTypeOK /\ GeTypeOK /\ CursorTypeOK /\ ParamsTypeOK)'
      BY <1>2 DEF WireTypeOK, GeTypeOK, CursorTypeOK, ParamsTypeOK, OnNoTransfer, Latches
    <2>2. ControlTypeOK'
      BY <1>2 DEF ControlTypeOK, OnNoTransfer, Latches, States, Modes
    <2>3. PinsTypeOK'
      BY <1>2 DEF PinsTypeOK, OnNoTransfer, Latches
    <2>. QED  BY <2>1, <2>2, <2>3
  <1>3. CASE \E re \in ReCommands : OnResetError(re)
    <2>1. (WireTypeOK /\ GeTypeOK /\ CursorTypeOK /\ ParamsTypeOK)'
      BY <1>3 DEF WireTypeOK, GeTypeOK, CursorTypeOK, ParamsTypeOK, OnResetError
    <2>2. ControlTypeOK'
      BY <1>3 DEF ControlTypeOK, OnResetError, States, Modes
    <2>3. PinsTypeOK'
      BY <1>3 DEF PinsTypeOK, OnResetError
    <2>. QED  BY <2>1, <2>2, <2>3
  <1>4. CASE \E re \in ReCommands : OnCardReject(re)
    <2>1. (GeTypeOK /\ ParamsTypeOK)'
      BY <1>4 DEF GeTypeOK, ParamsTypeOK, OnCardReject, FininRelease, WireTxReleaseFinin, AdvanceCard, LastCard
    <2>2. WireTypeOK'
      BY <1>4 DEF WireTypeOK, OnCardReject, FininRelease, WireTxReleaseFinin, AdvanceCard, LastCard
    <2>3. CursorTypeOK'
      BY <1>4 DEF CursorTypeOK, OnCardReject, FininRelease, WireTxReleaseFinin, AdvanceCard, LastCard
    <2>4. ControlTypeOK'
      <3>1. UNCHANGED <<deck, mode, latched_mode, presenting, cmd_pending, cmd_timer, prefill>>
        BY <1>4 DEF OnCardReject
      <3>2. \/ finin_pending' = FALSE /\ finin_timer' = 0
            \/ UNCHANGED <<finin_pending, finin_timer>>
        BY <1>4, Zenon DEF OnCardReject, FininRelease
      <3>3. state' \in States
        BY <1>4 DEF ControlTypeOK, OnCardReject, AdvanceCard, States
      <3>4. finin_pending' \in BOOLEAN
        BY <3>2, Zenon DEF ControlTypeOK
      <3>5. finin_timer' \in Nat
        BY <3>2 DEF ControlTypeOK
      <3>. QED
        BY <3>1, <3>3, <3>4, <3>5 DEF ControlTypeOK
    <2>5. PinsTypeOK'
      BY <1>4 DEF PinsTypeOK, OnCardReject, FininRelease, WireTxReleaseFinin, AdvanceCard, LastCard
    <2>. QED  BY <2>1, <2>2, <2>3, <2>4, <2>5
  <1>5. CASE OnFeed
    <2>1. (GeTypeOK /\ ParamsTypeOK)'
      BY <1>5 DEF GeTypeOK, ParamsTypeOK, OnFeed, FininRelease, WireTxReleaseFinin, AdvanceCard, LastCard
    <2>2. WireTypeOK'
      BY <1>5 DEF WireTypeOK, OnFeed, FininRelease, WireTxReleaseFinin, AdvanceCard, LastCard
    <2>3. CursorTypeOK'
      BY <1>5 DEF CursorTypeOK, OnFeed, FininRelease, WireTxReleaseFinin, AdvanceCard, LastCard
    <2>4. ControlTypeOK'
      BY <1>5 DEF ControlTypeOK, OnFeed, FininRelease, WireTxReleaseFinin, AdvanceCard, LastCard, States, Modes
    <2>5. PinsTypeOK'
      BY <1>5 DEF PinsTypeOK, OnFeed, FininRelease, WireTxReleaseFinin, AdvanceCard, LastCard
    <2>. QED  BY <2>1, <2>2, <2>3, <2>4, <2>5
  <1>. QED
    BY <1>1, <1>2, <1>3, <1>4, <1>5

\* No step of firmware, wire, machine or time leaves the types.
LEMMA TypeStep ==
    ASSUME SysTypeOK, [Whole]_sysVars
    PROVE  SysTypeOK'
  <1>. USE DEF SysTypeOK, smVars, cursor, modes, params, pins, flags, geVars, wireVars, fdVars
  <1>1. CASE \E re \in ReCommands : ReRead(re)
    BY <1>1, ReadyType, TypeOn DEF ReRead, LupobUpdate
  <1>2. CASE \E re \in ReCommands : ReNoTransfer(re)
    BY <1>2, ReadyType, TypeOn DEF ReNoTransfer, LupobUpdate
  <1>3. CASE \E re \in ReCommands : ReResetError(re)
    BY <1>3, ReadyType, TypeOn DEF ReResetError, LupobUpdate
  <1>4. CASE \E re \in ReCommands : ReCardReject(re)
    BY <1>4, ReadyType, TypeOn DEF ReCardReject, LupobUpdate
  <1>5. CASE Tu03Triggers
    <2>1. (GeTypeOK /\ ParamsTypeOK)'
      BY <1>5 DEF GeTypeOK, ParamsTypeOK, Tu03Triggers, FininRelease, WireTxReleaseFinin, TriggerPresent, TriggerExhausted, TriggerRefused, TriggerPresents, Presents, AdvanceCard, LastCard, EffectiveMode
    <2>2. WireTypeOK'
      BY <1>5 DEF WireTypeOK, Tu03Triggers, FininRelease, WireTxReleaseFinin, TriggerPresent, TriggerExhausted, TriggerRefused, TriggerPresents, Presents, AdvanceCard, LastCard, EffectiveMode
    <2>3. CursorTypeOK'
      BY <1>5 DEF CursorTypeOK, Tu03Triggers, FininRelease, WireTxReleaseFinin, TriggerPresent, TriggerExhausted, TriggerRefused, TriggerPresents, Presents, AdvanceCard, LastCard, EffectiveMode
    <2>4. ControlTypeOK'
      BY <1>5 DEF ControlTypeOK, Tu03Triggers, FininRelease, WireTxReleaseFinin, TriggerPresent, TriggerExhausted, TriggerRefused, TriggerPresents, Presents, AdvanceCard, LastCard, EffectiveMode, States, Modes
    <2>5. PinsTypeOK'
      BY <1>5, ReadyType, PackedType DEF PinsTypeOK, Tu03Triggers, FininRelease, WireTxReleaseFinin, TriggerPresent, TriggerExhausted, TriggerRefused, TriggerPresents, Presents, AdvanceCard, LastCard, EffectiveMode, LupobUpdate
    <2>. QED  BY <2>1, <2>2, <2>3, <2>4, <2>5
  <1>6. CASE Tu03Advances
    BY <1>6, ReadyType, TypeOn DEF Tu03Advances, LupobUpdate
  <1>7. CASE \E ctx \in {"main", "irq"} : PrefillStep(ctx)
    <2>1. (GeTypeOK /\ ParamsTypeOK /\ PinsTypeOK)'
      BY <1>7 DEF GeTypeOK, ParamsTypeOK, PinsTypeOK, PrefillStep, PresentNext, CardEnds
    <2>2. WireTypeOK'
      BY <1>7, PushType DEF WireTypeOK, PrefillStep, PresentNext, CardEnds
    <2>3. CursorTypeOK'
      BY <1>7, NextColumn DEF CursorTypeOK, PrefillStep, PresentNext, CardEnds
    <2>4. ControlTypeOK'
      BY <1>7, ParamsAssumption DEF ControlTypeOK, PrefillStep, PresentNext, CardEnds, States, Modes, ParamsTypeOK
    <2>. QED  BY <2>1, <2>2, <2>3, <2>4
  <1>8. CASE \E ctx \in {"main", "irq"} : PrefillEnd(ctx)
    <2>1. (GeTypeOK /\ CursorTypeOK /\ ParamsTypeOK /\ PinsTypeOK)'
      BY <1>8 DEF GeTypeOK, CursorTypeOK, ParamsTypeOK, PinsTypeOK, PrefillEnd
    <2>2. WireTypeOK'
      BY <1>8 DEF WireTypeOK, PrefillEnd
    <2>3. ControlTypeOK'
      BY <1>8 DEF ControlTypeOK, PrefillEnd, States, Modes
    <2>. QED  BY <2>1, <2>2, <2>3
  <1>9. CASE TxFeed
    <2>1. (GeTypeOK /\ ParamsTypeOK /\ PinsTypeOK)'
      BY <1>9 DEF GeTypeOK, ParamsTypeOK, PinsTypeOK, TxFeed, PresentNext, CardEnds
    <2>2. WireTypeOK'
      BY <1>9, PushType DEF WireTypeOK, TxFeed, PresentNext, CardEnds
    <2>3. CursorTypeOK'
      BY <1>9, NextColumn DEF CursorTypeOK, TxFeed, PresentNext, CardEnds
    <2>4. ControlTypeOK'
      BY <1>9, ParamsAssumption DEF ControlTypeOK, TxFeed, PresentNext, CardEnds, States, Modes, ParamsTypeOK
    <2>. QED  BY <2>1, <2>2, <2>3, <2>4
  <1>10. CASE IpcArm
    <2>1. (GeTypeOK /\ ParamsTypeOK)'
      BY <1>10 DEF GeTypeOK, ParamsTypeOK, IpcArm, CursorReset, WireTxArm
    <2>2. WireTypeOK'
      BY <1>10, EmptyType DEF WireTypeOK, IpcArm, CursorReset, WireTxArm
    <2>3. CursorTypeOK'
      BY <1>10, FirstCardInDeck, DeckFacts DEF CursorTypeOK, IpcArm, CursorReset, WireTxArm, ControlTypeOK, FirstCard
    <2>4. ControlTypeOK'
      BY <1>10 DEF ControlTypeOK, IpcArm, CursorReset, WireTxArm, States, Modes
    <2>5. PinsTypeOK'
      BY <1>10, ReadyType DEF PinsTypeOK, IpcArm, CursorReset, WireTxArm, LupobUpdate
    <2>. QED  BY <2>1, <2>2, <2>3, <2>4, <2>5
  <1>11. CASE IpcDisarm
    <2>1. (GeTypeOK /\ ParamsTypeOK)'
      BY <1>11 DEF GeTypeOK, ParamsTypeOK, IpcDisarm, CursorReset, WireTxDisarm
    <2>2. WireTypeOK'
      BY <1>11, EmptyType DEF WireTypeOK, IpcDisarm, CursorReset, WireTxDisarm
    <2>3. CursorTypeOK'
      BY <1>11 DEF CursorTypeOK, IpcDisarm, CursorReset, WireTxDisarm
    <2>4. ControlTypeOK'
      BY <1>11 DEF ControlTypeOK, IpcDisarm, CursorReset, WireTxDisarm, States, Modes
    <2>5. PinsTypeOK'
      BY <1>11, ReadyType DEF PinsTypeOK, IpcDisarm, CursorReset, WireTxDisarm, LupobUpdate
    <2>. QED  BY <2>1, <2>2, <2>3, <2>4, <2>5
  <1>12. CASE IpcRewind
    <2>1. (GeTypeOK /\ ParamsTypeOK)'
      BY <1>12 DEF GeTypeOK, ParamsTypeOK, IpcRewind, CursorReset, WireTxArm
    <2>2. WireTypeOK'
      <3>1. WireTxArm \/ UNCHANGED wireVars
        BY <1>12 DEF IpcRewind
      <3>2. CASE WireTxArm
        BY <3>2, EmptyType DEF WireTypeOK, WireTxArm
      <3>3. CASE UNCHANGED wireVars
        BY <3>3 DEF WireTypeOK
      <3>. QED
        BY <3>1, <3>2, <3>3
    <2>3. CursorTypeOK'
      BY <1>12, FirstCardInDeck, DeckFacts DEF CursorTypeOK, IpcRewind, CursorReset, WireTxArm, ControlTypeOK, FirstCard
    <2>4. ControlTypeOK'
      BY <1>12 DEF ControlTypeOK, IpcRewind, CursorReset, WireTxArm, States, Modes
    <2>5. PinsTypeOK'
      BY <1>12, ReadyType DEF PinsTypeOK, IpcRewind, CursorReset, WireTxArm, LupobUpdate
    <2>. QED  BY <2>1, <2>2, <2>3, <2>4, <2>5
  <1>13. CASE IpcGo
    <2>1. (GeTypeOK /\ ParamsTypeOK)'
      BY <1>13 DEF GeTypeOK, ParamsTypeOK, IpcGo, CursorReset, WireTxArm
    <2>2. WireTypeOK'
      BY <1>13, EmptyType DEF WireTypeOK, IpcGo, CursorReset, WireTxArm
    <2>3. CursorTypeOK'
      BY <1>13, FirstCardInDeck, DeckFacts DEF CursorTypeOK, IpcGo, CursorReset, WireTxArm, ControlTypeOK, FirstCard
    <2>4. ControlTypeOK'
      <3>1. PICK tgt \in FirstCard(deck) .. deck.n_cards - 1 : CursorReset(tgt)
        BY <1>13 DEF IpcGo
      <3>2. state' = "ARMED_WAIT" /\ UNCHANGED <<deck, mode, latched_mode, prefill>>
        BY <1>13 DEF IpcGo
      <3>. QED
        BY <3>1, <3>2 DEF ControlTypeOK, CursorReset, States
    <2>5. PinsTypeOK'
      BY <1>13, ReadyType DEF PinsTypeOK, IpcGo, CursorReset, WireTxArm, LupobUpdate
    <2>. QED  BY <2>1, <2>2, <2>3, <2>4, <2>5
  <1>14. CASE IpcEject
    <2>1. (WireTypeOK /\ GeTypeOK /\ ParamsTypeOK /\ ControlTypeOK)'
      BY <1>14 DEF WireTypeOK, GeTypeOK, ParamsTypeOK, ControlTypeOK, IpcEject, LastCard
    <2>2. CursorTypeOK'
      BY <1>14 DEF CursorTypeOK, IpcEject, LastCard
    <2>3. PinsTypeOK'
      BY <1>14, ReadyType DEF PinsTypeOK, IpcEject, LastCard, LupobUpdate
    <2>. QED  BY <2>1, <2>2, <2>3
  <1>15. CASE IpcInjectError
    <2>1. (WireTypeOK /\ GeTypeOK /\ CursorTypeOK /\ ParamsTypeOK)'
      BY <1>15 DEF WireTypeOK, GeTypeOK, CursorTypeOK, ParamsTypeOK, IpcInjectError
    <2>2. ControlTypeOK'
      BY <1>15 DEF ControlTypeOK, IpcInjectError, States, Modes
    <2>3. PinsTypeOK'
      BY <1>15, ReadyType DEF PinsTypeOK, IpcInjectError, LupobUpdate
    <2>. QED  BY <2>1, <2>2, <2>3
  <1>16. CASE IpcSetParam
    <2>1. (WireTypeOK /\ GeTypeOK /\ CursorTypeOK /\ ControlTypeOK)'
      BY <1>16 DEF WireTypeOK, GeTypeOK, CursorTypeOK, ControlTypeOK, IpcSetParam
    <2>2. ParamsTypeOK'
      BY <1>16 DEF ParamsTypeOK, IpcSetParam
    <2>3. PinsTypeOK'
      BY <1>16, ReadyType DEF PinsTypeOK, IpcSetParam, LupobUpdate
    <2>. QED  BY <2>1, <2>2, <2>3
  <1>17. CASE IpcSetPolicy
    <2>1. (WireTypeOK /\ GeTypeOK /\ CursorTypeOK /\ ControlTypeOK)'
      BY <1>17 DEF WireTypeOK, GeTypeOK, CursorTypeOK, ControlTypeOK, IpcSetPolicy
    <2>2. ParamsTypeOK'
      BY <1>17 DEF ParamsTypeOK, IpcSetPolicy
    <2>3. PinsTypeOK'
      BY <1>17, ReadyType DEF PinsTypeOK, IpcSetPolicy, LupobUpdate
    <2>. QED  BY <2>1, <2>2, <2>3
  <1>18. CASE PollTriggers
    <2>1. (WireTypeOK /\ GeTypeOK /\ ParamsTypeOK)'
      BY <1>18 DEF WireTypeOK, GeTypeOK, ParamsTypeOK, PollTriggers, TriggerPresent, TriggerExhausted, TriggerRefused, TriggerPresents, Presents, AdvanceCard, LastCard, EffectiveMode
    <2>2. CursorTypeOK'
      BY <1>18 DEF CursorTypeOK, PollTriggers, TriggerPresent, TriggerExhausted, TriggerRefused, TriggerPresents, Presents, AdvanceCard, LastCard, EffectiveMode
    <2>3. ControlTypeOK'
      BY <1>18 DEF ControlTypeOK, PollTriggers, TriggerPresent, TriggerExhausted, TriggerRefused, TriggerPresents, Presents, AdvanceCard, LastCard, EffectiveMode, States, Modes
    <2>4. PinsTypeOK'
      BY <1>18, ReadyType, PackedType DEF PinsTypeOK, PollTriggers, TriggerPresent, TriggerExhausted, TriggerRefused, TriggerPresents, Presents, AdvanceCard, LastCard, EffectiveMode, LupobUpdate
    <2>. QED  BY <2>1, <2>2, <2>3, <2>4
  <1>19. CASE PollReleases
    <2>1. (GeTypeOK /\ CursorTypeOK /\ ParamsTypeOK)'
      BY <1>19 DEF GeTypeOK, CursorTypeOK, ParamsTypeOK, PollReleases, FininRelease, WireTxReleaseFinin
    <2>2. WireTypeOK'
      BY <1>19 DEF WireTypeOK, PollReleases, FininRelease, WireTxReleaseFinin
    <2>3. ControlTypeOK'
      BY <1>19 DEF ControlTypeOK, PollReleases, FininRelease, WireTxReleaseFinin, States, Modes
    <2>4. PinsTypeOK'
      BY <1>19, ReadyType DEF PinsTypeOK, PollReleases, FininRelease, WireTxReleaseFinin, LupobUpdate
    <2>. QED  BY <2>1, <2>2, <2>3, <2>4
  <1>20. CASE Strobe
    <2>1. (CursorTypeOK /\ ParamsTypeOK /\ ControlTypeOK /\ PinsTypeOK)'
      BY <1>20 DEF CursorTypeOK, ParamsTypeOK, ControlTypeOK, PinsTypeOK, Strobe, SmPull, SmUrgent, GeHears
    <2>2. WireTypeOK'
      BY <1>20, PullType DEF WireTypeOK, Strobe, SmPull, SmUrgent, GeHears
    <2>3. GeTypeOK'
      <3>1. Head(fifo).char \in CharSet
        BY <1>20, PullType DEF Strobe, SmPull, SmUrgent
      <3>2. CASE GeHears(Head(fifo).char)
        BY <3>1, <3>2 DEF GeTypeOK, GeHears
      <3>3. CASE GeHearsNoise
        BY <3>3, EmptySeq DEF GeTypeOK, GeHearsNoise
      <3>. QED
        BY <1>20, <3>2, <3>3 DEF Strobe
    <2>. QED  BY <2>1, <2>2, <2>3
  <1>21. CASE Tick
    <2>1. (CursorTypeOK /\ ParamsTypeOK /\ PinsTypeOK)'
      BY <1>21 DEF CursorTypeOK, ParamsTypeOK, PinsTypeOK, Tick, SmTick, StrobeEnds, GeStrobeEnds, CountDown
    <2>2. WireTypeOK'
      BY <1>21 DEF WireTypeOK, Tick, SmTick, StrobeEnds, GeStrobeEnds, CountDown, WordSet
    <2>3. GeTypeOK'
      BY <1>21 DEF GeTypeOK, Tick, SmTick, StrobeEnds, GeStrobeEnds, CountDown
    <2>4. ControlTypeOK'
      BY <1>21 DEF ControlTypeOK, Tick, SmTick, StrobeEnds, GeStrobeEnds, CountDown, States, Modes
    <2>. QED  BY <2>1, <2>2, <2>3, <2>4
  <1>22. CASE Clear
    <2>1. (WireTypeOK /\ CursorTypeOK /\ ParamsTypeOK /\ ControlTypeOK /\ PinsTypeOK)'
      BY <1>22 DEF WireTypeOK, CursorTypeOK, ParamsTypeOK, ControlTypeOK, PinsTypeOK, Clear, GeClear
    <2>2. GeTypeOK'
      BY <1>22 DEF GeTypeOK, Clear, GeClear
    <2>. QED  BY <2>1, <2>2
  <1>23. CASE UNCHANGED sysVars
    BY <1>23 DEF sysVars, WireTypeOK, GeTypeOK, CursorTypeOK, ParamsTypeOK, ControlTypeOK, PinsTypeOK
  <1>. QED
    BY <1>1, <1>2, <1>3, <1>4, <1>5, <1>6, <1>7, <1>8, <1>9, <1>10, <1>11, <1>12, <1>13, <1>14, <1>15, <1>16, <1>17, <1>18, <1>19, <1>20, <1>21, <1>22, <1>23 DEF Whole, Step, ReCommand, IpcOp

\* A column from anywhere is a word, too, and may end the card.
LEMMA StrayType ==
    ASSUME SysTypeOK, PushesStray
    PROVE  /\ fifo' \in Seq(WordSet) /\ Len(fifo') <= FifoDepth
           /\ feed_irq' \in BOOLEAN
           /\ presenting' \in BOOLEAN /\ finin_pending' \in BOOLEAN
           /\ finin_timer' \in Nat /\ state' \in States
  <1>. USE DEF SysTypeOK
  <1>1. PICK fini \in BOOLEAN :
           /\ WireTxPush(PresenterWord(CharAt(card, EffectiveMode(card), 0, 0), fini, w_ticks, g_ticks))
           /\ IF fini THEN CardEnds
              ELSE UNCHANGED <<presenting, finin_pending, finin_timer, state, feed_irq>>
    BY DEF PushesStray
  <1>2. PresenterWord(CharAt(card, EffectiveMode(card), 0, 0), fini, w_ticks, g_ticks) \in WordSet
    <2>1. w_ticks % 256 \in Nat /\ g_ticks % 32768 \in Nat
      BY ParamsAssumption DEF ParamsTypeOK
    <2>. QED
      BY <2>1 DEF PresenterWord, WordSet, CharAt, CharSet, CursorTypeOK
  <1>3. fifo' \in Seq(WordSet) /\ Len(fifo') <= FifoDepth
    BY <1>1, <1>2, FifoAssumption DEF WireTypeOK, WireTxPush, WireTxFull
  <1>4. /\ feed_irq' \in BOOLEAN
        /\ presenting' \in BOOLEAN /\ finin_pending' \in BOOLEAN
        /\ finin_timer' \in Nat /\ state' \in States
    BY <1>1, ParamsAssumption DEF WireTypeOK, ControlTypeOK, ParamsTypeOK, CardEnds, States
  <1>. QED  BY <1>3, <1>4

\* An interrupt between two stores leaves values of the right types, too.
LEMMA TypeOvertaken ==
    ASSUME SysTypeOK, Overtaken
    PROVE  SysTypeOK'
  <1>. USE DEF SysTypeOK, smVars, cursor, modes, params, pins, flags, geVars, wireVars, fdVars
  <1>0. \A c : EffectiveMode(c) \in Modes /\ Packed(EffectiveMode(c)) \in BOOLEAN
    BY PackedType DEF EffectiveMode, Modes, ControlTypeOK
  <1>1. CASE PollOvertaken
    <2>1. WireTypeOK' /\ GeTypeOK' /\ ParamsTypeOK'
      BY <1>1 DEF PollOvertaken, WireTypeOK, GeTypeOK, ParamsTypeOK, FininRelease, WireTxReleaseFinin
    <2>2. card' \in Nat
      BY <1>1 DEF PollOvertaken, CursorTypeOK
    <2>3. CursorTypeOK'
      BY <1>1, <2>2 DEF PollOvertaken, CursorTypeOK
    <2>4. \/ \E c : Presents("main", c)
          \/ state' = "DONE" /\ UNCHANGED <<mode, pom01, presenting, prefill>>
      BY <1>1 DEF PollOvertaken
    <2>5. /\ UNCHANGED <<deck, latched_mode, luren>>
          /\ cmd_pending' = FALSE /\ cmd_timer' = 0 /\ FininRelease /\ LupobUpdate
      BY <1>1 DEF PollOvertaken
    <2>6. fiden' \in BOOLEAN
      BY <1>1 DEF PollOvertaken, PinsTypeOK
    <2>7. ControlTypeOK'
      BY <1>0, <2>4, <2>5 DEF Presents, ControlTypeOK, States, FininRelease
    <2>8. PinsTypeOK'
      BY <1>0, <2>4, <2>5, <2>6, ReadyType DEF Presents, PinsTypeOK, LupobUpdate
    <2>. QED  BY <2>1, <2>3, <2>7, <2>8
  <1>2. CASE PollReentered
    <2>1. WireTypeOK' /\ GeTypeOK' /\ ParamsTypeOK'
      <3>1. WireTypeOK'
        BY <1>2 DEF PollReentered, WireTypeOK, FininRelease, WireTxReleaseFinin
      <3>2. GeTypeOK'
        BY <1>2, EmptySeq DEF PollReentered, GeTypeOK, GeReads
      <3>3. ParamsTypeOK'
        BY <1>2 DEF PollReentered, ParamsTypeOK
      <3>. QED  BY <3>1, <3>2, <3>3
    <2>2. CursorTypeOK'
      BY <1>2 DEF PollReentered, CursorTypeOK, TriggerExhausted, TriggerPresents, AdvanceCard
    <2>3. \/ \E c : Presents("main", c)
          \/ state' = "DONE" /\ UNCHANGED <<mode, pom01, presenting, prefill>>
      BY <1>2 DEF PollReentered, TriggerExhausted, TriggerPresents, AdvanceCard
    <2>4. /\ UNCHANGED <<deck, luren>>
          /\ cmd_pending' = TRUE /\ cmd_timer' = d_us /\ FininRelease /\ LupobUpdate
      BY <1>2 DEF PollReentered
    <2>5. latched_mode' \in Modes
      BY <1>2 DEF PollReentered, Latches, ControlTypeOK, Modes
    <2>6. fiden' \in BOOLEAN
      BY <1>2 DEF PollReentered, TriggerExhausted, TriggerPresents, AdvanceCard, PinsTypeOK
    <2>7. d_us \in Nat
      BY ParamsAssumption DEF ParamsTypeOK
    <2>8. ControlTypeOK'
      BY <1>0, <2>3, <2>4, <2>5, <2>7 DEF Presents, ControlTypeOK, States, FininRelease
    <2>9. PinsTypeOK'
      BY <1>0, <2>3, <2>4, <2>6, ReadyType DEF Presents, PinsTypeOK, LupobUpdate
    <2>. QED  BY <2>1, <2>2, <2>8, <2>9
  <1>3. CASE EjectOvertaken
    <2>1. WireTypeOK' /\ GeTypeOK' /\ ParamsTypeOK'
      BY <1>3 DEF EjectOvertaken, WireTypeOK, GeTypeOK, ParamsTypeOK, FininRelease, WireTxReleaseFinin
    <2>2. CursorTypeOK'
      BY <1>3 DEF EjectOvertaken, CursorTypeOK
    <2>3. \/ /\ \E c : Presents("irq", c)
             /\ cmd_pending' = FALSE /\ cmd_timer' = 0
          \/ /\ state' = "ARMED_WAIT"
             /\ UNCHANGED <<mode, pom01, presenting, cmd_pending, cmd_timer, prefill>>
      BY <1>3 DEF EjectOvertaken
    <2>4. UNCHANGED <<deck, latched_mode, fiden, luren>> /\ FininRelease /\ LupobUpdate
      BY <1>3 DEF EjectOvertaken
    <2>5. ControlTypeOK'
      <3>1. cmd_pending' \in BOOLEAN /\ cmd_timer' \in Nat
        <4>1. \/ cmd_pending' = FALSE /\ cmd_timer' = 0
              \/ UNCHANGED <<cmd_pending, cmd_timer>>
          BY <2>3
        <4>2. CASE cmd_pending' = FALSE /\ cmd_timer' = 0
          BY <4>2
        <4>3. CASE UNCHANGED <<cmd_pending, cmd_timer>>
          BY <4>3 DEF ControlTypeOK
        <4>. QED  BY <4>1, <4>2, <4>3
      <3>2. /\ mode' \in Modes /\ state' \in States
            /\ presenting' \in BOOLEAN /\ prefill' \subseteq {"main", "irq"}
        BY <1>0, <2>3 DEF Presents, ControlTypeOK, States
      <3>3. finin_pending' \in BOOLEAN /\ finin_timer' \in Nat
        BY <2>4 DEF FininRelease
      <3>. QED
        BY <2>4, <3>1, <3>2, <3>3 DEF ControlTypeOK
    <2>6. PinsTypeOK'
      BY <1>0, <2>3, <2>4, ReadyType DEF Presents, PinsTypeOK, LupobUpdate
    <2>. QED  BY <2>1, <2>2, <2>5, <2>6
  <1>4. CASE ResetOvertaken
    <2>1. WireTxDisarm \/ WireTxArm \/ ArmReleased
      BY <1>4 DEF ResetOvertaken
    <2>2. WireTypeOK'
      <3>1. CASE WireTxArm
        BY <3>1, EmptyType DEF WireTypeOK, WireTxArm
      <3>2. CASE WireTxDisarm
        BY <3>2, EmptyType DEF WireTypeOK, WireTxDisarm
      <3>3. CASE ArmReleased
        BY <3>3, EmptyType DEF WireTypeOK, ArmReleased, WireTxReleaseFinin
      <3>. QED  BY <2>1, <3>1, <3>2, <3>3
    <2>3. GeTypeOK' /\ ParamsTypeOK'
      BY <1>4 DEF ResetOvertaken, GeTypeOK, ParamsTypeOK
    <2>4. card' \in Nat
      <3>1. CASE \E tgt \in FirstCard(deck) .. deck.n_cards - 1 : card' \in {tgt, tgt + 1} /\ deck # NoDeck
        BY <3>1, FirstCardInDeck, DeckFacts DEF ControlTypeOK
      <3>. QED
        BY <1>4, <3>1 DEF ResetOvertaken
    <2>5. col' \in Nat /\ half' \in {0, 1}
      BY <1>4 DEF ResetOvertaken, CursorsInside
    <2>6. mode' \in Modes
      BY <1>0, <1>4 DEF ResetOvertaken, ModesInside, ControlTypeOK
    <2>7. /\ deck' \in Decks \cup {NoDeck} /\ state' \in States
          /\ pom01' \in BOOLEAN
      BY <1>4, PackedType DEF ResetOvertaken, ControlTypeOK, PinsTypeOK, States
    <2>8. /\ UNCHANGED <<latched_mode, luren, prefill>>
          /\ presenting' \in {FALSE, cmd_pending}
          /\ cmd_pending' = FALSE /\ cmd_timer' = 0
          /\ finin_pending' = FALSE /\ finin_timer' = 0
          /\ fiden' = FALSE /\ LupobUpdate
      BY <1>4 DEF ResetOvertaken
    <2>9. presenting' \in BOOLEAN
      BY <2>8, Zenon DEF ControlTypeOK
    <2>10. ControlTypeOK'
      BY <2>6, <2>7, <2>8, <2>9 DEF ControlTypeOK
    <2>11. PinsTypeOK'
      BY <2>7, <2>8, ReadyType DEF PinsTypeOK, LupobUpdate
    <2>. QED  BY <2>2, <2>3, <2>4, <2>5, <2>10, <2>11 DEF CursorTypeOK
  <1>5. CASE PinOvertaken
    BY <1>5, ReadyType, TypeOn DEF PinOvertaken
  <1>6. CASE PresentStray
    <2>1. PushesStray
      BY <1>6 DEF PresentStray
    <2>4. UNCHANGED <<sm_on, phase, left, lu, finin, geVars, deck, cursor, modes, params,
                      cmd_pending, cmd_timer, lupob, pins, prefill>>
      BY <1>6 DEF PresentStray
    <2>5. WireTypeOK'
      BY <2>1, <2>4, StrayType DEF WireTypeOK
    <2>6. ControlTypeOK'
      BY <2>1, <2>4, StrayType DEF ControlTypeOK
    <2>7. (GeTypeOK /\ CursorTypeOK /\ ParamsTypeOK /\ PinsTypeOK)'
      BY <2>4 DEF GeTypeOK, CursorTypeOK, ParamsTypeOK, PinsTypeOK
    <2>. QED  BY <2>5, <2>6, <2>7
  <1>7. CASE PollRepeats
    <2>1. /\ UNCHANGED <<wireVars, geVars, deck, latched_mode, params, cmd_pending, cmd_timer,
                         finin_pending, finin_timer, luren>>
          /\ LupobUpdate
      BY <1>7 DEF PollRepeats
    <2>2. TriggerExhausted \/ TriggerPresents("main")
      BY <1>7 DEF PollRepeats
    <2>3. CursorTypeOK' /\ fiden' \in BOOLEAN
      <3>1. CASE TriggerExhausted
        BY <3>1 DEF CursorTypeOK, TriggerExhausted, AdvanceCard
      <3>2. CASE TriggerPresents("main")
        <4>1. UNCHANGED fiden
          BY <3>2 DEF TriggerPresents
        <4>2. CursorTypeOK'
          BY <3>2 DEF CursorTypeOK, TriggerPresents
        <4>. QED  BY <4>1, <4>2, Zenon DEF PinsTypeOK
      <3>. QED  BY <2>2, <3>1, <3>2
    <2>4. \/ \E c : Presents("main", c)
          \/ state' = "DONE" /\ UNCHANGED <<mode, pom01, presenting, prefill>>
      BY <2>2 DEF TriggerExhausted, TriggerPresents, AdvanceCard
    <2>5. WireTypeOK' /\ GeTypeOK' /\ ParamsTypeOK'
      BY <2>1 DEF WireTypeOK, GeTypeOK, ParamsTypeOK
    <2>6. ControlTypeOK'
      BY <1>0, <2>1, <2>4 DEF Presents, ControlTypeOK, States
    <2>7. PinsTypeOK'
      <3>1. pom01' \in BOOLEAN
        BY <1>0, <2>4 DEF Presents, PinsTypeOK, Packed
      <3>2. luren' \in BOOLEAN
        BY <1>0, <2>1 DEF PinsTypeOK
      <3>3. lupob' \in BOOLEAN
        BY <2>1, ReadyType DEF LupobUpdate
      <3>. QED  BY <2>3, <3>1, <3>2, <3>3, Zenon DEF PinsTypeOK
    <2>. QED  BY <2>3, <2>5, <2>6, <2>7
  <1>8. CASE EjectFed
    <2>1. /\ PushesStray
          /\ UNCHANGED <<sm_on, phase, left, lu, finin, geVars, deck, modes, params,
                         cmd_pending, cmd_timer, pins, prefill>>
          /\ LupobUpdate
      BY <1>8 DEF EjectFed
    <2>2. CursorTypeOK'
      BY <1>8 DEF EjectFed, CursorTypeOK
    <2>3. WireTypeOK'
      BY <2>1, StrayType DEF WireTypeOK
    <2>4. ControlTypeOK'
      BY <2>1, StrayType DEF ControlTypeOK
    <2>5. GeTypeOK' /\ ParamsTypeOK' /\ PinsTypeOK'
      BY <2>1, ReadyType DEF GeTypeOK, ParamsTypeOK, PinsTypeOK, LupobUpdate
    <2>. QED  BY <2>2, <2>3, <2>4, <2>5
  <1>9. CASE ArmOvertaken
    <2>1. /\ UNCHANGED <<smVars, deck, cursor, mode, params, presenting, finin_pending,
                         finin_timer, pins, prefill>>
          /\ LupobUpdate
      BY <1>9 DEF ArmOvertaken
    <2>2. UNCHANGED finin \/ finin' = FALSE
      BY <1>9 DEF ArmOvertaken, WireTxReleaseFinin
    <2>3. WireTypeOK'
      BY <2>1, <2>2 DEF WireTypeOK
    <2>4. GeTypeOK'
      BY <1>9, EmptySeq DEF ArmOvertaken, GeTypeOK, GeReads
    <2>5. latched_mode' \in Modes
      BY <1>9 DEF ArmOvertaken, Latches, ControlTypeOK, Modes
    <2>6. state' \in States
      BY <1>9 DEF ArmOvertaken, ControlTypeOK, States
    <2>7. \/ UNCHANGED <<cmd_pending, cmd_timer>>
          \/ cmd_pending' = TRUE /\ cmd_timer' = d_us
      BY <1>9 DEF ArmOvertaken
    <2>8. d_us \in Nat
      BY ParamsAssumption DEF ParamsTypeOK
    <2>9. cmd_pending' \in BOOLEAN /\ cmd_timer' \in Nat
      <3>1. CASE UNCHANGED <<cmd_pending, cmd_timer>>
        BY <3>1 DEF ControlTypeOK
      <3>2. CASE cmd_pending' = TRUE /\ cmd_timer' = d_us
        BY <2>8, <3>2
      <3>. QED  BY <2>7, <3>1, <3>2
    <2>10. ControlTypeOK'
      BY <2>1, <2>5, <2>6, <2>9 DEF ControlTypeOK
    <2>11. CursorTypeOK' /\ ParamsTypeOK' /\ PinsTypeOK'
      BY <2>1, ReadyType DEF CursorTypeOK, ParamsTypeOK, PinsTypeOK, LupobUpdate
    <2>. QED  BY <2>3, <2>4, <2>10, <2>11
  <1>. QED
    BY <1>1, <1>2, <1>3, <1>4, <1>5, <1>6, <1>7, <1>8, <1>9 DEF Overtaken

\* present_next's cursor moves: to the other half, to the next column when
\* there is one, back to the first at the end of the card (feeder.c:147-158).
LEMMA PresentNextCursor ==
    ASSUME FeederInv, ~torn, presenting, PresentNext
    PROVE  CursorInDeck' /\ CursorAtStart'
  <1>. USE DEF FeederInv, TypeOK, SysTypeOK, ControlTypeOK, CursorTypeOK
  <1>1. deck # NoDeck /\ deck \in Decks /\ UNCHANGED <<deck, card>>
    BY DEF SmFollowsDeck, PresentNext, CardEnds
  <1>2. /\ deck.n_cards \in Nat /\ card < deck.n_cards
        /\ deck.ncols[card] \in Nat /\ col < deck.ncols[card]
    BY <1>1, DeckFacts DEF CursorInDeck
  <1>3. /\ NextWord.char.part = "hi" => ~NextWord.fini
        /\ NextWord.char.part # "hi" /\ ~NextWord.fini => ~LastCol(deck, card, col)
    <2>1. CASE Packed(EffectiveMode(card))
      <3>1. NextWord.char.part = IF half = 0 THEN "hi" ELSE "lo"
        BY <2>1, NextWordFields DEF CharAt
      <3>2. NextWord.fini <=> LastCol(deck, card, col) /\ half = 1
        BY <2>1, NextWordFields, Zenon
      <3>3. half \in {0, 1}
        OBVIOUS
      <3>4. CASE half = 0
        BY <3>1, <3>2, <3>4
      <3>5. CASE half = 1
        BY <3>1, <3>2, <3>5
      <3>. QED
        BY <3>3, <3>4, <3>5
    <2>2. CASE ~Packed(EffectiveMode(card))
      <3>1. NextWord.char.part = "whole"
        BY <2>2, NextWordFields DEF CharAt
      <3>2. NextWord.fini <=> LastCol(deck, card, col)
        BY <2>2, NextWordFields, Zenon
      <3>. QED
        BY <3>1, <3>2
    <2>. QED
      BY <2>1, <2>2
  <1>4. CASE NextWord.char.part = "hi"
    <2>1. col' = col /\ presenting' = presenting
      BY <1>3, <1>4 DEF PresentNext, CardEnds
    <2>. QED
      BY <1>1, <1>2, <2>1 DEF CursorInDeck, CursorAtStart
  <1>5. CASE NextWord.fini
    <2>1. col' = 0 /\ half' = 0
      BY <1>3, <1>5 DEF PresentNext, CardEnds
    <2>. QED
      BY <1>1, <1>2, <2>1 DEF CursorInDeck, CursorAtStart
  <1>6. CASE NextWord.char.part # "hi" /\ ~NextWord.fini
    <2>1. col' = (col + 1) % ColRange /\ presenting' = presenting
      BY <1>6 DEF PresentNext, CardEnds
    <2>2. col + 1 < deck.ncols[card]
      BY <1>2, <1>3, <1>6 DEF LastCol
    <2>3. col' \in Nat /\ col' <= col + 1
      BY <2>1, NextColumn
    <2>. QED
      BY <1>1, <1>2, <2>1, <2>2, <2>3 DEF CursorInDeck, CursorAtStart
  <1>. QED
    BY <1>4, <1>5, <1>6

\* Every step keeps the cursor within the deck.
LEMMA CursorInDeckStep ==
    ASSUME FeederInv, ~torn, [Step]_sysVars
    PROVE  CursorInDeck'
  <1>. USE DEF FeederInv, TypeOK, SysTypeOK, ControlTypeOK, CursorInDeck, smVars, cursor, modes, params, pins, flags, geVars, wireVars, fdVars
  <1>1. CASE \E re \in ReCommands : ReRead(re)
    BY <1>1, DeckFacts DEF ReRead, OnRead, ReadAccepted, ReadIgnored, FininRelease, WireTxReleaseFinin, CursorTypeOK, SmFollowsDeck
  <1>2. CASE \E re \in ReCommands : ReNoTransfer(re)
    BY <1>2, DeckFacts DEF ReNoTransfer, OnNoTransfer, CursorTypeOK, SmFollowsDeck
  <1>3. CASE \E re \in ReCommands : ReResetError(re)
    BY <1>3, DeckFacts DEF ReResetError, OnResetError, CursorTypeOK, SmFollowsDeck
  <1>4. CASE \E re \in ReCommands : ReCardReject(re)
    BY <1>4, DeckFacts DEF ReCardReject, OnCardReject, FininRelease, WireTxReleaseFinin, AdvanceCard, LastCard, CursorTypeOK, SmFollowsDeck
  <1>5. CASE Tu03Triggers
    BY <1>5, DeckFacts DEF Tu03Triggers, FininRelease, WireTxReleaseFinin, TriggerPresent, TriggerExhausted, TriggerRefused, TriggerPresents, Presents, AdvanceCard, LastCard, CursorTypeOK, SmFollowsDeck
  <1>6. CASE Tu03Advances
    BY <1>6, DeckFacts DEF Tu03Advances, OnFeed, FininRelease, WireTxReleaseFinin, AdvanceCard, LastCard, CursorTypeOK, SmFollowsDeck
  <1>7. CASE \E ctx \in {"main", "irq"} : PrefillStep(ctx)
    BY <1>7, PresentNextCursor DEF PrefillStep
  <1>8. CASE \E ctx \in {"main", "irq"} : PrefillEnd(ctx)
    BY <1>8, DeckFacts DEF PrefillEnd, CursorTypeOK, SmFollowsDeck
  <1>9. CASE TxFeed
    BY <1>9, PresentNextCursor DEF TxFeed
  <1>11. CASE IpcDisarm
    BY <1>11, DeckFacts DEF IpcDisarm, CursorReset, WireTxDisarm, CursorTypeOK, SmFollowsDeck
  <1>12. CASE IpcRewind
    BY <1>12, DeckFacts, FirstCardInDeck DEF IpcRewind, CursorReset, WireTxArm, CursorTypeOK, SmFollowsDeck
  <1>13. CASE IpcGo
    BY <1>13, DeckFacts, FirstCardInDeck DEF IpcGo, CursorReset, WireTxArm, CursorTypeOK, SmFollowsDeck
  <1>14. CASE IpcEject
    BY <1>14, DeckFacts DEF IpcEject, LastCard, CursorTypeOK, SmFollowsDeck
  <1>15. CASE IpcInjectError
    BY <1>15, DeckFacts DEF IpcInjectError, CursorTypeOK, SmFollowsDeck
  <1>16. CASE IpcSetParam
    BY <1>16, DeckFacts DEF IpcSetParam, CursorTypeOK, SmFollowsDeck
  <1>17. CASE IpcSetPolicy
    BY <1>17, DeckFacts DEF IpcSetPolicy, CursorTypeOK, SmFollowsDeck
  <1>18. CASE PollTriggers
    BY <1>18, DeckFacts DEF PollTriggers, TriggerPresent, TriggerExhausted, TriggerRefused, TriggerPresents, Presents, AdvanceCard, LastCard, CursorTypeOK, SmFollowsDeck
  <1>19. CASE PollReleases
    BY <1>19, DeckFacts DEF PollReleases, FininRelease, WireTxReleaseFinin, CursorTypeOK, SmFollowsDeck
  <1>20. CASE Strobe
    BY <1>20, DeckFacts DEF Strobe, SmPull, SmUrgent, CursorTypeOK, SmFollowsDeck
  <1>21. CASE Tick
    BY <1>21, DeckFacts DEF Tick, SmTick, StrobeEnds, CursorTypeOK, SmFollowsDeck
  <1>22. CASE Clear
    BY <1>22, DeckFacts DEF Clear, CursorTypeOK, SmFollowsDeck
  <1>23. CASE UNCHANGED sysVars
    BY <1>23 DEF sysVars
  <1>. QED
    BY <1>1, <1>2, <1>3, <1>4, <1>5, <1>6, <1>7, <1>8, <1>9, <1>11, <1>12, <1>13, <1>14, <1>15, <1>16, <1>17, <1>18, <1>19, <1>20, <1>21, <1>22, <1>23 DEF Step, ReCommand, IpcOp

\* Every step that ends or aborts a card leaves the cursor at a column's start.
LEMMA CursorAtStartStep ==
    ASSUME FeederInv, ~torn, [Step]_sysVars
    PROVE  CursorAtStart'
  <1>. USE DEF FeederInv, TypeOK, SysTypeOK, ControlTypeOK, CursorAtStart, smVars, cursor, modes, params, pins, flags, geVars, wireVars, fdVars
  <1>1. CASE \E re \in ReCommands : ReRead(re)
    BY <1>1 DEF ReRead, OnRead, ReadAccepted, ReadIgnored, FininRelease, WireTxReleaseFinin, SmFollowsDeck
  <1>2. CASE \E re \in ReCommands : ReNoTransfer(re)
    BY <1>2 DEF ReNoTransfer, OnNoTransfer, SmFollowsDeck
  <1>3. CASE \E re \in ReCommands : ReResetError(re)
    BY <1>3 DEF ReResetError, OnResetError, SmFollowsDeck
  <1>4. CASE \E re \in ReCommands : ReCardReject(re)
    BY <1>4 DEF ReCardReject, OnCardReject, FininRelease, WireTxReleaseFinin, AdvanceCard, LastCard, SmFollowsDeck
  <1>5. CASE Tu03Triggers
    BY <1>5 DEF Tu03Triggers, FininRelease, WireTxReleaseFinin, TriggerPresent, TriggerExhausted, TriggerRefused, TriggerPresents, Presents, AdvanceCard, LastCard, SmFollowsDeck
  <1>6. CASE Tu03Advances
    BY <1>6 DEF Tu03Advances, OnFeed, FininRelease, WireTxReleaseFinin, AdvanceCard, LastCard, SmFollowsDeck
  <1>7. CASE \E ctx \in {"main", "irq"} : PrefillStep(ctx)
    BY <1>7, PresentNextCursor DEF PrefillStep
  <1>8. CASE \E ctx \in {"main", "irq"} : PrefillEnd(ctx)
    BY <1>8 DEF PrefillEnd, SmFollowsDeck
  <1>9. CASE TxFeed
    BY <1>9, PresentNextCursor DEF TxFeed
  <1>11. CASE IpcDisarm
    BY <1>11 DEF IpcDisarm, CursorReset, WireTxDisarm, SmFollowsDeck
  <1>12. CASE IpcRewind
    BY <1>12 DEF IpcRewind, CursorReset, WireTxArm, SmFollowsDeck
  <1>13. CASE IpcGo
    BY <1>13 DEF IpcGo, CursorReset, WireTxArm, SmFollowsDeck
  <1>14. CASE IpcEject
    BY <1>14 DEF IpcEject, LastCard, SmFollowsDeck
  <1>15. CASE IpcInjectError
    BY <1>15 DEF IpcInjectError, SmFollowsDeck
  <1>16. CASE IpcSetParam
    BY <1>16 DEF IpcSetParam, SmFollowsDeck
  <1>17. CASE IpcSetPolicy
    BY <1>17 DEF IpcSetPolicy, SmFollowsDeck
  <1>18. CASE PollTriggers
    BY <1>18 DEF PollTriggers, TriggerPresent, TriggerExhausted, TriggerRefused, TriggerPresents, Presents, AdvanceCard, LastCard, SmFollowsDeck
  <1>19. CASE PollReleases
    BY <1>19 DEF PollReleases, FininRelease, WireTxReleaseFinin, SmFollowsDeck
  <1>20. CASE Strobe
    BY <1>20 DEF Strobe, SmPull, SmUrgent, SmFollowsDeck
  <1>21. CASE Tick
    BY <1>21 DEF Tick, SmTick, StrobeEnds, SmFollowsDeck
  <1>22. CASE Clear
    BY <1>22 DEF Clear, SmFollowsDeck
  <1>23. CASE UNCHANGED sysVars
    BY <1>23 DEF sysVars
  <1>. QED
    BY <1>1, <1>2, <1>3, <1>4, <1>5, <1>6, <1>7, <1>8, <1>9, <1>11, <1>12, <1>13, <1>14, <1>15, <1>16, <1>17, <1>18, <1>19, <1>20, <1>21, <1>22, <1>23 DEF Step, ReCommand, IpcOp

\* No step ends a presentation and leaves the interrupt enabled.
LEMMA NoIrqStormStep ==
    ASSUME FeederInv, ~torn, [Step]_sysVars
    PROVE  NoIrqStorm'
  <1>. USE DEF FeederInv, TypeOK, SysTypeOK, ControlTypeOK, NoIrqStorm, smVars, cursor, modes, params, pins, flags, geVars, wireVars, fdVars
  <1>1. CASE \E re \in ReCommands : ReRead(re)
    BY <1>1 DEF ReRead, OnRead, ReadAccepted, ReadIgnored, FininRelease, WireTxReleaseFinin, SmFollowsDeck
  <1>2. CASE \E re \in ReCommands : ReNoTransfer(re)
    BY <1>2 DEF ReNoTransfer, OnNoTransfer, SmFollowsDeck
  <1>3. CASE \E re \in ReCommands : ReResetError(re)
    BY <1>3 DEF ReResetError, OnResetError, SmFollowsDeck
  <1>4. CASE \E re \in ReCommands : ReCardReject(re)
    BY <1>4 DEF ReCardReject, OnCardReject, FininRelease, WireTxReleaseFinin, AdvanceCard, LastCard, SmFollowsDeck
  <1>5. CASE Tu03Triggers
    <2>1. UNCHANGED feed_irq /\ (presenting' \/ UNCHANGED presenting)
      BY <1>5 DEF Tu03Triggers, TriggerPresent, TriggerExhausted, TriggerRefused, TriggerPresents, Presents
    <2>. QED
      BY <2>1
  <1>6. CASE Tu03Advances
    BY <1>6 DEF Tu03Advances, OnFeed, FininRelease, WireTxReleaseFinin, AdvanceCard, LastCard, SmFollowsDeck
  <1>7. CASE \E ctx \in {"main", "irq"} : PrefillStep(ctx)
    BY <1>7 DEF PrefillStep, PresentNext, CardEnds, SmFollowsDeck
  <1>8. CASE \E ctx \in {"main", "irq"} : PrefillEnd(ctx)
    BY <1>8 DEF PrefillEnd, SmFollowsDeck
  <1>9. CASE TxFeed
    BY <1>9 DEF TxFeed, PresentNext, CardEnds, SmFollowsDeck
  <1>11. CASE IpcDisarm
    BY <1>11 DEF IpcDisarm, CursorReset, WireTxDisarm, SmFollowsDeck
  <1>12. CASE IpcRewind
    BY <1>12 DEF IpcRewind, CursorReset, WireTxArm, SmFollowsDeck
  <1>13. CASE IpcGo
    BY <1>13 DEF IpcGo, CursorReset, WireTxArm, SmFollowsDeck
  <1>14. CASE IpcEject
    BY <1>14 DEF IpcEject, LastCard, SmFollowsDeck
  <1>15. CASE IpcInjectError
    BY <1>15 DEF IpcInjectError, SmFollowsDeck
  <1>16. CASE IpcSetParam
    BY <1>16 DEF IpcSetParam, SmFollowsDeck
  <1>17. CASE IpcSetPolicy
    BY <1>17 DEF IpcSetPolicy, SmFollowsDeck
  <1>18. CASE PollTriggers
    <2>1. UNCHANGED feed_irq /\ (presenting' \/ UNCHANGED presenting)
      BY <1>18 DEF PollTriggers, TriggerPresent, TriggerExhausted, TriggerRefused, TriggerPresents, Presents
    <2>. QED
      BY <2>1
  <1>19. CASE PollReleases
    BY <1>19 DEF PollReleases, FininRelease, WireTxReleaseFinin, SmFollowsDeck
  <1>20. CASE Strobe
    BY <1>20 DEF Strobe, SmPull, SmUrgent, SmFollowsDeck
  <1>21. CASE Tick
    BY <1>21 DEF Tick, SmTick, StrobeEnds, SmFollowsDeck
  <1>22. CASE Clear
    BY <1>22 DEF Clear, SmFollowsDeck
  <1>23. CASE UNCHANGED sysVars
    BY <1>23 DEF sysVars
  <1>. QED
    BY <1>1, <1>2, <1>3, <1>4, <1>5, <1>6, <1>7, <1>8, <1>9, <1>11, <1>12, <1>13, <1>14, <1>15, <1>16, <1>17, <1>18, <1>19, <1>20, <1>21, <1>22, <1>23 DEF Step, ReCommand, IpcOp

\* No step leaves a presentation without a source of words.
LEMMA FeedKeptStep ==
    ASSUME FeederInv, ~torn, [Step]_sysVars
    PROVE  FeedKept'
  <1>. USE DEF FeederInv, TypeOK, SysTypeOK, ControlTypeOK, FeedKept, smVars, cursor, modes, params, pins, flags, geVars, wireVars, fdVars
  <1>1. CASE \E re \in ReCommands : ReRead(re)
    BY <1>1 DEF ReRead, OnRead, ReadAccepted, ReadIgnored, FininRelease, WireTxReleaseFinin, MainLoop
  <1>2. CASE \E re \in ReCommands : ReNoTransfer(re)
    BY <1>2 DEF ReNoTransfer, OnNoTransfer, MainLoop
  <1>3. CASE \E re \in ReCommands : ReResetError(re)
    BY <1>3 DEF ReResetError, OnResetError, MainLoop
  <1>4. CASE \E re \in ReCommands : ReCardReject(re)
    BY <1>4 DEF ReCardReject, OnCardReject, FininRelease, WireTxReleaseFinin, AdvanceCard, LastCard, MainLoop
  <1>5. CASE Tu03Triggers
    BY <1>5 DEF Tu03Triggers, FininRelease, WireTxReleaseFinin, TriggerPresent, TriggerExhausted, TriggerRefused, TriggerPresents, Presents, AdvanceCard, LastCard, MainLoop
  <1>6. CASE Tu03Advances
    BY <1>6 DEF Tu03Advances, OnFeed, FininRelease, WireTxReleaseFinin, AdvanceCard, LastCard, MainLoop
  <1>7. CASE \E ctx \in {"main", "irq"} : PrefillStep(ctx)
    BY <1>7 DEF PrefillStep, PresentNext, CardEnds, MainLoop
  <1>8. CASE \E ctx \in {"main", "irq"} : PrefillEnd(ctx)
    <2>1. UNCHANGED presenting /\ feed_irq' = (presenting \/ feed_irq)
      BY <1>8 DEF PrefillEnd
    <2>. QED
      BY <2>1, Zenon
  <1>9. CASE TxFeed
    BY <1>9 DEF TxFeed, PresentNext, CardEnds, MainLoop
  <1>11. CASE IpcDisarm
    BY <1>11 DEF IpcDisarm, CursorReset, WireTxDisarm, MainLoop
  <1>12. CASE IpcRewind
    BY <1>12 DEF IpcRewind, CursorReset, WireTxArm, MainLoop
  <1>13. CASE IpcGo
    BY <1>13 DEF IpcGo, CursorReset, WireTxArm, MainLoop
  <1>14. CASE IpcEject
    BY <1>14 DEF IpcEject, LastCard, MainLoop
  <1>15. CASE IpcInjectError
    BY <1>15 DEF IpcInjectError, MainLoop
  <1>16. CASE IpcSetParam
    BY <1>16 DEF IpcSetParam, MainLoop
  <1>17. CASE IpcSetPolicy
    BY <1>17 DEF IpcSetPolicy, MainLoop
  <1>18. CASE PollTriggers
    BY <1>18 DEF PollTriggers, TriggerPresent, TriggerExhausted, TriggerRefused, TriggerPresents, Presents, AdvanceCard, LastCard, MainLoop
  <1>19. CASE PollReleases
    BY <1>19 DEF PollReleases, FininRelease, WireTxReleaseFinin, MainLoop
  <1>20. CASE Strobe
    BY <1>20 DEF Strobe, SmPull, SmUrgent, MainLoop
  <1>21. CASE Tick
    BY <1>21 DEF Tick, SmTick, StrobeEnds, MainLoop
  <1>22. CASE Clear
    BY <1>22 DEF Clear, MainLoop
  <1>23. CASE UNCHANGED sysVars
    BY <1>23 DEF sysVars
  <1>. QED
    BY <1>1, <1>2, <1>3, <1>4, <1>5, <1>6, <1>7, <1>8, <1>9, <1>11, <1>12, <1>13, <1>14, <1>15, <1>16, <1>17, <1>18, <1>19, <1>20, <1>21, <1>22, <1>23 DEF Step, ReCommand, IpcOp

\* Every handler calls lupob_update or changes nothing that it looks at.
LEMMA LupobTruthfulStep ==
    ASSUME FeederInv, ~torn, [Step]_sysVars
    PROVE  LupobTruthful'
  <1>. USE DEF FeederInv, TypeOK, SysTypeOK, ControlTypeOK, LupobTruthful, smVars, cursor, modes, params, pins, flags, geVars, wireVars, fdVars
  <1>1. CASE \E re \in ReCommands : ReRead(re)
    BY <1>1 DEF ReRead, OnRead, LupobUpdate
  <1>2. CASE \E re \in ReCommands : ReNoTransfer(re)
    BY <1>2 DEF ReNoTransfer, OnNoTransfer, LupobUpdate
  <1>3. CASE \E re \in ReCommands : ReResetError(re)
    BY <1>3 DEF ReResetError, OnResetError, LupobUpdate
  <1>4. CASE \E re \in ReCommands : ReCardReject(re)
    BY <1>4 DEF ReCardReject, OnCardReject, LupobUpdate
  <1>5. CASE Tu03Triggers
    BY <1>5 DEF Tu03Triggers, TriggerPresent, LupobUpdate
  <1>6. CASE Tu03Advances
    BY <1>6 DEF Tu03Advances, OnFeed, LupobUpdate
  <1>7. CASE \E ctx \in {"main", "irq"} : PrefillStep(ctx)
    BY <1>7 DEF PrefillStep, PresentNext, CardEnds, Ready
  <1>8. CASE \E ctx \in {"main", "irq"} : PrefillEnd(ctx)
    BY <1>8 DEF PrefillEnd, Ready
  <1>9. CASE TxFeed
    BY <1>9 DEF TxFeed, PresentNext, CardEnds, Ready
  <1>11. CASE IpcDisarm
    BY <1>11 DEF IpcDisarm, LupobUpdate
  <1>12. CASE IpcRewind
    BY <1>12 DEF IpcRewind, LupobUpdate
  <1>13. CASE IpcGo
    BY <1>13 DEF IpcGo, LupobUpdate
  <1>14. CASE IpcEject
    BY <1>14 DEF IpcEject, LupobUpdate
  <1>15. CASE IpcInjectError
    BY <1>15 DEF IpcInjectError, LupobUpdate
  <1>16. CASE IpcSetParam
    BY <1>16 DEF IpcSetParam, LupobUpdate
  <1>17. CASE IpcSetPolicy
    BY <1>17 DEF IpcSetPolicy, LupobUpdate
  <1>18. CASE PollTriggers
    BY <1>18 DEF PollTriggers, TriggerPresent, LupobUpdate
  <1>19. CASE PollReleases
    BY <1>19 DEF PollReleases, LupobUpdate
  <1>20. CASE Strobe
    BY <1>20 DEF Strobe, SmPull, SmUrgent, Ready
  <1>21. CASE Tick
    BY <1>21 DEF Tick, SmTick, StrobeEnds, Ready
  <1>22. CASE Clear
    BY <1>22 DEF Clear, Ready
  <1>23. CASE UNCHANGED sysVars
    BY <1>23 DEF sysVars, Ready
  <1>. QED
    BY <1>1, <1>2, <1>3, <1>4, <1>5, <1>6, <1>7, <1>8, <1>9, <1>11, <1>12, <1>13, <1>14, <1>15, <1>16, <1>17, <1>18, <1>19, <1>20, <1>21, <1>22, <1>23 DEF Step, ReCommand, IpcOp

\* The state machine is switched with the deck.
LEMMA SmFollowsDeckStep ==
    ASSUME FeederInv, ~torn, [Step]_sysVars
    PROVE  SmFollowsDeck'
  <1>. USE DEF FeederInv, TypeOK, SysTypeOK, ControlTypeOK, SmFollowsDeck, smVars, cursor, modes, params, pins, flags, geVars, wireVars, fdVars
  <1>1. CASE \E re \in ReCommands : ReRead(re)
    BY <1>1, DeckFacts DEF ReRead, OnRead, ReadAccepted, ReadIgnored, FininRelease, WireTxReleaseFinin, MainLoop
  <1>2. CASE \E re \in ReCommands : ReNoTransfer(re)
    BY <1>2, DeckFacts DEF ReNoTransfer, OnNoTransfer, MainLoop
  <1>3. CASE \E re \in ReCommands : ReResetError(re)
    BY <1>3, DeckFacts DEF ReResetError, OnResetError, MainLoop
  <1>4. CASE \E re \in ReCommands : ReCardReject(re)
    BY <1>4, DeckFacts DEF ReCardReject, OnCardReject, FininRelease, WireTxReleaseFinin, AdvanceCard, LastCard, MainLoop
  <1>5. CASE Tu03Triggers
    BY <1>5, DeckFacts DEF Tu03Triggers, FininRelease, WireTxReleaseFinin, TriggerPresent, TriggerExhausted, TriggerRefused, TriggerPresents, Presents, AdvanceCard, LastCard, MainLoop
  <1>6. CASE Tu03Advances
    BY <1>6, DeckFacts DEF Tu03Advances, OnFeed, FininRelease, WireTxReleaseFinin, AdvanceCard, LastCard, MainLoop
  <1>7. CASE \E ctx \in {"main", "irq"} : PrefillStep(ctx)
    BY <1>7, DeckFacts DEF PrefillStep, PresentNext, CardEnds, MainLoop
  <1>8. CASE \E ctx \in {"main", "irq"} : PrefillEnd(ctx)
    BY <1>8, DeckFacts DEF PrefillEnd, MainLoop
  <1>9. CASE TxFeed
    BY <1>9, DeckFacts DEF TxFeed, PresentNext, CardEnds, MainLoop
  <1>11. CASE IpcDisarm
    BY <1>11, DeckFacts DEF IpcDisarm, CursorReset, WireTxDisarm, MainLoop
  <1>12. CASE IpcRewind
    BY <1>12, DeckFacts DEF IpcRewind, CursorReset, WireTxArm, MainLoop
  <1>13. CASE IpcGo
    BY <1>13, DeckFacts DEF IpcGo, CursorReset, WireTxArm, MainLoop
  <1>14. CASE IpcEject
    BY <1>14, DeckFacts DEF IpcEject, LastCard, MainLoop
  <1>15. CASE IpcInjectError
    BY <1>15, DeckFacts DEF IpcInjectError, MainLoop
  <1>16. CASE IpcSetParam
    BY <1>16, DeckFacts DEF IpcSetParam, MainLoop
  <1>17. CASE IpcSetPolicy
    BY <1>17, DeckFacts DEF IpcSetPolicy, MainLoop
  <1>18. CASE PollTriggers
    BY <1>18, DeckFacts DEF PollTriggers, TriggerPresent, TriggerExhausted, TriggerRefused, TriggerPresents, Presents, AdvanceCard, LastCard, MainLoop
  <1>19. CASE PollReleases
    BY <1>19, DeckFacts DEF PollReleases, FininRelease, WireTxReleaseFinin, MainLoop
  <1>20. CASE Strobe
    BY <1>20, DeckFacts DEF Strobe, SmPull, SmUrgent, MainLoop
  <1>21. CASE Tick
    BY <1>21, DeckFacts DEF Tick, SmTick, StrobeEnds, MainLoop
  <1>22. CASE Clear
    BY <1>22, DeckFacts DEF Clear, MainLoop
  <1>23. CASE UNCHANGED sysVars
    BY <1>23 DEF sysVars
  <1>. QED
    BY <1>1, <1>2, <1>3, <1>4, <1>5, <1>6, <1>7, <1>8, <1>9, <1>11, <1>12, <1>13, <1>14, <1>15, <1>16, <1>17, <1>18, <1>19, <1>20, <1>21, <1>22, <1>23 DEF Step, ReCommand, IpcOp

\* A disarmed reader has no deck, and without one its state machine is off and
\* FININ down, whatever has come in between whose stores.
LEMMA DisarmedAtRestStep ==
    ASSUME SysTypeOK, DisarmedAtRest, [Whole \/ Overtaken]_sysVars
    PROVE  DisarmedAtRest'
  <1>. USE DEF SysTypeOK, ControlTypeOK, DisarmedAtRest, smVars, cursor, modes, params, pins, flags, geVars, wireVars, fdVars
  <1>1. CASE IpcArm
    <2>1. deck' # NoDeck /\ state' = "ARMED_WAIT" /\ UNCHANGED geVars
      BY <1>1, DecksAssumption DEF IpcArm
    <2>. QED
      BY <2>1
  <1>2. CASE IpcDisarm
    BY <1>2 DEF IpcDisarm, WireTxDisarm
  <1>3. CASE ResetOvertaken
    <2>1. CASE deck' = NoDeck /\ WireTxDisarm
      BY <1>3, <2>1 DEF ResetOvertaken, WireTxDisarm
    <2>2. CASE deck # NoDeck /\ UNCHANGED deck /\ state' = "ARMED_WAIT"
      BY <1>3, <2>2 DEF ResetOvertaken
    <2>. QED
      BY <1>3, <2>1, <2>2 DEF ResetOvertaken
  <1>4. CASE IpcRewind
    BY <1>4 DEF IpcRewind, WireTxArm
  <1>5. CASE IpcGo
    BY <1>5 DEF IpcGo, WireTxArm
  <1>6. CASE IpcEject \/ IpcInjectError \/ IpcSetParam \/ IpcSetPolicy
    BY <1>6 DEF IpcEject, IpcInjectError, IpcSetParam, IpcSetPolicy
  <1>7. CASE \E re \in ReCommands :
                \/ ReRead(re) \/ ReNoTransfer(re) \/ ReResetError(re) \/ ReCardReject(re)
                \/ OnRead(re) \/ OnNoTransfer(re) \/ OnResetError(re) \/ OnCardReject(re)
    <2>1. PICK re \in ReCommands :
                OnRead(re) \/ OnNoTransfer(re) \/ OnResetError(re) \/ OnCardReject(re)
      BY <1>7 DEF ReRead, ReNoTransfer, ReResetError, ReCardReject
    <2>2. CASE OnRead(re)
      BY <2>2 DEF OnRead, ReadAccepted, ReadIgnored, FininRelease, WireTxReleaseFinin, GeReads
    <2>3. CASE OnNoTransfer(re)
      BY <2>3 DEF OnNoTransfer
    <2>4. CASE OnResetError(re)
      BY <2>4 DEF OnResetError
    <2>5. CASE OnCardReject(re)
      BY <2>5 DEF OnCardReject, FininRelease, WireTxReleaseFinin, AdvanceCard
    <2>. QED
      BY <2>1, <2>2, <2>3, <2>4, <2>5
  <1>8. CASE Tu03Advances \/ OnFeed
    BY <1>8 DEF Tu03Advances, OnFeed, FininRelease, WireTxReleaseFinin, AdvanceCard
  <1>9. CASE Tu03Triggers \/ PollTriggers
    <2>1. TriggerPresent("irq") \/ TriggerPresent("main")
      BY <1>9 DEF Tu03Triggers, PollTriggers
    <2>2. state' # "DISARMED" \/ UNCHANGED state
      BY <2>1 DEF TriggerPresent, TriggerExhausted, TriggerRefused, TriggerPresents, Presents, AdvanceCard
    <2>3. UNCHANGED <<deck, sm_on, geVars>>
      BY <1>9, <2>1 DEF Tu03Triggers, PollTriggers, TriggerPresent
    <2>4. ~finin' \/ UNCHANGED finin
      BY <1>9 DEF Tu03Triggers, PollTriggers, FininRelease, WireTxReleaseFinin
    <2>. QED
      BY <2>2, <2>3, <2>4
  <1>10. CASE TxFeed \/ PresentStray \/ \E ctx \in {"main", "irq"} : PrefillStep(ctx)
    <2>1. CASE PresentNext
      BY <2>1 DEF PresentNext, CardEnds
    <2>2. CASE PresentStray
      BY <2>2 DEF PresentStray, PushesStray, CardEnds
    <2>. QED
      BY <1>10, <2>1, <2>2 DEF TxFeed, PrefillStep
  <1>11. CASE \E ctx \in {"main", "irq"} : PrefillEnd(ctx)
    BY <1>11 DEF PrefillEnd
  <1>12. CASE PollReleases
    BY <1>12 DEF PollReleases, FininRelease, WireTxReleaseFinin
  <1>13. CASE PollOvertaken \/ PollReentered \/ EjectOvertaken
    <2>1. UNCHANGED <<deck, sm_on>> /\ FininRelease /\ deck # NoDeck
      BY <1>13 DEF PollOvertaken, PollReentered, EjectOvertaken
    <2>2. state' # "DISARMED"
      BY <1>13 DEF PollOvertaken, PollReentered, EjectOvertaken, Presents, TriggerExhausted, TriggerPresents, AdvanceCard
    <2>3. GeReads \/ UNCHANGED geVars
      BY <1>13 DEF PollOvertaken, PollReentered, EjectOvertaken
    <2>. QED
      BY <2>1, <2>2, <2>3 DEF GeReads
  <1>14. CASE PinOvertaken
    BY <1>7, <1>8, <1>14 DEF PinOvertaken
  <1>15. CASE PollRepeats
    <2>1. state' # "DISARMED"
      BY <1>15 DEF PollRepeats, TriggerExhausted, TriggerPresents, Presents, AdvanceCard
    <2>2. UNCHANGED <<wireVars, geVars, deck>> /\ deck # NoDeck
      BY <1>15 DEF PollRepeats
    <2>. QED
      BY <2>1, <2>2
  <1>16. CASE EjectFed
    BY <1>16 DEF EjectFed, PushesStray, CardEnds
  <1>17. CASE ArmOvertaken
    BY <1>17 DEF ArmOvertaken, GeReads
  <1>18. CASE Strobe
    BY <1>18 DEF Strobe, SmPull, SmUrgent, GeHears, GeHearsNoise
  <1>19. CASE Tick
    BY <1>19 DEF Tick, SmTick, GeStrobeEnds
  <1>20. CASE Clear
    BY <1>20 DEF Clear, GeClear
  <1>21. CASE UNCHANGED sysVars
    BY <1>21 DEF sysVars
  <1>. QED
    BY <1>1, <1>2, <1>3, <1>4, <1>5, <1>6, <1>7, <1>8, <1>9, <1>10, <1>11, <1>12, <1>13,
       <1>14, <1>15, <1>16, <1>17, <1>18, <1>19, <1>20, <1>21
       DEF Whole, Overtaken, Step, ReCommand, IpcOp

\* Arming sets every variable the invariant speaks of: it asks nothing of what
\* an overtaken handler has left behind, but that the reader is at rest.
LEMMA ArmMends ==
    ASSUME TypeOK, DisarmedAtRest, IpcArm
    PROVE  CursorInDeck' /\ CursorAtStart' /\ NoIrqStorm' /\ FeedKept'
           /\ LupobTruthful' /\ SmFollowsDeck'
  <1>1. /\ deck' \in Decks /\ card' = FirstCard(deck') /\ col' = 0 /\ half' = 0
        /\ ~presenting' /\ sm_on' /\ ~feed_irq' /\ lupob' = Ready'
    BY DEF IpcArm, CursorReset, WireTxArm, LupobUpdate
  <1>2. card' \in Nat /\ card' < deck'.n_cards
    BY <1>1, FirstCardInDeck
  <1>3. deck'.n_cards \in Nat /\ deck'.ncols[card'] > 0 /\ deck' # NoDeck
    BY <1>1, <1>2, DecksAssumption
  <1>. QED
    BY <1>1, <1>2, <1>3 DEF CursorInDeck, CursorAtStart, NoIrqStorm, FeedKept,
                            LupobTruthful, SmFollowsDeck

----------------------------------------------------------------------------
(* The theorems.                                                           *)

\* feeder_init and wire_tx_init establish the invariant.
LEMMA FeederInvInit == Init => FeederInv
  <1>. SUFFICES ASSUME Init PROVE FeederInv
    OBVIOUS
  <1>. USE DEF Init, WireTxInit, GeInit
  <1>1. WireTypeOK /\ GeTypeOK
    BY EmptyType, EmptySeq DEF WireTypeOK, GeTypeOK
  <1>2. CursorTypeOK /\ ParamsTypeOK /\ ControlTypeOK /\ PinsTypeOK
    BY ParamsAssumption DEF CursorTypeOK, ParamsTypeOK, ControlTypeOK, PinsTypeOK, States, Modes
  <1>3. CursorInDeck /\ CursorAtStart /\ NoIrqStorm /\ FeedKept
    BY DEF CursorInDeck, CursorAtStart, NoIrqStorm, FeedKept
  <1>4. LupobTruthful /\ SmFollowsDeck /\ DisarmedAtRest
    BY DEF LupobTruthful, Ready, SmFollowsDeck, DisarmedAtRest
  <1>. QED
    BY <1>1, <1>2, <1>3, <1>4 DEF FeederInv, TypeOK, SysTypeOK

\* A step is one of a handler in one piece, tears, or arms.
LEMMA FeederInvStep ==
    ASSUME FeederInv, [Next]_vars
    PROVE  FeederInv'
  <1>1. [Whole \/ Overtaken]_sysVars /\ torn' \in BOOLEAN
    BY DEF Next, Whole, FeederInv, TypeOK, vars
  <1>2. TypeOK' /\ DisarmedAtRest'
    BY <1>1, TypeStep, TypeOvertaken, DisarmedAtRestStep DEF FeederInv, TypeOK
  <1>3. CASE torn'
    BY <1>2, <1>3 DEF FeederInv, CursorInDeck, CursorAtStart, NoIrqStorm, FeedKept,
                      LupobTruthful, SmFollowsDeck
  <1>4. CASE IpcArm
    BY <1>2, <1>4, ArmMends DEF FeederInv
  <1>5. CASE ~torn' /\ ~IpcArm
    <2>1. ~torn /\ [Step]_sysVars
      <3>1. CASE Step /\ torn' = (torn \/ ErrorResetInCard)
        BY <1>5, <3>1, Zenon
      <3>2. CASE UNCHANGED <<sysVars, torn>>
        BY <1>5, <3>2
      <3>. QED
        BY <1>5, <3>1, <3>2 DEF Next, vars
    <2>. QED
      BY <1>2, <2>1, CursorInDeckStep, CursorAtStartStep, NoIrqStormStep, FeedKeptStep,
         LupobTruthfulStep, SmFollowsDeckStep DEF FeederInv
  <1>. QED
    BY <1>3, <1>4, <1>5

\* The inductive invariant of the feeder holds in every reachable state: types,
\* and a disarmed reader at rest, whatever interrupts what; the rest until an
\* interrupt comes into the stores of one of the main loop's handlers, and
\* again from the next arming on.
THEOREM FeederInvHolds == Spec => []FeederInv
  <1>1. FeederInv /\ [Next]_vars => FeederInv'
    BY FeederInvStep
  <1>. QED
    BY FeederInvInit, <1>1, PTL DEF Spec

\* Every variable keeps its type, whatever interrupts what; the FIFO never holds
\* more than its depth.
THEOREM TypeCorrect == Spec => []TypeOK
  BY FeederInvHolds, PTL DEF FeederInv

\* Until a handler of the main loop is overtaken, and again from the next arming
\* on, present_next does not index outside the deck and every presentation
\* starts at the first column (feeder.c:123-165 check neither).
THEOREM CursorStaysInDeck == Spec => [](CursorInDeck /\ CursorAtStart)
  BY FeederInvHolds, PTL DEF FeederInv

\* In the same stretches the FIFO interrupt is enabled only during a
\* presentation, and a presentation has a source of further words (wire_tx.c:
\* 26-28, feeder.c:212-216): what a torn rewind breaks, arming mends.
THEOREM FeedHolds == Spec => [](NoIrqStorm /\ FeedKept)
  BY FeederInvHolds, PTL DEF FeederInv

\* In the same stretches LUPOB shows the readiness lupob_update defines, and the
\* state machine runs exactly while a deck is armed (feeder.c:80-91, wire_tx.c:
\* 4-7).
THEOREM HandshakeTruthful == Spec => [](LupobTruthful /\ SmFollowsDeck)
  BY FeederInvHolds, PTL DEF FeederInv

\* Whatever interrupts what, a disarmed reader has no deck, and without a deck
\* the state machine is off and FININ down: arming finds what it relies on.
THEOREM ArmingFindsRest == Spec => []DisarmedAtRest
  BY FeederInvHolds, PTL DEF FeederInv

=============================================================================
