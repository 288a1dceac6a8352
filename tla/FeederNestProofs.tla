-------------------------- MODULE FeederNestProofs --------------------------
(***************************************************************************)
(* Whatever preempts whatever in the feeder's handlers, cards are pushed   *)
(* whole and in order, and the TX interrupt is on exactly while one is     *)
(* presented: for every deck, every FIFO that does not hold a card, and    *)
(* any number of strobes and rewinds.                                      *)
(*                                                                         *)
(* NestInv says where each context can be, given where the others are, as  *)
(* a list of the stacks todo[c] takes: the main loop rests, decides to     *)
(* present, advances, begins, fills, ends or closes a card (AtMain); the   *)
(* TX handler fills, ends or closes one (AtTx); the card feed triggers or  *)
(* passes a parked card (AtGpio); the command handler accepts a command or *)
(* updates the pin (AtRe).  At most one of them is in a card at a time,    *)
(* and to each place belong the values of f, fifo and pushed (Data).       *)
(* Stale is the one overlap: the card feed has begun the card that the     *)
(* main loop had decided to begin, and CardsOutlastFifo says that it       *)
(* cannot also have ended it before the main loop looks again.             *)
(*                                                                         *)
(* The proof runs one context after the other (MainStep, TxStep, GpioStep, *)
(* ReStep) over lemmas for the effect of each statement (Call..., Stored..,*)
(* FillStep and so on) and for what the effect preserves (...Keeps).       *)
(*                                                                         *)
(* BusyInv, at the end, is about LUPOB alone and needs neither hypothesis: *)
(* not the depth of the FIFO, not that no interrupt falls into a rewind.   *)
(***************************************************************************)
EXTENDS FeederNestProps, SequenceTheorems, TLAPS

----------------------------------------------------------------------------
(* Stacks.                                                                 *)

Do(stmt, rest) == <<stmt>> \o rest

IsStack(s) == \E n \in Nat : s = [i \in 1 .. n |-> s[i]]

\* A stack is a sequence, over some set,
LEMMA StackSeq == ASSUME NEW s, IsStack(s) PROVE \E S : s \in Seq(S)
  <1>1. PICK n \in Nat : s = [i \in 1 .. n |-> s[i]]
    BY DEF IsStack
  <1>. DEFINE S == {s[i] : i \in 1 .. n}
  <1>2. s \in [1 .. n -> S]
    BY <1>1
  <1>3. s \in Seq(S)
    BY <1>2
  <1> QED BY <1>3

\* and a sequence over any set is a stack.
LEMMA SeqStack == ASSUME NEW S, NEW s \in Seq(S) PROVE IsStack(s)
  BY DEF IsStack

\* A context with nothing to do has a stack.
LEMMA EmptyStack == IsStack(<<>>)
  BY SeqStack, EmptySeq

\* A statement on top of a stack: what is left when it is done.
LEMMA DoFacts ==
  ASSUME NEW a, NEW s, IsStack(s)
  PROVE IsStack(Do(a,s)) /\ Head(Do(a,s)) = a /\ Tail(Do(a,s)) = s /\ Do(a,s) # <<>>
  <1>1. PICK S : s \in Seq(S)
    BY StackSeq
  <1>. DEFINE V == S \cup {a}
  <1>2. s \in Seq(V) /\ a \in V
    BY <1>1
  <1>. HIDE DEF V
  <1>3. <<a>> \o s \in Seq(V) /\ Head(<<a>> \o s) = a /\ Tail(<<a>> \o s) = s /\ <<a>> \o s # <<>>
    BY <1>2
  <1> QED BY <1>3, SeqStack DEF Do

\* The body of a call goes on top of what the context has still to execute:
\* for bodies of one statement, of two, and so on, statement by statement.
LEMMA Cat1 == ASSUME NEW s, IsStack(s), NEW a PROVE <<a>> \o s = Do(a, s) /\ <<>> \o s = s
  <1>1. PICK S : s \in Seq(S)
    BY StackSeq
  <1> QED BY <1>1, ConcatEmptySeq DEF Do

\* A sequence is its first element before the others.
LEMMA Cons ==
    ASSUME NEW V, NEW x \in Seq(V), NEW y \in Seq(V), NEW a \in V,
           Len(y) = Len(x) + 1, y[1] = a, \A i \in 1 .. Len(x) : y[i + 1] = x[i]
    PROVE  y = <<a>> \o x
  <1>. DEFINE z == <<a>> \o x
  <1>0. <<a>> \in Seq(V) /\ Len(<<a>>) = 1 /\ <<a>>[1] = a
    OBVIOUS
  <1>1. /\ z \in Seq(V) /\ Len(z) = 1 + Len(x)
        /\ \A i \in 1 .. 1 + Len(x) : z[i] = IF i <= 1 THEN <<a>>[i] ELSE x[i - 1]
    BY <1>0, ConcatProperties
  <1>. HIDE DEF z
  <1>2. \A i \in 1 .. Len(y) : z[i] = y[i]
    <2> SUFFICES ASSUME NEW i \in 1 .. Len(y) PROVE z[i] = y[i]
      OBVIOUS
    <2>1. CASE i = 1
      BY <2>1, <1>0, <1>1
    <2>2. CASE i # 1
      <3>1. i - 1 \in 1 .. Len(x) /\ (i - 1) + 1 = i
        BY <2>2
      <3>2. z[i] = x[i - 1]
        BY <2>2, <1>1
      <3> QED BY <3>1, <3>2
    <2> QED BY <2>1, <2>2
  <1>3. z = y
    BY <1>1, <1>2
  <1> QED BY <1>3 DEF z

\* The statements of a body, before what follows the call, one at a time.
LEMMA Unfold ==
    ASSUME NEW V, NEW y \in Seq(V), y # <<>>, NEW s, IsStack(s)
    PROVE  y \o s = Do(Head(y), Tail(y) \o s)
  <1>1. PICK S : s \in Seq(S)
    BY StackSeq
  <1>. DEFINE W == S \cup V
              h == Head(y)
              t == Tail(y)
  <1>2. s \in Seq(W) /\ <<h>> \in Seq(W) /\ t \in Seq(W)
    BY <1>1
  <1>3. t \in Seq(V) /\ h \in V /\ Len(y) = Len(t) + 1 /\ y[1] = h
    OBVIOUS
  <1>4. \A i \in 1 .. Len(t) : y[i + 1] = t[i]
    OBVIOUS
  <1>. HIDE DEF W, h, t
  <1>5. y = <<h>> \o t
    BY <1>3, <1>4, Cons
  <1>6. (<<h>> \o t) \o s = <<h>> \o (t \o s)
    BY <1>2, ConcatAssociative
  <1>. QED
    BY <1>5, <1>6 DEF Do, h, t

\* A body of two statements.
LEMMA Cat2 ==
    ASSUME NEW s, IsStack(s), NEW a, NEW b
    PROVE  <<a, b>> \o s = Do(a, Do(b, s))
  <1>. DEFINE V == {a, b}
              y == <<a, b>>
  <1>1. y \in Seq(V) /\ y # <<>> /\ Head(y) = a /\ Tail(y) = <<b>>
    OBVIOUS
  <1>2. y \o s = Do(a, <<b>> \o s)
    BY <1>1, Unfold
  <1>3. <<b>> \o s = Do(b, s)
    BY Cat1
  <1>. HIDE DEF V
  <1>. QED
    BY <1>2, <1>3

\* A body of three.
LEMMA Cat3 ==
    ASSUME NEW s, IsStack(s), NEW a, NEW b, NEW c
    PROVE  <<a, b, c>> \o s = Do(a, Do(b, Do(c, s)))
  <1>. DEFINE V == {a, b, c}
              y == <<a, b, c>>
  <1>1. y \in Seq(V) /\ y # <<>> /\ Head(y) = a /\ Tail(y) = <<b, c>>
    OBVIOUS
  <1>2. y \o s = Do(a, <<b, c>> \o s)
    BY <1>1, Unfold
  <1>3. <<b, c>> \o s = Do(b, Do(c, s))
    BY Cat2
  <1>. HIDE DEF V
  <1>. QED
    BY <1>2, <1>3

\* A body of four.
LEMMA Cat4 ==
    ASSUME NEW s, IsStack(s), NEW a, NEW b, NEW c, NEW d
    PROVE  <<a, b, c, d>> \o s = Do(a, Do(b, Do(c, Do(d, s))))
  <1>. DEFINE V == {a, b, c, d}
              y == <<a, b, c, d>>
  <1>1. y \in Seq(V) /\ y # <<>> /\ Head(y) = a /\ Tail(y) = <<b, c, d>>
    OBVIOUS
  <1>2. y \o s = Do(a, <<b, c, d>> \o s)
    BY <1>1, Unfold
  <1>3. <<b, c, d>> \o s = Do(b, Do(c, Do(d, s)))
    BY Cat3
  <1>. HIDE DEF V
  <1>. QED
    BY <1>2, <1>3

\* A body of five.
LEMMA Cat5 ==
    ASSUME NEW s, IsStack(s), NEW a, NEW b, NEW c, NEW d, NEW e
    PROVE  <<a, b, c, d, e>> \o s = Do(a, Do(b, Do(c, Do(d, Do(e, s)))))
  <1>. DEFINE V == {a, b, c, d, e}
              y == <<a, b, c, d, e>>
  <1>1. y \in Seq(V) /\ y # <<>> /\ Head(y) = a /\ Tail(y) = <<b, c, d, e>>
    OBVIOUS
  <1>2. y \o s = Do(a, <<b, c, d, e>> \o s)
    BY <1>1, Unfold
  <1>3. <<b, c, d, e>> \o s = Do(b, Do(c, Do(d, Do(e, s))))
    BY Cat4
  <1>. HIDE DEF V
  <1>. QED
    BY <1>2, <1>3

\* A body of six.
LEMMA Cat6 ==
    ASSUME NEW s, IsStack(s), NEW a, NEW b, NEW c, NEW d, NEW e, NEW g
    PROVE  <<a, b, c, d, e, g>> \o s = Do(a, Do(b, Do(c, Do(d, Do(e, Do(g, s))))))
  <1>. DEFINE V == {a, b, c, d, e, g}
              y == <<a, b, c, d, e, g>>
  <1>1. y \in Seq(V) /\ y # <<>> /\ Head(y) = a /\ Tail(y) = <<b, c, d, e, g>>
    OBVIOUS
  <1>2. y \o s = Do(a, <<b, c, d, e, g>> \o s)
    BY <1>1, Unfold
  <1>3. <<b, c, d, e, g>> \o s = Do(b, Do(c, Do(d, Do(e, Do(g, s)))))
    BY Cat5
  <1>. HIDE DEF V
  <1>. QED
    BY <1>2, <1>3

\* A body of seven.
LEMMA Cat7 ==
    ASSUME NEW s, IsStack(s), NEW a, NEW b, NEW c, NEW d, NEW e, NEW g, NEW h
    PROVE  <<a, b, c, d, e, g, h>> \o s = Do(a, Do(b, Do(c, Do(d, Do(e, Do(g, Do(h, s)))))))
  <1>. DEFINE V == {a, b, c, d, e, g, h}
              y == <<a, b, c, d, e, g, h>>
  <1>1. y \in Seq(V) /\ y # <<>> /\ Head(y) = a /\ Tail(y) = <<b, c, d, e, g, h>>
    OBVIOUS
  <1>2. y \o s = Do(a, <<b, c, d, e, g, h>> \o s)
    BY <1>1, Unfold
  <1>3. <<b, c, d, e, g, h>> \o s = Do(b, Do(c, Do(d, Do(e, Do(g, Do(h, s))))))
    BY Cat6
  <1>. HIDE DEF V
  <1>. QED
    BY <1>2, <1>3

\* A body of eight.
LEMMA Cat8 ==
    ASSUME NEW s, IsStack(s), NEW a, NEW b, NEW c, NEW d, NEW e, NEW g, NEW h, NEW i
    PROVE  <<a, b, c, d, e, g, h, i>> \o s = Do(a, Do(b, Do(c, Do(d, Do(e, Do(g, Do(h, Do(i, s))))))))
  <1>. DEFINE V == {a, b, c, d, e, g, h, i}
              y == <<a, b, c, d, e, g, h, i>>
  <1>1. y \in Seq(V) /\ y # <<>> /\ Head(y) = a /\ Tail(y) = <<b, c, d, e, g, h, i>>
    OBVIOUS
  <1>2. y \o s = Do(a, <<b, c, d, e, g, h, i>> \o s)
    BY <1>1, Unfold
  <1>3. <<b, c, d, e, g, h, i>> \o s = Do(b, Do(c, Do(d, Do(e, Do(g, Do(h, Do(i, s)))))))
    BY Cat7
  <1>. HIDE DEF V
  <1>. QED
    BY <1>2, <1>3

\* A body of nine.
LEMMA Cat9 ==
    ASSUME NEW s, IsStack(s), NEW a, NEW b, NEW c, NEW d, NEW e, NEW g, NEW h, NEW i, NEW j
    PROVE  <<a, b, c, d, e, g, h, i, j>> \o s = Do(a, Do(b, Do(c, Do(d, Do(e, Do(g, Do(h, Do(i, Do(j, s)))))))))
  <1>. DEFINE V == {a, b, c, d, e, g, h, i, j}
              y == <<a, b, c, d, e, g, h, i, j>>
  <1>1. y \in Seq(V) /\ y # <<>> /\ Head(y) = a /\ Tail(y) = <<b, c, d, e, g, h, i, j>>
    OBVIOUS
  <1>2. y \o s = Do(a, <<b, c, d, e, g, h, i, j>> \o s)
    BY <1>1, Unfold
  <1>3. <<b, c, d, e, g, h, i, j>> \o s = Do(b, Do(c, Do(d, Do(e, Do(g, Do(h, Do(i, Do(j, s))))))))
    BY Cat8
  <1>. HIDE DEF V
  <1>. QED
    BY <1>2, <1>3

\* A body in two parts, before a stack.
LEMMA Nested ==
    ASSUME NEW s, IsStack(s), NEW V, NEW x \in Seq(V), NEW y \in Seq(V)
    PROVE  (x \o y) \o s = x \o (y \o s)
  <1>1. PICK S : s \in Seq(S)
    BY StackSeq
  <1>. DEFINE W == S \cup V
  <1>2. s \in Seq(W) /\ x \in Seq(W) /\ y \in Seq(W)
    BY <1>1
  <1>. QED
    BY <1>2, ConcatAssociative

----------------------------------------------------------------------------
(* Steps.                                                                  *)

TodoOK == todo = [c \in Contexts |-> todo[c]]

\* Context c goes on with s.
Goes(c, s) == todo' = [todo EXCEPT ![c] = s]

\* What no call changes.
Quietly == UNCHANGED <<f, fifo, asked, struck, drawn, pushed, due, cut, late>>

\* When the context that runs is at a call, core1 replaces it by its body.
LEMMA CallStep ==
    ASSUME NEW c \in Contexts, NEW op \in Calls, NEW r, IsStack(r), TodoOK,
           Runs(c), todo[c] = Do(<<op>>, r), Core1
    PROVE  Goes(c, Body(op) \o r) /\ Quietly
  <1>1. Head(todo[c]) = <<op>> /\ Head(todo[c])[1] = op /\ Tail(todo[c]) = r
    BY DoFacts
  <1>2. \A d \in Contexts : Runs(d) => d = c
    BY DEF Runs, Idle, Contexts, Main, Tx, Gpio, Re
  <1>3. op \notin {"put", "push", "card++", "clear", "poll_cmd", "poll_finin", "wfe"}
    BY DEF Calls
  <1>4. \A d \in Contexts, ops \in SUBSET {"put", "push", "card++", "clear",
                                           "poll_cmd", "poll_finin", "wfe"} : ~At(d, ops)
    BY <1>1, <1>2, <1>3 DEF At
  <1>5. Main \in Contexts
    BY DEF Contexts
  <1>6. \A d \in Contexts : ~Store(d) /\ ~NextCard(d) /\ ~Push(d)
    BY <1>4 DEF Store, NextCard, Push
  <1>7. ~ClearFifo /\ ~PollWaits /\ ~PollActs /\ ~PollPasses /\ ~Wakes
    BY <1>4, <1>5 DEF ClearFifo, PollWaits, PollActs, PollPasses, Wakes
  <1>8. ~Loop
    BY DEF Loop, Runs
  <1>9. Call(c)
    BY <1>2, <1>6, <1>7, <1>8 DEF Core1, Call, At
  <1>. QED
    BY <1>1, <1>9 DEF Call, Then, Goes, Quietly

\* The parts of a store,
LEMMA PutFacts ==
    ASSUME NEW field, NEW value
    PROVE  Put(field, value)[1] = "put" /\ Put(field, value)[2] = field
           /\ Put(field, value)[3] = value
  BY DEF Put

\* What a store leaves alone.
Elsewhere == UNCHANGED <<fifo, asked, struck, drawn, cut, late>>

\* When it is at a store, core1 does the store and nothing else.
LEMMA StoreStep ==
    ASSUME NEW c \in Contexts, NEW field, NEW value, NEW r, IsStack(r), TodoOK,
           Runs(c), todo[c] = Do(Put(field, value), r), Core1
    PROVE  /\ Goes(c, r) /\ Elsewhere
           /\ f' = [f EXCEPT ![field] = value]
           /\ pushed' = IF field = "presenting" /\ value THEN <<>> ELSE pushed
           /\ due' = IF field = "state" /\ value = "CARD_DONE"
                     THEN pushed[1][1] + 1 ELSE due
  <1>1. Head(todo[c]) = Put(field, value) /\ Tail(todo[c]) = r
    BY DoFacts
  <1>2. Head(todo[c])[1] = "put" /\ Head(todo[c])[2] = field /\ Head(todo[c])[3] = value
    BY <1>1, PutFacts
  <1>3. \A d \in Contexts : Runs(d) => d = c
    BY DEF Runs, Idle, Contexts, Main, Tx, Gpio, Re
  <1>4. \A d \in Contexts, ops \in {Calls, {"push"}, {"card++"}, {"clear"}, {"poll_cmd"},
                                    {"poll_finin"}, {"wfe"}} : ~At(d, ops)
    BY <1>2, <1>3 DEF At, Calls
  <1>5. Main \in Contexts
    BY DEF Contexts
  <1>6. \A d \in Contexts : ~Call(d) /\ ~NextCard(d) /\ ~Push(d)
    BY <1>4 DEF Call, NextCard, Push
  <1>7. ~ClearFifo /\ ~PollWaits /\ ~PollActs /\ ~PollPasses /\ ~Wakes
    BY <1>4, <1>5 DEF ClearFifo, PollWaits, PollActs, PollPasses, Wakes
  <1>8. ~Loop
    BY DEF Loop, Runs
  <1>9. Store(c)
    BY <1>3, <1>6, <1>7, <1>8 DEF Core1, Store, At
  <1>10. r = <<>> \o r
    BY Cat1
  <1>. HIDE DEF Goes
  <1>. QED
    BY <1>1, <1>2, <1>9, <1>10 DEF Store, Then, Goes, Elsewhere

\* and of a push.
LEMMA PushFacts ==
    ASSUME NEW card, NEW col
    PROVE  <<"push", card, col>>[1] = "push" /\ Tail(<<"push", card, col>>) = <<card, col>>
  <1>. DEFINE V == {"push", card, col}
  <1>1. <<"push", card, col>> \in Seq(V)
    OBVIOUS
  <1>. QED
    BY <1>1

\* When it is at a push, core1 pushes the column.
LEMMA PushStep ==
    ASSUME NEW c \in Contexts, NEW card, NEW col, NEW r, IsStack(r), TodoOK,
           Runs(c), todo[c] = Do(<<"push", card, col>>, r), Core1
    PROVE  /\ Goes(c, r) /\ UNCHANGED <<f, asked, struck, drawn, due, cut, late>>
           /\ fifo' = IF fifo < FifoDepth THEN fifo + 1 ELSE fifo
           /\ pushed' = Append(pushed, <<card, col>>)
  <1>1. Head(todo[c]) = <<"push", card, col>> /\ Tail(todo[c]) = r
    BY DoFacts
  <1>2. Head(todo[c])[1] = "push" /\ Tail(Head(todo[c])) = <<card, col>>
    BY <1>1, PushFacts
  <1>3. \A d \in Contexts : Runs(d) => d = c
    BY DEF Runs, Idle, Contexts, Main, Tx, Gpio, Re
  <1>4. \A d \in Contexts, ops \in {Calls, {"put"}, {"card++"}, {"clear"}, {"poll_cmd"},
                                    {"poll_finin"}, {"wfe"}} : ~At(d, ops)
    BY <1>2, <1>3 DEF At, Calls
  <1>5. Main \in Contexts
    BY DEF Contexts
  <1>6. \A d \in Contexts : ~Call(d) /\ ~NextCard(d) /\ ~Store(d)
    BY <1>4 DEF Call, NextCard, Store
  <1>7. ~ClearFifo /\ ~PollWaits /\ ~PollActs /\ ~PollPasses /\ ~Wakes
    BY <1>4, <1>5 DEF ClearFifo, PollWaits, PollActs, PollPasses, Wakes
  <1>8. ~Loop
    BY DEF Loop, Runs
  <1>9. Push(c)
    BY <1>3, <1>6, <1>7, <1>8 DEF Core1, Push, At
  <1>10. r = <<>> \o r
    BY Cat1
  <1>. QED
    BY <1>1, <1>2, <1>9, <1>10 DEF Push, Then, Goes

\* When it is at card++, core1 counts the card.
LEMMA NextCardStep ==
    ASSUME NEW c \in Contexts, NEW r, IsStack(r), TodoOK,
           Runs(c), todo[c] = Do(<<"card++">>, r), Core1
    PROVE  /\ Goes(c, r) /\ UNCHANGED <<fifo, asked, struck, drawn, pushed, due, cut, late>>
           /\ f' = [f EXCEPT !.card = f.card + 1]
  <1>1. Head(todo[c]) = <<"card++">> /\ Tail(todo[c]) = r /\ Head(todo[c])[1] = "card++"
    BY DoFacts
  <1>3. \A d \in Contexts : Runs(d) => d = c
    BY DEF Runs, Idle, Contexts, Main, Tx, Gpio, Re
  <1>4. \A d \in Contexts, ops \in {Calls, {"put"}, {"push"}, {"clear"}, {"poll_cmd"},
                                    {"poll_finin"}, {"wfe"}} : ~At(d, ops)
    BY <1>1, <1>3 DEF At, Calls
  <1>5. Main \in Contexts
    BY DEF Contexts
  <1>6. \A d \in Contexts : ~Call(d) /\ ~Push(d) /\ ~Store(d)
    BY <1>4 DEF Call, Push, Store
  <1>7. ~ClearFifo /\ ~PollWaits /\ ~PollActs /\ ~PollPasses /\ ~Wakes
    BY <1>4, <1>5 DEF ClearFifo, PollWaits, PollActs, PollPasses, Wakes
  <1>8. ~Loop
    BY DEF Loop, Runs
  <1>9. NextCard(c)
    BY <1>3, <1>6, <1>7, <1>8 DEF Core1, NextCard, At
  <1>10. r = <<>> \o r
    BY Cat1
  <1>. QED
    BY <1>1, <1>9, <1>10 DEF NextCard, Then, Goes

\* When the main loop is at wire_tx_arm, core1 empties the FIFO.
LEMMA ClearStep ==
    ASSUME NEW r, IsStack(r), TodoOK, Runs(Main), todo[Main] = Do(<<"clear">>, r), Core1
    PROVE  /\ Goes(Main, r) /\ UNCHANGED <<f, struck, drawn, cut, late>>
           /\ fifo' = 0 /\ pushed' = <<>> /\ due' = Loader /\ asked' = FALSE
  <1>1. Head(todo[Main]) = <<"clear">> /\ Tail(todo[Main]) = r /\ Head(todo[Main])[1] = "clear"
    BY DoFacts
  <1>3. \A d \in Contexts : Runs(d) => d = Main
    BY DEF Runs, Idle, Contexts, Main, Tx, Gpio, Re
  <1>4. \A d \in Contexts, ops \in {Calls, {"put"}, {"push"}, {"card++"}, {"poll_cmd"},
                                    {"poll_finin"}, {"wfe"}} : ~At(d, ops)
    BY <1>1, <1>3 DEF At, Calls
  <1>5. Main \in Contexts
    BY DEF Contexts
  <1>6. \A d \in Contexts : ~Call(d) /\ ~Push(d) /\ ~Store(d) /\ ~NextCard(d)
    BY <1>4 DEF Call, Push, Store, NextCard
  <1>7. ~PollWaits /\ ~PollActs /\ ~PollPasses /\ ~Wakes
    BY <1>4, <1>5 DEF PollWaits, PollActs, PollPasses, Wakes
  <1>8. ~Loop
    BY <1>5 DEF Loop, Runs
  <1>9. ClearFifo
    BY <1>6, <1>7, <1>8 DEF Core1
  <1>10. r = <<>> \o r
    BY Cat1
  <1>. QED
    BY <1>1, <1>9, <1>10 DEF ClearFifo, Then, Goes

\* finin_release, as a step of the context that calls it.
LEMMA CallFinin ==
    ASSUME NEW c \in Contexts, NEW r, IsStack(r), TodoOK,
           Runs(c), todo[c] = Do(<<"finin_release">>, r), Core1
    PROVE  /\ Quietly
           /\ Goes(c, IF f.finin_pending THEN Do(Put("finin_pending", FALSE), r) ELSE r)
  <1>1. Body("finin_release") = FininRelease
    BY DEF Body
  <1>2. Quietly /\ Goes(c, FininRelease \o r)
    BY <1>1, CallStep DEF Calls
  <1>3. FininRelease \o r = IF f.finin_pending THEN Do(Put("finin_pending", FALSE), r) ELSE r
    BY Cat1 DEF FininRelease
  <1>. QED
    BY <1>2, <1>3

\* The bodies that are put together from a beginning and a conditional rest.
LEMMA Behind0 ==
    ASSUME NEW s, IsStack(s), NEW a
    PROVE  (<<>> \o <<a>>) \o s = Do(a, s)
  <1>. DEFINE V == {a}
  <1>1. <<>> \in Seq(V) /\ <<a>> \in Seq(V)
    OBVIOUS
  <1>2. <<a>> \o s = Do(a, s)
    BY Cat1
  <1>2a. IsStack(Do(a, s))
    BY DoFacts
  <1>3. <<>> \o Do(a, s) = Do(a, s)
    BY <1>2a, Cat1
  <1>. HIDE DEF V
  <1>4. (<<>> \o <<a>>) \o s = <<>> \o (<<a>> \o s)
    BY <1>1, Nested
  <1>. QED
    BY <1>2, <1>3, <1>4

\* A beginning of one statement and a rest of one,
LEMMA Behind1 ==
    ASSUME NEW s, IsStack(s), NEW a, NEW b
    PROVE  (<<a>> \o <<b>>) \o s = Do(a, Do(b, s))
  <1>. DEFINE V == {a, b}
  <1>1. <<a>> \in Seq(V) /\ <<b>> \in Seq(V)
    OBVIOUS
  <1>2. <<b>> \o s = Do(b, s)
    BY Cat1
  <1>2a. IsStack(Do(b, s))
    BY DoFacts
  <1>3. <<a>> \o Do(b, s) = Do(a, Do(b, s))
    BY <1>2a, Cat1
  <1>. HIDE DEF V
  <1>4. (<<a>> \o <<b>>) \o s = <<a>> \o (<<b>> \o s)
    BY <1>1, Nested
  <1>. QED
    BY <1>2, <1>3, <1>4

\* a rest of two,
LEMMA Behind2 ==
    ASSUME NEW s, IsStack(s), NEW a, NEW b, NEW c
    PROVE  (<<a>> \o <<b, c>>) \o s = Do(a, Do(b, Do(c, s)))
  <1>. DEFINE V == {a, b, c}
  <1>1. <<a>> \in Seq(V) /\ <<b, c>> \in Seq(V)
    OBVIOUS
  <1>2. <<b, c>> \o s = Do(b, Do(c, s))
    BY Cat2
  <1>2a. IsStack(Do(b, Do(c, s)))
    BY DoFacts
  <1>3. <<a>> \o Do(b, Do(c, s)) = Do(a, Do(b, Do(c, s)))
    BY <1>2a, Cat1
  <1>. HIDE DEF V
  <1>4. (<<a>> \o <<b, c>>) \o s = <<a>> \o (<<b, c>> \o s)
    BY <1>1, Nested
  <1>. QED
    BY <1>2, <1>3, <1>4

\* a rest of five,
LEMMA Behind5 ==
    ASSUME NEW s, IsStack(s), NEW a, NEW b, NEW c, NEW d, NEW e, NEW g
    PROVE  (<<a>> \o <<b, c, d, e, g>>) \o s = Do(a, Do(b, Do(c, Do(d, Do(e, Do(g, s))))))
  <1>. DEFINE V == {a, b, c, d, e, g}
  <1>1. <<a>> \in Seq(V) /\ <<b, c, d, e, g>> \in Seq(V)
    OBVIOUS
  <1>2. <<b, c, d, e, g>> \o s = Do(b, Do(c, Do(d, Do(e, Do(g, s)))))
    BY Cat5
  <1>2a. IsStack(Do(b, Do(c, Do(d, Do(e, Do(g, s))))))
    BY DoFacts
  <1>3. <<a>> \o Do(b, Do(c, Do(d, Do(e, Do(g, s))))) = Do(a, Do(b, Do(c, Do(d, Do(e, Do(g, s))))))
    BY <1>2a, Cat1
  <1>. HIDE DEF V
  <1>4. (<<a>> \o <<b, c, d, e, g>>) \o s = <<a>> \o (<<b, c, d, e, g>> \o s)
    BY <1>1, Nested
  <1>. QED
    BY <1>2, <1>3, <1>4

\* a beginning of three and a rest of one.
LEMMA Behind31 ==
    ASSUME NEW s, IsStack(s), NEW a, NEW b, NEW c, NEW d
    PROVE  (<<a, b, c>> \o <<d>>) \o s = Do(a, Do(b, Do(c, Do(d, s))))
  <1>. DEFINE V == {a, b, c, d}
  <1>1. <<a, b, c>> \in Seq(V) /\ <<d>> \in Seq(V)
    OBVIOUS
  <1>2. <<d>> \o s = Do(d, s)
    BY Cat1
  <1>2a. IsStack(Do(d, s))
    BY DoFacts
  <1>3. <<a, b, c>> \o Do(d, s) = Do(a, Do(b, Do(c, Do(d, s))))
    BY <1>2a, Cat3
  <1>. HIDE DEF V
  <1>4. (<<a, b, c>> \o <<d>>) \o s = <<a, b, c>> \o (<<d>> \o s)
    BY <1>1, Nested
  <1>. QED
    BY <1>2, <1>3, <1>4

\* advance_card: DONE after the last card, else the next one.
LEMMA CallAdvance ==
    ASSUME NEW c \in Contexts, NEW r, IsStack(r), TodoOK,
           Runs(c), todo[c] = Do(<<"advance_card">>, r), Core1
    PROVE  /\ Quietly
           /\ \/ Goes(c, Do(Put("col", 0), Do(Put("state", "DONE"), r)))
              \/ Goes(c, Do(Put("col", 0), Do(<<"card++">>, Do(Put("state", "ARMED_WAIT"), r))))
  <1>1. Body("advance_card") = AdvanceCard
    BY DEF Body
  <1>2. Quietly /\ Goes(c, AdvanceCard \o r)
    BY <1>1, CallStep DEF Calls
  <1>. DEFINE a == Put("col", 0)
              b == Put("state", "DONE")
              d == <<"card++">>
              e == Put("state", "ARMED_WAIT")
  <1>3. AdvanceCard = <<a>> \o <<b>> \/ AdvanceCard = <<a>> \o <<d, e>>
    BY DEF AdvanceCard
  <1>. HIDE DEF a, b, d, e
  <1>4. (<<a>> \o <<b>>) \o r = Do(a, Do(b, r))
        /\ (<<a>> \o <<d, e>>) \o r = Do(a, Do(d, Do(e, r)))
    BY Behind1, Behind2
  <1>5. Goes(c, Do(a, Do(b, r))) \/ Goes(c, Do(a, Do(d, Do(e, r))))
    BY <1>2, <1>3, <1>4
  <1>. QED
    BY <1>2, <1>5 DEF a, b, d, e

\* present_next: a push, then the next column or the five stores of the end.
LEMMA CallPresentNext ==
    ASSUME NEW c \in Contexts, NEW r, IsStack(r), TodoOK,
           Runs(c), todo[c] = Do(<<"present_next">>, r), Core1
    PROVE  /\ Quietly
           /\ f.col + 1 < NCols =>
                Goes(c, Do(<<"push", f.card, f.col>>, Do(Put("col", f.col + 1), r)))
           /\ ~(f.col + 1 < NCols) =>
                Goes(c, Do(<<"push", f.card, f.col>>, Do(Put("col", 0),
                         Do(Put("presenting", FALSE), Do(Put("finin_pending", TRUE),
                          Do(Put("state", "CARD_DONE"), Do(Put("feed_irq", FALSE), r)))))))
  <1>1. Body("present_next") = PresentNext
    BY DEF Body
  <1>2. Quietly /\ Goes(c, PresentNext \o r)
    BY <1>1, CallStep DEF Calls
  <1>. DEFINE p == <<"push", f.card, f.col>>
              n == Put("col", f.col + 1)
              x == Put("col", 0)
              y == Put("presenting", FALSE)
              z == Put("finin_pending", TRUE)
              w == Put("state", "CARD_DONE")
              u == Put("feed_irq", FALSE)
  <1>3. PresentNext = IF f.col + 1 < NCols THEN <<p>> \o <<n>> ELSE <<p>> \o <<x, y, z, w, u>>
    BY DEF PresentNext
  <1>. HIDE DEF p, n, x, y, z, w, u
  <1>4. (<<p>> \o <<n>>) \o r = Do(p, Do(n, r))
        /\ (<<p>> \o <<x, y, z, w, u>>) \o r = Do(p, Do(x, Do(y, Do(z, Do(w, Do(u, r))))))
    BY Behind1, Behind5
  <1>5. /\ f.col + 1 < NCols => Goes(c, Do(p, Do(n, r)))
        /\ ~(f.col + 1 < NCols) => Goes(c, Do(p, Do(x, Do(y, Do(z, Do(w, Do(u, r)))))))
    BY <1>2, <1>3, <1>4
  <1>. QED
    BY <1>2, <1>5 DEF p, n, x, y, z, w, u

\* feeder_on_re_cmd: a command is accepted in ARMED_WAIT and CARD_DONE only.
LEMMA CallOnRead ==
    ASSUME NEW c \in Contexts, NEW r, IsStack(r), TodoOK,
           Runs(c), todo[c] = Do(<<"on_read">>, r), Core1
    PROVE  /\ Quietly
           /\ f.state \in {"ARMED_WAIT", "CARD_DONE"} =>
                Goes(c, Do(<<"finin_release">>, Do(Put("cmd_pending", TRUE),
                         Do(<<"lupob_update">>, Do(<<"lupob_update">>, r)))))
           /\ f.state \notin {"ARMED_WAIT", "CARD_DONE"} =>
                Goes(c, Do(<<"lupob_update">>, r))
  <1>1. Body("on_read") = OnRead
    BY DEF Body
  <1>2. Quietly /\ Goes(c, OnRead \o r)
    BY <1>1, CallStep DEF Calls
  <1>. DEFINE x == <<"finin_release">>
              y == Put("cmd_pending", TRUE)
              z == <<"lupob_update">>
  <1>3. OnRead = IF f.state \in {"ARMED_WAIT", "CARD_DONE"} THEN <<x, y, z>> \o <<z>>
                                                          ELSE <<>> \o <<z>>
    BY DEF OnRead
  <1>. HIDE DEF x, y, z
  <1>4. (<<x, y, z>> \o <<z>>) \o r = Do(x, Do(y, Do(z, Do(z, r))))
        /\ (<<>> \o <<z>>) \o r = Do(z, r)
    BY Behind31, Behind0
  <1>5. /\ f.state \in {"ARMED_WAIT", "CARD_DONE"} => Goes(c, Do(x, Do(y, Do(z, Do(z, r)))))
        /\ f.state \notin {"ARMED_WAIT", "CARD_DONE"} => Goes(c, Do(z, r))
    BY <1>2, <1>3, <1>4
  <1>. QED
    BY <1>2, <1>5 DEF x, y, z

\* feeder_on_tu03: the trigger, the advance past a parked card, or nothing.
LEMMA CallOnTu03 ==
    ASSUME NEW c \in Contexts, NEW r, IsStack(r), TodoOK, f.cmd_pending \in BOOLEAN,
           Runs(c), todo[c] = Do(<<"on_tu03">>, r), Core1
    PROVE  /\ Quietly
           /\ f.cmd_pending =>
                Goes(c, Do(<<"finin_release">>, Do(<<"trigger_present">>, r)))
           /\ ~f.cmd_pending /\ f.state = "CARD_DONE" =>
                Goes(c, Do(<<"finin_release">>, Do(<<"advance_card">>, Do(<<"lupob_update">>, r))))
           /\ ~f.cmd_pending /\ f.state # "CARD_DONE" => Goes(c, r)
  <1>1. Body("on_tu03") = OnTu03
    BY DEF Body
  <1>2. Quietly /\ Goes(c, OnTu03 \o r)
    BY <1>1, CallStep DEF Calls
  <1>. DEFINE x == <<"finin_release">>
              y == <<"trigger_present">>
              z == <<"advance_card">>
              w == <<"lupob_update">>
  <1>3. /\ f.cmd_pending => OnTu03 = <<x, y>>
        /\ ~f.cmd_pending /\ f.state = "CARD_DONE" => OnTu03 = <<x, z, w>>
        /\ ~f.cmd_pending /\ f.state # "CARD_DONE" => OnTu03 = <<>>
    BY DEF OnTu03
  <1>. HIDE DEF x, y, z, w
  <1>4. <<x, y>> \o r = Do(x, Do(y, r)) /\ <<x, z, w>> \o r = Do(x, Do(z, Do(w, r)))
        /\ <<>> \o r = r
    BY Cat1, Cat2, Cat3
  <1>5. /\ f.cmd_pending => Goes(c, Do(x, Do(y, r)))
        /\ ~f.cmd_pending /\ f.state = "CARD_DONE" => Goes(c, Do(x, Do(z, Do(w, r))))
        /\ ~f.cmd_pending /\ f.state # "CARD_DONE" => Goes(c, r)
    BY <1>2, <1>3, <1>4
  <1>. QED
    BY <1>2, <1>5 DEF x, y, z, w

\* The TX FIFO handler pushes while a card is presented.
LEMMA CallOnTxfeed ==
    ASSUME NEW c \in Contexts, NEW r, IsStack(r), TodoOK,
           Runs(c), todo[c] = Do(<<"on_txfeed">>, r), Core1
    PROVE  Quietly /\ Goes(c, IF f.presenting THEN Do(<<"present_next">>, r) ELSE r)
  <1>1. Body("on_txfeed") = OnTxfeed
    BY DEF Body
  <1>2. Quietly /\ Goes(c, OnTxfeed \o r)
    BY <1>1, CallStep DEF Calls
  <1>3. OnTxfeed \o r = IF f.presenting THEN Do(<<"present_next">>, r) ELSE r
    BY Cat1 DEF OnTxfeed
  <1>. QED
    BY <1>2, <1>3

\* trigger_present returns when the command has gone.
LEMMA CallTrigger ==
    ASSUME NEW c \in Contexts, NEW r, IsStack(r), TodoOK,
           Runs(c), todo[c] = Do(<<"trigger_present">>, r), Core1
    PROVE  /\ Quietly
           /\ Goes(c, IF f.cmd_pending THEN Do(Put("cmd_pending", FALSE), Do(<<"parked">>, r))
                                       ELSE r)
  <1>1. Body("trigger_present") = TriggerPresent
    BY DEF Body
  <1>2. Quietly /\ Goes(c, TriggerPresent \o r)
    BY <1>1, CallStep DEF Calls
  <1>. DEFINE x == Put("cmd_pending", FALSE)
              y == <<"parked">>
  <1>3. TriggerPresent = IF f.cmd_pending THEN <<x, y>> ELSE <<>>
    BY DEF TriggerPresent
  <1>. HIDE DEF x, y
  <1>4. <<x, y>> \o r = Do(x, Do(y, r)) /\ <<>> \o r = r
    BY Cat1, Cat2
  <1>5. Goes(c, IF f.cmd_pending THEN Do(x, Do(y, r)) ELSE r)
    BY <1>2, <1>3, <1>4
  <1>. QED
    BY <1>2, <1>5 DEF x, y

\* What trigger_present does with a parked card.
LEMMA CallParked ==
    ASSUME NEW c \in Contexts, NEW r, IsStack(r), TodoOK,
           Runs(c), todo[c] = Do(<<"parked">>, r), Core1
    PROVE  /\ Quietly
           /\ f.state = "CARD_DONE" =>
                Goes(c, Do(<<"advance_card">>, Do(<<"present_card">>, r)))
           /\ f.state # "CARD_DONE" => Goes(c, Do(<<"present_card">>, r))
  <1>1. Body("parked") = Parked
    BY DEF Body
  <1>2. Quietly /\ Goes(c, Parked \o r)
    BY <1>1, CallStep DEF Calls
  <1>. DEFINE x == <<"advance_card">>
              y == <<"present_card">>
  <1>3. Parked = IF f.state = "CARD_DONE" THEN <<x>> \o <<y>> ELSE <<>> \o <<y>>
    BY DEF Parked
  <1>. HIDE DEF x, y
  <1>4. (<<x>> \o <<y>>) \o r = Do(x, Do(y, r)) /\ (<<>> \o <<y>>) \o r = Do(y, r)
    BY Behind1, Behind0
  <1>5. /\ f.state = "CARD_DONE" => Goes(c, Do(x, Do(y, r)))
        /\ f.state # "CARD_DONE" => Goes(c, Do(y, r))
    BY <1>2, <1>3, <1>4
  <1>. QED
    BY <1>2, <1>5 DEF x, y

\* present_card presents a card that waits, and else only updates LUPOB.
LEMMA CallPresentCard ==
    ASSUME NEW c \in Contexts, NEW r, IsStack(r), TodoOK,
           Runs(c), todo[c] = Do(<<"present_card">>, r), Core1
    PROVE  /\ Quietly
           /\ f.state = "ARMED_WAIT" =>
                Goes(c, Do(Put("state", "PRESENTING"), Do(Put("presenting", TRUE),
                         Do(<<"lupob_update">>, Do(<<"prefill">>, r)))))
           /\ f.state # "ARMED_WAIT" => Goes(c, Do(<<"lupob_update">>, r))
  <1>1. Body("present_card") = PresentCard
    BY DEF Body
  <1>2. Quietly /\ Goes(c, PresentCard \o r)
    BY <1>1, CallStep DEF Calls
  <1>. DEFINE x == Put("state", "PRESENTING")
              y == Put("presenting", TRUE)
              z == <<"lupob_update">>
              w == <<"prefill">>
  <1>3. PresentCard = IF f.state = "ARMED_WAIT" THEN <<x, y, z, w>> ELSE <<z>>
    BY DEF PresentCard
  <1>. HIDE DEF x, y, z, w
  <1>4. <<x, y, z, w>> \o r = Do(x, Do(y, Do(z, Do(w, r)))) /\ <<z>> \o r = Do(z, r)
    BY Cat1, Cat4
  <1>5. /\ f.state = "ARMED_WAIT" => Goes(c, Do(x, Do(y, Do(z, Do(w, r)))))
        /\ f.state # "ARMED_WAIT" => Goes(c, Do(z, r))
    BY <1>2, <1>3, <1>4
  <1>. QED
    BY <1>2, <1>5 DEF x, y, z, w

\* The prefill loop: one more column, the interrupt, or nothing.
LEMMA CallPrefill ==
    ASSUME NEW c \in Contexts, NEW r, IsStack(r), TodoOK, f.presenting \in BOOLEAN,
           fifo \in Nat, Runs(c), todo[c] = Do(<<"prefill">>, r), Core1
    PROVE  /\ Quietly
           /\ f.presenting /\ fifo < FifoDepth =>
                Goes(c, Do(<<"present_next">>, Do(<<"prefill">>, r)))
           /\ f.presenting /\ ~(fifo < FifoDepth) => Goes(c, Do(Put("feed_irq", TRUE), r))
           /\ ~f.presenting => Goes(c, r)
  <1>1. Body("prefill") = Prefill
    BY DEF Body
  <1>2. Quietly /\ Goes(c, Prefill \o r)
    BY <1>1, CallStep DEF Calls
  <1>. DEFINE x == <<"present_next">>
              y == <<"prefill">>
              z == Put("feed_irq", TRUE)
  <1>3. /\ f.presenting /\ fifo < FifoDepth => Prefill = <<x, y>>
        /\ f.presenting /\ ~(fifo < FifoDepth) => Prefill = <<z>>
        /\ ~f.presenting => Prefill = <<>>
    <2>1. fifo < FifoDepth <=> ~(fifo >= FifoDepth)
      BY NestAssumption
    <2>. QED
      BY <2>1, Zenon DEF Prefill
  <1>. HIDE DEF x, y, z
  <1>4. <<x, y>> \o r = Do(x, Do(y, r)) /\ <<z>> \o r = Do(z, r) /\ <<>> \o r = r
    BY Cat1, Cat2
  <1>5. /\ f.presenting /\ fifo < FifoDepth => Goes(c, Do(x, Do(y, r)))
        /\ f.presenting /\ ~(fifo < FifoDepth) => Goes(c, Do(z, r))
        /\ ~f.presenting => Goes(c, r)
    BY <1>2, <1>3, <1>4
  <1>. QED
    BY <1>2, <1>5 DEF x, y, z

\* lupob_update computes the pin before it writes it.
LEMMA CallUpdate ==
    ASSUME NEW c \in Contexts, NEW r, IsStack(r), TodoOK,
           Runs(c), todo[c] = Do(<<"lupob_update">>, r), Core1
    PROVE  Quietly /\ Goes(c, Do(Put("lupob", Ready), r))
  <1>1. Body("lupob_update") = <<Put("lupob", Ready)>>
    BY DEF Body
  <1>2. Quietly /\ Goes(c, Body("lupob_update") \o r)
    BY CallStep DEF Calls
  <1>3. <<Put("lupob", Ready)>> \o r = Do(Put("lupob", Ready), r)
    BY Cat1
  <1>. QED
    BY <1>1, <1>2, <1>3

\* What is left when trigger_present returns, or present_next in the prefill
\* loop or the TX handler.
After(c) == IF c = Main THEN Do(<<"poll_finin">>, <<>>) ELSE <<>>
Again(c) == IF c = Tx THEN <<>> ELSE Do(<<"prefill">>, After(c))

\* The five stores at a card's end.
End5(c) == Do(Put("feed_irq", FALSE), Again(c))
End4(c) == Do(Put("state", "CARD_DONE"), End5(c))
End3(c) == Do(Put("finin_pending", TRUE), End4(c))
End2(c) == Do(Put("presenting", FALSE), End3(c))
End1(c) == Do(Put("col", 0), End2(c))

\* The main loop with nothing of a card in hand.
Resting(s) ==
    \/ s = <<>>
    \/ \E op \in {"poll_cmd", "poll_finin", "wfe"} : s = Do(<<op>>, <<>>)
    \/ s = Do(<<"finin_release">>, Do(<<"lupob_update">>, Do(<<"wfe">>, <<>>)))
    \/ s = Do(Put("finin_pending", FALSE), Do(<<"lupob_update">>, Do(<<"wfe">>, <<>>)))
    \/ \E r \in {<<>>, Do(<<"wfe">>, <<>>), After(Main)} :
          \/ s = Do(<<"lupob_update">>, r)
          \/ \E v \in BOOLEAN : s = Do(Put("lupob", v), r)

\* trigger_present before it has taken the command off.
Deciding(s, c) ==
    \/ s = Do(<<"trigger_present">>, After(c))
    \/ s = Do(Put("cmd_pending", FALSE), Do(<<"parked">>, After(c)))

\* advance_card, with the stack r behind it.
Advances(s, r) ==
    \/ s = Do(<<"advance_card">>, r)
    \/ s = Do(Put("col", 0), Do(Put("state", "DONE"), r))
    \/ s = Do(Put("state", "DONE"), r)
    \/ s = Do(Put("col", 0), Do(<<"card++">>, Do(Put("state", "ARMED_WAIT"), r)))
    \/ s = Do(<<"card++">>, Do(Put("state", "ARMED_WAIT"), r))
    \/ s = Do(Put("state", "ARMED_WAIT"), r)

Opening(c) == Do(<<"present_card">>, After(c))
Start2(c) == Do(Put("presenting", TRUE), Do(<<"lupob_update">>, Again(c)))
Start1(c) == Do(Put("state", "PRESENTING"), Start2(c))

\* What the card feed does besides triggering.
Feeding == Do(<<"lupob_update">>, <<>>)
Quiet(s) ==
    \/ s = <<>>
    \/ s = Do(<<"on_tu03">>, <<>>)
    \/ s = Do(<<"finin_release">>, Do(<<"advance_card">>, Feeding))
    \/ s = Do(Put("finin_pending", FALSE), Do(<<"advance_card">>, Feeding))
    \/ Advances(s, Feeding)
    \/ s = Feeding
    \/ \E v \in BOOLEAN : s = Do(Put("lupob", v), <<>>)

----------------------------------------------------------------------------
(* The invariant.                                                          *)

\* A card does not fit into the FIFO: 80 columns, and 4 words deep, in the program.
CardsOutlastFifo == NCols > FifoDepth + 1

N == Len(pushed)

\* The column the cursor is at comes next.
Fits == f.col = N /\ N < NCols /\ (pushed # <<>> => pushed[1][1] = f.card)
\* It has been pushed, and
Just == f.col + 1 = N /\ pushed[1][1] = f.card

\* Context c is to push, or has pushed, the cursor's column.
FillAt(c) ==
    \/ /\ Fits
       /\ \/ c = Tx /\ fifo < FifoDepth /\ todo[c] = Do(<<"on_txfeed">>, <<>>)
          \/ /\ c # Tx
             /\ \/ todo[c] = Do(<<"lupob_update">>, Again(c))
                \/ todo[c] = Do(Put("lupob", FALSE), Again(c))
                \/ todo[c] = Again(c)
                \/ todo[c] = Do(Put("feed_irq", TRUE), After(c))
          \/ /\ fifo < FifoDepth
             /\ \/ todo[c] = Do(<<"present_next">>, Again(c))
                \/ /\ f.col + 1 < NCols
                   /\ todo[c] = Do(<<"push", f.card, f.col>>, Do(Put("col", f.col + 1), Again(c)))
                \/ /\ f.col + 1 = NCols
                   /\ todo[c] = Do(<<"push", f.card, f.col>>, End1(c))
    \/ Just /\ N < NCols /\ todo[c] = Do(Put("col", f.col + 1), Again(c))
    \/ Just /\ N = NCols /\ todo[c] = End1(c)
    \/ f.col = 0 /\ N = NCols /\ pushed[1][1] = f.card /\ todo[c] = End2(c)

Filling(c) ==
    /\ FillAt(c)
    /\ f.presenting /\ f.state = "PRESENTING" /\ ~f.cmd_pending
    /\ f.feed_irq <=> c = Tx

Ended(c) ==
    /\ todo[c] = End3(c) \/ todo[c] = End4(c)
    /\ ~f.presenting /\ f.state = "PRESENTING" /\ ~f.cmd_pending
    /\ f.col = 0 /\ N = NCols /\ pushed[1][1] = f.card
    /\ f.feed_irq <=> c = Tx

Closing(c) ==
    /\ todo[c] = End5(c) \/ (c # Tx /\ todo[c] = Again(c))
    /\ ~f.presenting /\ (f.cmd_pending => struck)
    /\ f.feed_irq <=> c = Tx

\* Nothing of a card is anywhere, and the machine waits for one.
Fresh == asked /\ fifo = 0 /\ ~f.presenting /\ ~f.feed_irq /\ Idle(Tx)

\* The feed has begun the card that the main loop was about to begin.
Stale == /\ asked /\ struck /\ f.presenting
         /\ N <= fifo + (IF drawn THEN 1 ELSE 0)

Yields(s) == Resting(s) \/ Deciding(s, Main)

Clear(c) == IF c = Main THEN Quiet(todo[Gpio]) ELSE Yields(todo[Main])

\* Context c is in trigger_present.
Triggering(c) ==
    \/ /\ Deciding(todo[c], c)
       /\ Fresh \/ (c = Main /\ Stale)
       /\ c = Gpio => Yields(todo[Main])
    \/ /\ ~f.cmd_pending /\ Clear(c)
       /\ \/ /\ todo[c] = Do(<<"parked">>, After(c))
             /\ Fresh \/ (c = Main /\ Stale)
          \/ /\ Advances(todo[c], Opening(c)) /\ Fresh
             /\ late \/ (f.state = "CARD_DONE" /\ (c = Main => Idle(Gpio)))
          \/ /\ todo[c] = Opening(c) /\ f.state # "CARD_DONE"
             /\ Fresh \/ (c = Main /\ Stale)
          \/ todo[c] = Start1(c) /\ Fresh /\ f.state = "ARMED_WAIT"
          \/ todo[c] = Start2(c) /\ Fresh /\ f.state = "PRESENTING"
    \/ (Filling(c) \/ Ended(c) \/ Closing(c)) /\ Clear(c) /\ Idle(Tx)

AtMain == Resting(todo[Main]) \/ Triggering(Main)

AtTx == Idle(Tx) \/ Filling(Tx) \/ Ended(Tx) \/ Closing(Tx)

AtGpio ==
    \/ Idle(Gpio)
    \/ /\ struck /\ Idle(Re)
       /\ \/ /\ todo[Gpio] = Do(<<"on_tu03">>, <<>>)
             /\ f.cmd_pending => Fresh /\ Yields(todo[Main])
          \/ /\ \/ todo[Gpio] = Do(<<"finin_release">>, Do(<<"trigger_present">>, <<>>))
                \/ todo[Gpio] = Do(Put("finin_pending", FALSE), Do(<<"trigger_present">>, <<>>))
             /\ Fresh /\ Yields(todo[Main])
          \/ Triggering(Gpio)
          \/ todo[Gpio] = Feeding
          \/ \E v \in BOOLEAN : todo[Gpio] = Do(Put("lupob", v), <<>>)
          \/ /\ ~f.presenting /\ ~f.cmd_pending /\ f.state = "CARD_DONE"
             /\ \/ todo[Gpio] = Do(<<"finin_release">>, Do(<<"advance_card">>, Feeding))
                \/ todo[Gpio] = Do(Put("finin_pending", FALSE), Do(<<"advance_card">>, Feeding))
                \/ Advances(todo[Gpio], Feeding)

Accepts ==
    /\ Fresh \/ (Closing(Tx) /\ asked /\ fifo = 0)
    /\ f.state \in {"ARMED_WAIT", "CARD_DONE"}
    /\ Resting(todo[Main]) \/ Closing(Main)

Updates == Do(<<"lupob_update">>, Do(<<"lupob_update">>, <<>>))
AtRe ==
    \/ Idle(Re)
    \/ /\ struck /\ Idle(Gpio)
       /\ \/ /\ todo[Re] = Do(<<"on_read">>, <<>>)
             /\ f.state \in {"ARMED_WAIT", "CARD_DONE"} => Accepts
          \/ /\ Accepts
             /\ \/ todo[Re] = Do(<<"finin_release">>, Do(Put("cmd_pending", TRUE), Updates))
                \/ todo[Re] = Do(Put("finin_pending", FALSE),
                                 Do(Put("cmd_pending", TRUE), Updates))
                \/ todo[Re] = Do(Put("cmd_pending", TRUE), Updates)
          \/ todo[Re] = Updates
          \/ \E v \in BOOLEAN : todo[Re] = Do(Put("lupob", v), Do(<<"lupob_update">>, <<>>))
          \/ todo[Re] = Do(<<"lupob_update">>, <<>>)
          \/ \E v \in BOOLEAN : todo[Re] = Do(Put("lupob", v), <<>>)

Cursor ==
    /\ f.presenting => f.state = "PRESENTING"
    /\ ~f.presenting => f.col = 0 /\ N \in {0, NCols}
    /\ f.presenting /\ ~f.feed_irq => Filling(Main) \/ Filling(Gpio)
    /\ f.presenting /\ f.feed_irq /\ Idle(Tx) => Fits
    /\ f.feed_irq => f.presenting \/ Ended(Tx) \/ Closing(Tx)

Commands ==
    /\ ~asked => fifo = 0 /\ ~f.cmd_pending /\ (f.presenting => N = NCols)
    /\ f.cmd_pending => asked /\ fifo = 0 /\ ~f.presenting
    /\ f.presenting => ~f.cmd_pending

\* It is not about to store the state of the card it has just counted.
Plain(s) == s # <<>> => Head(s) # Put("state", "ARMED_WAIT")

Order ==
    ~late =>
        /\ f.state \in {"PRESENTING", "ARMED_WAIT"} => f.card = due
        /\ f.state = "CARD_DONE" =>
              f.card = IF Plain(todo[Main]) /\ Plain(todo[Gpio]) THEN due - 1 ELSE due

InOrder ==
    ~late /\ pushed # <<>> => \/ pushed[1] = <<due, 0>>
                              \/ pushed[1] = <<due - 1, 0>> /\ N = NCols

States == {"ARMED_WAIT", "PRESENTING", "CARD_DONE", "DONE"}
Flags == [state : States, card : Nat, col : Nat, presenting : BOOLEAN,
          cmd_pending : BOOLEAN, finin_pending : BOOLEAN, lupob : BOOLEAN,
          feed_irq : BOOLEAN]
Types ==
    /\ f \in Flags /\ TodoOK
    /\ fifo \in 0 .. FifoDepth /\ due \in Nat
    /\ pushed \in Seq(Nat \X Nat)
    /\ asked \in BOOLEAN /\ struck \in BOOLEAN /\ drawn \in BOOLEAN /\ late \in BOOLEAN
Whole == /\ N <= NCols
         /\ \A i \in 1 .. N : pushed[i] = <<pushed[1][1], i - 1>>

\* IPC_REWIND, from its start to the emptying of the FIFO.
Rewind8 == Do(<<"clear">>, Feeding)
Rewind7 == Do(Put("feed_irq", FALSE), Rewind8)
Rewind6 == Do(Put("state", "ARMED_WAIT"), Rewind7)
Rewind5 == Do(Put("finin_pending", FALSE), Rewind6)
Rewind4 == Do(Put("cmd_pending", FALSE), Rewind5)
Rewind3 == Do(Put("presenting", FALSE), Rewind4)
Rewind2 == Do(Put("col", 0), Rewind3)
Rewind1 == Do(Put("card", Loader), Rewind2)
AtRewind ==
    /\ Idle(Tx) /\ Idle(Gpio) /\ Idle(Re)
    /\ \/ todo[Main] = Rewind1
       \/ /\ f.card = Loader
          /\ \/ todo[Main] = Rewind2
             \/ /\ f.col = 0
                /\ \/ todo[Main] = Rewind3
                   \/ /\ ~f.presenting
                      /\ \/ todo[Main] = Rewind4
                         \/ /\ ~f.cmd_pending
                            /\ \/ todo[Main] = Rewind5
                               \/ todo[Main] = Rewind6
                               \/ /\ f.state = "ARMED_WAIT"
                                  /\ \/ todo[Main] = Rewind7
                                     \/ ~f.feed_irq /\ todo[Main] = Rewind8

Data == Types /\ Whole /\ InOrder /\ Cursor /\ Commands /\ Order

AtCard == AtMain /\ AtTx /\ AtGpio /\ AtRe

NestInv == ~cut => (Data /\ AtCard) \/ (Types /\ Whole /\ InOrder /\ AtRewind)


----------------------------------------------------------------------------

\* f after a store.
LEMMA Field ==
    ASSUME f \in Flags, NEW field, NEW value, f' = [f EXCEPT ![field] = value]
    PROVE  /\ f'.state = IF field = "state" THEN value ELSE f.state
           /\ f'.card = IF field = "card" THEN value ELSE f.card
           /\ f'.col = IF field = "col" THEN value ELSE f.col
           /\ f'.presenting = IF field = "presenting" THEN value ELSE f.presenting
           /\ f'.cmd_pending = IF field = "cmd_pending" THEN value ELSE f.cmd_pending
           /\ f'.finin_pending = IF field = "finin_pending" THEN value ELSE f.finin_pending
           /\ f'.lupob = IF field = "lupob" THEN value ELSE f.lupob
           /\ f'.feed_irq = IF field = "feed_irq" THEN value ELSE f.feed_irq
  BY DEF Flags

\* A store leaves the other fields alone.
LEMMA FlagsKept ==
    ASSUME f \in Flags, NEW field, NEW value, f' = [f EXCEPT ![field] = value],
           \/ field = "state" /\ value \in States
           \/ field \in {"card", "col"} /\ value \in Nat
           \/ field \in {"presenting", "cmd_pending", "finin_pending", "lupob", "feed_irq"}
              /\ value \in BOOLEAN
    PROVE  f' \in Flags
  BY DEF Flags

\* The stacks the invariant names are stacks.
LEMMA Stacks ==
    ASSUME NEW c
    PROVE  /\ IsStack(After(c)) /\ IsStack(Again(c))
           /\ IsStack(End1(c)) /\ IsStack(End2(c)) /\ IsStack(End3(c))
           /\ IsStack(End4(c)) /\ IsStack(End5(c))
           /\ IsStack(Opening(c)) /\ IsStack(Start1(c)) /\ IsStack(Start2(c))
           /\ IsStack(Feeding) /\ IsStack(Updates)
           /\ IsStack(<<>>)
  BY DoFacts, EmptyStack
     DEF After, Again, End1, End2, End3, End4, End5, Opening, Start1, Start2, Feeding, Updates

\* All but f.x for the fields x of a set.
FlagsBut(fields) ==
    /\ f' \in Flags
    /\ "state" \notin fields => f'.state = f.state
    /\ "card" \notin fields => f'.card = f.card
    /\ "col" \notin fields => f'.col = f.col
    /\ "presenting" \notin fields => f'.presenting = f.presenting
    /\ "cmd_pending" \notin fields => f'.cmd_pending = f.cmd_pending
    /\ "feed_irq" \notin fields => f'.feed_irq = f.feed_irq

\* A store by the context that runs, with all that it leaves alone.
LEMMA Stored ==
    ASSUME Types, NEW c \in Contexts, NEW field, NEW value, NEW r, IsStack(r),
           Runs(c), todo[c] = Do(Put(field, value), r), Core1,
           \/ field = "state" /\ value \in States
           \/ field \in {"card", "col"} /\ value \in Nat
           \/ field \in {"presenting", "cmd_pending", "finin_pending", "lupob", "feed_irq"}
              /\ value \in BOOLEAN
    PROVE  /\ Goes(c, r) /\ Elsewhere /\ FlagsBut({field})
           /\ field = "state" => f'.state = value
           /\ field = "card" => f'.card = value
           /\ field = "col" => f'.col = value
           /\ field = "presenting" => f'.presenting = value
           /\ field = "cmd_pending" => f'.cmd_pending = value
           /\ field = "feed_irq" => f'.feed_irq = value
           /\ field # "presenting" => pushed' = pushed
           /\ field # "state" => due' = due
           /\ field = "presenting" /\ value => pushed' = <<>>
           /\ field = "presenting" /\ ~value => pushed' = pushed
           /\ field = "state" /\ value = "CARD_DONE" => due' = pushed[1][1] + 1
           /\ field = "state" /\ value # "CARD_DONE" => due' = due
  <1>1. TodoOK /\ f \in Flags
    BY DEF Types
  <1>2. f' = [f EXCEPT ![field] = value] /\ Goes(c, r) /\ Elsewhere
        /\ pushed' = (IF field = "presenting" /\ value THEN <<>> ELSE pushed)
        /\ due' = IF field = "state" /\ value = "CARD_DONE" THEN pushed[1][1] + 1 ELSE due
    BY <1>1, StoreStep
  <1>3. f' \in Flags
    BY <1>1, <1>2, FlagsKept
  <1>4. /\ f'.state = (IF field = "state" THEN value ELSE f.state)
        /\ f'.card = (IF field = "card" THEN value ELSE f.card)
        /\ f'.col = (IF field = "col" THEN value ELSE f.col)
        /\ f'.presenting = (IF field = "presenting" THEN value ELSE f.presenting)
        /\ f'.cmd_pending = (IF field = "cmd_pending" THEN value ELSE f.cmd_pending)
        /\ f'.feed_irq = (IF field = "feed_irq" THEN value ELSE f.feed_irq)
    BY <1>1, <1>2, Field
  <1>. QED
    BY <1>2, <1>3, <1>4 DEF FlagsBut

\* card++ likewise.
LEMMA NextCardStored ==
    ASSUME Types, NEW c \in Contexts, NEW r, IsStack(r),
           Runs(c), todo[c] = Do(<<"card++">>, r), Core1
    PROVE  /\ Goes(c, r) /\ Elsewhere /\ FlagsBut({"card"}) /\ UNCHANGED <<pushed, due>>
           /\ f'.card = f.card + 1
  <1>1. TodoOK /\ f \in Flags
    BY DEF Types
  <1>2. f' = [f EXCEPT !["card"] = f.card + 1] /\ Goes(c, r) /\ Elsewhere
        /\ UNCHANGED <<pushed, due>>
    BY <1>1, NextCardStep DEF Elsewhere
  <1>3. f.card + 1 \in Nat
    BY <1>1 DEF Flags
  <1>4. f' \in Flags
    BY <1>1, <1>2, <1>3, FlagsKept
  <1>5. f'.state = f.state /\ f'.col = f.col /\ f'.presenting = f.presenting
        /\ f'.cmd_pending = f.cmd_pending /\ f'.feed_irq = f.feed_irq /\ f'.card = f.card + 1
    BY <1>1, <1>2 DEF Flags
  <1>. QED
    BY <1>2, <1>4, <1>5 DEF FlagsBut

\* The store of LUPOB.
LEMMA StoredPin ==
    ASSUME Types, NEW c \in Contexts, NEW value \in BOOLEAN, NEW r, IsStack(r),
           Runs(c), todo[c] = Do(Put("lupob", value), r), Core1
    PROVE  Goes(c, r) /\ Elsewhere /\ FlagsBut({}) /\ UNCHANGED <<pushed, due>>
  <1>. DEFINE field == "lupob"
  <1>1. field = "lupob" /\ todo[c] = Do(Put(field, value), r)
    OBVIOUS
  <1>. HIDE DEF field
  <1>. QED
    BY <1>1, Stored DEF FlagsBut

\* The store of finin_pending.
LEMMA StoredFinin ==
    ASSUME Types, NEW c \in Contexts, NEW value \in BOOLEAN, NEW r, IsStack(r),
           Runs(c), todo[c] = Do(Put("finin_pending", value), r), Core1
    PROVE  Goes(c, r) /\ Elsewhere /\ FlagsBut({}) /\ UNCHANGED <<pushed, due>>
  <1>. DEFINE field == "finin_pending"
  <1>1. field = "finin_pending" /\ todo[c] = Do(Put(field, value), r)
    OBVIOUS
  <1>. HIDE DEF field
  <1>. QED
    BY <1>1, Stored DEF FlagsBut

\* The store of cmd_pending.
LEMMA StoredCommand ==
    ASSUME Types, NEW c \in Contexts, NEW value \in BOOLEAN, NEW r, IsStack(r),
           Runs(c), todo[c] = Do(Put("cmd_pending", value), r), Core1
    PROVE  Goes(c, r) /\ Elsewhere /\ FlagsBut({"cmd_pending"}) /\ UNCHANGED <<pushed, due>>
           /\ f'.cmd_pending = value
  <1>. DEFINE field == "cmd_pending"
  <1>1. field = "cmd_pending" /\ todo[c] = Do(Put(field, value), r)
    OBVIOUS
  <1>. HIDE DEF field
  <1>. QED
    BY <1>1, Stored DEF FlagsBut

\* The store of the TX interrupt source.
LEMMA StoredIrq ==
    ASSUME Types, NEW c \in Contexts, NEW value \in BOOLEAN, NEW r, IsStack(r),
           Runs(c), todo[c] = Do(Put("feed_irq", value), r), Core1
    PROVE  Goes(c, r) /\ Elsewhere /\ FlagsBut({"feed_irq"}) /\ UNCHANGED <<pushed, due>>
           /\ f'.feed_irq = value
  <1>. DEFINE field == "feed_irq"
  <1>1. field = "feed_irq" /\ todo[c] = Do(Put(field, value), r)
    OBVIOUS
  <1>. HIDE DEF field
  <1>. QED
    BY <1>1, Stored DEF FlagsBut

\* The store of the column cursor.
LEMMA StoredCol ==
    ASSUME Types, NEW c \in Contexts, NEW value \in Nat, NEW r, IsStack(r),
           Runs(c), todo[c] = Do(Put("col", value), r), Core1
    PROVE  Goes(c, r) /\ Elsewhere /\ FlagsBut({"col"}) /\ UNCHANGED <<pushed, due>>
           /\ f'.col = value
  <1>. DEFINE field == "col"
  <1>1. field = "col" /\ todo[c] = Do(Put(field, value), r)
    OBVIOUS
  <1>. HIDE DEF field
  <1>. QED
    BY <1>1, Stored DEF FlagsBut

\* The store of the card cursor.
LEMMA StoredCard ==
    ASSUME Types, NEW c \in Contexts, NEW value \in Nat, NEW r, IsStack(r),
           Runs(c), todo[c] = Do(Put("card", value), r), Core1
    PROVE  Goes(c, r) /\ Elsewhere /\ FlagsBut({"card"}) /\ UNCHANGED <<pushed, due>>
           /\ f'.card = value
  <1>. DEFINE field == "card"
  <1>1. field = "card" /\ todo[c] = Do(Put(field, value), r)
    OBVIOUS
  <1>. HIDE DEF field
  <1>. QED
    BY <1>1, Stored DEF FlagsBut

\* The store of a state other than CARD_DONE,
LEMMA StoredState ==
    ASSUME Types, NEW c \in Contexts, NEW value \in States \ {"CARD_DONE"}, NEW r, IsStack(r),
           Runs(c), todo[c] = Do(Put("state", value), r), Core1
    PROVE  Goes(c, r) /\ Elsewhere /\ FlagsBut({"state"}) /\ f'.state = value
           /\ UNCHANGED <<pushed, due>>
  <1>. DEFINE field == "state"
  <1>1. field = "state" /\ todo[c] = Do(Put(field, value), r)
    OBVIOUS
  <1>. HIDE DEF field
  <1>. QED
    BY <1>1, Stored DEF FlagsBut

\* and of CARD_DONE, by which the machine has a card to come.
LEMMA StoredCardDone ==
    ASSUME Types, NEW c \in Contexts, NEW r, IsStack(r),
           Runs(c), todo[c] = Do(Put("state", "CARD_DONE"), r), Core1
    PROVE  Goes(c, r) /\ Elsewhere /\ FlagsBut({"state"}) /\ f'.state = "CARD_DONE"
           /\ UNCHANGED pushed /\ due' = pushed[1][1] + 1
  <1>. DEFINE field == "state"
              value == "CARD_DONE"
  <1>1. field = "state" /\ todo[c] = Do(Put(field, value), r) /\ value \in States
        /\ value = "CARD_DONE"
    BY DEF States
  <1>. HIDE DEF field, value
  <1>. QED
    BY <1>1, Stored DEF FlagsBut

\* presenting is set, which begins a card,
LEMMA StoredBegun ==
    ASSUME Types, NEW c \in Contexts, NEW r, IsStack(r),
           Runs(c), todo[c] = Do(Put("presenting", TRUE), r), Core1
    PROVE  Goes(c, r) /\ Elsewhere /\ FlagsBut({"presenting"}) /\ f'.presenting = TRUE
           /\ UNCHANGED due /\ pushed' = <<>>
  <1>. DEFINE field == "presenting"
              value == TRUE
  <1>1. /\ field = "presenting" /\ value \in BOOLEAN
        /\ todo[c] = Do(Put(field, value), r)
    OBVIOUS
  <1>. HIDE DEF field
  <1>2. pushed' = <<>>
    BY <1>1, StoreStep DEF Types
  <1>4. value = TRUE
    OBVIOUS
  <1>. HIDE DEF value
  <1>3. Goes(c, r) /\ Elsewhere /\ FlagsBut({field}) /\ f'.presenting = value /\ UNCHANGED due
    BY <1>1, Stored
  <1>. QED
    BY <1>1, <1>2, <1>3, <1>4

\* and cleared.
LEMMA StoredOver ==
    ASSUME Types, NEW c \in Contexts, NEW r, IsStack(r),
           Runs(c), todo[c] = Do(Put("presenting", FALSE), r), Core1
    PROVE  Goes(c, r) /\ Elsewhere /\ FlagsBut({"presenting"}) /\ f'.presenting = FALSE
           /\ UNCHANGED due /\ UNCHANGED pushed
  <1>. DEFINE field == "presenting"
              value == FALSE
  <1>1. /\ field = "presenting" /\ value \in BOOLEAN /\ value = FALSE
        /\ todo[c] = Do(Put(field, value), r)
    OBVIOUS
  <1>. HIDE DEF field, value
  <1>. QED
    BY <1>1, Stored DEF FlagsBut

\* What a push, or a store of the cursor, does in the middle of a card.
FillEffect(c) ==
    /\ Goes(c, todo'[c])
    /\ UNCHANGED <<asked, struck, drawn, due, cut, late>>
    /\ FlagsBut({"col", "presenting", "feed_irq"})
    /\ \/ Filling(c)' \/ Ended(c)'
       \/ /\ Fits' /\ f'.presenting /\ f'.feed_irq
          /\ todo'[c] = IF c = Tx THEN <<>> ELSE After(c)
    /\ \/ UNCHANGED <<fifo, pushed>>
       \/ /\ Fits /\ fifo < FifoDepth /\ fifo' = fifo + 1
          /\ pushed' = Append(pushed, <<f.card, f.col>>)

\* A step of the context that fills the FIFO leaves it filling, or at the card's end.
LEMMA FillStep ==
    ASSUME Types, Whole, NEW c \in {Main, Tx, Gpio}, Runs(c), Filling(c), Core1
    PROVE  FillEffect(c)
  <1>0. /\ TodoOK /\ f \in Flags /\ c \in Contexts /\ fifo \in Nat
        /\ f.presenting \in BOOLEAN /\ f.presenting /\ f.state = "PRESENTING"
        /\ ~f.cmd_pending /\ (f.feed_irq <=> c = Tx) /\ f.feed_irq \in BOOLEAN
        /\ f.card \in Nat /\ f.col \in Nat /\ N \in Nat /\ NCols \in Nat \ {0}
        /\ FifoDepth \in Nat \ {0} /\ pushed \in Seq(Nat \X Nat)
        /\ Main # Tx /\ Gpio # Tx
    BY NestAssumption DEF Types, Filling, Flags, Contexts, N, Main, Tx, Gpio
  <1>1. FillAt(c)
    BY DEF Filling
  <1>. DEFINE Still == /\ UNCHANGED <<asked, struck, drawn, due, cut, late>>
                       /\ FlagsBut({})
                       /\ UNCHANGED <<fifo, pushed>>
  <1>2. \A s : Goes(c, s) => todo'[c] = s /\ Goes(c, todo'[c])
    BY <1>0 DEF Goes, TodoOK
  <1>3. Quietly => Still
    BY <1>0 DEF Quietly, FlagsBut
  <1>4. ASSUME Still, Goes(c, todo'[c]), FillAt(c)' PROVE FillEffect(c)
    BY <1>0, <1>4 DEF FillEffect, FlagsBut, Filling
  <1>5. IsStack(After(c)) /\ IsStack(Again(c)) /\ IsStack(End1(c)) /\ IsStack(End2(c))
    BY Stacks
  <1>6. CASE Fits /\ c = Tx /\ fifo < FifoDepth /\ todo[c] = Do(<<"on_txfeed">>, <<>>)
    <2>1. Quietly /\ Goes(c, Do(<<"present_next">>, <<>>))
      BY <1>0, <1>6, CallOnTxfeed, EmptyStack
    <2>2. Again(c) = <<>>
      BY <1>6 DEF Again
    <2>3. FillAt(c)'
      BY <2>1, <2>2, <1>2, <1>6 DEF FillAt, Quietly, Fits, N, Again, After
    <2>. QED
      BY <2>1, <2>3, <1>2, <1>3, <1>4
  <1>7. CASE Fits /\ c # Tx /\ todo[c] = Do(<<"lupob_update">>, Again(c))
    <2>1. Quietly /\ Goes(c, Do(Put("lupob", Ready), Again(c)))
      BY <1>0, <1>5, <1>7, CallUpdate
    <2>2. Ready = FALSE
      BY <1>0 DEF Ready
    <2>3. FillAt(c)'
      BY <2>1, <2>2, <1>2, <1>7 DEF FillAt, Quietly, Fits, N, Again, After
    <2>. QED
      BY <2>1, <2>3, <1>2, <1>3, <1>4
  <1>8. CASE Fits /\ c # Tx /\ todo[c] = Do(Put("lupob", FALSE), Again(c))
    <2>0. Goes(c, Again(c)) /\ Elsewhere /\ FlagsBut({}) /\ UNCHANGED <<pushed, due>>
      BY <1>0, <1>5, <1>8, StoredPin
    <2>1. Goes(c, Again(c)) /\ Still
      BY <2>0 DEF Elsewhere, FlagsBut
    <2>3. FillAt(c)'
      BY <2>1, <1>2, <1>8 DEF FillAt, FlagsBut, Fits, N, Again, After
    <2>. QED
      BY <2>1, <2>3, <1>2, <1>4
  <1>9. CASE Fits /\ c # Tx /\ todo[c] = Again(c)
    <2>1. todo[c] = Do(<<"prefill">>, After(c))
      BY <1>9 DEF Again
    <2>2. /\ Quietly
          /\ fifo < FifoDepth => Goes(c, Do(<<"present_next">>, Again(c)))
          /\ ~(fifo < FifoDepth) => Goes(c, Do(Put("feed_irq", TRUE), After(c)))
      BY <1>0, <1>5, <1>9, <2>1, CallPrefill DEF Again
    <2>3. FillAt(c)'
      BY <2>2, <1>2, <1>9 DEF FillAt, Quietly, Fits, N, Again, After
    <2>. QED
      BY <2>2, <2>3, <1>2, <1>3, <1>4
  <1>10. CASE Fits /\ c # Tx /\ todo[c] = Do(Put("feed_irq", TRUE), After(c))
    <2>1. Goes(c, After(c)) /\ Elsewhere /\ FlagsBut({"feed_irq"}) /\ UNCHANGED <<pushed, due>>
          /\ f'.feed_irq = TRUE
      BY <1>0, <1>5, <1>10, StoredIrq
    <2>2. Fits'
      BY <2>1, <1>10 DEF Fits, N, FlagsBut
    <2>3. FlagsBut({"col", "presenting", "feed_irq"}) /\ f'.presenting
      BY <2>1, <1>0 DEF FlagsBut
    <2>. QED
      BY <2>1, <2>2, <2>3, <1>2, <1>10 DEF FillEffect, Elsewhere
  <1>11. CASE Fits /\ fifo < FifoDepth /\ todo[c] = Do(<<"present_next">>, Again(c))
    <2>1. /\ Quietly
          /\ f.col + 1 < NCols =>
               Goes(c, Do(<<"push", f.card, f.col>>, Do(Put("col", f.col + 1), Again(c))))
          /\ ~(f.col + 1 < NCols) => Goes(c, Do(<<"push", f.card, f.col>>, End1(c)))
      BY <1>0, <1>5, <1>11, CallPresentNext DEF End1, End2, End3, End4, End5
    <2>2. f.col + 1 < NCols \/ f.col + 1 = NCols
      BY <1>0, <1>11 DEF Fits
    <2>3. FillAt(c)'
      BY <2>1, <2>2, <1>2, <1>11 DEF FillAt, Quietly, Fits, N, Again, After, End1, End2, End3, End4, End5
    <2>. QED
      BY <2>1, <2>2, <2>3, <1>2, <1>3, <1>4
  <1>12. ASSUME Fits, fifo < FifoDepth, NEW r, IsStack(r),
                todo[c] = Do(<<"push", f.card, f.col>>, r)
         PROVE  /\ Goes(c, r) /\ Just' /\ N' = N + 1 /\ FlagsBut({})
                /\ UNCHANGED <<f, asked, struck, drawn, due, cut, late>>
                /\ fifo' = fifo + 1 /\ pushed' = Append(pushed, <<f.card, f.col>>)
    <2>1. /\ Goes(c, r) /\ UNCHANGED <<f, asked, struck, drawn, due, cut, late>>
          /\ fifo' = fifo + 1 /\ pushed' = Append(pushed, <<f.card, f.col>>)
      BY <1>0, <1>12, PushStep
    <2>2. N' = N + 1 /\ pushed'[1][1] = f.card
      BY <1>0, <1>12, <2>1 DEF Fits, N
    <2>. QED
      BY <1>0, <1>12, <2>1, <2>2 DEF Just, Fits, FlagsBut
  <1>13. CASE /\ Fits /\ fifo < FifoDepth /\ f.col + 1 < NCols
              /\ todo[c] = Do(<<"push", f.card, f.col>>, Do(Put("col", f.col + 1), Again(c)))
    <2>1. IsStack(Do(Put("col", f.col + 1), Again(c)))
      BY <1>5, DoFacts
    <2>2. /\ Goes(c, Do(Put("col", f.col + 1), Again(c))) /\ Just' /\ N' = N + 1
          /\ UNCHANGED <<f, asked, struck, drawn, due, cut, late>> /\ FlagsBut({})
          /\ fifo' = fifo + 1 /\ pushed' = Append(pushed, <<f.card, f.col>>)
      BY <2>1, <1>12, <1>13
    <2>3. N' < NCols
      BY <2>2, <1>0, <1>13 DEF Fits
    <2>4. FillAt(c)'
      BY <2>2, <2>3, <1>2 DEF FillAt, Again, After
    <2>. QED
      BY <2>2, <2>4, <1>0, <1>2, <1>13 DEF FillEffect, FlagsBut, Filling
  <1>14. CASE /\ Fits /\ fifo < FifoDepth /\ f.col + 1 = NCols
              /\ todo[c] = Do(<<"push", f.card, f.col>>, End1(c))
    <2>2. /\ Goes(c, End1(c)) /\ Just' /\ N' = N + 1
          /\ UNCHANGED <<f, asked, struck, drawn, due, cut, late>> /\ FlagsBut({})
          /\ fifo' = fifo + 1 /\ pushed' = Append(pushed, <<f.card, f.col>>)
      BY <1>5, <1>12, <1>14
    <2>3. N' = NCols
      BY <2>2, <1>0, <1>14 DEF Fits
    <2>4. FillAt(c)'
      BY <2>2, <2>3, <1>2 DEF FillAt
    <2>. QED
      BY <2>2, <2>4, <1>0, <1>2, <1>14 DEF FillEffect, FlagsBut, Filling
  <1>15. CASE Just /\ N < NCols /\ todo[c] = Do(Put("col", f.col + 1), Again(c))
    <2>0. f.col + 1 \in Nat
      BY <1>0
    <2>1. /\ Goes(c, Again(c)) /\ Elsewhere /\ FlagsBut({"col"}) /\ UNCHANGED <<pushed, due>>
          /\ f'.col = f.col + 1
      BY <2>0, <1>0, <1>5, <1>15, StoredCol
    <2>2. Fits' /\ N' = N
      BY <2>1, <1>0, <1>15 DEF Just, Fits, N, FlagsBut
    <2>3. FlagsBut({"col", "presenting", "feed_irq"}) /\ f'.presenting /\ f'.state = "PRESENTING"
          /\ ~f'.cmd_pending /\ (f'.feed_irq <=> c = Tx)
      BY <2>1, <1>0 DEF FlagsBut
    <2>4. CASE c = Tx
      <3>1. todo'[c] = <<>> /\ Goes(c, todo'[c])
        BY <2>1, <2>4, <1>2 DEF Again
      <3>. QED
        BY <3>1, <2>1, <2>2, <2>3, <2>4 DEF FillEffect, Elsewhere
    <2>5. CASE c # Tx
      <3>1. FillAt(c)'
        BY <2>1, <2>2, <2>5, <1>2 DEF FillAt, Again, After
      <3>. QED
        BY <3>1, <2>1, <2>3, <1>2 DEF FillEffect, Elsewhere, Filling
    <2>. QED
      BY <2>4, <2>5
  <1>16. CASE Just /\ N = NCols /\ todo[c] = End1(c)
    <2>0. todo[c] = Do(Put("col", 0), End2(c)) /\ 0 \in Nat
      BY <1>16 DEF End1
    <2>1. /\ Goes(c, End2(c)) /\ Elsewhere /\ FlagsBut({"col"}) /\ UNCHANGED <<pushed, due>>
          /\ f'.col = 0
      BY <2>0, <1>0, <1>5, StoredCol
    <2>2. N' = NCols /\ pushed'[1][1] = f'.card
      BY <2>1, <1>0, <1>16 DEF Just, N, FlagsBut
    <2>3. FlagsBut({"col", "presenting", "feed_irq"}) /\ f'.presenting /\ f'.state = "PRESENTING"
          /\ ~f'.cmd_pending /\ (f'.feed_irq <=> c = Tx)
      BY <2>1, <1>0 DEF FlagsBut
    <2>4. FillAt(c)'
      BY <2>1, <2>2, <1>2 DEF FillAt, End2, End3, End4, End5, Again, After
    <2>. QED
      BY <2>1, <2>3, <2>4, <1>2 DEF FillEffect, Elsewhere, Filling
  <1>17. CASE f.col = 0 /\ N = NCols /\ pushed[1][1] = f.card /\ todo[c] = End2(c)
    <2>0. todo[c] = Do(Put("presenting", FALSE), End3(c)) /\ IsStack(End3(c))
      BY <1>17, Stacks DEF End2
    <2>1. /\ Goes(c, End3(c)) /\ Elsewhere /\ FlagsBut({"presenting"}) /\ UNCHANGED <<pushed, due>>
          /\ f'.presenting = FALSE
      BY <2>0, <1>0, StoredOver
    <2>2. f'.col = 0 /\ N' = NCols /\ pushed'[1][1] = f'.card
      BY <2>1, <1>0, <1>17 DEF N, FlagsBut
    <2>3. FlagsBut({"col", "presenting", "feed_irq"}) /\ ~f'.presenting /\ f'.state = "PRESENTING"
          /\ ~f'.cmd_pending /\ (f'.feed_irq <=> c = Tx)
      BY <2>1, <1>0 DEF FlagsBut
    <2>4. Ended(c)'
      BY <2>1, <2>2, <2>3, <1>2 DEF Ended, End3, End4, End5, Again, After
    <2>. QED
      BY <2>1, <2>3, <2>4, <1>2 DEF FillEffect, Elsewhere
  <1>. QED
    BY <1>1, <1>6, <1>7, <1>8, <1>9, <1>10, <1>11, <1>13, <1>14, <1>15, <1>16, <1>17 DEF FillAt

\* The rest of a card's end.
EndEffect(c) ==
    /\ Goes(c, todo'[c]) /\ Elsewhere /\ UNCHANGED pushed
    /\ \/ Ended(c)' /\ FlagsBut({}) /\ UNCHANGED due
       \/ /\ Closing(c)' /\ todo'[c] = End5(c)
          /\ FlagsBut({"state"}) /\ f'.state = "CARD_DONE" /\ due' = f.card + 1

\* After presenting is cleared come FININ and the state,
LEMMA EndedStep ==
    ASSUME Types, NEW c \in {Main, Tx, Gpio}, Runs(c), Ended(c), Core1
    PROVE  EndEffect(c)
  <1>0. /\ TodoOK /\ c \in Contexts
        /\ ~f.presenting /\ f.state = "PRESENTING" /\ ~f.cmd_pending
        /\ (f.feed_irq <=> c = Tx) /\ f.col = 0 /\ N = NCols /\ pushed[1][1] = f.card
    BY DEF Types, Ended, Contexts
  <1>1. \A s : Goes(c, s) => todo'[c] = s /\ Goes(c, todo'[c])
    BY <1>0 DEF Goes, TodoOK
  <1>2. IsStack(End4(c)) /\ IsStack(End5(c))
    BY Stacks
  <1>3. CASE todo[c] = End3(c)
    <2>1. todo[c] = Do(Put("finin_pending", TRUE), End4(c)) /\ TRUE \in BOOLEAN
      BY <1>3 DEF End3
    <2>2. Goes(c, End4(c)) /\ Elsewhere /\ FlagsBut({}) /\ UNCHANGED <<pushed, due>>
      BY <2>1, <1>0, <1>2, StoredFinin
    <2>3. Ended(c)'
      BY <2>2, <1>0, <1>1 DEF Ended, FlagsBut, N
    <2>. QED
      BY <2>2, <2>3, <1>1 DEF EndEffect
  <1>4. CASE todo[c] = End4(c)
    <2>1. todo[c] = Do(Put("state", "CARD_DONE"), End5(c)) /\ "CARD_DONE" \in States
      BY <1>4 DEF End4, States
    <2>2. Goes(c, End5(c)) /\ Elsewhere /\ FlagsBut({"state"}) /\ f'.state = "CARD_DONE"
          /\ UNCHANGED pushed /\ due' = f.card + 1
      BY <2>1, <1>0, <1>2, StoredCardDone
    <2>3. Closing(c)'
      BY <2>2, <1>0, <1>1 DEF Closing, FlagsBut
    <2>. QED
      BY <2>2, <2>3, <1>1 DEF EndEffect
  <1>. QED
    BY <1>3, <1>4 DEF Ended

CloseEffect(c) ==
    /\ Goes(c, todo'[c]) /\ Elsewhere /\ UNCHANGED <<pushed, due>>
    /\ FlagsBut({"feed_irq"}) /\ ~f'.feed_irq
    /\ IF c = Tx THEN todo'[c] = <<>>
       ELSE todo'[c] = Again(c) \/ todo'[c] = After(c)

\* and the interrupt source is the last.
LEMMA ClosingStep ==
    ASSUME Types, NEW c \in {Main, Tx, Gpio}, Runs(c), Closing(c), Core1
    PROVE  CloseEffect(c)
  <1>0. /\ TodoOK /\ c \in Contexts /\ f.presenting \in BOOLEAN /\ fifo \in Nat /\ f \in Flags
        /\ ~f.presenting /\ (f.feed_irq <=> c = Tx)
    BY NestAssumption DEF Types, Closing, Contexts, Flags
  <1>1. \A s : Goes(c, s) => todo'[c] = s /\ Goes(c, todo'[c])
    BY <1>0 DEF Goes, TodoOK
  <1>2. IsStack(After(c)) /\ IsStack(Again(c))
    BY Stacks
  <1>3. CASE todo[c] = End5(c)
    <2>1. todo[c] = Do(Put("feed_irq", FALSE), Again(c)) /\ FALSE \in BOOLEAN
      BY <1>3 DEF End5
    <2>2. Goes(c, Again(c)) /\ Elsewhere /\ FlagsBut({"feed_irq"}) /\ UNCHANGED <<pushed, due>>
          /\ f'.feed_irq = FALSE
      BY <2>1, <1>0, <1>2, StoredIrq
    <2>3. c = Tx => Again(c) = <<>>
      BY DEF Again
    <2>. QED
      BY <2>2, <2>3, <1>1 DEF CloseEffect
  <1>4. CASE c # Tx /\ todo[c] = Again(c)
    <2>1. todo[c] = Do(<<"prefill">>, After(c))
      BY <1>4 DEF Again
    <2>2. Quietly /\ Goes(c, After(c))
      BY <2>1, <1>0, <1>2, CallPrefill
    <2>. QED
      BY <2>2, <1>0, <1>1, <1>4 DEF CloseEffect, Quietly, Elsewhere, FlagsBut
  <1>. QED
    BY <1>3, <1>4 DEF Closing

AdvanceEffect(c, r) ==
    /\ Goes(c, todo'[c]) /\ Elsewhere /\ UNCHANGED <<pushed, due>>
    /\ FlagsBut({"col", "state", "card"}) /\ (f'.col = f.col \/ f'.col = 0)
    /\ \/ /\ Advances(todo'[c], r) /\ f'.state = f.state
          /\ \/ f'.card = f.card /\ Plain(todo[c]) /\ Plain(todo'[c])
             \/ f'.card = f.card + 1 /\ Plain(todo[c]) /\ ~Plain(todo'[c])
       \/ todo'[c] = r /\ f'.state = "DONE"
       \/ todo'[c] = r /\ f'.state = "ARMED_WAIT" /\ f'.card = f.card /\ ~Plain(todo[c])

\* A step of advance_card.
LEMMA AdvanceStep ==
    ASSUME Types, NEW c \in Contexts, Runs(c), NEW r, IsStack(r), Advances(todo[c], r), Core1
    PROVE  AdvanceEffect(c, r)
  <1>. DEFINE s3 == Do(Put("state", "ARMED_WAIT"), r)
              s2 == Do(<<"card++">>, s3)
              s1 == Do(Put("col", 0), s2)
              d2 == Do(Put("state", "DONE"), r)
              d1 == Do(Put("col", 0), d2)
  <1>0. TodoOK /\ 0 \in Nat /\ {"DONE", "ARMED_WAIT"} \subseteq States \ {"CARD_DONE"} /\ f \in Flags
    BY DEF Types, States
  <1>1. \A s : Goes(c, s) => todo'[c] = s /\ Goes(c, todo'[c])
    BY <1>0 DEF Goes, TodoOK
  <1>2. IsStack(s3) /\ IsStack(s2) /\ IsStack(d2)
    BY DoFacts
  <1>3. /\ ~Plain(s3) /\ Plain(s2) /\ Plain(s1) /\ Plain(d1) /\ Plain(d2)
        /\ Plain(Do(<<"advance_card">>, r))
    <2>1. /\ Head(s3) = Put("state", "ARMED_WAIT") /\ Head(s2) = <<"card++">>
          /\ Head(s1) = Put("col", 0) /\ Head(d1) = Put("col", 0) /\ Head(d2) = Put("state", "DONE")
          /\ Head(Do(<<"advance_card">>, r)) = <<"advance_card">> /\ s3 # <<>>
      BY <1>2, DoFacts
    <2>2. /\ <<"card++">> # Put("state", "ARMED_WAIT") /\ <<"advance_card">> # Put("state", "ARMED_WAIT")
          /\ Put("col", 0) # Put("state", "ARMED_WAIT")
          /\ Put("state", "DONE") # Put("state", "ARMED_WAIT")
      BY DEF Put
    <2>. HIDE DEF s3, s2, s1, d2, d1
    <2>. QED
      BY <2>1, <2>2 DEF Plain
  <1>4. CASE todo[c] = Do(<<"advance_card">>, r)
    <2>1. Quietly /\ (Goes(c, d1) \/ Goes(c, s1))
      BY <1>4, <1>0, CallAdvance
    <2>2. Advances(d1, r) /\ Advances(s1, r)
      BY DEF Advances
    <2>. HIDE DEF s1, d1
    <2>. QED
      BY <2>1, <2>2, <1>0, <1>1, <1>3, <1>4 DEF AdvanceEffect, Quietly, Elsewhere, FlagsBut
  <1>5. ASSUME NEW s, IsStack(s), todo[c] = Do(Put("col", 0), s), Plain(s), Plain(todo[c]),
               Advances(s, r)
        PROVE  AdvanceEffect(c, r)
    <2>1. Goes(c, s) /\ Elsewhere /\ FlagsBut({"col"}) /\ UNCHANGED <<pushed, due>> /\ f'.col = 0
      BY <1>5, <1>0, StoredCol
    <2>. QED
      BY <2>1, <1>1, <1>5 DEF AdvanceEffect, FlagsBut
  <1>6. CASE todo[c] = d1 \/ todo[c] = s1
    <2>1. Advances(d2, r) /\ Advances(s2, r)
      BY DEF Advances
    <2>2. todo[c] = Do(Put("col", 0), d2) \/ todo[c] = Do(Put("col", 0), s2)
      BY <1>6
    <2>. HIDE DEF s1, d1, s2, d2
    <2>. QED
      BY <2>1, <2>2, <1>2, <1>3, <1>5, <1>6
  <1>7. CASE todo[c] = d2
    <2>1. Goes(c, r) /\ Elsewhere /\ FlagsBut({"state"}) /\ f'.state = "DONE" /\ UNCHANGED <<pushed, due>>
      BY <1>7, <1>0, StoredState
    <2>. QED
      BY <2>1, <1>1 DEF AdvanceEffect, FlagsBut
  <1>8. CASE todo[c] = s2
    <2>1. Goes(c, s3) /\ Elsewhere /\ FlagsBut({"card"}) /\ UNCHANGED <<pushed, due>>
          /\ f'.card = f.card + 1
      BY <1>8, <1>2, NextCardStored
    <2>2. Advances(s3, r)
      BY DEF Advances
    <2>. HIDE DEF s3, s2
    <2>. QED
      BY <2>1, <2>2, <1>1, <1>3, <1>8 DEF AdvanceEffect, FlagsBut
  <1>9. CASE todo[c] = s3
    <2>1. Goes(c, r) /\ Elsewhere /\ FlagsBut({"state"}) /\ f'.state = "ARMED_WAIT"
          /\ UNCHANGED <<pushed, due>>
      BY <1>9, <1>0, StoredState
    <2>. HIDE DEF s3
    <2>. QED
      BY <2>1, <1>1, <1>3, <1>9 DEF AdvanceEffect, FlagsBut
  <1>. QED
    BY <1>4, <1>6, <1>7, <1>8, <1>9 DEF Advances

----------------------------------------------------------------------------

World == Elsewhere /\ UNCHANGED <<pushed, due>>

Parking(c) == Do(<<"parked">>, After(c))

\* trigger_present up to its advance, and from it to the presentation.
TakeEffect(c) ==
    /\ Goes(c, todo'[c]) /\ World
    /\ \/ /\ Deciding(todo[c], c) /\ FlagsBut({})
          /\ Deciding(todo'[c], c) \/ todo'[c] = After(c)
       \/ /\ Deciding(todo[c], c) /\ FlagsBut({"cmd_pending"})
          /\ ~f'.cmd_pending /\ todo'[c] = Parking(c)
       \/ /\ todo[c] = Parking(c) /\ FlagsBut({})
          /\ \/ f.state = "CARD_DONE" /\ todo'[c] = Do(<<"advance_card">>, Opening(c))
             \/ f.state # "CARD_DONE" /\ todo'[c] = Opening(c)
       \/ /\ todo[c] = Opening(c) /\ FlagsBut({})
          /\ \/ f.state = "ARMED_WAIT" /\ todo'[c] = Start1(c)
             \/ f.state # "ARMED_WAIT" /\ todo'[c] = Do(<<"lupob_update">>, After(c))

\* A step of trigger_present before it presents,
LEMMA TakeStep ==
    ASSUME Types, NEW c \in {Main, Gpio}, Runs(c), Core1,
           Deciding(todo[c], c) \/ todo[c] = Parking(c) \/ todo[c] = Opening(c)
    PROVE  TakeEffect(c)
  <1>0. TodoOK /\ c \in Contexts /\ c # Tx /\ f \in Flags /\ FALSE \in BOOLEAN
    BY DEF Types, Contexts, Main, Tx, Gpio
  <1>1. \A s : Goes(c, s) => todo'[c] = s /\ Goes(c, todo'[c])
    BY <1>0 DEF Goes, TodoOK
  <1>2. IsStack(After(c)) /\ IsStack(Opening(c)) /\ IsStack(Parking(c))
    BY Stacks, DoFacts DEF Parking
  <1>3. Quietly => World /\ FlagsBut({})
    BY <1>0 DEF Quietly, World, Elsewhere, FlagsBut
  <1>4. CASE todo[c] = Do(<<"trigger_present">>, After(c))
    <2>1. Quietly /\ (Goes(c, Do(Put("cmd_pending", FALSE), Parking(c))) \/ Goes(c, After(c)))
      BY <1>4, <1>0, <1>2, CallTrigger DEF Parking
    <2>2. Deciding(Do(Put("cmd_pending", FALSE), Parking(c)), c) /\ Deciding(todo[c], c)
      BY <1>4 DEF Deciding, Parking
    <2>3. World /\ FlagsBut({})
      BY <2>1, <1>3
    <2>4. CASE Goes(c, Do(Put("cmd_pending", FALSE), Parking(c)))
      <3>1. todo'[c] = Do(Put("cmd_pending", FALSE), Parking(c)) /\ Goes(c, todo'[c])
        BY <2>4, <1>1
      <3>2. Deciding(todo'[c], c)
        BY <2>2, <3>1
      <3>. QED
        BY <2>2, <2>3, <3>1, <3>2 DEF TakeEffect
    <2>5. CASE Goes(c, After(c))
      BY <2>2, <2>3, <2>5, <1>1 DEF TakeEffect
    <2>. QED
      BY <2>1, <2>4, <2>5
  <1>5. CASE todo[c] = Do(Put("cmd_pending", FALSE), Parking(c))
    <2>1. Goes(c, Parking(c)) /\ Elsewhere /\ FlagsBut({"cmd_pending"}) /\ UNCHANGED <<pushed, due>>
          /\ f'.cmd_pending = FALSE
      BY <1>5, <1>0, <1>2, StoredCommand
    <2>2. Deciding(todo[c], c)
      BY <1>5 DEF Deciding, Parking
    <2>. QED
      BY <2>1, <2>2, <1>1 DEF TakeEffect, World
  <1>6. CASE todo[c] = Parking(c)
    <2>1. /\ Quietly
          /\ f.state = "CARD_DONE" => Goes(c, Do(<<"advance_card">>, Opening(c)))
          /\ f.state # "CARD_DONE" => Goes(c, Opening(c))
      BY <1>6, <1>0, <1>2, CallParked DEF Parking, Opening
    <2>. QED
      BY <2>1, <1>1, <1>3, <1>6 DEF TakeEffect
  <1>7. CASE todo[c] = Opening(c)
    <2>1. /\ Quietly
          /\ f.state = "ARMED_WAIT" => Goes(c, Start1(c))
          /\ f.state # "ARMED_WAIT" => Goes(c, Do(<<"lupob_update">>, After(c)))
      BY <1>7, <1>0, <1>2, CallPresentCard DEF Opening, Start1, Start2, Again
    <2>. QED
      BY <2>1, <1>1, <1>3, <1>7 DEF TakeEffect
  <1>. QED
    BY <1>4, <1>5, <1>6, <1>7 DEF Deciding, Parking

\* and the two stores by which it presents.
LEMMA StartStep ==
    ASSUME Types, NEW c \in {Main, Gpio}, Runs(c), Core1
    PROVE  /\ todo[c] = Start1(c) =>
                Goes(c, Start2(c)) /\ World /\ FlagsBut({"state"}) /\ f'.state = "PRESENTING"
           /\ todo[c] = Start2(c) =>
                /\ Goes(c, Do(<<"lupob_update">>, Again(c))) /\ Elsewhere /\ UNCHANGED due
                /\ FlagsBut({"presenting"}) /\ f'.presenting = TRUE /\ pushed' = <<>>
  <1>0. c \in Contexts /\ "PRESENTING" \in States \ {"CARD_DONE"}
    BY DEF Contexts, States
  <1>1. IsStack(Start2(c)) /\ IsStack(Do(<<"lupob_update">>, Again(c)))
    BY Stacks, DoFacts
  <1>2. ASSUME todo[c] = Start1(c)
        PROVE  Goes(c, Start2(c)) /\ World /\ FlagsBut({"state"}) /\ f'.state = "PRESENTING"
    <2>1. todo[c] = Do(Put("state", "PRESENTING"), Start2(c))
      BY <1>2 DEF Start1
    <2>. QED
      BY <2>1, <1>0, <1>1, StoredState DEF World
  <1>3. ASSUME todo[c] = Start2(c)
        PROVE  /\ Goes(c, Do(<<"lupob_update">>, Again(c))) /\ Elsewhere /\ UNCHANGED due
               /\ FlagsBut({"presenting"}) /\ f'.presenting = TRUE /\ pushed' = <<>>
    <2>1. todo[c] = Do(Put("presenting", TRUE), Do(<<"lupob_update">>, Again(c)))
      BY <1>3 DEF Start2
    <2>. QED
      BY <2>1, <1>0, <1>1, StoredBegun
  <1>. QED
    BY <1>2, <1>3

\* A step of feeder_poll, or of wfe.
LEMMA PollStep ==
    ASSUME Types, Runs(Main), Core1, NEW op \in {"poll_cmd", "poll_finin", "wfe"},
           todo[Main] = Do(<<op>>, <<>>)
    PROVE  /\ World /\ UNCHANGED f
           /\ \/ Goes(Main, <<>>)
              \/ Goes(Main, Do(<<"poll_finin">>, <<>>))
              \/ Goes(Main, Do(<<"wfe">>, <<>>))
              \/ Goes(Main, Do(<<"finin_release">>, Do(<<"lupob_update">>, Do(<<"wfe">>, <<>>))))
              \/ f.cmd_pending /\ Goes(Main, Do(<<"trigger_present">>, After(Main)))
  <1>1. Head(todo[Main]) = <<op>> /\ Tail(todo[Main]) = <<>> /\ Head(todo[Main])[1] = op
    BY DoFacts, EmptyStack
  <1>2. \A d \in Contexts : Runs(d) => d = Main
    BY DEF Runs, Idle, Contexts, Main, Tx, Gpio, Re
  <1>3. Main \in Contexts
    BY DEF Contexts
  <1>4. \A d \in Contexts, ops \in {Calls, {"put"}, {"push"}, {"card++"}, {"clear"}} : ~At(d, ops)
    BY <1>1, <1>2 DEF At, Calls
  <1>5. \A d \in Contexts : ~Call(d) /\ ~Push(d) /\ ~Store(d) /\ ~NextCard(d)
    BY <1>4 DEF Call, Push, Store, NextCard
  <1>6. ~ClearFifo /\ ~Loop
    BY <1>3, <1>4 DEF ClearFifo, Loop, Runs
  <1>7. PollWaits \/ PollActs \/ PollPasses \/ Wakes
    BY <1>5, <1>6 DEF Core1
  <1>8. World /\ UNCHANGED f
    BY <1>7 DEF PollWaits, PollActs, PollPasses, Wakes, PollUnchanged, World, Elsewhere
  <1>. DEFINE a == <<"trigger_present">>
              b == <<"poll_finin">>
              d == <<"finin_release">>
              e == <<"lupob_update">>
              g == <<"wfe">>
  <1>9. \/ Then(Main, <<>>) \/ Then(Main, <<b>>) \/ Then(Main, <<g>>)
        \/ Then(Main, <<d, e, g>>)
        \/ f.cmd_pending /\ Then(Main, <<a, b>>)
    BY <1>7 DEF PollWaits, PollActs, PollPasses, Wakes
  <1>. HIDE DEF a, b, d, e, g
  <1>10. ASSUME NEW s, IsStack(s)
         PROVE  /\ <<>> \o s = s /\ <<b>> \o s = Do(b, s) /\ <<g>> \o s = Do(g, s)
                /\ <<d, e, g>> \o s = Do(d, Do(e, Do(g, s)))
                /\ <<a, b>> \o s = Do(a, Do(b, s))
    <2>1. <<>> \o s = s /\ <<b>> \o s = Do(b, s) /\ <<g>> \o s = Do(g, s)
      BY <1>10, Cat1
    <2>2. <<d, e, g>> \o s = Do(d, Do(e, Do(g, s)))
      BY <1>10, Cat3
    <2>3. <<a, b>> \o s = Do(a, Do(b, s))
      BY <1>10, Cat2
    <2>. QED
      BY <2>1, <2>2, <2>3
  <1>11. \/ Goes(Main, <<>>) \/ Goes(Main, Do(b, <<>>)) \/ Goes(Main, Do(g, <<>>))
         \/ Goes(Main, Do(d, Do(e, Do(g, <<>>))))
         \/ f.cmd_pending /\ Goes(Main, Do(a, Do(b, <<>>)))
    BY <1>1, <1>9, <1>10, EmptyStack DEF Then, Goes
  <1>12. After(Main) = Do(b, <<>>)
    BY DEF After, b
  <1>. QED
    BY <1>8, <1>11, <1>12 DEF a, b, d, e, g

RestEffect ==
    /\ Goes(Main, todo'[Main]) /\ World /\ FlagsBut({})
    /\ \/ Resting(todo'[Main])
       \/ f.cmd_pending /\ todo'[Main] = Do(<<"trigger_present">>, After(Main))

\* A step of the main loop with nothing of a card in hand.
LEMMA RestStep ==
    ASSUME Types, Runs(Main), Core1, Resting(todo[Main])
    PROVE  RestEffect
  <1>0. TodoOK /\ Main \in Contexts /\ f \in Flags /\ Ready \in BOOLEAN /\ f.finin_pending \in BOOLEAN
    BY DEF Types, Contexts, Ready, Flags
  <1>1. \A s : Goes(Main, s) => todo'[Main] = s /\ Goes(Main, todo'[Main])
    BY <1>0 DEF Goes, TodoOK
  <1>2. Quietly => World /\ FlagsBut({})
    BY <1>0 DEF Quietly, World, Elsewhere, FlagsBut
  <1>3. Elsewhere /\ UNCHANGED <<pushed, due>> => World
    BY DEF World
  <1>. DEFINE w == Do(<<"wfe">>, <<>>)
              u == Do(<<"lupob_update">>, w)
              p == Do(Put("finin_pending", FALSE), u)
              g == Do(<<"finin_release">>, u)
  <1>4. IsStack(<<>>) /\ IsStack(w) /\ IsStack(u) /\ IsStack(After(Main)) /\ todo[Main] # <<>>
    BY DoFacts, EmptyStack, Stacks DEF Runs, Idle
  <1>5. /\ Resting(<<>>) /\ Resting(w) /\ Resting(Do(<<"poll_finin">>, <<>>)) /\ Resting(u)
        /\ Resting(p) /\ Resting(g) /\ Resting(After(Main))
    BY DEF Resting, After
  <1>6. \A r \in {<<>>, w, After(Main)} :
           /\ Resting(Do(<<"lupob_update">>, r))
           /\ \A v \in BOOLEAN : Resting(Do(Put("lupob", v), r))
    BY DEF Resting
  <1>7. CASE \E op \in {"poll_cmd", "poll_finin", "wfe"} : todo[Main] = Do(<<op>>, <<>>)
    <2>1. PICK op \in {"poll_cmd", "poll_finin", "wfe"} : todo[Main] = Do(<<op>>, <<>>)
      BY <1>7
    <2>2. /\ World /\ UNCHANGED f
          /\ \/ Goes(Main, <<>>)
             \/ Goes(Main, Do(<<"poll_finin">>, <<>>))
             \/ Goes(Main, w)
             \/ Goes(Main, g)
             \/ f.cmd_pending /\ Goes(Main, Do(<<"trigger_present">>, After(Main)))
      BY <2>1, PollStep
    <2>3. FlagsBut({})
      BY <2>2, <1>0 DEF FlagsBut
    <2>. HIDE DEF w, u, p, g
    <2>. QED
      BY <2>2, <2>3, <1>1, <1>5 DEF RestEffect
  <1>8. CASE todo[Main] = g
    <2>1. Quietly /\ Goes(Main, IF f.finin_pending THEN p ELSE u)
      BY <1>8, <1>0, <1>4, CallFinin
    <2>. HIDE DEF w, u, p, g
    <2>. QED
      BY <2>1, <1>0, <1>1, <1>2, <1>5 DEF RestEffect
  <1>9. CASE todo[Main] = p
    <2>1. Goes(Main, u) /\ Elsewhere /\ FlagsBut({}) /\ UNCHANGED <<pushed, due>>
      BY <1>9, <1>0, <1>4, StoredFinin
    <2>. HIDE DEF w, u, p, g
    <2>. QED
      BY <2>1, <1>1, <1>3, <1>5 DEF RestEffect
  <1>10. ASSUME NEW r \in {<<>>, w, After(Main)}, todo[Main] = Do(<<"lupob_update">>, r)
         PROVE  RestEffect
    <2>0. IsStack(r)
      BY <1>4
    <2>1. Quietly /\ Goes(Main, Do(Put("lupob", Ready), r))
      BY <1>10, <2>0, <1>0, CallUpdate
    <2>2. Resting(Do(Put("lupob", Ready), r))
      BY <1>0, <1>6
    <2>. QED
      BY <2>1, <2>2, <1>1, <1>2 DEF RestEffect
  <1>11. ASSUME NEW r \in {<<>>, w, After(Main)}, NEW v \in BOOLEAN,
                todo[Main] = Do(Put("lupob", v), r)
         PROVE  RestEffect
    <2>0. IsStack(r) /\ Resting(r)
      BY <1>4, <1>5
    <2>1. Goes(Main, r) /\ Elsewhere /\ FlagsBut({}) /\ UNCHANGED <<pushed, due>>
      BY <1>11, <2>0, <1>0, StoredPin
    <2>. QED
      BY <2>0, <2>1, <1>1, <1>3 DEF RestEffect
  <1>. QED
    BY <1>4, <1>7, <1>8, <1>9, <1>10, <1>11 DEF Resting

----------------------------------------------------------------------------

\* Most statements are not the store of ARMED_WAIT,
LEMMA PlainDo ==
    ASSUME NEW stmt, stmt # Put("state", "ARMED_WAIT"), NEW r, IsStack(r)
    PROVE  Plain(Do(stmt, r))
  BY DoFacts DEF Plain

\* so that at most places the card cursor and the state agree.
LEMMA Plains ==
    /\ Plain(<<>>)
    /\ \A s : Resting(s) => Plain(s)
    /\ \A c : /\ \A s : Deciding(s, c) => Plain(s)
              /\ Plain(Parking(c)) /\ Plain(Opening(c)) /\ Plain(After(c)) /\ Plain(Again(c))
              /\ Plain(End5(c)) /\ Plain(Start1(c)) /\ Plain(Start2(c))
    /\ \A r : IsStack(r) => /\ Plain(Do(<<"advance_card">>, r)) /\ Plain(Do(<<"lupob_update">>, r))
                            /\ Plain(Do(<<"finin_release">>, r)) /\ Plain(Do(<<"on_tu03">>, r))
                            /\ \A v : Plain(Do(Put("lupob", v), r))
                            /\ \A v : Plain(Do(Put("finin_pending", v), r))
  <1>1. /\ \A op : <<op>> # Put("state", "ARMED_WAIT")
        /\ \A field, v : field # "state" => Put(field, v) # Put("state", "ARMED_WAIT")
        /\ Put("state", "PRESENTING") # Put("state", "ARMED_WAIT")
    BY DEF Put
  <1>2. \A op, r : IsStack(r) => Plain(Do(<<op>>, r))
    BY <1>1, PlainDo
  <1>3. \A field, v, r : IsStack(r) /\ field # "state" => Plain(Do(Put(field, v), r))
    BY <1>1, PlainDo
  <1>4. Plain(<<>>)
    BY DEF Plain
  <1>5. ASSUME NEW s, Resting(s) PROVE Plain(s)
    <2>. DEFINE w == Do(<<"wfe">>, <<>>)
                u == Do(<<"lupob_update">>, w)
    <2>1. IsStack(<<>>) /\ IsStack(w) /\ IsStack(u) /\ IsStack(After(Main))
      BY DoFacts, EmptyStack, Stacks
    <2>. QED
      BY <1>2, <1>3, <1>4, <1>5, <2>1 DEF Resting
  <1>6. ASSUME NEW c
        PROVE  /\ \A s : Deciding(s, c) => Plain(s)
               /\ Plain(Parking(c)) /\ Plain(Opening(c)) /\ Plain(After(c)) /\ Plain(Again(c))
               /\ Plain(End5(c)) /\ Plain(Start2(c))
    <2>1. IsStack(<<>>) /\ IsStack(After(c)) /\ IsStack(Again(c)) /\ IsStack(Parking(c))
          /\ IsStack(Do(<<"lupob_update">>, Again(c)))
      BY DoFacts, EmptyStack, Stacks DEF Parking
    <2>. QED
      BY <1>2, <1>3, <1>4, <2>1 DEF Deciding, Parking, Opening, After, Again, End5, Start2
  <1>7. ASSUME NEW c PROVE Plain(Start1(c))
    BY <1>1, PlainDo, Stacks DEF Start1
  <1>. QED
    BY <1>2, <1>3, <1>4, <1>5, <1>6, <1>7

\* The next statement is one of a card's.
InCard(s) ==
    /\ s # <<>>
    /\ \/ Head(s)[1] \in {"prefill", "present_next", "push"}
       \/ Head(s)[1] = "put" /\ Head(s)[2] \in {"feed_irq", "col", "presenting"}
       \/ /\ Head(s)[1] = "lupob_update" \/ (Head(s)[1] = "put" /\ Head(s)[2] = "lupob")
          /\ Tail(s) # <<>> /\ Head(Tail(s))[1] = "prefill"

\* A context that fills the FIFO is at a statement of a card,
LEMMA FillInCard ==
    ASSUME NEW c \in {Main, Gpio}, FillAt(c)
    PROVE  InCard(todo[c])
  <1>0. c # Tx
    BY DEF Main, Gpio, Tx
  <1>1. /\ IsStack(After(c)) /\ IsStack(Again(c)) /\ IsStack(End1(c)) /\ IsStack(End2(c))
        /\ IsStack(End3(c)) /\ Again(c) = Do(<<"prefill">>, After(c))
    BY <1>0, Stacks DEF Again
  <1>2. ASSUME NEW op \in {"prefill", "present_next"}, NEW r, IsStack(r), todo[c] = Do(<<op>>, r)
        PROVE  InCard(todo[c])
    BY <1>2, DoFacts DEF InCard
  <1>3. ASSUME NEW field \in {"feed_irq", "col", "presenting"}, NEW v, NEW r, IsStack(r),
               todo[c] = Do(Put(field, v), r)
        PROVE  InCard(todo[c])
    BY <1>3, DoFacts, PutFacts DEF InCard
  <1>4. ASSUME NEW a, NEW b, NEW r, IsStack(r), todo[c] = Do(<<"push", a, b>>, r)
        PROVE  InCard(todo[c])
    BY <1>4, DoFacts, PushFacts DEF InCard
  <1>5. ASSUME NEW stmt, stmt = <<"lupob_update">> \/ stmt = Put("lupob", FALSE),
               todo[c] = Do(stmt, Again(c))
        PROVE  InCard(todo[c])
    <2>1. /\ Head(todo[c]) = stmt /\ Tail(todo[c]) = Again(c) /\ todo[c] # <<>>
          /\ Again(c) # <<>> /\ Head(Again(c)) = <<"prefill">>
      BY <1>1, <1>5, DoFacts
    <2>2. stmt[1] = "lupob_update" \/ (stmt[1] = "put" /\ stmt[2] = "lupob")
      <3>1. CASE stmt = <<"lupob_update">>
        BY <3>1
      <3>2. CASE stmt = Put("lupob", FALSE)
        <4>1. Put("lupob", FALSE)[1] = "put" /\ Put("lupob", FALSE)[2] = "lupob"
          BY DEF Put
        <4>. QED
          BY <3>2, <4>1
      <3>. QED
        BY <1>5, <3>1, <3>2
    <2>. QED
      BY <2>1, <2>2 DEF InCard
  <1>6. IsStack(Do(Put("col", f.col + 1), Again(c)))
    BY <1>1, DoFacts
  <1>7. End1(c) = Do(Put("col", 0), End2(c)) /\ End2(c) = Do(Put("presenting", FALSE), End3(c))
    BY DEF End1, End2
  <1>. QED
    BY <1>0, <1>1, <1>2, <1>3, <1>4, <1>5, <1>6, <1>7 DEF FillAt

\* which a context elsewhere is not.
LEMMA OutsideCard ==
    /\ ~InCard(<<>>)
    /\ \A s : Resting(s) => ~InCard(s)
    /\ \A c : \A s : Deciding(s, c) => ~InCard(s)
    /\ \A c : ~InCard(Parking(c)) /\ ~InCard(Opening(c))
    /\ \A r : IsStack(r) => /\ ~InCard(Do(<<"on_tu03">>, r)) /\ ~InCard(Do(<<"finin_release">>, r))
                            /\ ~InCard(Do(Put("finin_pending", FALSE), r))
    /\ ~InCard(Do(<<"lupob_update">>, <<>>)) /\ \A v : ~InCard(Do(Put("lupob", v), <<>>))
  <1>1. ASSUME NEW r, IsStack(r), NEW op, op \notin {"prefill", "present_next", "push", "put", "lupob_update"}
        PROVE  ~InCard(Do(<<op>>, r))
    BY <1>1, DoFacts DEF InCard
  <1>2. ASSUME NEW r, IsStack(r), NEW field \in {"finin_pending", "cmd_pending"}, NEW v
        PROVE  ~InCard(Do(Put(field, v), r))
    BY <1>2, DoFacts, PutFacts DEF InCard
  <1>3. ASSUME NEW r, NEW stmt, stmt = <<"lupob_update">> \/ \E v : stmt = Put("lupob", v),
               r = <<>> \/ \E op \in {"wfe", "poll_finin"} : r = Do(<<op>>, <<>>)
        PROVE  ~InCard(Do(stmt, r))
    <2>1. IsStack(r) /\ Head(Do(stmt, r)) = stmt /\ Tail(Do(stmt, r)) = r
      BY <1>3, DoFacts, EmptyStack
    <2>2. stmt[1] = "lupob_update" \/ (stmt[1] = "put" /\ stmt[2] = "lupob")
      BY <1>3, PutFacts
    <2>3. r = <<>> \/ Head(r)[1] # "prefill"
      BY <1>3, DoFacts, EmptyStack
    <2>. QED
      BY <2>1, <2>2, <2>3 DEF InCard
  <1>4. ~InCard(<<>>)
    BY DEF InCard
  <1>5. ASSUME NEW s, Resting(s) PROVE ~InCard(s)
    <2>. DEFINE w == Do(<<"wfe">>, <<>>)
                u == Do(<<"lupob_update">>, w)
    <2>1. IsStack(<<>>) /\ IsStack(w) /\ IsStack(u) /\ After(Main) = Do(<<"poll_finin">>, <<>>)
      BY DoFacts, EmptyStack DEF After
    <2>2. CASE \E op \in {"poll_cmd", "poll_finin", "wfe"} : s = Do(<<op>>, <<>>)
      BY <1>1, <2>1, <2>2
    <2>3. CASE s = Do(<<"finin_release">>, u) \/ s = Do(Put("finin_pending", FALSE), u)
      BY <1>1, <1>2, <2>1, <2>3
    <2>4. CASE \E r \in {<<>>, w, After(Main)} :
                 s = Do(<<"lupob_update">>, r) \/ \E v \in BOOLEAN : s = Do(Put("lupob", v), r)
      BY <1>3, <2>1, <2>4
    <2>. QED
      BY <1>4, <1>5, <2>2, <2>3, <2>4 DEF Resting
  <1>6. ASSUME NEW c
        PROVE  /\ \A s : Deciding(s, c) => ~InCard(s)
               /\ ~InCard(Parking(c)) /\ ~InCard(Opening(c))
    <2>1. IsStack(After(c)) /\ IsStack(Parking(c))
      BY DoFacts, Stacks DEF Parking
    <2>. QED
      BY <1>1, <1>2, <2>1 DEF Deciding, Parking, Opening
  <1>7. ASSUME NEW r, IsStack(r)
        PROVE  /\ ~InCard(Do(<<"on_tu03">>, r)) /\ ~InCard(Do(<<"finin_release">>, r))
               /\ ~InCard(Do(Put("finin_pending", FALSE), r))
    BY <1>1, <1>2, <1>7
  <1>8. ~InCard(Do(<<"lupob_update">>, <<>>)) /\ \A v : ~InCard(Do(Put("lupob", v), <<>>))
    BY <1>3
  <1>. QED
    BY <1>4, <1>5, <1>6, <1>7, <1>8

----------------------------------------------------------------------------
(* What the steps leave of the parts that do not speak of one context.     *)

\* A context that goes on leaves the others where they are.
LEMMA OthersStay ==
    ASSUME TodoOK, NEW c \in Contexts, Goes(c, todo'[c])
    PROVE  TodoOK' /\ \A d \in Contexts \ {c} : todo'[d] = todo[d]
  BY DEF TodoOK, Goes

\* A context in a card is not idle.
LEMMA NonEmpty ==
    ASSUME NEW c
    PROVE  /\ End3(c) # <<>> /\ End4(c) # <<>> /\ End5(c) # <<>>
           /\ FillAt(c) => todo[c] # <<>>
           /\ FillAt(c)' => todo'[c] # <<>>
  <1>1. End3(c) # <<>> /\ End4(c) # <<>> /\ End5(c) # <<>> /\ End2(c) # <<>> /\ End1(c) # <<>>
    BY Stacks, DoFacts DEF End1, End2, End3, End4, End5
  <1>2. ASSUME FillAt(c) PROVE todo[c] # <<>>
    <2>1. IsStack(After(c)) /\ IsStack(Again(c)) /\ IsStack(End1(c)) /\ IsStack(<<>>)
          /\ IsStack(Do(Put("col", f.col + 1), Again(c))) /\ (c # Tx => Again(c) # <<>>)
      BY Stacks, DoFacts DEF Again
    <2>. QED
      BY <1>1, <1>2, <2>1, DoFacts DEF FillAt
  <1>3. ASSUME FillAt(c)' PROVE todo'[c] # <<>>
    <2>1. IsStack(After(c)) /\ IsStack(Again(c)) /\ IsStack(End1(c)) /\ IsStack(<<>>)
          /\ IsStack(Do(Put("col", f'.col + 1), Again(c))) /\ (c # Tx => Again(c) # <<>>)
      BY Stacks, DoFacts DEF Again
    <2>. QED
      BY <1>1, <1>3, <2>1, DoFacts DEF FillAt
  <1>. QED
    BY <1>1, <1>2, <1>3

\* A step that touches neither the card nor its columns.
LEMMA QuietKeeps ==
    ASSUME Data, NEW c \in {Main, Gpio, Re}, Goes(c, todo'[c]), World,
           FlagsBut({"cmd_pending"}), f'.cmd_pending => f.cmd_pending,
           c # Re => ~InCard(todo[c]) /\ (Plain(todo[c]) <=> Plain(todo'[c]))
    PROVE  Data'
  <1>0. /\ Types /\ Whole /\ InOrder /\ Cursor /\ Commands /\ Order
        /\ c \in Contexts /\ c # Tx /\ Tx \in Contexts /\ Main \in Contexts /\ Gpio \in Contexts
    BY DEF Data, Contexts, Main, Tx, Gpio, Re
  <1>1. TodoOK' /\ \A d \in Contexts \ {c} : todo'[d] = todo[d]
    BY <1>0, OthersStay DEF Types
  <1>2. /\ f'.state = f.state /\ f'.card = f.card /\ f'.col = f.col /\ f'.presenting = f.presenting
        /\ f'.feed_irq = f.feed_irq /\ f' \in Flags
        /\ UNCHANGED <<fifo, pushed, due, asked, struck, drawn, late>> /\ N' = N
    BY DEF FlagsBut, World, Elsewhere, N
  <1>3. Types' /\ Whole' /\ InOrder'
    BY <1>0, <1>1, <1>2 DEF Types, Whole, InOrder
  <1>4. todo'[Tx] = todo[Tx]
    BY <1>0, <1>1
  <1>5. \A d \in {Main, Gpio} : Filling(d) => Filling(d)'
    <2> SUFFICES ASSUME NEW d \in {Main, Gpio}, Filling(d) PROVE Filling(d)'
      OBVIOUS
    <2>1. FillAt(d) /\ d \in Contexts
      BY <1>0 DEF Filling
    <2>2. d # c
      BY <2>1, FillInCard DEF Main, Gpio, Re
    <2>3. todo'[d] = todo[d]
      BY <1>1, <2>1, <2>2
    <2>4. FillAt(d)'
      BY <2>1, <2>3, <1>2 DEF FillAt, Fits, Just
    <2>. QED
      BY <2>4, <1>2 DEF Filling
  <1>6. Cursor'
    <2>1. Ended(Tx) => Ended(Tx)'
      BY <1>2, <1>4 DEF Ended
    <2>2. Closing(Tx) => Closing(Tx)'
      BY <1>2, <1>4 DEF Closing
    <2>3. Fits => Fits'
      BY <1>2 DEF Fits
    <2>. QED
      BY <1>0, <1>2, <1>4, <1>5, <2>1, <2>2, <2>3 DEF Cursor, Idle
  <1>7. Commands'
    BY <1>0, <1>2 DEF Commands
  <1>8. \A d \in {Main, Gpio} : Plain(todo'[d]) <=> Plain(todo[d])
    <2> SUFFICES ASSUME NEW d \in {Main, Gpio} PROVE Plain(todo'[d]) <=> Plain(todo[d])
      OBVIOUS
    <2>1. CASE d = c
      <3>1. c # Re
        BY <2>1 DEF Main, Gpio, Re
      <3>. QED
        BY <2>1, <3>1
    <2>2. CASE d # c
      <3>1. todo'[d] = todo[d]
        BY <1>0, <1>1, <2>2
      <3>. QED
        BY <3>1
    <2>. QED
      BY <2>1, <2>2
  <1>10. Order'
    BY <1>0, <1>2, <1>8 DEF Order
  <1>. QED
    BY <1>3, <1>6, <1>7, <1>10 DEF Data

\* A step that fills the FIFO keeps the data part of the invariant:
\* the column pushed is the next one, of the same card.
LEMMA FillKeeps ==
    ASSUME Data, NEW c \in {Main, Tx, Gpio}, Filling(c), FillEffect(c)
    PROVE  Data'
  <1>0. /\ Types /\ Whole /\ InOrder /\ Cursor /\ Commands /\ Order /\ c \in Contexts
        /\ f.presenting /\ f.state = "PRESENTING" /\ ~f.cmd_pending /\ Main # Tx /\ Gpio # Tx
        /\ N \in Nat /\ NCols \in Nat \ {0} /\ FifoDepth \in Nat /\ fifo \in Nat
        /\ f.card \in Nat /\ f.col \in Nat /\ pushed \in Seq(Nat \X Nat) /\ due \in Nat
    BY NestAssumption DEF Data, Contexts, Filling, Types, Flags, N, Main, Gpio, Tx
  <1>1. TodoOK' /\ \A d \in Contexts \ {c} : todo'[d] = todo[d]
    BY <1>0, OthersStay DEF Types, FillEffect
  <1>2. /\ f'.state = "PRESENTING" /\ f'.card = f.card /\ ~f'.cmd_pending /\ f' \in Flags
        /\ UNCHANGED <<due, asked, struck, drawn, late>>
    BY <1>0 DEF FillEffect, FlagsBut
  <1>3. ASSUME UNCHANGED <<fifo, pushed>>
        PROVE  Types' /\ Whole' /\ InOrder' /\ Commands'
    <2>1. Types' /\ Whole' /\ InOrder'
      BY <1>0, <1>1, <1>2, <1>3 DEF Types, Whole, InOrder, N
    <2>2. Commands'
      BY <1>0, <1>2, <1>3 DEF Commands, N
    <2>. QED
      BY <2>1, <2>2
  <1>4. ASSUME /\ Fits /\ fifo < FifoDepth /\ fifo' = fifo + 1
               /\ pushed' = Append(pushed, <<f.card, f.col>>)
        PROVE  Types' /\ Whole' /\ InOrder' /\ Commands'
    <2>1. /\ N' = N + 1 /\ N < NCols /\ f.col = N /\ pushed' \in Seq(Nat \X Nat)
          /\ \A i \in 1 .. N : pushed'[i] = pushed[i]
          /\ pushed'[N + 1] = <<f.card, N>>
      BY <1>0, <1>4 DEF Fits, N
    <2>2. Types'
      BY <1>0, <1>1, <1>2, <1>4, <2>1 DEF Types
    <2>3. pushed'[1][1] = f.card
      BY <1>0, <1>4, <2>1 DEF Fits, N
    <2>4. \A i \in 1 .. N' : pushed'[i] = <<f.card, i - 1>>
      <3>1. \A i \in 1 .. N : pushed[i] = <<f.card, i - 1>>
        BY <1>0, <1>4 DEF Whole, Fits, N
      <3>2. ASSUME NEW i \in 1 .. N' PROVE pushed'[i] = <<f.card, i - 1>>
        <4>1. i \in 1 .. N \/ i = N + 1
          BY <1>0, <2>1
        <4>2. i = N + 1 => i - 1 = N
          BY <1>0
        <4>. QED
          BY <2>1, <3>1, <4>1, <4>2
      <3>. QED
        BY <3>2
    <2>5. Whole'
      BY <1>0, <2>1, <2>3, <2>4 DEF Whole
    <2>6. InOrder'
      <3>1. N' >= 1 /\ pushed'[1] = <<f.card, 0>>
        BY <1>0, <2>1, <2>4
      <3>2. ~late => f.card = due
        BY <1>0 DEF Order
      <3>. QED
        BY <3>1, <3>2, <1>2 DEF InOrder
    <2>7. Commands'
      BY <1>0, <1>2, <1>4, <2>1 DEF Commands
    <2>. QED
      BY <2>2, <2>5, <2>6, <2>7
  <1>5. Order'
    BY <1>0, <1>2 DEF Order
  <1>6. Cursor'
    <2>1. f'.presenting => f'.state = "PRESENTING"
      BY <1>2
    <2>2. CASE Filling(c)'
      <3>1. todo'[c] # <<>>
        BY <2>2, NonEmpty DEF Filling
      <3>. QED
        BY <1>2, <2>2, <3>1 DEF Filling, Cursor, Idle
    <2>3. CASE Ended(c)'
      BY <1>2, <2>3, <1>0 DEF Ended, Cursor
    <2>4. CASE Fits' /\ f'.presenting /\ f'.feed_irq
      BY <1>2, <2>4 DEF Cursor
    <2>. QED
      BY <2>2, <2>3, <2>4 DEF FillEffect
  <1>. QED
    BY <1>3, <1>4, <1>5, <1>6 DEF Data, FillEffect

\* So do the two stores behind the end of a card: the card that has been pushed
\* is the one before the card that is due.
LEMMA EndKeeps ==
    ASSUME Data, NEW c \in {Main, Tx, Gpio}, Ended(c), EndEffect(c),
           \A d \in {Main, Gpio} \ {c} : Plain(todo[d])
    PROVE  Data'
  <1>0. /\ Types /\ Whole /\ InOrder /\ Cursor /\ Commands /\ Order /\ c \in Contexts
        /\ ~f.presenting /\ f.state = "PRESENTING" /\ ~f.cmd_pending /\ Main # Tx /\ Gpio # Tx
        /\ {Main, Gpio} \subseteq Contexts /\ f.col = 0 /\ N = NCols /\ pushed[1][1] = f.card
        /\ N \in Nat /\ NCols \in Nat \ {0} /\ f.card \in Nat /\ pushed \in Seq(Nat \X Nat)
        /\ f.feed_irq <=> c = Tx
    BY NestAssumption DEF Data, Contexts, Ended, Types, Flags, N, Main, Gpio, Tx
  <1>1. TodoOK' /\ \A d \in Contexts \ {c} : todo'[d] = todo[d]
    BY <1>0, OthersStay DEF Types, EndEffect
  <1>2. /\ f'.card = f.card /\ ~f'.cmd_pending /\ ~f'.presenting /\ f'.col = 0 /\ f' \in Flags
        /\ f'.feed_irq = f.feed_irq /\ N' = N
        /\ UNCHANGED <<fifo, pushed, asked, struck, drawn, late>>
    BY <1>0 DEF EndEffect, FlagsBut, Elsewhere, N
  <1>3. Whole' /\ Commands'
    BY <1>0, <1>2 DEF Whole, Commands
  <1>4. Cursor'
    <2>1. f'.feed_irq => Ended(Tx)' \/ Closing(Tx)'
      BY <1>0, <1>2 DEF EndEffect
    <2>. QED
      BY <1>0, <1>2, <2>1 DEF Cursor
  <1>5. CASE Ended(c)' /\ FlagsBut({}) /\ UNCHANGED due
    <2>1. f'.state = "PRESENTING"
      BY <1>0, <1>5 DEF FlagsBut
    <2>. QED
      BY <1>0, <1>1, <1>2, <1>3, <1>4, <1>5, <2>1 DEF Types, InOrder, Order, Data, N
  <1>6. CASE /\ Closing(c)' /\ todo'[c] = End5(c)
             /\ FlagsBut({"state"}) /\ f'.state = "CARD_DONE" /\ due' = f.card + 1
    <2>1. Types'
      BY <1>0, <1>1, <1>2, <1>6 DEF Types
    <2>2. InOrder'
      <3>1. pushed # <<>> /\ 1 \in 1 .. N /\ pushed[1] = <<f.card, 0>>
        BY <1>0 DEF Whole, N
      <3>. QED
        BY <1>0, <1>2, <1>6, <3>1 DEF InOrder, N
    <2>3. \A d \in {Main, Gpio} : Plain(todo'[d])
      BY <1>0, <1>1, <1>6, Plains
    <2>4. f'.card = due' - 1
      BY <1>0, <1>2, <1>6
    <2>5. Order'
      BY <1>6, <2>3, <2>4 DEF Order
    <2>. QED
      BY <2>1, <2>2, <2>5, <1>3, <1>4 DEF Data
  <1>. QED
    BY <1>5, <1>6 DEF EndEffect

\* So does the store that turns the interrupt off.
LEMMA CloseKeeps ==
    ASSUME Data, NEW c \in {Main, Tx, Gpio}, Closing(c), CloseEffect(c)
    PROVE  Data'
  <1>0. /\ Types /\ Whole /\ InOrder /\ Cursor /\ Commands /\ Order /\ c \in Contexts
        /\ ~f.presenting /\ Main # Tx /\ Gpio # Tx /\ {Main, Gpio} \subseteq Contexts
    BY DEF Data, Contexts, Closing, Main, Gpio, Tx
  <1>1. TodoOK' /\ \A d \in Contexts \ {c} : todo'[d] = todo[d]
    BY <1>0, OthersStay DEF Types, CloseEffect
  <1>2. /\ f'.state = f.state /\ f'.card = f.card /\ f'.col = f.col /\ f'.presenting = f.presenting
        /\ f'.cmd_pending = f.cmd_pending /\ f' \in Flags /\ ~f'.feed_irq /\ N' = N
        /\ UNCHANGED <<fifo, pushed, due, asked, struck, drawn, late>>
    BY DEF CloseEffect, FlagsBut, Elsewhere, N
  <1>3. Types' /\ Whole' /\ InOrder' /\ Commands'
    BY <1>0, <1>1, <1>2 DEF Types, Whole, InOrder, Commands, N
  <1>4. Cursor'
    BY <1>0, <1>2 DEF Cursor
  <1>5. \A d \in {Main, Gpio} : Plain(todo'[d]) <=> Plain(todo[d])
    <2> SUFFICES ASSUME NEW d \in {Main, Gpio} PROVE Plain(todo'[d]) <=> Plain(todo[d])
      OBVIOUS
    <2>1. CASE d = c
      BY <1>0, <2>1, Plains DEF Closing, CloseEffect
    <2>2. CASE d # c
      <3>1. todo'[d] = todo[d]
        BY <1>0, <1>1, <2>2
      <3>. QED
        BY <3>1
    <2>. QED
      BY <2>1, <2>2
  <1>6. Order'
    BY <1>0, <1>2, <1>5 DEF Order
  <1>. QED
    BY <1>3, <1>4, <1>6 DEF Data

\* So does an advance: past a card that has been presented to the one that is due.
LEMMA AdvanceKeeps ==
    ASSUME Data, NEW c \in {Main, Gpio}, NEW r, AdvanceEffect(c, r), Plain(r),
           ~f.presenting, ~f.feed_irq \/ f.state = "CARD_DONE",
           late \/ (f.state = "CARD_DONE" /\ \A d \in {Main, Gpio} \ {c} : Plain(todo[d]))
    PROVE  Data'
  <1>0. /\ Types /\ Whole /\ InOrder /\ Cursor /\ Commands /\ Order /\ c \in Contexts
        /\ c # Tx /\ {Main, Gpio, Tx} \subseteq Contexts /\ f.card \in Nat /\ due \in Nat
    BY DEF Data, Contexts, Main, Gpio, Tx, Types, Flags
  <1>1. TodoOK' /\ \A d \in Contexts \ {c} : todo'[d] = todo[d]
    BY <1>0, OthersStay DEF Types, AdvanceEffect
  <1>2. /\ ~f'.presenting /\ f'.col = 0 /\ f' \in Flags /\ f'.cmd_pending = f.cmd_pending
        /\ f'.feed_irq = f.feed_irq /\ N' = N /\ todo'[Tx] = todo[Tx]
        /\ UNCHANGED <<fifo, pushed, due, asked, struck, drawn, late>>
    BY <1>0, <1>1 DEF AdvanceEffect, FlagsBut, Elsewhere, N, Cursor
  <1>3. Types' /\ Whole' /\ InOrder' /\ Commands'
    BY <1>0, <1>1, <1>2 DEF Types, Whole, InOrder, Commands, N
  <1>4. Closing(Tx) => Closing(Tx)'
    BY <1>2 DEF Closing
  <1>5. Cursor'
    <2>1. f.feed_irq => Closing(Tx)
      BY <1>0 DEF Cursor, Ended
    <2>2. f'.feed_irq => Closing(Tx)'
      BY <2>1, <1>2, <1>4
    <2>3. N' \in {0, NCols}
      BY <1>0, <1>2 DEF Cursor
    <2>. QED
      BY <1>2, <2>2, <2>3 DEF Cursor
  <1>6. Order'
    <2>1. CASE late
      BY <2>1, <1>2 DEF Order
    <2>2. CASE ~late
      <3>1. \A d \in {Main, Gpio} \ {c} : todo'[d] = todo[d] /\ Plain(todo[d])
        BY <1>0, <1>1, <2>2
      <3>2. Plain(todo[c]) => f.card = due - 1
        BY <1>0, <2>2, <3>1 DEF Order
      <3>3. ~Plain(todo[c]) => f.card = due
        BY <1>0, <2>2, <3>1 DEF Order
      <3>4. ~late' /\ due' = due
        BY <1>2, <2>2
      <3>5. CASE f'.state = f.state /\ f'.card = f.card /\ Plain(todo[c]) /\ Plain(todo'[c])
        BY <1>0, <2>2, <3>1, <3>2, <3>4, <3>5 DEF Order
      <3>6. CASE f'.state = f.state /\ f'.card = f.card + 1 /\ Plain(todo[c]) /\ ~Plain(todo'[c])
        <4>1. f'.state = "CARD_DONE" /\ f'.card = due
          BY <1>0, <2>2, <3>2, <3>6
        <4>. QED
          BY <4>1, <3>4, <3>6 DEF Order
      <3>7. CASE f'.state = "DONE"
        BY <3>7 DEF Order
      <3>8. CASE f'.state = "ARMED_WAIT" /\ f'.card = f.card /\ ~Plain(todo[c])
        BY <3>3, <3>4, <3>8 DEF Order
      <3>. QED
        BY <3>5, <3>6, <3>7, <3>8 DEF AdvanceEffect
    <2>. QED
      BY <2>1, <2>2
  <1>. QED
    BY <1>3, <1>5, <1>6 DEF Data

\* So do the stores that begin a card.
LEMMA StartKeeps ==
    ASSUME Data, NEW c \in {Main, Gpio}, Goes(c, todo'[c]), Elsewhere, UNCHANGED due, Fresh,
           \/ /\ FlagsBut({"state"}) /\ f.state = "ARMED_WAIT" /\ f'.state = "PRESENTING"
              /\ UNCHANGED pushed
           \/ /\ FlagsBut({"presenting"}) /\ f.state = "PRESENTING" /\ f'.presenting
              /\ pushed' = <<>> /\ ~f.cmd_pending /\ todo'[c] = Do(<<"lupob_update">>, Again(c))
    PROVE  Data'
  <1>0. /\ Types /\ Whole /\ InOrder /\ Cursor /\ Commands /\ Order /\ c \in Contexts
        /\ c # Tx /\ {Main, Gpio, Tx} \subseteq Contexts /\ NCols \in Nat \ {0}
        /\ ~f.presenting /\ ~f.feed_irq /\ f.col = 0 /\ asked /\ fifo = 0
    BY NestAssumption DEF Data, Contexts, Main, Gpio, Tx, Fresh, Cursor
  <1>1. TodoOK' /\ \A d \in Contexts \ {c} : todo'[d] = todo[d]
    BY <1>0, OthersStay DEF Types
  <1>2. /\ f'.col = 0 /\ f' \in Flags /\ f'.cmd_pending = f.cmd_pending /\ f'.card = f.card
        /\ ~f'.feed_irq /\ f'.state = "PRESENTING"
        /\ UNCHANGED <<fifo, due, asked, struck, drawn, late>>
    BY <1>0 DEF FlagsBut, Elsewhere
  <1>3. Order'
    BY <1>0, <1>2 DEF Order
  <1>4. CASE UNCHANGED pushed /\ FlagsBut({"state"})
    <2>1. ~f'.presenting /\ N' = N
      BY <1>0, <1>4 DEF FlagsBut, N
    <2>2. Types' /\ Whole' /\ InOrder' /\ Commands'
      BY <1>0, <1>1, <1>2, <1>4, <2>1 DEF Types, Whole, InOrder, Commands, N
    <2>3. Cursor'
      BY <1>0, <1>2, <2>1 DEF Cursor
    <2>. QED
      BY <1>3, <2>2, <2>3 DEF Data
  <1>5. CASE /\ f'.presenting /\ pushed' = <<>> /\ ~f.cmd_pending
             /\ todo'[c] = Do(<<"lupob_update">>, Again(c))
    <2>1. N' = 0 /\ <<>> \in Seq(Nat \X Nat)
      BY <1>5 DEF N
    <2>2. Types' /\ Whole' /\ InOrder' /\ Commands'
      BY <1>0, <1>1, <1>2, <1>5, <2>1 DEF Types, Whole, InOrder, Commands
    <2>3. Fits'
      BY <1>0, <1>2, <1>5, <2>1 DEF Fits
    <2>4. Filling(c)'
      BY <1>0, <1>2, <1>5, <2>3 DEF Filling, FillAt
    <2>5. Cursor'
      BY <1>2, <2>3, <2>4, <1>5 DEF Cursor
    <2>. QED
      BY <1>3, <2>2, <2>5 DEF Data
  <1>. QED
    BY <1>4, <1>5

----------------------------------------------------------------------------
(* The main loop.                                                          *)

\* With nothing presented and the TX handler idle its interrupt is off.
LEMMA Fresher ==
    ASSUME Cursor, Idle(Tx), ~f.presenting
    PROVE  ~f.feed_irq
  <1>1. ~Ended(Tx) /\ ~Closing(Tx)
    BY NonEmpty DEF Ended, Closing, Idle
  <1>. QED
    BY <1>1 DEF Cursor

\* trigger_present decides once.
LEMMA Decided ==
    ASSUME NEW c
    PROVE  ~Deciding(Parking(c), c) /\ ~Deciding(Opening(c), c)
  <1>. DEFINE d1 == Do(<<"trigger_present">>, After(c))
              d2 == Do(Put("cmd_pending", FALSE), Do(<<"parked">>, After(c)))
  <1>1. IsStack(After(c)) /\ IsStack(Do(<<"parked">>, After(c)))
    BY Stacks, DoFacts
  <1>2. Head(Parking(c)) = <<"parked">> /\ Head(Opening(c)) = <<"present_card">>
    BY <1>1, DoFacts DEF Parking, Opening
  <1>2a. Head(d1) = <<"trigger_present">> /\ Head(d2) = Put("cmd_pending", FALSE)
    BY <1>1, DoFacts
  <1>3. \A s : Deciding(s, c) <=> s = d1 \/ s = d2
    BY DEF Deciding
  <1>. HIDE DEF d1, d2
  <1>2b. Head(Parking(c))[1] = "parked" /\ Head(Opening(c))[1] = "present_card"
    BY <1>2
  <1>2c. Head(d1)[1] = "trigger_present" /\ Head(d2)[1] = "put"
    BY <1>2a DEF Put
  <1>. QED
    BY <1>2b, <1>2c, <1>3

\* With a card presented and the interrupt off, a context is filling the FIFO.
LEMMA Presenting ==
    ASSUME Cursor, f.presenting, ~InCard(todo[Main]), ~InCard(todo[Gpio])
    PROVE  f.feed_irq
  BY FillInCard DEF Cursor, Filling

\* While it runs, the main loop is alone.
LEMMA MainAlone ==
    ASSUME Types, Idle(Tx), Idle(Gpio), Idle(Re), Goes(Main, todo'[Main]), AtMain'
    PROVE  AtCard'
  <1>1. todo'[Tx] = <<>> /\ todo'[Gpio] = <<>> /\ todo'[Re] = <<>>
    BY DEF Types, TodoOK, Goes, Idle, Contexts, Main, Tx, Gpio, Re
  <1>. QED
    BY <1>1 DEF AtCard, AtTx, AtGpio, AtRe, Idle

\* What Fresh and Stale are about.
Kept == UNCHANGED <<fifo, pushed, asked, struck, drawn, f.presenting, f.feed_irq>>

\* What the wait for a card, and a card begun early, depend on.
LEMMA FreshKept ==
    ASSUME Kept, todo'[Tx] = todo[Tx]
    PROVE  (Fresh => Fresh') /\ (Stale => Stale')
  BY DEF Kept, Fresh, Stale, Idle, N

\* A step of the main loop keeps the invariant.
LEMMA MainStep ==
    ASSUME Data, AtCard, Runs(Main), Core1
    PROVE  Data' /\ AtCard'
  <1>0. /\ Types /\ Whole /\ Cursor /\ Commands /\ AtMain /\ TodoOK
        /\ Idle(Tx) /\ Idle(Gpio) /\ Idle(Re) /\ Main \in Contexts /\ Main # Tx
    BY DEF Data, AtCard, Types, Runs, Contexts, Main, Tx, Gpio, Re
  <1>1. ASSUME Goes(Main, todo'[Main])
        PROVE  /\ todo'[Tx] = todo[Tx] /\ todo'[Gpio] = <<>> /\ todo'[Tx] = <<>>
               /\ Idle(Tx)' /\ Clear(Main)'
    BY <1>0, <1>1 DEF Goes, TodoOK, Idle, Contexts, Main, Tx, Gpio, Re, Clear, Quiet
  <1>2. ~InCard(todo[Gpio]) /\ Plain(todo[Gpio])
    BY <1>0, OutsideCard, Plains DEF Idle
  <1>3. CASE Resting(todo[Main])
    <2>1. RestEffect
      BY <1>0, <1>3, RestStep
    <2>2. Plain(todo[Main]) /\ ~InCard(todo[Main]) /\ Plain(todo'[Main])
      <3>1. Deciding(Do(<<"trigger_present">>, After(Main)), Main)
        BY DEF Deciding
      <3>. QED
        BY <1>3, <2>1, <3>1, Plains, OutsideCard DEF RestEffect
    <2>3. Data'
      BY <2>1, <2>2, QuietKeeps DEF RestEffect, FlagsBut
    <2>4. AtMain'
      <3>1. CASE Resting(todo'[Main])
        BY <3>1 DEF AtMain
      <3>2. CASE f.cmd_pending /\ todo'[Main] = Do(<<"trigger_present">>, After(Main))
        <4>1. Fresh
          BY <1>0, <3>2, Fresher DEF Commands, Fresh
        <4>2. Fresh'
          BY <1>1, <2>1, <4>1, FreshKept DEF RestEffect, Kept, World, Elsewhere, FlagsBut
        <4>. QED
          BY <3>2, <4>2 DEF AtMain, Triggering, Deciding, Main, Gpio
      <3>. QED
        BY <2>1, <3>1, <3>2 DEF RestEffect
    <2>. QED
      BY <1>0, <2>1, <2>3, <2>4, MainAlone DEF RestEffect
  <1>4. ASSUME Deciding(todo[Main], Main) \/ todo[Main] = Parking(Main) \/ todo[Main] = Opening(Main),
               Fresh \/ Stale,
               ~Deciding(todo[Main], Main) => ~f.cmd_pending
        PROVE  Data' /\ AtCard'
    <2>1. TakeEffect(Main)
      BY <1>0, <1>4, TakeStep
    <2>2. Plain(todo[Main]) /\ ~InCard(todo[Main])
      BY <1>4, Plains, OutsideCard
    <2>3. Plain(todo'[Main])
      <3>1. IsStack(Opening(Main)) /\ IsStack(After(Main))
        BY Stacks
      <3>. QED
        BY <2>1, <3>1, Plains DEF TakeEffect
    <2>4. f'.cmd_pending => f.cmd_pending
      BY <2>1 DEF TakeEffect, FlagsBut
    <2>5. FlagsBut({"cmd_pending"}) /\ Kept
      BY <2>1 DEF TakeEffect, FlagsBut, Kept, World, Elsewhere
    <2>6. Data'
      BY <2>1, <2>2, <2>3, <2>4, <2>5, QuietKeeps DEF TakeEffect
    <2>7. (Fresh => Fresh') /\ (Stale => Stale') /\ (Fresh' \/ Stale')
      BY <1>1, <1>4, <2>1, <2>5, FreshKept DEF TakeEffect
    <2>8. Stale => f.state = "PRESENTING"
      BY <1>0 DEF Stale, Cursor
    <2>9. f'.state = f.state /\ Clear(Main)'
      BY <1>1, <2>1, <2>5 DEF FlagsBut, TakeEffect
    <2>10. AtMain'
      <3>1. CASE Deciding(todo'[Main], Main)
        BY <2>7, <3>1 DEF AtMain, Triggering, Main, Gpio
      <3>2. CASE todo'[Main] = After(Main)
        BY <3>2 DEF AtMain, Resting, After
      <3>3. CASE ~f'.cmd_pending /\ todo'[Main] = Parking(Main)
        BY <2>7, <2>9, <3>3 DEF AtMain, Triggering, Parking
      <3>4. CASE /\ todo[Main] = Parking(Main) /\ FlagsBut({}) /\ f.state = "CARD_DONE"
                 /\ todo'[Main] = Do(<<"advance_card">>, Opening(Main))
        <4>1. Fresh' /\ f'.state = "CARD_DONE" /\ Idle(Gpio)'
          BY <1>1, <1>4, <2>1, <2>7, <2>8, <2>9, <3>4 DEF TakeEffect, Idle
        <4>2. ~f'.cmd_pending
          BY <1>4, <2>4, <3>4, Decided
        <4>. QED
          BY <2>9, <3>4, <4>1, <4>2 DEF AtMain, Triggering, Advances
      <3>5. CASE /\ todo[Main] = Parking(Main) /\ f.state # "CARD_DONE" /\ todo'[Main] = Opening(Main)
        <4>1. ~f'.cmd_pending
          BY <1>4, <2>4, <3>5, Decided
        <4>. QED
          BY <2>7, <2>9, <3>5, <4>1 DEF AtMain, Triggering
      <3>6. CASE todo[Main] = Opening(Main) /\ f.state = "ARMED_WAIT" /\ todo'[Main] = Start1(Main)
        <4>1. ~f'.cmd_pending
          BY <1>4, <2>4, <3>6, Decided
        <4>2. Fresh'
          BY <1>4, <2>7, <2>8, <3>6
        <4>. QED
          BY <2>9, <3>6, <4>1, <4>2 DEF AtMain, Triggering
      <3>7. CASE todo'[Main] = Do(<<"lupob_update">>, After(Main))
        BY <3>7 DEF AtMain, Resting
      <3>. QED
        BY <2>1, <3>1, <3>2, <3>3, <3>4, <3>5, <3>6, <3>7 DEF TakeEffect
    <2>. QED
      BY <1>0, <2>1, <2>6, <2>10, MainAlone DEF TakeEffect
  <1>5. CASE Advances(todo[Main], Opening(Main)) /\ Fresh /\ ~f.cmd_pending
             /\ (late \/ f.state = "CARD_DONE")
    <2>1. AdvanceEffect(Main, Opening(Main))
      BY <1>0, <1>5, AdvanceStep, Stacks
    <2>2. Data'
      BY <1>2, <1>5, <2>1, Plains, AdvanceKeeps DEF Fresh, Main, Gpio
    <2>3. Fresh' /\ ~f'.cmd_pending /\ late' = late /\ Clear(Main)' /\ Idle(Gpio)'
      BY <1>1, <1>5, <2>1, FreshKept DEF AdvanceEffect, Kept, Elsewhere, FlagsBut, Idle
    <2>4. AtMain'
      BY <1>5, <2>1, <2>3 DEF AdvanceEffect, AtMain, Triggering
    <2>. QED
      BY <1>0, <2>1, <2>2, <2>4, MainAlone DEF AdvanceEffect
  <1>6. CASE todo[Main] = Start1(Main) /\ Fresh /\ f.state = "ARMED_WAIT" /\ ~f.cmd_pending
    <2>1. Goes(Main, Start2(Main)) /\ World /\ FlagsBut({"state"}) /\ f'.state = "PRESENTING"
      BY <1>0, <1>6, StartStep
    <2>2. todo'[Main] = Start2(Main) /\ Goes(Main, todo'[Main])
      BY <1>0, <2>1 DEF Goes, TodoOK
    <2>3. Data'
      BY <1>6, <2>1, <2>2, StartKeeps DEF World
    <2>4. Fresh' /\ ~f'.cmd_pending /\ Clear(Main)'
      BY <1>1, <1>6, <2>1, <2>2, FreshKept DEF Kept, World, Elsewhere, FlagsBut
    <2>5. AtMain'
      BY <2>1, <2>2, <2>4 DEF AtMain, Triggering
    <2>. QED
      BY <1>0, <2>2, <2>3, <2>5, MainAlone
  <1>7. CASE todo[Main] = Start2(Main) /\ Fresh /\ f.state = "PRESENTING" /\ ~f.cmd_pending
    <2>. DEFINE s == Do(<<"lupob_update">>, Again(Main))
    <2>1. Goes(Main, s) /\ Elsewhere /\ UNCHANGED due
          /\ FlagsBut({"presenting"}) /\ f'.presenting /\ pushed' = <<>>
      BY <1>0, <1>7, StartStep
    <2>2. todo'[Main] = s /\ Goes(Main, todo'[Main])
      BY <1>0, <2>1 DEF Goes, TodoOK
    <2>3. Data'
      BY <1>7, <2>1, <2>2, StartKeeps
    <2>4. f'.presenting /\ ~f'.feed_irq /\ Clear(Main)' /\ todo'[Gpio] = <<>>
      BY <1>1, <1>7, <2>1, <2>2 DEF FlagsBut, Fresh
    <2>5. FillAt(Main)'
      BY <1>7, <2>1, <2>2, <1>0, <2>3, NestAssumption
         DEF FillAt, Fits, N, Cursor, Data, Fresh, FlagsBut
    <2>6. Filling(Main)'
      BY <1>0, <1>7, <2>1, <2>4, <2>5 DEF Filling, FlagsBut
    <2>7. AtMain'
      BY <1>1, <2>2, <2>4, <2>6 DEF AtMain, Triggering
    <2>. QED
      BY <1>0, <2>2, <2>3, <2>7, MainAlone
  <1>8. CASE Filling(Main)
    <2>1. FillEffect(Main)
      BY <1>0, <1>8, FillStep
    <2>2. Data'
      BY <1>8, <2>1, FillKeeps
    <2>3. AtMain'
      <3>1. CASE Filling(Main)' \/ Ended(Main)'
        BY <1>1, <2>1, <3>1 DEF AtMain, Triggering, FillEffect
      <3>2. CASE todo'[Main] = After(Main)
        BY <3>2 DEF AtMain, Resting, After
      <3>. QED
        BY <1>0, <2>1, <3>1, <3>2 DEF FillEffect
    <2>. QED
      BY <1>0, <2>1, <2>2, <2>3, MainAlone DEF FillEffect
  <1>9. CASE Ended(Main)
    <2>1. EndEffect(Main)
      BY <1>0, <1>9, EndedStep
    <2>2. Data'
      BY <1>2, <1>9, <2>1, EndKeeps
    <2>3. AtMain'
      BY <1>1, <2>1 DEF AtMain, Triggering, EndEffect
    <2>. QED
      BY <1>0, <2>1, <2>2, <2>3, MainAlone DEF EndEffect
  <1>10. CASE Closing(Main)
    <2>1. CloseEffect(Main)
      BY <1>0, <1>10, ClosingStep
    <2>2. Data'
      BY <1>10, <2>1, CloseKeeps
    <2>3. AtMain'
      <3>1. CASE todo'[Main] = Again(Main)
        <4>1. Closing(Main)'
          BY <1>0, <1>10, <2>1, <3>1 DEF Closing, CloseEffect, FlagsBut, Elsewhere
        <4>. QED
          BY <1>1, <2>1, <4>1 DEF AtMain, Triggering, CloseEffect
      <3>2. CASE todo'[Main] = After(Main)
        BY <3>2 DEF AtMain, Resting, After
      <3>. QED
        BY <1>0, <2>1, <3>1, <3>2 DEF CloseEffect
    <2>. QED
      BY <1>0, <2>1, <2>2, <2>3, MainAlone DEF CloseEffect
  <1>11. ASSUME Triggering(Main)
         PROVE  \/ Filling(Main) \/ Ended(Main) \/ Closing(Main)
                \/ /\ \/ Deciding(todo[Main], Main) \/ todo[Main] = Parking(Main)
                      \/ todo[Main] = Opening(Main)
                   /\ Fresh \/ Stale
                   /\ ~Deciding(todo[Main], Main) => ~f.cmd_pending
                \/ /\ Advances(todo[Main], Opening(Main)) /\ Fresh /\ ~f.cmd_pending
                   /\ late \/ f.state = "CARD_DONE"
                \/ todo[Main] = Start1(Main) /\ Fresh /\ f.state = "ARMED_WAIT" /\ ~f.cmd_pending
                \/ todo[Main] = Start2(Main) /\ Fresh /\ f.state = "PRESENTING" /\ ~f.cmd_pending
    BY <1>11 DEF Triggering, Parking
  <1>. QED
    BY <1>0, <1>3, <1>4, <1>5, <1>6, <1>7, <1>8, <1>9, <1>10, <1>11 DEF AtMain


----------------------------------------------------------------------------
(* The card feed.                                                          *)

\* What is under way elsewhere does not see the pin or FININ.
LEMMA Frozen ==
    ASSUME World, FlagsBut({}), NEW d, todo'[d] = todo[d]
    PROVE  /\ Filling(d) => Filling(d)'
           /\ Ended(d) => Ended(d)'
           /\ Closing(d) => Closing(d)'
  <1>1. /\ f'.state = f.state /\ f'.card = f.card /\ f'.col = f.col
        /\ f'.presenting = f.presenting /\ f'.cmd_pending = f.cmd_pending
        /\ f'.feed_irq = f.feed_irq
        /\ UNCHANGED <<fifo, pushed, struck>> /\ N' = N
    BY DEF World, Elsewhere, FlagsBut, N
  <1>2. FillAt(d) => FillAt(d)'
    BY <1>1 DEF FillAt, Fits, Just
  <1>. QED
    BY <1>1, <1>2 DEF Filling, Ended, Closing

\* A main loop that is deciding waits for a card, or has been overtaken.
LEMMA DecidesFresh ==
    ASSUME AtMain, Deciding(todo[Main], Main)
    PROVE  Fresh \/ Stale \/ Resting(todo[Main])
  <1>. DEFINE s == todo[Main]
              d1 == Do(<<"trigger_present">>, After(Main))
              d2 == Do(Put("cmd_pending", FALSE), Do(<<"parked">>, After(Main)))
  <1>1. s = d1 \/ s = d2
    BY DEF Deciding
  <1>2. IsStack(After(Main)) /\ IsStack(Do(<<"parked">>, After(Main)))
        /\ IsStack(End4(Main)) /\ IsStack(End5(Main)) /\ IsStack(Again(Main))
    BY Stacks, DoFacts
  <1>3. Head(d1) = <<"trigger_present">> /\ Head(d2) = Put("cmd_pending", FALSE)
    BY <1>2, DoFacts
  <1>4. Main # Tx
    BY DEF Main, Tx
  <1>5. /\ Head(End3(Main)) = Put("finin_pending", TRUE)
        /\ Head(End4(Main)) = Put("state", "CARD_DONE")
        /\ Head(End5(Main)) = Put("feed_irq", FALSE)
    BY <1>2, DoFacts DEF End3, End4, End5
  <1>6. Head(Again(Main)) = <<"prefill">>
    BY <1>2, <1>4, DoFacts DEF Again
  <1>. HIDE DEF d1, d2
  <1>7. s # End3(Main) /\ s # End4(Main) /\ s # End5(Main) /\ s # Again(Main)
    BY <1>1, <1>3, <1>5, <1>6 DEF Put
  <1>8. ~Ended(Main) /\ ~Closing(Main)
    BY <1>7 DEF Ended, Closing
  <1>9. ~Filling(Main)
    BY OutsideCard, FillInCard DEF Filling
  <1>. QED
    BY <1>8, <1>9 DEF AtMain, Triggering

\* The main loop, at a place where it can be overtaken.
LEMMA MainYields ==
    ASSUME Resting(todo'[Main]) \/ (Deciding(todo'[Main], Main) /\ (Fresh' \/ Stale'))
    PROVE  AtMain'
  <1>1. Main # Gpio
    BY DEF Main, Gpio
  <1>. QED
    BY <1>1 DEF AtMain, Triggering

\* A step of the card feed that touches nothing of a card keeps the invariant.
LEMMA GpioLight ==
    ASSUME Data, AtCard, Runs(Gpio), Goes(Gpio, todo'[Gpio]), World, FlagsBut({}),
           ~InCard(todo[Gpio]), Plain(todo[Gpio]), Plain(todo'[Gpio]),
           Quiet(todo'[Gpio]) \/ (Yields(todo[Main]) /\ Fresh)
    PROVE  /\ Data' /\ AtMain' /\ AtTx' /\ AtRe' /\ struck' /\ Idle(Re)'
           /\ Fresh => Fresh'
           /\ todo'[Main] = todo[Main]
  <1>0. /\ Types /\ TodoOK /\ AtMain /\ AtTx /\ AtGpio /\ ~Idle(Gpio) /\ Idle(Re)
        /\ {Main, Tx, Gpio, Re} = Contexts /\ Main # Gpio /\ Tx # Gpio /\ Re # Gpio
        /\ Gpio # Re /\ Main # Tx
    BY DEF Data, Types, AtCard, Runs, Contexts, Main, Tx, Gpio, Re
  <1>1. todo'[Main] = todo[Main] /\ todo'[Tx] = todo[Tx] /\ todo'[Re] = <<>>
    BY <1>0 DEF Goes, TodoOK, Idle
  <1>2. struck /\ struck'
    BY <1>0 DEF AtGpio, World, Elsewhere
  <1>3. Data'
    BY <1>0, QuietKeeps DEF FlagsBut
  <1>4. /\ f'.state = f.state /\ f'.cmd_pending = f.cmd_pending /\ late' = late
        /\ Kept
    BY DEF World, Elsewhere, FlagsBut, Kept
  <1>5. (Fresh => Fresh') /\ (Stale => Stale')
    BY <1>1, <1>4, FreshKept
  <1>6. AtTx'
    BY <1>0, <1>1, Frozen DEF AtTx, Idle
  <1>7. AtMain'
    <2>1. CASE Yields(todo[Main]) /\ Fresh
      BY <1>1, <1>5, <2>1, MainYields DEF Yields
    <2>2. CASE Resting(todo[Main])
      BY <1>1, <2>2, MainYields
    <2>3. CASE Triggering(Main) /\ Quiet(todo'[Gpio])
      <3>1. Clear(Main)'
        BY <1>0, <2>3 DEF Clear
      <3>2. CASE Filling(Main) \/ Ended(Main) \/ Closing(Main)
        <4>1. Filling(Main)' \/ Ended(Main)' \/ Closing(Main)'
          BY <1>1, <3>2, Frozen
        <4>2. Idle(Tx) \/ Deciding(todo[Main], Main) \/ Fresh \/ Stale
          BY <2>3 DEF Triggering
        <4>3. CASE Idle(Tx)
          BY <1>1, <3>1, <4>1, <4>3 DEF AtMain, Triggering, Idle
        <4>4. CASE Fresh
          BY <1>1, <3>1, <4>1, <4>4 DEF AtMain, Triggering, Idle, Fresh
        <4>5. CASE Deciding(todo[Main], Main)
          BY <1>0, <1>1, <1>5, <4>5, DecidesFresh, MainYields
        <4>6. CASE Triggering(Main) /\ ~Idle(Tx) /\ ~Fresh /\ ~Deciding(todo[Main], Main)
          BY <1>0, <1>1, <1>4, <1>5, <3>1, <4>6 DEF AtMain, Triggering
        <4>. QED
          BY <2>3, <4>3, <4>4, <4>5, <4>6
      <3>3. CASE ~Filling(Main) /\ ~Ended(Main) /\ ~Closing(Main)
        BY <1>0, <1>1, <1>4, <1>5, <2>3, <3>1, <3>3 DEF AtMain, Triggering
      <3>. QED
        BY <3>2, <3>3
    <2>. QED
      BY <1>0, <2>1, <2>2, <2>3 DEF AtMain
  <1>8. AtRe'
    BY <1>1 DEF AtRe, Idle
  <1>. QED
    BY <1>1, <1>2, <1>3, <1>5, <1>6, <1>7, <1>8 DEF Idle

\* A card does not fit into the FIFO and the one word that has been taken.
LEMMA TooShort ==
    ASSUME NEW x \in Nat, x <= FifoDepth, NEW k \in {0, 1}, NCols <= x + k, CardsOutlastFifo
    PROVE  FALSE
  BY NestAssumption DEF CardsOutlastFifo

\* A card that has been begun behind the main loop's back is not at its end
\* before the main loop has gone on.
LEMMA StaleFills ==
    ASSUME Types, Stale, NEW c, FillEffect(c), Types', CardsOutlastFifo
    PROVE  Stale'
  <1>. DEFINE k == IF drawn THEN 1 ELSE 0
  <1>1. /\ asked' /\ struck' /\ drawn' = drawn /\ k \in {0, 1} /\ N \in Nat /\ fifo \in Nat
        /\ N <= fifo + k /\ k = IF drawn' THEN 1 ELSE 0
    BY DEF FillEffect, Types, Stale, N
  <1>. HIDE DEF k
  <1>2. N' <= fifo' + k
    <2>1. CASE UNCHANGED <<fifo, pushed>>
      BY <1>1, <2>1 DEF N
    <2>2. CASE fifo' = fifo + 1 /\ pushed' = Append(pushed, <<f.card, f.col>>)
      <3>1. N' = N + 1
        BY <2>2 DEF Types, N
      <3>. QED
        BY <1>1, <2>2, <3>1
    <2>. QED
      BY <2>1, <2>2 DEF FillEffect
  <1>3. ~Ended(c)'
    <2>1. SUFFICES ASSUME Ended(c)' PROVE FALSE
      OBVIOUS
    <2>2. NCols <= fifo' + k
      BY <1>2, <2>1 DEF Ended
    <2>3. fifo' \in Nat /\ fifo' <= FifoDepth
      BY NestAssumption DEF Types
    <2>. QED
      BY <1>1, <2>2, <2>3, TooShort
  <1>4. f'.presenting
    BY <1>3 DEF FillEffect, Filling
  <1>. QED
    BY <1>1, <1>2, <1>4 DEF Stale

\* Where the card feed is when no command waits.
LEMMA QuietFacts ==
    /\ Quiet(<<>>) /\ Quiet(Feeding)
    /\ Quiet(Do(<<"on_tu03">>, <<>>))
    /\ Quiet(Do(<<"finin_release">>, Do(<<"advance_card">>, Feeding)))
    /\ Quiet(Do(Put("finin_pending", FALSE), Do(<<"advance_card">>, Feeding)))
    /\ \A v \in BOOLEAN : Quiet(Do(Put("lupob", v), <<>>))
    /\ \A s : Advances(s, Feeding) => Quiet(s)
  BY DEF Quiet

\* The feed when no command waits.
LEMMA GpioQuiet ==
    ASSUME Data, AtCard, Runs(Gpio), Core1,
           \/ todo[Gpio] = Do(<<"on_tu03">>, <<>>) /\ ~f.cmd_pending
           \/ todo[Gpio] = Feeding
           \/ \E v \in BOOLEAN : todo[Gpio] = Do(Put("lupob", v), <<>>)
           \/ /\ ~f.presenting /\ ~f.cmd_pending /\ f.state = "CARD_DONE"
              /\ \/ todo[Gpio] = Do(<<"finin_release">>, Do(<<"advance_card">>, Feeding))
                 \/ todo[Gpio] = Do(Put("finin_pending", FALSE), Do(<<"advance_card">>, Feeding))
                 \/ Advances(todo[Gpio], Feeding)
    PROVE  Data' /\ AtCard'
  <1>0. /\ Types /\ TodoOK /\ AtMain /\ AtTx /\ AtGpio /\ AtRe /\ ~Idle(Gpio) /\ Idle(Re)
        /\ {Main, Tx, Gpio, Re} = Contexts /\ Main # Gpio /\ Tx # Gpio /\ Re # Gpio
        /\ Main # Tx /\ Main # Re /\ f \in Flags /\ Ready \in BOOLEAN /\ Cursor
        /\ f.cmd_pending \in BOOLEAN /\ f.finin_pending \in BOOLEAN /\ FALSE \in BOOLEAN
    BY DEF Data, Types, AtCard, Runs, Contexts, Main, Tx, Gpio, Re, Ready, Flags
  <1>1. \A s : Goes(Gpio, s) => todo'[Gpio] = s /\ Goes(Gpio, todo'[Gpio])
    BY <1>0 DEF Goes, TodoOK
  <1>2. Quietly => World /\ FlagsBut({}) /\ f' = f
    BY <1>0 DEF Quietly, World, Elsewhere, FlagsBut
  <1>3. IsStack(<<>>) /\ IsStack(Feeding) /\ IsStack(Do(<<"advance_card">>, Feeding))
    BY Stacks, DoFacts
  <1>. DEFINE a == Do(<<"advance_card">>, Feeding)
              p == Do(Put("finin_pending", FALSE), a)
              g == Do(<<"finin_release">>, a)
  <1>4. CASE todo[Gpio] = Do(<<"on_tu03">>, <<>>) /\ ~f.cmd_pending
    <2>1. /\ Quietly
          /\ f.state = "CARD_DONE" => Goes(Gpio, g)
          /\ f.state # "CARD_DONE" => Goes(Gpio, <<>>)
      BY <1>0, <1>3, <1>4, CallOnTu03 DEF Feeding
    <2>2. todo'[Gpio] = <<>> \/ (todo'[Gpio] = g /\ f.state = "CARD_DONE")
      BY <2>1, <1>1
    <2>3. ~InCard(todo[Gpio]) /\ Plain(todo[Gpio]) /\ Plain(todo'[Gpio]) /\ Quiet(todo'[Gpio])
      BY <1>3, <1>4, <2>2, OutsideCard, Plains, QuietFacts
    <2>4. Goes(Gpio, todo'[Gpio]) /\ World /\ FlagsBut({}) /\ f' = f
      BY <1>1, <1>2, <2>1
    <2>5. Data' /\ AtMain' /\ AtTx' /\ AtRe' /\ struck' /\ Idle(Re)'
      BY <2>3, <2>4, GpioLight
    <2>6. AtGpio'
      BY <1>0, <1>4, <2>2, <2>4, <2>5 DEF AtGpio, Idle, Cursor
    <2>. QED
      BY <2>5, <2>6 DEF AtCard
  <1>5. CASE todo[Gpio] = Feeding
    <2>1. Quietly /\ Goes(Gpio, Do(Put("lupob", Ready), <<>>))
      BY <1>0, <1>3, <1>5, CallUpdate DEF Feeding
    <2>2. todo'[Gpio] = Do(Put("lupob", Ready), <<>>)
      BY <2>1, <1>1
    <2>3. ~InCard(todo[Gpio]) /\ Plain(todo[Gpio]) /\ Plain(todo'[Gpio]) /\ Quiet(todo'[Gpio])
      BY <1>0, <1>3, <1>5, <2>2, OutsideCard, Plains, QuietFacts DEF Feeding
    <2>4. Goes(Gpio, todo'[Gpio]) /\ World /\ FlagsBut({}) /\ f' = f
      BY <1>1, <1>2, <2>1
    <2>5. Data' /\ AtMain' /\ AtTx' /\ AtRe' /\ struck' /\ Idle(Re)'
      BY <2>3, <2>4, GpioLight
    <2>6. AtGpio'
      BY <1>0, <2>2, <2>5 DEF AtGpio
    <2>. QED
      BY <2>5, <2>6 DEF AtCard
  <1>6. ASSUME NEW v \in BOOLEAN, todo[Gpio] = Do(Put("lupob", v), <<>>)
        PROVE  Data' /\ AtCard'
    <2>1. Goes(Gpio, <<>>) /\ Elsewhere /\ FlagsBut({}) /\ UNCHANGED <<pushed, due>>
      BY <1>0, <1>3, <1>6, StoredPin
    <2>2. todo'[Gpio] = <<>>
      BY <2>1, <1>1
    <2>3. ~InCard(todo[Gpio]) /\ Plain(todo[Gpio]) /\ Plain(todo'[Gpio]) /\ Quiet(todo'[Gpio])
      BY <1>3, <1>6, <2>2, OutsideCard, Plains, QuietFacts
    <2>4. Goes(Gpio, todo'[Gpio]) /\ World /\ FlagsBut({})
      BY <1>1, <2>1 DEF World
    <2>5. Data' /\ AtMain' /\ AtTx' /\ AtRe' /\ struck' /\ Idle(Re)'
      BY <2>3, <2>4, GpioLight
    <2>6. AtGpio'
      BY <2>2 DEF AtGpio, Idle
    <2>. QED
      BY <2>5, <2>6 DEF AtCard
  <1>7. ASSUME ~f.presenting, ~f.cmd_pending, f.state = "CARD_DONE", NEW s, s = a \/ s = p,
               Goes(Gpio, s), World, FlagsBut({}), todo[Gpio] = g \/ todo[Gpio] = p
        PROVE  Data' /\ AtCard'
    <2>2. todo'[Gpio] = s /\ Goes(Gpio, todo'[Gpio])
      BY <1>1, <1>7
    <2>3. ~InCard(todo[Gpio]) /\ Plain(todo[Gpio]) /\ Plain(todo'[Gpio])
      BY <1>3, <1>7, <2>2, OutsideCard, Plains
    <2>4. Advances(a, Feeding)
      BY DEF Advances
    <2>5. Quiet(todo'[Gpio])
      BY <1>7, <2>2, <2>4, QuietFacts
    <2>6. Data' /\ AtMain' /\ AtTx' /\ AtRe' /\ struck' /\ Idle(Re)'
      BY <1>7, <2>2, <2>3, <2>5, GpioLight
    <2>7. ~f'.presenting /\ ~f'.cmd_pending /\ f'.state = "CARD_DONE"
      BY <1>7 DEF FlagsBut
    <2>8. AtGpio'
      BY <1>7, <2>2, <2>4, <2>6, <2>7 DEF AtGpio
    <2>. QED
      BY <2>6, <2>8 DEF AtCard
  <1>8. CASE ~f.presenting /\ ~f.cmd_pending /\ f.state = "CARD_DONE" /\ todo[Gpio] = g
    <2>1. Quietly /\ Goes(Gpio, IF f.finin_pending THEN p ELSE a)
      BY <1>0, <1>3, <1>8, CallFinin
    <2>2. Goes(Gpio, p) \/ Goes(Gpio, a)
      BY <2>1
    <2>. HIDE DEF a, p, g
    <2>. QED
      BY <1>2, <1>7, <1>8, <2>1, <2>2
  <1>9. CASE ~f.presenting /\ ~f.cmd_pending /\ f.state = "CARD_DONE" /\ todo[Gpio] = p
    <2>1. Goes(Gpio, a) /\ Elsewhere /\ FlagsBut({}) /\ UNCHANGED <<pushed, due>>
      BY <1>0, <1>3, <1>9, StoredFinin
    <2>2. World
      BY <2>1 DEF World
    <2>. HIDE DEF a, p, g
    <2>. QED
      BY <1>7, <1>9, <2>1, <2>2
  <1>10. CASE ~f.presenting /\ ~f.cmd_pending /\ f.state = "CARD_DONE" /\ Advances(todo[Gpio], Feeding)
    <2>1. AdvanceEffect(Gpio, Feeding)
      BY <1>0, <1>3, <1>10, AdvanceStep
    <2>2. todo'[Main] = todo[Main] /\ todo'[Tx] = todo[Tx] /\ todo'[Re] = <<>>
      BY <1>0, <2>1 DEF AdvanceEffect, Goes, TodoOK, Idle
    <2>3. Quiet(todo[Gpio]) /\ Quiet(todo'[Gpio]) /\ Plain(Feeding)
      BY <1>3, <1>10, <2>1, QuietFacts, Plains DEF AdvanceEffect, Feeding
    <2>4. ~(Filling(Main)) /\ ~Ended(Main) /\ ~Filling(Tx) /\ ~Ended(Tx)
      BY <1>10 DEF Filling, Ended
    <2>5. Resting(todo[Main]) \/ Triggering(Main)
      BY <1>0 DEF AtMain
    <2>6. late \/ Plain(todo[Main])
      <3>1. Plain(todo[Main]) \/ (Advances(todo[Main], Opening(Main)) /\ late)
            \/ Closing(Main)
        BY <1>0, <1>10, <2>4, <2>5, Plains DEF Triggering, Parking
      <3>. QED
        BY <3>1, Plains DEF Closing
    <2>7. Data'
      BY <1>0, <1>10, <2>1, <2>3, <2>6, AdvanceKeeps
    <2>8. /\ Kept /\ UNCHANGED late /\ ~f'.presenting /\ ~f'.cmd_pending
          /\ f'.feed_irq = f.feed_irq /\ struck' = struck
      BY <1>10, <2>1 DEF AdvanceEffect, FlagsBut, Elsewhere, Kept
    <2>9. (Fresh => Fresh') /\ (Stale => Stale')
      BY <2>2, <2>8, FreshKept
    <2>10. (Closing(Main) => Closing(Main)') /\ (Closing(Tx) => Closing(Tx)')
      BY <2>2, <2>8 DEF Closing
    <2>11. AtTx'
      BY <1>0, <2>2, <2>4, <2>10 DEF AtTx, Idle
    <2>12. AtMain'
      <3>1. Clear(Main)' /\ (Idle(Tx) => Idle(Tx)')
        BY <2>2, <2>3 DEF Clear, Idle
      <3>2. CASE Resting(todo[Main])
        BY <2>2, <3>2 DEF AtMain
      <3>3. CASE Triggering(Main)
        BY <1>0, <1>10, <2>2, <2>4, <2>8, <2>9, <2>10, <3>1, <3>3 DEF AtMain, Triggering
      <3>. QED
        BY <2>5, <3>2, <3>3
    <2>13. struck' /\ Idle(Re)' /\ AtRe'
      BY <1>0, <2>2, <2>8 DEF AtGpio, Idle, AtRe
    <2>14. AtGpio'
      <3>1. CASE Advances(todo'[Gpio], Feeding) /\ f'.state = f.state
        BY <1>10, <2>8, <2>13, <3>1 DEF AtGpio
      <3>2. CASE todo'[Gpio] = Feeding
        BY <2>13, <3>2 DEF AtGpio
      <3>. QED
        BY <2>1, <3>1, <3>2 DEF AdvanceEffect
    <2>. QED
      BY <2>7, <2>11, <2>12, <2>13, <2>14 DEF AtCard
  <1>. QED
    BY <1>4, <1>5, <1>6, <1>8, <1>9, <1>10

\* The feed when a command waits: it triggers, and the main loop, which may
\* have been about to, does not.
LEMMA GpioTriggers ==
    ASSUME Data, AtCard, Runs(Gpio), Core1, CardsOutlastFifo,
           \/ /\ todo[Gpio] = Do(<<"on_tu03">>, <<>>) /\ f.cmd_pending
              /\ Fresh /\ Yields(todo[Main])
           \/ /\ \/ todo[Gpio] = Do(<<"finin_release">>, Do(<<"trigger_present">>, <<>>))
                 \/ todo[Gpio] = Do(Put("finin_pending", FALSE), Do(<<"trigger_present">>, <<>>))
              /\ Fresh /\ Yields(todo[Main])
           \/ Triggering(Gpio)
    PROVE  Data' /\ AtCard'
  <1>0. /\ Types /\ TodoOK /\ AtMain /\ AtTx /\ AtGpio /\ AtRe /\ ~Idle(Gpio) /\ Idle(Re)
        /\ {Main, Tx, Gpio, Re} = Contexts /\ Main # Gpio /\ Tx # Gpio /\ Re # Gpio
        /\ Main # Tx /\ Main # Re /\ f \in Flags /\ Cursor /\ struck
        /\ f.cmd_pending \in BOOLEAN /\ f.finin_pending \in BOOLEAN /\ FALSE \in BOOLEAN
        /\ After(Gpio) = <<>>
    <2>1. After(Gpio) = <<>>
      BY DEF After, Main, Gpio
    <2>2. f \in Flags /\ Idle(Re) /\ ~Idle(Gpio)
      BY DEF Data, Types, Runs, Contexts, Main, Tx, Gpio, Re
    <2>3. struck /\ AtGpio
      BY <2>2 DEF AtCard, AtGpio
    <2>4. f.cmd_pending \in BOOLEAN /\ f.finin_pending \in BOOLEAN /\ FALSE \in BOOLEAN
      BY <2>2 DEF Flags
    <2>. QED
      BY <2>1, <2>2, <2>3, <2>4 DEF Data, Types, AtCard, Contexts, Main, Tx, Gpio, Re
  <1>1. \A s : Goes(Gpio, s) => todo'[Gpio] = s /\ Goes(Gpio, todo'[Gpio])
    BY <1>0 DEF Goes, TodoOK
  <1>2. Quietly => World /\ FlagsBut({}) /\ f' = f
    BY <1>0 DEF Quietly, World, Elsewhere, FlagsBut
  <1>. DEFINE t == Do(<<"trigger_present">>, <<>>)
              p == Do(Put("finin_pending", FALSE), t)
              g == Do(<<"finin_release">>, t)
  <1>3. IsStack(<<>>) /\ IsStack(t)
    BY Stacks, DoFacts
  <1>3a. ASSUME Goes(Gpio, todo'[Gpio])
         PROVE  todo'[Main] = todo[Main] /\ todo'[Tx] = todo[Tx] /\ todo'[Re] = <<>>
                /\ AtRe' /\ Idle(Re)'
    BY <1>0, <1>3a DEF Goes, TodoOK, Idle, AtRe
  <1>4. CASE /\ todo[Gpio] = Do(<<"on_tu03">>, <<>>) /\ f.cmd_pending
             /\ Fresh /\ Yields(todo[Main])
    <2>1. Quietly /\ Goes(Gpio, g)
      BY <1>0, <1>3, <1>4, CallOnTu03
    <2>2. todo'[Gpio] = g /\ Goes(Gpio, todo'[Gpio]) /\ World /\ FlagsBut({})
      BY <2>1, <1>1, <1>2
    <2>3. ~InCard(todo[Gpio]) /\ Plain(todo[Gpio]) /\ Plain(todo'[Gpio])
      BY <1>3, <1>4, <2>2, OutsideCard, Plains
    <2>5. /\ Data' /\ AtMain' /\ AtTx' /\ AtRe' /\ struck' /\ Idle(Re)' /\ Fresh'
          /\ todo'[Main] = todo[Main]
      BY <1>4, <2>2, <2>3, GpioLight
    <2>6. AtGpio'
      BY <1>4, <2>2, <2>5 DEF AtGpio
    <2>. QED
      BY <2>5, <2>6 DEF AtCard
  <1>5. ASSUME todo[Gpio] = g \/ todo[Gpio] = p, Fresh, Yields(todo[Main])
        PROVE  Data' /\ AtCard'
    <2>1. Goes(Gpio, p) \/ Goes(Gpio, t)
      BY <1>0, <1>3, <1>5, CallFinin, StoredFinin
    <2>1a. World /\ FlagsBut({})
      <3>1. CASE todo[Gpio] = g
        <4>1. Quietly
          BY <1>0, <1>3, <3>1, CallFinin
        <4>. QED
          BY <4>1, <1>2
      <3>2. CASE todo[Gpio] = p
        BY <1>0, <1>3, <3>2, StoredFinin DEF World
      <3>. QED
        BY <1>5, <3>1, <3>2
    <2>2. (todo'[Gpio] = p \/ todo'[Gpio] = t) /\ Goes(Gpio, todo'[Gpio])
      BY <2>1, <1>1
    <2>3. ~InCard(todo[Gpio]) /\ Plain(todo[Gpio]) /\ Plain(todo'[Gpio]) /\ Deciding(t, Gpio)
      <3>1. Deciding(t, Gpio)
        BY <1>0 DEF Deciding
      <3>2. Plain(t) /\ Plain(p) /\ Plain(g) /\ ~InCard(g) /\ ~InCard(p)
        BY <1>3, <3>1, OutsideCard, Plains
      <3>. HIDE DEF t, p, g
      <3>. QED
        BY <1>5, <2>2, <3>1, <3>2
    <2>5. /\ Data' /\ AtMain' /\ AtTx' /\ AtRe' /\ struck' /\ Idle(Re)' /\ Fresh'
          /\ todo'[Main] = todo[Main]
      BY <1>5, <2>1a, <2>2, <2>3, GpioLight
    <2>6. AtGpio'
      <3>1. CASE todo'[Gpio] = p
        BY <1>5, <2>5, <3>1 DEF AtGpio
      <3>2. CASE todo'[Gpio] = t
        BY <1>5, <2>3, <2>5, <3>2 DEF AtGpio, Triggering
      <3>. QED
        BY <2>2, <3>1, <3>2
    <2>. QED
      BY <2>5, <2>6 DEF AtCard
  <1>6. ASSUME Deciding(todo[Gpio], Gpio) \/ todo[Gpio] = Parking(Gpio) \/ todo[Gpio] = Opening(Gpio),
               Fresh, Yields(todo[Main]), ~Deciding(todo[Gpio], Gpio) => ~f.cmd_pending
        PROVE  Data' /\ AtCard'
    <2>1. TakeEffect(Gpio)
      BY <1>0, <1>6, TakeStep
    <2>2. Plain(todo[Gpio]) /\ ~InCard(todo[Gpio])
      BY <1>6, Plains, OutsideCard
    <2>3. Plain(todo'[Gpio])
      <3>1. IsStack(Opening(Gpio)) /\ IsStack(After(Gpio))
        BY Stacks
      <3>. QED
        BY <2>1, <3>1, Plains DEF TakeEffect
    <2>4. f'.cmd_pending => f.cmd_pending
      BY <2>1 DEF TakeEffect, FlagsBut
    <2>5. /\ FlagsBut({"cmd_pending"}) /\ Kept /\ World /\ Goes(Gpio, todo'[Gpio])
          /\ struck' /\ late' = late /\ f'.state = f.state
      BY <1>0, <2>1 DEF TakeEffect, FlagsBut, Kept, World, Elsewhere
    <2>6. Data'
      BY <2>2, <2>3, <2>4, <2>5, QuietKeeps
    <2>7. todo'[Main] = todo[Main] /\ todo'[Tx] = todo[Tx] /\ AtRe' /\ Idle(Re)'
      BY <1>3a, <2>5
    <2>8. Fresh' /\ Idle(Tx)' /\ AtTx'
      BY <1>6, <2>5, <2>7, FreshKept DEF Fresh, Idle, AtTx
    <2>9. AtMain' /\ Clear(Gpio)' /\ Yields(todo'[Main])
      BY <1>0, <1>6, <2>7, <2>8, MainYields DEF Yields, Clear
    <2>10. AtGpio'
      <3>1. CASE Deciding(todo'[Gpio], Gpio)
        BY <2>5, <2>7, <2>8, <2>9, <3>1 DEF AtGpio, Triggering
      <3>2. CASE todo'[Gpio] = After(Gpio)
        BY <1>0, <3>2 DEF AtGpio, Idle
      <3>3. CASE ~f'.cmd_pending /\ todo'[Gpio] = Parking(Gpio)
        BY <2>5, <2>7, <2>8, <2>9, <3>3 DEF AtGpio, Triggering, Parking
      <3>4. CASE /\ todo[Gpio] = Parking(Gpio) /\ f.state = "CARD_DONE"
                 /\ todo'[Gpio] = Do(<<"advance_card">>, Opening(Gpio))
        <4>2. ~f'.cmd_pending
          BY <1>6, <2>4, <3>4, Decided
        <4>3. Advances(todo'[Gpio], Opening(Gpio))
          BY <3>4 DEF Advances
        <4>. QED
          BY <1>0, <2>5, <2>7, <2>8, <2>9, <3>4, <4>2, <4>3 DEF AtGpio, Triggering
      <3>5. CASE todo[Gpio] = Parking(Gpio) /\ f.state # "CARD_DONE" /\ todo'[Gpio] = Opening(Gpio)
        <4>1. ~f'.cmd_pending
          BY <1>6, <2>4, <3>5, Decided
        <4>. QED
          BY <2>5, <2>7, <2>8, <2>9, <3>5, <4>1 DEF AtGpio, Triggering
      <3>6. CASE todo[Gpio] = Opening(Gpio) /\ f.state = "ARMED_WAIT" /\ todo'[Gpio] = Start1(Gpio)
        <4>1. ~f'.cmd_pending
          BY <1>6, <2>4, <3>6, Decided
        <4>. QED
          BY <2>5, <2>7, <2>8, <2>9, <3>6, <4>1 DEF AtGpio, Triggering
      <3>7. CASE todo'[Gpio] = Do(<<"lupob_update">>, After(Gpio))
        BY <1>0, <2>5, <2>7, <3>7 DEF AtGpio, Feeding
      <3>. QED
        BY <2>1, <3>1, <3>2, <3>3, <3>4, <3>5, <3>6, <3>7 DEF TakeEffect
    <2>. QED
      BY <2>6, <2>7, <2>8, <2>9, <2>10 DEF AtCard
  <1>7. CASE /\ Advances(todo[Gpio], Opening(Gpio)) /\ Fresh /\ ~f.cmd_pending
             /\ Yields(todo[Main])
             /\ late \/ f.state = "CARD_DONE"
    <2>1. AdvanceEffect(Gpio, Opening(Gpio))
      BY <1>0, <1>7, AdvanceStep, Stacks
    <2>2. Plain(todo[Main]) /\ Plain(Opening(Gpio))
      BY <1>7, Plains DEF Yields
    <2>3. Data'
      BY <1>0, <1>7, <2>1, <2>2, AdvanceKeeps DEF Fresh
    <2>5. /\ Kept /\ Goes(Gpio, todo'[Gpio]) /\ struck' /\ late' = late /\ ~f'.cmd_pending
      BY <1>0, <1>7, <2>1 DEF AdvanceEffect, FlagsBut, Kept, Elsewhere
    <2>7. todo'[Main] = todo[Main] /\ todo'[Tx] = todo[Tx] /\ AtRe' /\ Idle(Re)'
      BY <1>3a, <2>5
    <2>8. Fresh' /\ Idle(Tx)' /\ AtTx'
      BY <1>7, <2>5, <2>7, FreshKept DEF Fresh, Idle, AtTx
    <2>9. AtMain' /\ Clear(Gpio)' /\ Yields(todo'[Main])
      BY <1>0, <1>7, <2>7, <2>8, MainYields DEF Yields, Clear
    <2>10. Triggering(Gpio)'
      <3>1. CASE Advances(todo'[Gpio], Opening(Gpio)) /\ f'.state = f.state
        BY <1>0, <1>7, <2>5, <2>7, <2>8, <2>9, <3>1 DEF Triggering
      <3>2. CASE todo'[Gpio] = Opening(Gpio) /\ f'.state \in {"DONE", "ARMED_WAIT"}
        BY <2>5, <2>7, <2>8, <2>9, <3>2 DEF Triggering
      <3>. QED
        BY <2>1, <3>1, <3>2 DEF AdvanceEffect
    <2>. QED
      BY <2>3, <2>5, <2>7, <2>8, <2>9, <2>10 DEF AtCard, AtGpio
  <1>8. CASE /\ todo[Gpio] = Start1(Gpio) /\ Fresh /\ f.state = "ARMED_WAIT" /\ ~f.cmd_pending
             /\ Yields(todo[Main])
    <2>1. Goes(Gpio, Start2(Gpio)) /\ World /\ FlagsBut({"state"}) /\ f'.state = "PRESENTING"
      BY <1>0, <1>8, StartStep
    <2>2. todo'[Gpio] = Start2(Gpio) /\ Goes(Gpio, todo'[Gpio])
      BY <1>1, <2>1
    <2>3. Data'
      BY <1>8, <2>1, <2>2, StartKeeps DEF World
    <2>5. Kept /\ struck' /\ ~f'.cmd_pending
      BY <1>0, <1>8, <2>1 DEF FlagsBut, Kept, Elsewhere, World
    <2>7. todo'[Main] = todo[Main] /\ todo'[Tx] = todo[Tx] /\ AtRe' /\ Idle(Re)'
      BY <1>3a, <2>2
    <2>8. Fresh' /\ Idle(Tx)' /\ AtTx'
      BY <1>8, <2>5, <2>7, FreshKept DEF Fresh, Idle, AtTx
    <2>9. AtMain' /\ Clear(Gpio)'
      BY <1>0, <1>8, <2>7, <2>8, MainYields DEF Yields, Clear
    <2>10. Triggering(Gpio)'
      BY <2>1, <2>2, <2>5, <2>8, <2>9 DEF Triggering
    <2>. QED
      BY <2>3, <2>5, <2>7, <2>8, <2>9, <2>10 DEF AtCard, AtGpio
  <1>9. CASE /\ todo[Gpio] = Start2(Gpio) /\ Fresh /\ f.state = "PRESENTING" /\ ~f.cmd_pending
             /\ Yields(todo[Main])
    <2>. DEFINE s == Do(<<"lupob_update">>, Again(Gpio))
    <2>1. Goes(Gpio, s) /\ Elsewhere /\ UNCHANGED due
          /\ FlagsBut({"presenting"}) /\ f'.presenting /\ pushed' = <<>>
      BY <1>0, <1>9, StartStep
    <2>2. todo'[Gpio] = s /\ Goes(Gpio, todo'[Gpio])
      BY <1>1, <2>1
    <2>3. Data'
      BY <1>9, <2>1, <2>2, StartKeeps
    <2>5. f'.presenting /\ ~f'.feed_irq /\ struck' /\ asked' /\ fifo' \in Nat /\ N' = 0
      BY <1>0, <1>9, <2>1, <2>3 DEF FlagsBut, Fresh, Elsewhere, Data, Types, N
    <2>7. todo'[Main] = todo[Main] /\ todo'[Tx] = todo[Tx] /\ AtRe' /\ Idle(Re)'
      BY <1>3a, <2>2
    <2>7a. N' <= fifo' + (IF drawn' THEN 1 ELSE 0)
      BY <2>5
    <2>8. Idle(Tx)' /\ AtTx' /\ Stale'
      BY <1>9, <2>5, <2>7, <2>7a DEF Fresh, Idle, AtTx, Stale
    <2>9. AtMain' /\ Clear(Gpio)'
      BY <1>0, <1>9, <2>7, <2>8, MainYields DEF Yields, Clear
    <2>10. FillAt(Gpio)'
      BY <1>0, <1>9, <2>1, <2>2, <2>3, NestAssumption
         DEF FillAt, Fits, N, Cursor, Data, Fresh, FlagsBut
    <2>11. Filling(Gpio)'
      BY <1>0, <1>9, <2>1, <2>5, <2>10 DEF Filling, FlagsBut
    <2>12. Triggering(Gpio)'
      BY <2>8, <2>9, <2>11 DEF Triggering
    <2>. QED
      BY <2>3, <2>5, <2>7, <2>8, <2>9, <2>12 DEF AtCard, AtGpio
  <1>10. ASSUME Deciding(todo[Main], Main) PROVE Fresh \/ Stale \/ Resting(todo[Main])
    BY <1>0, <1>10, DecidesFresh
  <1>11. CASE Filling(Gpio) /\ Yields(todo[Main]) /\ Idle(Tx)
    <2>1. FillEffect(Gpio)
      BY <1>0, <1>11, FillStep DEF Data
    <2>2. Data'
      BY <1>11, <2>1, FillKeeps
    <2>3. /\ Goes(Gpio, todo'[Gpio]) /\ struck' /\ asked' = asked /\ drawn' = drawn
      BY <1>0, <2>1 DEF FillEffect
    <2>4. todo'[Main] = todo[Main] /\ todo'[Tx] = todo[Tx] /\ AtRe' /\ Idle(Re)' /\ Idle(Tx)' /\ AtTx'
      BY <1>3a, <1>11, <2>3 DEF Idle, AtTx
    <2>5. Stale => Stale'
      BY <1>0, <2>1, <2>2, StaleFills DEF Data
    <2>8. AtMain'
      <3>1. CASE Resting(todo[Main])
        BY <2>4, <3>1, MainYields
      <3>2. CASE Deciding(todo[Main], Main) /\ Stale
        BY <2>4, <2>5, <3>2, MainYields
      <3>3. ~Fresh
        BY <1>11 DEF Fresh, Filling
      <3>. QED
        BY <1>10, <1>11, <3>1, <3>2, <3>3 DEF Yields
    <2>9. AtGpio'
      <3>1. Clear(Gpio)'
        BY <1>0, <1>11, <2>4 DEF Clear
      <3>2. CASE Filling(Gpio)' \/ Ended(Gpio)'
        BY <2>3, <2>4, <3>1, <3>2 DEF AtGpio, Triggering
      <3>3. CASE todo'[Gpio] = After(Gpio)
        BY <1>0, <3>3 DEF AtGpio, Idle
      <3>. QED
        BY <1>0, <2>1, <3>2, <3>3 DEF FillEffect
    <2>. QED
      BY <2>2, <2>4, <2>8, <2>9 DEF AtCard
  <1>12. CASE Ended(Gpio) /\ Yields(todo[Main]) /\ Idle(Tx)
    <2>1. EndEffect(Gpio)
      BY <1>0, <1>12, EndedStep
    <2>2. Plain(todo[Main])
      BY <1>12, Plains DEF Yields
    <2>3. Data'
      BY <1>0, <1>12, <2>1, <2>2, EndKeeps
    <2>4. /\ Goes(Gpio, todo'[Gpio]) /\ struck' /\ Kept
      BY <1>0, <1>12, <2>1 DEF EndEffect, Kept, Elsewhere, FlagsBut
    <2>5. todo'[Main] = todo[Main] /\ todo'[Tx] = todo[Tx] /\ AtRe' /\ Idle(Re)' /\ Idle(Tx)' /\ AtTx'
      BY <1>3a, <1>12, <2>4 DEF Idle, AtTx
    <2>6. AtMain' /\ Clear(Gpio)'
      BY <1>0, <1>10, <1>12, <2>4, <2>5, FreshKept, MainYields DEF Yields, Clear
    <2>7. Triggering(Gpio)'
      BY <2>1, <2>5, <2>6 DEF EndEffect, Triggering
    <2>. QED
      BY <2>3, <2>4, <2>5, <2>6, <2>7 DEF AtCard, AtGpio
  <1>13. CASE Closing(Gpio) /\ Yields(todo[Main]) /\ Idle(Tx)
    <2>1. CloseEffect(Gpio)
      BY <1>0, <1>13, ClosingStep
    <2>2. Data'
      BY <1>0, <1>13, <2>1, CloseKeeps
    <2>4. /\ Goes(Gpio, todo'[Gpio]) /\ struck' /\ Kept /\ f'.cmd_pending = f.cmd_pending
      BY <1>0, <1>13, <2>1 DEF CloseEffect, Kept, Elsewhere, FlagsBut, Closing, Flags
    <2>5. todo'[Main] = todo[Main] /\ todo'[Tx] = todo[Tx] /\ AtRe' /\ Idle(Re)' /\ Idle(Tx)' /\ AtTx'
      BY <1>3a, <1>13, <2>4 DEF Idle, AtTx
    <2>6. AtMain' /\ Clear(Gpio)'
      BY <1>0, <1>10, <1>13, <2>4, <2>5, FreshKept, MainYields DEF Yields, Clear
    <2>7. AtGpio'
      <3>1. CASE todo'[Gpio] = Again(Gpio)
        <4>1. Closing(Gpio)'
          BY <1>0, <1>13, <2>1, <2>4, <3>1 DEF Closing, CloseEffect, Kept
        <4>. QED
          BY <2>4, <2>5, <2>6, <4>1 DEF AtGpio, Triggering
      <3>2. CASE todo'[Gpio] = After(Gpio)
        BY <1>0, <3>2 DEF AtGpio, Idle
      <3>. QED
        BY <1>0, <2>1, <3>1, <3>2 DEF CloseEffect
    <2>. QED
      BY <2>2, <2>5, <2>6, <2>7 DEF AtCard
  <1>14. ASSUME Triggering(Gpio)
         PROVE  /\ Yields(todo[Main])
                /\ \/ (Filling(Gpio) \/ Ended(Gpio) \/ Closing(Gpio)) /\ Idle(Tx)
                   \/ /\ \/ Deciding(todo[Gpio], Gpio) \/ todo[Gpio] = Parking(Gpio)
                         \/ todo[Gpio] = Opening(Gpio)
                      /\ Fresh
                      /\ ~Deciding(todo[Gpio], Gpio) => ~f.cmd_pending
                   \/ /\ Advances(todo[Gpio], Opening(Gpio)) /\ Fresh /\ ~f.cmd_pending
                      /\ late \/ f.state = "CARD_DONE"
                   \/ todo[Gpio] = Start1(Gpio) /\ Fresh /\ f.state = "ARMED_WAIT" /\ ~f.cmd_pending
                   \/ todo[Gpio] = Start2(Gpio) /\ Fresh /\ f.state = "PRESENTING" /\ ~f.cmd_pending
    BY <1>0, <1>14 DEF Triggering, Parking, Clear
  <1>. QED
    BY <1>4, <1>5, <1>6, <1>7, <1>8, <1>9, <1>11, <1>12, <1>13, <1>14

\* A step of the card feed keeps the invariant,
LEMMA GpioStep ==
    ASSUME Data, AtCard, Runs(Gpio), Core1, CardsOutlastFifo
    PROVE  Data' /\ AtCard'
  <1>1. AtGpio /\ ~Idle(Gpio)
    BY DEF AtCard, Runs
  <1>2. f.cmd_pending \in BOOLEAN
    BY DEF Data, Types, Flags
  <1>. QED
    BY <1>1, <1>2, GpioQuiet, GpioTriggers DEF AtGpio

----------------------------------------------------------------------------
(* The TX interrupt.                                                       *)

\* and one of the TX FIFO handler,
LEMMA TxStep ==
    ASSUME Data, AtCard, Runs(Tx), Core1, CardsOutlastFifo
    PROVE  Data' /\ AtCard'
  <1>0. /\ Types /\ TodoOK /\ AtMain /\ AtTx /\ ~Idle(Tx) /\ Idle(Gpio) /\ Idle(Re)
        /\ {Main, Tx, Gpio, Re} = Contexts /\ Main # Gpio /\ Tx # Gpio /\ Re # Gpio
        /\ Main # Tx /\ Tx # Main /\ Tx # Re /\ Main # Re /\ Whole
        /\ After(Tx) = <<>> /\ Again(Tx) = <<>>
    <2>1. After(Tx) = <<>> /\ Again(Tx) = <<>>
      BY DEF After, Again, Main, Tx
    <2>2. Idle(Gpio) /\ Idle(Re) /\ ~Idle(Tx)
      BY DEF Runs, Contexts, Main, Tx, Gpio, Re
    <2>. QED
      BY <2>1, <2>2 DEF Data, Types, AtCard, Contexts, Main, Tx, Gpio, Re
  <1>1. ASSUME Goes(Tx, todo'[Tx])
        PROVE  /\ todo'[Main] = todo[Main] /\ todo'[Gpio] = <<>>
               /\ AtRe' /\ AtGpio' /\ Clear(Main)'
    BY <1>0, <1>1 DEF Goes, TodoOK, Idle, AtRe, AtGpio, Clear, Quiet
  <1>2. \/ Resting(todo[Main])
        \/ /\ Stale /\ Deciding(todo[Main], Main)
        \/ /\ Stale /\ ~f.cmd_pending
           /\ todo[Main] = Parking(Main) \/ (todo[Main] = Opening(Main) /\ f.state # "CARD_DONE")
    BY <1>0 DEF AtMain, Triggering, Parking, Fresh
  <1>3. ASSUME Goes(Tx, todo'[Tx]), Stale' \/ Resting(todo[Main]),
               ~f.cmd_pending => ~f'.cmd_pending,
               f'.state = "PRESENTING" \/ Resting(todo[Main])
        PROVE  AtMain'
    BY <1>0, <1>1, <1>2, <1>3 DEF AtMain, Triggering, Parking, Gpio, Main
  <1>4. CASE Filling(Tx)
    <2>1. FillEffect(Tx)
      BY <1>0, <1>4, FillStep
    <2>2. Data'
      BY <1>4, <2>1, FillKeeps
    <2>3. Stale => Stale'
      BY <1>0, <2>1, <2>2, StaleFills DEF Data
    <2>4. /\ f'.state = "PRESENTING" /\ ~f'.cmd_pending /\ Goes(Tx, todo'[Tx])
      BY <1>4, <2>1 DEF FillEffect, FlagsBut, Filling
    <2>5. AtMain'
      BY <1>2, <1>3, <2>3, <2>4
    <2>6. AtTx'
      BY <2>1 DEF FillEffect, AtTx, Idle
    <2>. QED
      BY <1>1, <2>2, <2>4, <2>5, <2>6 DEF AtCard
  <1>5. ~f.presenting => Resting(todo[Main])
    BY <1>2 DEF Stale
  <1>6. CASE Ended(Tx)
    <2>1. EndEffect(Tx) /\ Resting(todo[Main])
      BY <1>0, <1>5, <1>6, EndedStep DEF Ended
    <2>2. Plain(todo[Main]) /\ Plain(todo[Gpio])
      BY <1>0, <2>1, Plains DEF Idle
    <2>3. Data'
      BY <1>0, <1>6, <2>1, <2>2, EndKeeps
    <2>4. Goes(Tx, todo'[Tx]) /\ AtTx'
      BY <2>1 DEF EndEffect, AtTx
    <2>5. AtMain'
      BY <1>1, <2>1, <2>4, MainYields
    <2>. QED
      BY <1>1, <2>3, <2>4, <2>5 DEF AtCard
  <1>7. CASE Closing(Tx)
    <2>1. CloseEffect(Tx) /\ Resting(todo[Main])
      BY <1>0, <1>5, <1>7, ClosingStep DEF Closing
    <2>3. Data'
      BY <1>0, <1>7, <2>1, CloseKeeps
    <2>4. Goes(Tx, todo'[Tx]) /\ AtTx'
      BY <2>1 DEF CloseEffect, AtTx, Idle
    <2>5. AtMain'
      BY <1>1, <2>1, <2>4, MainYields
    <2>. QED
      BY <1>1, <2>3, <2>4, <2>5 DEF AtCard
  <1>. QED
    BY <1>0, <1>4, <1>6, <1>7 DEF AtTx

----------------------------------------------------------------------------
(* The RE command.                                                         *)

\* A step of the command handler that touches nothing but the pin and FININ.
LEMMA ReLight ==
    ASSUME Data, AtCard, Runs(Re), Goes(Re, todo'[Re]), World, FlagsBut({})
    PROVE  /\ Data' /\ AtMain' /\ AtTx' /\ AtGpio' /\ struck' /\ Idle(Gpio)'
           /\ Accepts => Accepts'
  <1>0. /\ Types /\ TodoOK /\ AtMain /\ AtTx /\ AtRe /\ ~Idle(Re) /\ struck /\ Idle(Gpio)
        /\ {Main, Tx, Gpio, Re} = Contexts /\ Main # Gpio /\ Tx # Gpio /\ Re # Gpio
        /\ Gpio # Re /\ Main # Tx /\ Main # Re /\ Tx # Re
    <2>1. ~Idle(Re)
      BY DEF Runs
    <2>2. AtRe
      BY DEF AtCard
    <2>3. struck /\ Idle(Gpio)
      BY <2>1, <2>2 DEF AtRe
    <2>. QED
      BY <2>1, <2>2, <2>3 DEF Data, Types, AtCard, Contexts, Main, Tx, Gpio, Re
  <1>1. todo'[Main] = todo[Main] /\ todo'[Tx] = todo[Tx] /\ todo'[Gpio] = <<>>
        /\ todo[Gpio] = <<>>
    BY <1>0 DEF Goes, TodoOK, Idle
  <1>2. struck'
    BY <1>0 DEF World, Elsewhere
  <1>3. Data'
    BY <1>0, QuietKeeps DEF FlagsBut
  <1>4. /\ f'.state = f.state /\ f'.cmd_pending = f.cmd_pending /\ late' = late
        /\ asked' = asked /\ fifo' = fifo /\ Kept
    BY DEF World, Elsewhere, FlagsBut, Kept
  <1>5. (Fresh => Fresh') /\ (Stale => Stale')
    BY <1>1, <1>4, FreshKept
  <1>6. AtTx'
    BY <1>0, <1>1, Frozen DEF AtTx, Idle
  <1>7. AtMain'
    <2>1. CASE Resting(todo[Main])
      BY <1>1, <2>1, MainYields
    <2>2. CASE Triggering(Main)
      <3>1. Clear(Main)' /\ (Idle(Tx) => Idle(Tx)') /\ Idle(Gpio)'
        BY <1>1 DEF Clear, Idle, Quiet
      <3>2. CASE Filling(Main) \/ Ended(Main) \/ Closing(Main)
        <4>1. Filling(Main)' \/ Ended(Main)' \/ Closing(Main)'
          BY <1>1, <3>2, Frozen
        <4>. QED
          BY <1>0, <1>1, <1>4, <1>5, <2>2, <3>1, <4>1 DEF AtMain, Triggering
      <3>3. CASE ~Filling(Main) /\ ~Ended(Main) /\ ~Closing(Main)
        BY <1>0, <1>1, <1>4, <1>5, <2>2, <3>1, <3>3 DEF AtMain, Triggering
      <3>. QED
        BY <3>2, <3>3
    <2>. QED
      BY <1>0, <2>1, <2>2 DEF AtMain
  <1>8. AtGpio' /\ Idle(Gpio)'
    BY <1>1 DEF AtGpio, Idle
  <1>9. Accepts => Accepts'
    BY <1>1, <1>4, <1>5, Frozen DEF Accepts
  <1>. QED
    BY <1>2, <1>3, <1>6, <1>7, <1>8, <1>9

\* A step of the command handler keeps the invariant.
LEMMA ReStep ==
    ASSUME Data, AtCard, Runs(Re), Core1
    PROVE  Data' /\ AtCard'
  <1>0. /\ Types /\ TodoOK /\ AtMain /\ AtTx /\ AtRe /\ ~Idle(Re) /\ struck /\ Idle(Gpio)
        /\ {Main, Tx, Gpio, Re} = Contexts /\ Main # Gpio /\ Tx # Gpio /\ Re # Gpio
        /\ Gpio # Re /\ Main # Tx /\ Main # Re /\ Tx # Re /\ f \in Flags /\ Ready \in BOOLEAN
        /\ f.finin_pending \in BOOLEAN /\ FALSE \in BOOLEAN /\ TRUE \in BOOLEAN
    <2>1. ~Idle(Re)
      BY DEF Runs
    <2>2. AtRe
      BY DEF AtCard
    <2>3. struck /\ Idle(Gpio)
      BY <2>1, <2>2 DEF AtRe
    <2>4. f \in Flags /\ Ready \in BOOLEAN
      BY DEF Data, Types, Ready
    <2>5. f.finin_pending \in BOOLEAN /\ FALSE \in BOOLEAN /\ TRUE \in BOOLEAN
      BY <2>4 DEF Flags
    <2>. QED
      BY <2>1, <2>2, <2>3, <2>4, <2>5 DEF Data, Types, AtCard, Contexts, Main, Tx, Gpio, Re
  <1>1. \A s : Goes(Re, s) => todo'[Re] = s /\ Goes(Re, todo'[Re])
    BY <1>0 DEF Goes, TodoOK
  <1>2. Quietly => World /\ FlagsBut({}) /\ f' = f
    BY <1>0 DEF Quietly, World, Elsewhere, FlagsBut
  <1>. DEFINE u == Do(<<"lupob_update">>, <<>>)
              w == Do(Put("cmd_pending", TRUE), Updates)
              p == Do(Put("finin_pending", FALSE), w)
              g == Do(<<"finin_release">>, w)
  <1>3. IsStack(<<>>) /\ IsStack(u) /\ IsStack(Updates) /\ IsStack(w) /\ Updates = Do(<<"lupob_update">>, u)
    BY Stacks, DoFacts DEF Updates
  <1>4. ASSUME NEW s, Goes(Re, s), World, FlagsBut({}),
               \/ s = <<>>
               \/ s \in {g, p, w} /\ Accepts
               \/ \E v \in BOOLEAN : s = Do(Put("lupob", v), u) \/ s = Do(Put("lupob", v), <<>>)
               \/ s = u
        PROVE  Data' /\ AtCard'
    <2>1. todo'[Re] = s /\ Goes(Re, todo'[Re])
      BY <1>1, <1>4
    <2>2. /\ Data' /\ AtMain' /\ AtTx' /\ AtGpio' /\ struck' /\ Idle(Gpio)'
          /\ Accepts => Accepts'
      BY <1>4, <2>1, ReLight
    <2>3. AtRe'
      <3>1. CASE s = <<>>
        BY <2>1, <3>1 DEF AtRe, Idle
      <3>2. CASE s \in {g, p, w} /\ Accepts
        BY <2>1, <2>2, <3>2 DEF AtRe
      <3>3. CASE \E v \in BOOLEAN : s = Do(Put("lupob", v), u) \/ s = Do(Put("lupob", v), <<>>)
        BY <2>1, <2>2, <3>3 DEF AtRe
      <3>4. CASE s = u
        BY <2>1, <2>2, <3>4 DEF AtRe
      <3>. QED
        BY <1>4, <3>1, <3>2, <3>3, <3>4
    <2>. QED
      BY <2>2, <2>3 DEF AtCard
  <1>5. CASE /\ todo[Re] = Do(<<"on_read">>, <<>>)
             /\ f.state \in {"ARMED_WAIT", "CARD_DONE"} => Accepts
    <2>1. /\ Quietly
          /\ f.state \in {"ARMED_WAIT", "CARD_DONE"} => Goes(Re, g)
          /\ f.state \notin {"ARMED_WAIT", "CARD_DONE"} => Goes(Re, u)
      BY <1>0, <1>3, <1>5, CallOnRead DEF Updates
    <2>. HIDE DEF u, w, p, g
    <2>. QED
      BY <1>2, <1>4, <1>5, <2>1
  <1>6. CASE Accepts /\ todo[Re] = g
    <2>1. Quietly /\ Goes(Re, IF f.finin_pending THEN p ELSE w)
      BY <1>0, <1>3, <1>6, CallFinin
    <2>. HIDE DEF u, w, p, g
    <2>2. Goes(Re, p) \/ Goes(Re, w)
      BY <2>1
    <2>. QED
      BY <1>2, <1>4, <1>6, <2>1, <2>2
  <1>7. CASE Accepts /\ todo[Re] = p
    <2>1. Goes(Re, w) /\ World /\ FlagsBut({})
      BY <1>0, <1>3, <1>7, StoredFinin DEF World
    <2>. HIDE DEF u, w, p, g
    <2>. QED
      BY <1>4, <1>7, <2>1
  <1>8. CASE Accepts /\ todo[Re] = w
    <2>1. /\ Goes(Re, Updates) /\ World /\ FlagsBut({"cmd_pending"}) /\ f'.cmd_pending = TRUE
      BY <1>0, <1>3, <1>8, StoredCommand DEF World
    <2>2. /\ todo'[Main] = todo[Main] /\ todo'[Tx] = todo[Tx] /\ todo'[Gpio] = <<>>
          /\ todo'[Re] = Updates /\ TodoOK'
      BY <1>0, <1>1, <2>1 DEF Goes, TodoOK, Idle
    <2>3. /\ f'.state = f.state /\ f'.card = f.card /\ f'.col = f.col /\ f'.presenting = f.presenting
          /\ f'.feed_irq = f.feed_irq /\ f' \in Flags
          /\ UNCHANGED <<fifo, pushed, due, asked, struck, drawn, late>> /\ N' = N
      BY <2>1 DEF FlagsBut, World, Elsewhere, N
    <2>4. asked /\ fifo = 0 /\ ~f.presenting
      BY <1>8 DEF Accepts, Fresh, Closing
    <2>5. (Closing(Tx) => Closing(Tx)') /\ (Closing(Main) => Closing(Main)')
      BY <1>0, <2>2, <2>3 DEF Closing
    <2>6. Types' /\ Whole' /\ InOrder' /\ Commands'
      BY <2>2, <2>3, <2>4, <2>1 DEF Data, Types, Whole, InOrder, Commands
    <2>7. Cursor'
      <3>1. f.feed_irq => Closing(Tx)
        BY <1>8 DEF Accepts, Fresh
      <3>2. ~f.presenting => f.col = 0 /\ N \in {0, NCols}
        BY DEF Data, Cursor
      <3>. QED
        BY <2>3, <2>4, <2>5, <3>1, <3>2 DEF Cursor
    <2>8. Order'
      <3>1. todo[Gpio] = <<>>
        BY <1>0 DEF Idle
      <3>. QED
        BY <2>2, <2>3, <3>1 DEF Data, Order
    <2>9. Data'
      BY <2>6, <2>7, <2>8 DEF Data
    <2>10. AtTx'
      BY <1>8, <2>2, <2>5 DEF Accepts, AtTx, Fresh, Idle
    <2>11. AtMain'
      <3>1. CASE Resting(todo[Main])
        BY <2>2, <3>1 DEF AtMain
      <3>2. CASE Closing(Main)
        <4>1. ~Closing(Tx)
          BY <1>0, <3>2 DEF Closing
        <4>2. Idle(Tx)'
          BY <1>8, <2>2, <4>1 DEF Accepts, Fresh, Idle
        <4>3. Clear(Main)'
          BY <2>2 DEF Clear, Quiet
        <4>. QED
          BY <2>5, <3>2, <4>2, <4>3 DEF AtMain, Triggering
      <3>. QED
        BY <1>8, <3>1, <3>2 DEF Accepts
    <2>12. AtGpio' /\ Idle(Gpio)'
      BY <2>2 DEF AtGpio, Idle
    <2>13. AtRe'
      BY <1>0, <2>2, <2>3, <2>12 DEF AtRe
    <2>. QED
      BY <2>9, <2>10, <2>11, <2>12, <2>13 DEF AtCard
  <1>9. ASSUME NEW r \in {u, <<>>}, todo[Re] = Do(<<"lupob_update">>, r)
        PROVE  Data' /\ AtCard'
    <2>1. IsStack(r)
      BY <1>3
    <2>2. Quietly /\ Goes(Re, Do(Put("lupob", Ready), r))
      BY <1>0, <1>9, <2>1, CallUpdate
    <2>. HIDE DEF u, w, p, g
    <2>. QED
      BY <1>0, <1>2, <1>4, <1>9, <2>2
  <1>10. ASSUME NEW r \in {u, <<>>}, NEW v \in BOOLEAN, todo[Re] = Do(Put("lupob", v), r)
         PROVE  Data' /\ AtCard'
    <2>1. IsStack(r)
      BY <1>3
    <2>2. Goes(Re, r) /\ World /\ FlagsBut({})
      BY <1>0, <1>10, <2>1, StoredPin DEF World
    <2>. HIDE DEF u, w, p, g
    <2>. QED
      BY <1>4, <1>10, <2>2
  <1>. QED
    BY <1>0, <1>3, <1>5, <1>6, <1>7, <1>8, <1>9, <1>10 DEF AtRe, Idle

\* A step of core1 with a handler, or the main loop, in the middle of something.
LEMMA Core1Step ==
    ASSUME Data, AtCard, Core1, CardsOutlastFifo, NEW c \in Contexts, ~Idle(c)
    PROVE  Data' /\ AtCard'
  <1>1. Runs(Main) \/ Runs(Tx) \/ Runs(Gpio) \/ Runs(Re)
    BY DEF Runs, Idle, Contexts, Main, Tx, Gpio, Re
  <1>. QED
    BY <1>1, MainStep, TxStep, GpioStep, ReStep

----------------------------------------------------------------------------
(* Around core1.                                                           *)

\* A context that is about to execute one statement.
LEMMA Singleton == ASSUME NEW a PROVE <<a>> = Do(a, <<>>) /\ IsStack(<<a>>)
  <1>1. <<a>> \in Seq({a})
    OBVIOUS
  <1>2. <<a>> \o <<>> = <<a>>
    BY <1>1, ConcatEmptySeq
  <1>. QED
    BY <1>1, <1>2, SeqStack DEF Do

Has(s, stmt) == \E i \in 1 .. Len(s) : s[i] = stmt
HasBehind(s, stmt) == \E i \in 2 .. Len(s) : s[i] = stmt

\* A statement is on a stack if it is on top of it or further down.
LEMMA DoHas ==
    ASSUME NEW a, NEW s, IsStack(s), NEW stmt
    PROVE  /\ Has(Do(stmt, s), stmt)
           /\ Has(s, stmt) => Has(Do(a, s), stmt) /\ HasBehind(Do(a, s), stmt)
  <1>1. PICK S : s \in Seq(S)
    BY StackSeq
  <1>2. ASSUME NEW b
        PROVE  /\ Len(Do(b, s)) = Len(s) + 1 /\ Do(b, s)[1] = b /\ Len(s) \in Nat
               /\ \A i \in 1 .. Len(s) : Do(b, s)[i + 1] = s[i]
    <2>. DEFINE V == S \cup {b}
    <2>1. s \in Seq(V) /\ b \in V /\ <<b>> \in Seq(V)
      BY <1>1
    <2>. HIDE DEF V
    <2>2. /\ Len(<<b>> \o s) = Len(s) + 1 /\ (<<b>> \o s)[1] = b /\ Len(s) \in Nat
          /\ \A i \in 1 .. Len(s) : (<<b>> \o s)[i + 1] = s[i]
      BY <2>1
    <2>. QED
      BY <2>2 DEF Do
  <1>3. Has(Do(stmt, s), stmt)
    BY <1>2 DEF Has
  <1>4. ASSUME Has(s, stmt) PROVE Has(Do(a, s), stmt) /\ HasBehind(Do(a, s), stmt)
    <2>1. PICK i \in 1 .. Len(s) : s[i] = stmt
      BY <1>4 DEF Has
    <2>2. i + 1 \in 2 .. Len(Do(a, s)) /\ Do(a, s)[i + 1] = stmt
      BY <1>2, <2>1
    <2>. QED
      BY <2>2 DEF Has, HasBehind
  <1>. QED
    BY <1>3, <1>4

\* From the start of a rewind to the emptying of the FIFO it is seen as one.
LEMMA RewindingNow == AtRewind => Rewinding /\ ~AtRest
  <1>. DEFINE x == <<"clear">>
              d1 == Put("card", Loader)
              d2 == Put("col", 0)
              d3 == Put("presenting", FALSE)
              d4 == Put("cmd_pending", FALSE)
              d5 == Put("finin_pending", FALSE)
              d6 == Put("state", "ARMED_WAIT")
              d7 == Put("feed_irq", FALSE)
  <1>1. /\ Rewind8 = Do(x, Feeding) /\ Rewind7 = Do(d7, Rewind8) /\ Rewind6 = Do(d6, Rewind7)
        /\ Rewind5 = Do(d5, Rewind6) /\ Rewind4 = Do(d4, Rewind5) /\ Rewind3 = Do(d3, Rewind4)
        /\ Rewind2 = Do(d2, Rewind3) /\ Rewind1 = Do(d1, Rewind2)
    BY DEF Rewind1, Rewind2, Rewind3, Rewind4, Rewind5, Rewind6, Rewind7, Rewind8
  <1>2. IsStack(Feeding)
    BY Stacks
  <1>. HIDE DEF d1, d2, d3, d4, d5, d6, d7, x
  <1>3. /\ IsStack(Rewind8) /\ IsStack(Rewind7) /\ IsStack(Rewind6) /\ IsStack(Rewind5)
        /\ IsStack(Rewind4) /\ IsStack(Rewind3) /\ IsStack(Rewind2) /\ IsStack(Rewind1)
    BY <1>1, <1>2, DoFacts
  <1>4. Has(Rewind8, x) /\ Has(Rewind7, x)
    BY <1>1, <1>2, <1>3, DoHas
  <1>5. Has(Rewind6, x) /\ Has(Rewind5, x)
    BY <1>1, <1>3, <1>4, DoHas
  <1>6. Has(Rewind4, x) /\ Has(Rewind3, x)
    BY <1>1, <1>3, <1>5, DoHas
  <1>7. Has(Rewind2, x) /\ Has(Rewind1, x)
    BY <1>1, <1>3, <1>6, DoHas
  <1>8. ASSUME AtRewind PROVE Has(todo[Main], x)
    BY <1>4, <1>5, <1>6, <1>7, <1>8 DEF AtRewind
  <1>9. ~Has(<<>>, x) /\ ~Has(<<<<"poll_cmd">>>>, x) /\ ~Has(<<<<"wfe">>>>, x)
    BY DEF Has, x
  <1>. QED
    BY <1>8, <1>9 DEF Rewinding, AtRest, Has, x

\* The stacks of a rewind are stacks.
LEMMA RewindStacks ==
    /\ IsStack(Rewind8) /\ IsStack(Rewind7) /\ IsStack(Rewind6) /\ IsStack(Rewind5)
    /\ IsStack(Rewind4) /\ IsStack(Rewind3) /\ IsStack(Rewind2) /\ IsStack(Rewind1)
  BY Stacks, DoFacts
     DEF Rewind1, Rewind2, Rewind3, Rewind4, Rewind5, Rewind6, Rewind7, Rewind8

\* The main loop advancing past a parked card is seen doing so.
LEMMA AdvancingNow == Advances(todo[Main], Opening(Main)) => Advancing
  <1>. DEFINE x == <<"present_card">>
              r == Opening(Main)
              s == Put("state", "ARMED_WAIT")
  <1>1. IsStack(r) /\ Has(r, x)
    BY Stacks, DoHas DEF Opening
  <1>. HIDE DEF x, r
  <1>2. \A a : IsStack(Do(a, r)) /\ Has(Do(a, r), x) /\ HasBehind(Do(a, r), x)
    BY <1>1, DoHas, DoFacts
  <1>3. \A a, b : IsStack(Do(a, Do(b, r))) /\ Has(Do(a, Do(b, r)), x) /\ HasBehind(Do(a, Do(b, r)), x)
    BY <1>2, DoHas, DoFacts
  <1>4. \A a, b, c : HasBehind(Do(a, Do(b, Do(c, r))), x)
    BY <1>3, DoHas
  <1>5. ASSUME NEW t, Advances(t, r) PROVE HasBehind(t, x)
    BY <1>2, <1>3, <1>4, <1>5 DEF Advances
  <1>. QED
    BY <1>5 DEF r, x, HasBehind, Advancing

\* With nothing under way the main loop has nothing of a card in hand.
LEMMA Rested ==
    ASSUME AtRest
    PROVE  Resting(todo[Main]) /\ Idle(Tx) /\ Idle(Gpio) /\ Idle(Re)
  <1>1. <<<<"poll_cmd">>>> = Do(<<"poll_cmd">>, <<>>) /\ <<<<"wfe">>>> = Do(<<"wfe">>, <<>>)
    BY Singleton
  <1>2. Resting(todo[Main])
    BY <1>1 DEF AtRest, Resting
  <1>. QED
    BY <1>2 DEF AtRest, Contexts, Main, Tx, Gpio, Re

\* The state machine takes a word.
LEMMA SmStep ==
    ASSUME Data, AtCard, SmPulls, CardsOutlastFifo
    PROVE  Data' /\ AtCard'
  <1>0. /\ Types /\ Whole /\ InOrder /\ Cursor /\ Commands /\ Order
        /\ AtMain /\ AtTx /\ AtGpio /\ AtRe
        /\ UNCHANGED <<f, todo, struck, pushed, due, late>> /\ N' = N
        /\ fifo > 0 /\ fifo' = fifo - 1 /\ drawn' = TRUE /\ (drawn => AtRest)
        /\ asked' = (asked /\ (fifo > 1 \/ N < NCols))
        /\ N \in Nat /\ NCols \in Nat /\ FifoDepth \in Nat
    BY NestAssumption DEF Data, AtCard, SmPulls, N, Types
  <1>1. fifo \in 1 .. FifoDepth /\ fifo' \in 0 .. FifoDepth /\ fifo' < FifoDepth /\ fifo # 0
    BY <1>0, NestAssumption DEF Types
  <1>2. Types' /\ Whole' /\ InOrder' /\ Order'
    BY <1>0, <1>1 DEF Types, TodoOK, Whole, InOrder, Order, Contexts, Main, Tx, Gpio, Re
  <1>3. \A c : (Filling(c) => Filling(c)') /\ (Ended(c) => Ended(c)') /\ (Closing(c) => Closing(c)')
    <2> SUFFICES ASSUME NEW c
                 PROVE  (Filling(c) => Filling(c)') /\ (Ended(c) => Ended(c)') /\ (Closing(c) => Closing(c)')
      OBVIOUS
    <2>1. FillAt(c) => FillAt(c)'
      BY <1>0, <1>1 DEF FillAt, Fits, Just
    <2>. QED
      BY <1>0, <2>1 DEF Filling, Ended, Closing
  <1>4. Cursor'
    BY <1>0, <1>3 DEF Cursor, Fits, Idle
  <1>5. asked /\ ~f.cmd_pending
    BY <1>0, <1>1 DEF Commands
  <1>6. Commands'
    <2>1. ASSUME ~asked' PROVE fifo' = 0 /\ N = NCols
      <3>1. N <= NCols
        BY <1>0 DEF Whole
      <3>2. ~(fifo > 1) /\ ~(N < NCols)
        BY <1>0, <1>5, <2>1
      <3>3. fifo \in Nat /\ fifo # 0 /\ fifo' = fifo - 1
        BY <1>0, <1>1, NestAssumption
      <3>4. fifo' = 0
        BY <3>2, <3>3
      <3>5. N \in Nat /\ NCols \in Nat
        BY <1>0
      <3>6. N = NCols
        BY <3>1, <3>2, <3>5
      <3>. QED
        BY <3>4, <3>6
    <2>. QED
      BY <1>0, <1>5, <2>1 DEF Commands
  <1>7. Data'
    BY <1>2, <1>4, <1>6 DEF Data
  <1>8. AtTx'
    BY <1>0, <1>3 DEF AtTx, Idle
  <1>9. ~Fresh /\ ~Accepts
    BY <1>1 DEF Fresh, Accepts
  <1>10. CASE AtRest
    <2>1. Resting(todo'[Main]) /\ Idle(Gpio)' /\ Idle(Re)'
      BY <1>0, <1>10, Rested DEF Idle
    <2>. QED
      BY <1>7, <1>8, <2>1 DEF AtCard, AtMain, AtGpio, AtRe
  <1>11. CASE ~AtRest
    <2>1. ~drawn
      BY <1>0, <1>11
    <2>2. Stale => Stale'
      <3>1. SUFFICES ASSUME Stale PROVE Stale'
        OBVIOUS
      <3>2. N <= fifo /\ asked /\ struck /\ f.presenting
        <4>1. (IF drawn THEN 1 ELSE 0) = 0
          BY <2>1
        <4>2. N <= fifo + 0 /\ asked /\ struck /\ f.presenting
          BY <3>1, <4>1 DEF Stale
        <4>. QED
          BY <1>0, <1>1, <4>2
      <3>3. N < NCols
        BY <1>0, <1>1, <3>2, NestAssumption DEF CardsOutlastFifo
      <3>4. N <= fifo' + 1
        BY <1>0, <1>1, <3>2
      <3>. QED
        BY <1>0, <3>2, <3>3, <3>4 DEF Stale
    <2>3. \A c \in {Main, Gpio} : Triggering(c) => Triggering(c)'
      BY <1>0, <1>3, <1>9, <2>2 DEF Triggering, Clear, Yields, Idle
    <2>4. AtMain' /\ AtGpio'
      BY <1>0, <1>5, <1>9, <2>3 DEF AtMain, AtGpio, Idle, Yields
    <2>5. AtRe'
      BY <1>0, <1>9 DEF AtRe, Idle
    <2>. QED
      BY <1>7, <1>8, <2>4, <2>5 DEF AtCard
  <1>. QED
    BY <1>10, <1>11

\* A step of no consequence.
LEMMA NothingHappens ==
    ASSUME UNCHANGED <<f, fifo, todo, asked, struck, drawn, pushed, due, late>>
    PROVE  /\ Types => Types'
           /\ Whole => Whole'
           /\ InOrder => InOrder'
           /\ AtRewind => AtRewind'
           /\ Data => Data'
           /\ AtCard => AtCard'
  <1>0. N' = N
    BY DEF N
  <1>1. (Types => Types') /\ (Whole => Whole') /\ (InOrder => InOrder')
    BY <1>0 DEF Types, TodoOK, Whole, InOrder, Contexts, Main, Tx, Gpio, Re
  <1>2. AtRewind => AtRewind'
    BY DEF AtRewind, Idle
  <1>3. \A c : (Filling(c) => Filling(c)') /\ (Ended(c) => Ended(c)') /\ (Closing(c) => Closing(c)')
    <2> SUFFICES ASSUME NEW c
                 PROVE  (Filling(c) => Filling(c)') /\ (Ended(c) => Ended(c)') /\ (Closing(c) => Closing(c)')
      OBVIOUS
    <2>1. FillAt(c) => FillAt(c)'
      BY <1>0 DEF FillAt, Fits, Just
    <2>. QED
      BY <1>0, <2>1 DEF Filling, Ended, Closing
  <1>4. (Fresh => Fresh') /\ (Stale => Stale')
    BY <1>0 DEF Fresh, Stale, Idle
  <1>5. Cursor => Cursor'
    BY <1>0, <1>3 DEF Cursor, Fits, Idle
  <1>6. (Commands => Commands') /\ (Order => Order')
    BY <1>0 DEF Commands, Order
  <1>7. \A c : Triggering(c) => Triggering(c)'
    BY <1>3, <1>4 DEF Triggering, Clear, Idle
  <1>8. Accepts => Accepts'
    BY <1>3, <1>4 DEF Accepts
  <1>9. (AtMain => AtMain') /\ (AtTx => AtTx')
    BY <1>3, <1>7 DEF AtMain, AtTx, Idle
  <1>10. (AtGpio => AtGpio') /\ (AtRe => AtRe')
    BY <1>4, <1>7, <1>8 DEF AtGpio, AtRe, Idle
  <1>. QED
    BY <1>1, <1>2, <1>5, <1>6, <1>9, <1>10 DEF Data, AtCard

\* The TX interrupt comes.
LEMMA TxTakenStep ==
    ASSUME Data, AtCard, TxTaken
    PROVE  Data' /\ AtCard'
  <1>0. /\ Types /\ Whole /\ InOrder /\ Cursor /\ Commands /\ Order
        /\ AtMain /\ f.feed_irq /\ fifo < FifoDepth /\ Idle(Tx) /\ Idle(Gpio) /\ Idle(Re)
        /\ UNCHANGED <<f, fifo, asked, struck, drawn, pushed, due, late>> /\ N' = N
        /\ Main # Tx /\ Gpio # Tx
    BY DEF Data, AtCard, TxTaken, N, Contexts, Main, Tx, Gpio, Re
  <1>1. /\ todo'[Tx] = Do(<<"on_txfeed">>, <<>>) /\ todo'[Main] = todo[Main]
        /\ todo'[Gpio] = <<>> /\ todo'[Re] = <<>> /\ TodoOK'
    <2>. DEFINE s == Do(<<"on_txfeed">>, <<>>)
    <2>1. todo' = [todo EXCEPT ![Tx] = s] /\ TodoOK
      BY <1>0, Singleton DEF TxTaken, Types
    <2>2. IsStack(s)
      BY EmptyStack, DoFacts
    <2>3. Main \in Contexts /\ Tx \in Contexts /\ Gpio \in Contexts /\ Re \in Contexts /\ Re # Tx
      BY DEF Contexts, Main, Tx, Gpio, Re
    <2>. HIDE DEF s
    <2>4. TodoOK'
      BY <2>1, <2>2 DEF TodoOK
    <2>5. /\ todo'[Tx] = s /\ todo'[Main] = todo[Main]
          /\ todo'[Gpio] = todo[Gpio] /\ todo'[Re] = todo[Re]
      BY <1>0, <2>1, <2>3 DEF TodoOK
    <2>. QED
      BY <1>0, <2>4, <2>5 DEF Idle, s
  <1>2. f.presenting
    <2>1. ~Ended(Tx) /\ ~Closing(Tx)
      BY <1>0, NonEmpty DEF Ended, Closing, Idle
    <2>. QED
      BY <1>0, <2>1 DEF Cursor
  <1>3. Fits /\ f.state = "PRESENTING" /\ ~f.cmd_pending
    BY <1>0, <1>2 DEF Cursor, Commands
  <1>4. Filling(Tx)'
    BY <1>0, <1>1, <1>2, <1>3 DEF Filling, FillAt, Fits
  <1>5. Types' /\ Whole' /\ InOrder' /\ Commands'
    BY <1>0, <1>1 DEF Types, Whole, InOrder, Commands
  <1>6. Order'
    <2>1. Plain(todo[Gpio]) <=> Plain(todo'[Gpio])
      BY <1>0, <1>1 DEF Idle
    <2>. QED
      BY <1>0, <1>1, <2>1 DEF Order
  <1>7. Cursor'
    <2>1. todo'[Tx] # <<>>
      BY <1>4, NonEmpty DEF Filling
    <2>. QED
      BY <1>0, <1>2, <1>3, <1>4, <2>1 DEF Cursor, Idle
  <1>8. AtMain'
    <2>1. CASE Resting(todo[Main])
      BY <1>1, <2>1, MainYields
    <2>2. CASE Triggering(Main)
      <3>1. ~Filling(Main) /\ ~Ended(Main) /\ ~Closing(Main) /\ ~Fresh
        BY <1>0 DEF Filling, Ended, Closing, Fresh
      <3>2. Stale => Stale'
        BY <1>0 DEF Stale
      <3>3. Clear(Main)'
        BY <1>1 DEF Clear, Quiet
      <3>. QED
        BY <1>0, <1>1, <2>2, <3>1, <3>2, <3>3 DEF AtMain, Triggering, Main, Gpio
    <2>. QED
      BY <1>0, <2>1, <2>2 DEF AtMain
  <1>. QED
    BY <1>1, <1>4, <1>5, <1>6, <1>7, <1>8 DEF Data, AtCard, AtTx, AtGpio, AtRe, Idle

\* A strobe comes in where nothing of the wire's is under way.
LEMMA Struck ==
    ASSUME Data, AtCard, NEW c \in {Gpio, Re}, NEW call, Strobe(c, call)
    PROVE  /\ Idle(Gpio) /\ Idle(Re) /\ TodoOK'
           /\ todo'[c] = Do(<<call>>, <<>>) /\ struck' = TRUE
           /\ todo'[Main] = todo[Main] /\ todo'[Tx] = todo[Tx]
           /\ \A d \in {Gpio, Re} \ {c} : todo'[d] = <<>>
           /\ UNCHANGED <<f, fifo, drawn, pushed, due>>
           /\ struck => AtRest
  <1>1. Idle(c) /\ (struck => AtRest) /\ TodoOK
    BY DEF Strobe, Data, Types
  <1>2. AtGpio /\ AtRe
    BY DEF AtCard
  <1>3. ~Idle(Gpio) => struck
    BY <1>2 DEF AtGpio
  <1>4. ~Idle(Re) => struck
    BY <1>2 DEF AtRe
  <1>5. Idle(Gpio) /\ Idle(Re)
    BY <1>1, <1>3, <1>4, Rested
  <1>6. todo' = [todo EXCEPT ![c] = Do(<<call>>, <<>>)]
    BY Singleton DEF Strobe
  <1>. DEFINE s == Do(<<call>>, <<>>)
  <1>7. IsStack(s)
    BY EmptyStack, DoFacts
  <1>8. /\ Main \in Contexts /\ Tx \in Contexts /\ Gpio \in Contexts /\ Re \in Contexts
        /\ Main # c /\ Tx # c
    BY DEF Contexts, Main, Tx, Gpio, Re
  <1>. HIDE DEF s
  <1>9. todo' = [todo EXCEPT ![c] = s]
    BY <1>6 DEF s
  <1>10. TodoOK' /\ todo'[c] = s /\ todo'[Main] = todo[Main] /\ todo'[Tx] = todo[Tx]
    BY <1>1, <1>7, <1>8, <1>9 DEF TodoOK
  <1>11. \A d \in {Gpio, Re} \ {c} : todo'[d] = <<>>
    BY <1>1, <1>5, <1>8, <1>9 DEF TodoOK, Idle
  <1>12. struck' = TRUE /\ UNCHANGED <<f, fifo, drawn, pushed, due>>
    BY DEF Strobe
  <1>. QED
    BY <1>1, <1>5, <1>10, <1>11, <1>12 DEF s

\* A read command comes in.
LEMMA ReadStep ==
    ASSUME Data, AtCard, Read
    PROVE  Data' /\ AtCard'
  <1>0. /\ Types /\ Whole /\ InOrder /\ Cursor /\ Commands /\ Order /\ AtMain /\ AtTx
        /\ ~asked /\ asked' = TRUE /\ late' = late /\ Strobe(Re, "on_read") /\ f \in Flags
    BY DEF Data, Types, AtCard, Read
  <1>1. /\ Idle(Gpio) /\ Idle(Re) /\ TodoOK'
        /\ todo'[Re] = Do(<<"on_read">>, <<>>) /\ struck' = TRUE
        /\ todo'[Main] = todo[Main] /\ todo'[Tx] = todo[Tx] /\ todo'[Gpio] = <<>>
        /\ todo[Gpio] = <<>>
        /\ UNCHANGED <<f, fifo, drawn, pushed, due>> /\ N' = N
    <2>1. Gpio # Re
      BY DEF Gpio, Re
    <2>. QED
      BY <1>0, <2>1, Struck DEF Idle, N
  <1>2. fifo = 0 /\ ~f.cmd_pending
    BY <1>0 DEF Commands
  <1>3. \A c \in {Main, Tx} : /\ Filling(c) => Filling(c)'
                              /\ Ended(c) => Ended(c)'
                              /\ Closing(c) => Closing(c)'
    <2> SUFFICES ASSUME NEW c \in {Main, Tx}
                 PROVE  (Filling(c) => Filling(c)') /\ (Ended(c) => Ended(c)') /\ (Closing(c) => Closing(c)')
      OBVIOUS
    <2>1. FillAt(c) => FillAt(c)'
      BY <1>1 DEF FillAt, Fits, Just
    <2>. QED
      BY <1>1, <2>1 DEF Filling, Ended, Closing
  <1>4. Types' /\ Whole' /\ InOrder' /\ Commands' /\ Order'
    BY <1>0, <1>1, <1>2 DEF Types, Whole, InOrder, Commands, Order
  <1>5. Cursor'
    <2>1. ~Filling(Gpio)
      BY <1>1, NonEmpty DEF Filling
    <2>. QED
      BY <1>0, <1>1, <1>3, <2>1 DEF Cursor, Fits, Idle
  <1>6. AtTx'
    BY <1>0, <1>1, <1>3 DEF AtTx, Idle
  <1>7. Resting(todo[Main]) \/ (Filling(Main) /\ Idle(Tx)) \/ (Ended(Main) /\ Idle(Tx))
        \/ (Closing(Main) /\ Idle(Tx))
    BY <1>0 DEF AtMain, Triggering, Fresh, Stale
  <1>8. AtMain'
    <2>1. Clear(Main)' /\ (Idle(Tx) => Idle(Tx)')
      BY <1>1 DEF Clear, Quiet, Idle
    <2>. QED
      BY <1>1, <1>3, <1>7, <2>1 DEF AtMain, Triggering
  <1>9. ASSUME f.state \in {"ARMED_WAIT", "CARD_DONE"}
        PROVE  Accepts'
    <2>1. ~f.presenting
      BY <1>0, <1>9 DEF Cursor
    <2>2. Resting(todo[Main]) \/ Closing(Main)
      BY <1>7, <1>9 DEF Filling, Ended
    <2>3. Idle(Tx) \/ Closing(Tx)
      BY <1>0, <1>9 DEF AtTx, Filling, Ended
    <2>4. Fresh' \/ (Closing(Tx)' /\ asked' /\ fifo' = 0)
      <3>1. CASE Idle(Tx)
        BY <1>0, <1>1, <1>2, <2>1, <3>1, Fresher DEF Fresh, Idle
      <3>2. CASE Closing(Tx)
        BY <1>0, <1>1, <1>2, <1>3, <3>2
      <3>. QED
        BY <2>3, <3>1, <3>2
    <2>. QED
      BY <1>1, <1>3, <1>9, <2>2, <2>4 DEF Accepts
  <1>10. AtRe' /\ AtGpio'
    BY <1>1, <1>9 DEF AtRe, AtGpio, Idle
  <1>. QED
    BY <1>4, <1>5, <1>6, <1>8, <1>10 DEF Data, AtCard

\* A feed comes in: if it finds a parked card being advanced past, it is late.
LEMMA FeedStep ==
    ASSUME Data, AtCard, Feed
    PROVE  Data' /\ AtCard'
  <1>0. /\ Types /\ Whole /\ InOrder /\ Cursor /\ Commands /\ Order /\ AtMain /\ AtTx
        /\ asked' = asked /\ late' = (late \/ Advancing) /\ Strobe(Gpio, "on_tu03") /\ f \in Flags
        /\ Gpio # Re /\ Main # Gpio
    BY DEF Data, Types, AtCard, Feed, Gpio, Re, Main
  <1>1. /\ Idle(Gpio) /\ Idle(Re) /\ TodoOK'
        /\ todo'[Gpio] = Do(<<"on_tu03">>, <<>>) /\ struck' = TRUE
        /\ todo'[Main] = todo[Main] /\ todo'[Tx] = todo[Tx] /\ todo'[Re] = <<>>
        /\ todo[Gpio] = <<>> /\ (struck => AtRest)
        /\ UNCHANGED <<f, fifo, drawn, pushed, due>> /\ N' = N
    BY <1>0, Struck DEF Idle, N
  <1>3. \A c \in {Main, Tx} : /\ Filling(c) => Filling(c)'
                              /\ Ended(c) => Ended(c)'
                              /\ Closing(c) => Closing(c)'
    <2> SUFFICES ASSUME NEW c \in {Main, Tx}
                 PROVE  (Filling(c) => Filling(c)') /\ (Ended(c) => Ended(c)') /\ (Closing(c) => Closing(c)')
      OBVIOUS
    <2>1. FillAt(c) => FillAt(c)'
      BY <1>1 DEF FillAt, Fits, Just
    <2>. QED
      BY <1>1, <2>1 DEF Filling, Ended, Closing
  <1>4. late' \in BOOLEAN /\ (~late' => ~late)
    BY <1>0 DEF Types, Advancing
  <1>5. Types' /\ Whole' /\ InOrder' /\ Commands'
    BY <1>0, <1>1, <1>4 DEF Types, Whole, InOrder, Commands
  <1>6. Order'
    <2>1. Plain(todo'[Gpio]) /\ Plain(todo[Gpio])
      BY <1>1, Plains, EmptyStack
    <2>. QED
      BY <1>0, <1>1, <1>4, <2>1 DEF Order
  <1>7. Cursor'
    <2>1. ~Filling(Gpio)
      BY <1>1, NonEmpty DEF Filling
    <2>. QED
      BY <1>0, <1>1, <1>3, <2>1 DEF Cursor, Fits, Idle
  <1>8. AtTx'
    BY <1>0, <1>1, <1>3 DEF AtTx, Idle
  <1>9. (Fresh => Fresh') /\ (Stale => Stale')
    BY <1>0, <1>1 DEF Fresh, Stale, Idle
  <1>10. AtMain'
    <2>1. CASE Resting(todo[Main])
      BY <1>1, <2>1, MainYields
    <2>2. CASE Triggering(Main)
      <3>1. Clear(Main)' /\ (Idle(Tx) => Idle(Tx)')
        BY <1>1, QuietFacts DEF Clear, Idle
      <3>2. Advances(todo[Main], Opening(Main)) => late'
        BY <1>0, AdvancingNow
      <3>3. CASE Filling(Main) \/ Ended(Main) \/ Closing(Main)
        <4>1. Filling(Main)' \/ Ended(Main)' \/ Closing(Main)'
          BY <1>3, <3>3
        <4>. QED
          BY <1>0, <1>1, <1>9, <2>2, <3>1, <3>2, <4>1 DEF AtMain, Triggering
      <3>4. CASE ~Filling(Main) /\ ~Ended(Main) /\ ~Closing(Main)
        BY <1>0, <1>1, <1>9, <2>2, <3>1, <3>2, <3>4 DEF AtMain, Triggering
      <3>. QED
        BY <3>3, <3>4
    <2>. QED
      BY <1>0, <2>1, <2>2 DEF AtMain
  <1>11. ASSUME f.cmd_pending PROVE Fresh' /\ Yields(todo[Main])
    <2>1. asked /\ fifo = 0 /\ ~f.presenting
      BY <1>0, <1>11 DEF Commands
    <2>2. CASE struck
      BY <1>0, <1>1, <1>9, <2>1, <2>2, Rested, Fresher DEF Yields, Fresh
    <2>3. CASE ~struck
      <3>1. Idle(Tx)
        BY <1>0, <1>11, <2>3 DEF AtTx, Filling, Ended, Closing
      <3>2. Fresh
        BY <1>0, <2>1, <3>1, Fresher DEF Fresh
      <3>3. Yields(todo[Main])
        BY <1>0, <1>11, <2>3 DEF AtMain, Triggering, Filling, Ended, Closing, Yields
      <3>. QED
        BY <1>9, <3>2, <3>3
    <2>. QED
      BY <2>2, <2>3
  <1>12. AtGpio' /\ AtRe'
    BY <1>1, <1>11 DEF AtGpio, AtRe, Idle
  <1>. QED
    BY <1>5, <1>6, <1>7, <1>8, <1>10, <1>12 DEF Data, AtCard

----------------------------------------------------------------------------
(* A rewind.                                                               *)

\* One of its stores.
Unwound(s, fields) ==
    /\ Goes(Main, s) /\ Elsewhere /\ FlagsBut(fields) /\ UNCHANGED <<pushed, due>>

\* A store of a rewind keeps what was pushed.
LEMMA UnwoundKeeps ==
    ASSUME Types, Whole, InOrder, AtRewind, NEW s, IsStack(s), NEW fields, Unwound(s, fields)
    PROVE  /\ Types' /\ Whole' /\ InOrder'
           /\ todo'[Main] = s /\ Idle(Tx)' /\ Idle(Gpio)' /\ Idle(Re)'
  <1>0. /\ todo' = [todo EXCEPT ![Main] = s] /\ TodoOK /\ f' \in Flags
        /\ Idle(Tx) /\ Idle(Gpio) /\ Idle(Re) /\ N' = N
        /\ UNCHANGED <<fifo, asked, struck, drawn, pushed, due, late>>
    BY DEF Unwound, Goes, Types, AtRewind, N, Elsewhere, FlagsBut
  <1>1. /\ Main \in Contexts /\ Tx \in Contexts /\ Gpio \in Contexts /\ Re \in Contexts
        /\ Main # Tx /\ Main # Gpio /\ Main # Re
    BY DEF Contexts, Main, Tx, Gpio, Re
  <1>2. /\ todo'[Main] = s /\ todo'[Tx] = <<>> /\ todo'[Gpio] = <<>> /\ todo'[Re] = <<>>
        /\ TodoOK'
    BY <1>0, <1>1 DEF TodoOK, Idle
  <1>3. Types' /\ Whole' /\ InOrder'
    BY <1>0, <1>2 DEF Types, Whole, InOrder
  <1>. QED
    BY <1>2, <1>3 DEF Idle

\* A step of a rewind that nothing interrupts: in the end the machine is to hear
\* the loader, with nothing on its way.
LEMMA RewindStep ==
    ASSUME Types, Whole, InOrder, AtRewind, Core1
    PROVE  (Data' /\ AtCard') \/ (Types' /\ Whole' /\ InOrder' /\ AtRewind')
  <1>0. /\ Idle(Tx) /\ Idle(Gpio) /\ Idle(Re) /\ TodoOK /\ Main \in Contexts
        /\ Loader \in Nat /\ 0 \in Nat /\ FALSE \in BOOLEAN /\ "ARMED_WAIT" \in States \ {"CARD_DONE"}
    BY NestAssumption DEF AtRewind, Types, Contexts, States
  <1>1. Rewind8 # <<>> /\ Rewind7 # <<>> /\ Rewind6 # <<>> /\ Rewind5 # <<>>
        /\ Rewind4 # <<>> /\ Rewind3 # <<>> /\ Rewind2 # <<>> /\ Rewind1 # <<>>
    BY RewindStacks, Stacks, DoFacts
       DEF Rewind1, Rewind2, Rewind3, Rewind4, Rewind5, Rewind6, Rewind7, Rewind8
  <1>2. Runs(Main)
    BY <1>0, <1>1 DEF Runs, AtRewind, Idle, Contexts, Main, Tx, Gpio, Re
  <1>3. \A s, fields : IsStack(s) /\ Unwound(s, fields) =>
           /\ Types' /\ Whole' /\ InOrder'
           /\ todo'[Main] = s /\ Idle(Tx)' /\ Idle(Gpio)' /\ Idle(Re)'
    BY UnwoundKeeps
  <1>4. CASE todo[Main] = Rewind1
    <2>1. Unwound(Rewind2, {"card"}) /\ f'.card = Loader
      BY <1>0, <1>2, <1>4, RewindStacks, StoredCard DEF Rewind1, Unwound
    <2>2. Types' /\ Whole' /\ InOrder' /\ todo'[Main] = Rewind2 /\ Idle(Tx)' /\ Idle(Gpio)' /\ Idle(Re)'
      BY <2>1, <1>3, RewindStacks
    <2>. QED
      BY <2>1, <2>2 DEF AtRewind
  <1>5. CASE todo[Main] = Rewind2 /\ f.card = Loader
    <2>1. Unwound(Rewind3, {"col"}) /\ f'.col = 0
      BY <1>0, <1>2, <1>5, RewindStacks, StoredCol DEF Rewind2, Unwound
    <2>2. Types' /\ Whole' /\ InOrder' /\ todo'[Main] = Rewind3 /\ Idle(Tx)' /\ Idle(Gpio)' /\ Idle(Re)'
      BY <2>1, <1>3, RewindStacks
    <2>3. f'.card = Loader
      BY <1>5, <2>1 DEF Unwound, FlagsBut
    <2>. QED
      BY <2>1, <2>2, <2>3 DEF AtRewind
  <1>6. CASE todo[Main] = Rewind3 /\ f.card = Loader /\ f.col = 0
    <2>1. Unwound(Rewind4, {"presenting"}) /\ ~f'.presenting
      BY <1>0, <1>2, <1>6, RewindStacks, StoredOver DEF Rewind3, Unwound
    <2>2. Types' /\ Whole' /\ InOrder' /\ todo'[Main] = Rewind4 /\ Idle(Tx)' /\ Idle(Gpio)' /\ Idle(Re)'
      BY <2>1, <1>3, RewindStacks
    <2>3. f'.card = Loader /\ f'.col = 0
      BY <1>6, <2>1 DEF Unwound, FlagsBut
    <2>. QED
      BY <2>1, <2>2, <2>3 DEF AtRewind
  <1>7. CASE todo[Main] = Rewind4 /\ f.card = Loader /\ f.col = 0 /\ ~f.presenting
    <2>1. Unwound(Rewind5, {"cmd_pending"}) /\ ~f'.cmd_pending
      BY <1>0, <1>2, <1>7, RewindStacks, StoredCommand DEF Rewind4, Unwound
    <2>2. Types' /\ Whole' /\ InOrder' /\ todo'[Main] = Rewind5 /\ Idle(Tx)' /\ Idle(Gpio)' /\ Idle(Re)'
      BY <2>1, <1>3, RewindStacks
    <2>3. f'.card = Loader /\ f'.col = 0 /\ ~f'.presenting
      BY <1>7, <2>1 DEF Unwound, FlagsBut
    <2>. QED
      BY <2>1, <2>2, <2>3 DEF AtRewind
  <1>8. CASE todo[Main] = Rewind5 /\ f.card = Loader /\ f.col = 0 /\ ~f.presenting /\ ~f.cmd_pending
    <2>1. Unwound(Rewind6, {})
      BY <1>0, <1>2, <1>8, RewindStacks, StoredFinin DEF Rewind5, Unwound
    <2>2. Types' /\ Whole' /\ InOrder' /\ todo'[Main] = Rewind6 /\ Idle(Tx)' /\ Idle(Gpio)' /\ Idle(Re)'
      BY <2>1, <1>3, RewindStacks
    <2>3. f'.card = Loader /\ f'.col = 0 /\ ~f'.presenting /\ ~f'.cmd_pending
      BY <1>8, <2>1 DEF Unwound, FlagsBut
    <2>. QED
      BY <2>2, <2>3 DEF AtRewind
  <1>9. CASE todo[Main] = Rewind6 /\ f.card = Loader /\ f.col = 0 /\ ~f.presenting /\ ~f.cmd_pending
    <2>1. Unwound(Rewind7, {"state"}) /\ f'.state = "ARMED_WAIT"
      BY <1>0, <1>2, <1>9, RewindStacks, StoredState DEF Rewind6, Unwound
    <2>2. Types' /\ Whole' /\ InOrder' /\ todo'[Main] = Rewind7 /\ Idle(Tx)' /\ Idle(Gpio)' /\ Idle(Re)'
      BY <2>1, <1>3, RewindStacks
    <2>3. f'.card = Loader /\ f'.col = 0 /\ ~f'.presenting /\ ~f'.cmd_pending
      BY <1>9, <2>1 DEF Unwound, FlagsBut
    <2>. QED
      BY <2>1, <2>2, <2>3 DEF AtRewind
  <1>10. CASE /\ todo[Main] = Rewind7 /\ f.card = Loader /\ f.col = 0 /\ ~f.presenting
              /\ ~f.cmd_pending /\ f.state = "ARMED_WAIT"
    <2>1. Unwound(Rewind8, {"feed_irq"}) /\ ~f'.feed_irq
      BY <1>0, <1>2, <1>10, RewindStacks, StoredIrq DEF Rewind7, Unwound
    <2>2. Types' /\ Whole' /\ InOrder' /\ todo'[Main] = Rewind8 /\ Idle(Tx)' /\ Idle(Gpio)' /\ Idle(Re)'
      BY <2>1, <1>3, RewindStacks
    <2>3. /\ f'.card = Loader /\ f'.col = 0 /\ ~f'.presenting /\ ~f'.cmd_pending
          /\ f'.state = "ARMED_WAIT"
      BY <1>10, <2>1 DEF Unwound, FlagsBut
    <2>. QED
      BY <2>1, <2>2, <2>3 DEF AtRewind
  <1>11. CASE /\ todo[Main] = Rewind8 /\ f.card = Loader /\ f.col = 0 /\ ~f.presenting
              /\ ~f.cmd_pending /\ f.state = "ARMED_WAIT" /\ ~f.feed_irq
    <2>1. /\ Goes(Main, Feeding) /\ UNCHANGED <<f, struck, drawn, late>>
          /\ fifo' = 0 /\ pushed' = <<>> /\ due' = Loader /\ asked' = FALSE
      BY <1>0, <1>2, <1>11, Stacks, ClearStep DEF Rewind8
    <2>2. todo'[Main] = Feeding /\ Goes(Main, todo'[Main])
      BY <1>0, <2>1 DEF Goes, TodoOK
    <2>3. Resting(todo'[Main])
      BY <2>2, Stacks DEF Resting, Feeding
    <2>4. TodoOK'
      BY <1>0, <2>1, Stacks DEF Goes, TodoOK
    <2>5. N' = 0 /\ pushed' \in Seq(Nat \X Nat) /\ 0 \in 0 .. FifoDepth /\ NCols \in Nat
      BY <2>1, EmptySeq, NestAssumption DEF N
    <2>6. Types'
      BY <1>0, <2>1, <2>4, <2>5 DEF Types
    <2>7. Whole' /\ InOrder'
      BY <2>1, <2>5 DEF Whole, InOrder
    <2>8. Cursor' /\ Commands' /\ Order'
      BY <1>11, <2>1, <2>5 DEF Cursor, Commands, Order
    <2>9. AtCard'
      BY <1>0, <2>2, <2>3, MainAlone DEF AtMain
    <2>. QED
      BY <2>6, <2>7, <2>8, <2>9 DEF Data
  <1>. QED
    BY <1>4, <1>5, <1>6, <1>7, <1>8, <1>9, <1>10, <1>11 DEF AtRewind

----------------------------------------------------------------------------
(* The top of the main loop.                                               *)

\* IPC_REWIND begins with the first of them.
LEMMA RewindCalled == Rewind = Rewind1
  <1>. DEFINE a == Put("card", Loader)
              b == Put("col", 0)
              c == Put("presenting", FALSE)
              d == Put("cmd_pending", FALSE)
              e == Put("finin_pending", FALSE)
              g == Put("state", "ARMED_WAIT")
              h == Put("feed_irq", FALSE)
              i == <<"clear">>
              j == <<"lupob_update">>
  <1>1. Rewind = <<a, b, c, d, e, g, h, i, j>>
    BY DEF Rewind
  <1>2. Rewind1 = Do(a, Do(b, Do(c, Do(d, Do(e, Do(g, Do(h, Do(i, Do(j, <<>>)))))))))
    BY DEF Rewind1, Rewind2, Rewind3, Rewind4, Rewind5, Rewind6, Rewind7, Rewind8, Feeding
  <1>. HIDE DEF a, b, c, d, e, g, h, i, j
  <1>3. <<a, b, c, d, e, g, h, i, j>> \o <<>> = <<a, b, c, d, e, g, h, i, j>>
    <2>. DEFINE V == {a, b, c, d, e, g, h, i, j}
                y == <<a, b, c, d, e, g, h, i, j>>
    <2>1. y \in Seq(V)
      OBVIOUS
    <2>. HIDE DEF V, y
    <2>2. y \o <<>> = y
      BY <2>1, ConcatEmptySeq
    <2>. QED
      BY <2>2 DEF y
  <1>4. ASSUME NEW s, IsStack(s)
        PROVE  <<a, b, c, d, e, g, h, i, j>> \o s
               = Do(a, Do(b, Do(c, Do(d, Do(e, Do(g, Do(h, Do(i, Do(j, s)))))))))
    BY <1>4, Cat9
  <1>5. <<a, b, c, d, e, g, h, i, j>> \o <<>>
        = Do(a, Do(b, Do(c, Do(d, Do(e, Do(g, Do(h, Do(i, Do(j, <<>>)))))))))
    BY <1>4, EmptyStack
  <1>. QED
    BY <1>1, <1>2, <1>3, <1>5

\* With nothing to do core1 is at the top of its loop.
LEMMA Quiescent ==
    ASSUME Core1, \A c \in Contexts : Idle(c)
    PROVE  Loop
  <1>1. \A c \in Contexts : ~Runs(c)
    BY DEF Runs
  <1>2. \A c \in Contexts : \A ops : ~At(c, ops)
    BY <1>1 DEF At
  <1>3. \A c \in Contexts : ~Call(c) /\ ~Push(c) /\ ~Store(c) /\ ~NextCard(c)
    BY <1>2 DEF Call, Push, Store, NextCard
  <1>4. Main \in Contexts
    BY DEF Contexts
  <1>5. ~ClearFifo /\ ~PollWaits /\ ~PollActs /\ ~PollPasses /\ ~Wakes
    BY <1>2, <1>4 DEF ClearFifo, PollWaits, PollActs, PollPasses, Wakes
  <1>. QED
    BY <1>3, <1>5 DEF Core1

\* The top of the loop: a rewind from the queue, or feeder_poll.
LEMMA LoopStep ==
    ASSUME Data, AtCard, Loop
    PROVE  (Data' /\ AtCard') \/ (Types' /\ Whole' /\ InOrder' /\ AtRewind')
  <1>0. /\ Types /\ Whole /\ InOrder /\ Cursor /\ Commands /\ Order /\ TodoOK
        /\ Idle(Main) /\ Idle(Tx) /\ Idle(Gpio) /\ Idle(Re)
        /\ UNCHANGED <<f, fifo, asked, pushed, due, late>> /\ N' = N
        /\ struck' = FALSE /\ drawn' = FALSE
    BY DEF Data, Types, Loop, N, Contexts
  <1>1. \/ Goes(Main, Rewind1)
        \/ Goes(Main, Do(<<"poll_cmd">>, <<>>))
    BY RewindCalled, Singleton DEF Loop, Goes
  <1>2. PICK s \in {Rewind1, Do(<<"poll_cmd">>, <<>>)} : Goes(Main, s)
    BY <1>1
  <1>3. IsStack(s)
    BY <1>2, RewindStacks, Singleton, DoFacts, EmptyStack
  <1>4. /\ Main \in Contexts /\ Tx \in Contexts /\ Gpio \in Contexts /\ Re \in Contexts
        /\ Main # Tx /\ Main # Gpio /\ Main # Re
    BY DEF Contexts, Main, Tx, Gpio, Re
  <1>5. /\ todo'[Main] = s /\ todo'[Tx] = <<>> /\ todo'[Gpio] = <<>> /\ todo'[Re] = <<>>
        /\ TodoOK'
    BY <1>0, <1>2, <1>3, <1>4 DEF TodoOK, Idle, Goes
  <1>6. Types' /\ Whole' /\ InOrder'
    BY <1>0, <1>5 DEF Types, Whole, InOrder
  <1>7. CASE s = Rewind1
    BY <1>5, <1>6, <1>7 DEF AtRewind, Idle
  <1>8. CASE s = Do(<<"poll_cmd">>, <<>>)
    <2>1. Resting(s)
      BY <1>8 DEF Resting
    <2>2. AtCard'
      BY <1>5, <2>1 DEF AtCard, AtMain, AtTx, AtGpio, AtRe, Idle
    <2>3. Commands'
      BY <1>0 DEF Commands
    <2>4. Order'
      <3>1. Plain(s) /\ Plain(<<>>)
        BY <2>1, Plains
      <3>. QED
        BY <1>0, <1>5, <3>1 DEF Order, Idle
    <2>5. Cursor'
      <3>1. ~Filling(Main) /\ ~Filling(Gpio) /\ ~Ended(Tx) /\ ~Closing(Tx)
        BY <1>0, NonEmpty DEF Filling, Ended, Closing, Idle
      <3>. QED
        BY <1>0, <1>5, <3>1 DEF Cursor, Fits, Idle
    <2>. QED
      BY <1>6, <2>2, <2>3, <2>4, <2>5 DEF Data
  <1>. QED
    BY <1>2, <1>7, <1>8

----------------------------------------------------------------------------
(* The theorems.                                                           *)

Good == (Data /\ AtCard) \/ (Types /\ Whole /\ InOrder /\ AtRewind)

\* An interrupt that came into a rewind is not forgotten.
LEMMA CutStays == Next /\ ~cut' => ~cut
  <1>1. Core1 => cut' = cut
    BY DEF Core1, Call, Store, NextCard, Push, ClearFifo, Loop, PollWaits, PollActs, PollPasses,
           PollUnchanged, Wakes
  <1>2. TxTaken \/ Read \/ Feed => cut' = (cut \/ Rewinding)
    BY DEF TxTaken, Read, Feed, Strobe
  <1>3. SmPulls \/ IpcSend => cut' = cut
    BY DEF SmPulls, IpcSend
  <1>. QED
    BY <1>1, <1>2, <1>3 DEF Next, Rewinding

\* Every step keeps the invariant, as long as no interrupt comes into a rewind.
LEMMA NestStep ==
    ASSUME CardsOutlastFifo, Good, Next, ~cut, ~cut'
    PROVE  Good'
  <1>1. CASE Data /\ AtCard
    <2>1. CASE Core1
      <3>1. CASE \E c \in Contexts : ~Idle(c)
        BY <1>1, <2>1, <3>1, Core1Step DEF Good
      <3>2. CASE \A c \in Contexts : Idle(c)
        <4>1. Loop
          BY <2>1, <3>2, Quiescent
        <4>. QED
          BY <1>1, <4>1, LoopStep DEF Good
      <3>. QED
        BY <3>1, <3>2
    <2>2. CASE TxTaken
      BY <1>1, <2>2, TxTakenStep DEF Good
    <2>3. CASE SmPulls
      BY <1>1, <2>3, SmStep DEF Good
    <2>4. CASE Read
      BY <1>1, <2>4, ReadStep DEF Good
    <2>5. CASE Feed
      BY <1>1, <2>5, FeedStep DEF Good
    <2>6. CASE IpcSend
      BY <1>1, <2>6, NothingHappens DEF Good, IpcSend
    <2>. QED
      BY <2>1, <2>2, <2>3, <2>4, <2>5, <2>6 DEF Next
  <1>2. CASE Types /\ Whole /\ InOrder /\ AtRewind
    <2>1. CASE Core1
      BY <1>2, <2>1, RewindStep DEF Good
    <2>2. CASE TxTaken \/ Read \/ Feed
      <3>1. Rewinding
        BY <1>2, RewindingNow
      <3>2. cut' = (cut \/ Rewinding)
        BY <2>2 DEF TxTaken, Read, Feed, Strobe
      <3>. QED
        BY <3>1, <3>2
    <2>3. CASE SmPulls
      <3>1. /\ UNCHANGED <<f, todo, struck, pushed, due, late>> /\ drawn' = TRUE
            /\ fifo > 0 /\ fifo' = fifo - 1 /\ N' = N
            /\ asked' = (asked /\ (fifo > 1 \/ Len(pushed) < NCols))
        BY <2>3 DEF SmPulls, N
      <3>2. fifo' \in 0 .. FifoDepth
        BY <1>2, <3>1, NestAssumption DEF Types
      <3>3. Types' /\ Whole' /\ InOrder'
        BY <1>2, <3>1, <3>2 DEF Types, TodoOK, Whole, InOrder, Contexts, Main, Tx, Gpio, Re
      <3>4. AtRewind'
        BY <1>2, <3>1 DEF AtRewind, Idle
      <3>. QED
        BY <3>3, <3>4 DEF Good
    <2>4. CASE IpcSend
      BY <1>2, <2>4, NothingHappens DEF Good, IpcSend
    <2>. QED
      BY <2>1, <2>2, <2>3, <2>4 DEF Next
  <1>. QED
    BY <1>1, <1>2 DEF Good

\* It holds at the start.
LEMMA NestInit == Init => NestInv
  <1> SUFFICES ASSUME Init PROVE Data /\ AtCard
    BY DEF NestInv
  <1>1. /\ f = [state |-> "ARMED_WAIT", card |-> Loader, col |-> 0,
                presenting |-> FALSE, cmd_pending |-> FALSE,
                finin_pending |-> FALSE, lupob |-> TRUE, feed_irq |-> FALSE]
        /\ fifo = 0 /\ todo = [c \in Contexts |-> <<>>]
        /\ asked = FALSE /\ struck = FALSE /\ drawn = FALSE
        /\ pushed = <<>> /\ due = Loader /\ late = FALSE
        /\ Loader \in Nat /\ NCols \in Nat /\ 0 \in 0 .. FifoDepth
    BY NestAssumption DEF Init
  <1>2. \A c \in Contexts : Idle(c)
    BY <1>1 DEF Idle
  <1>3. Idle(Main) /\ Idle(Tx) /\ Idle(Gpio) /\ Idle(Re)
    BY <1>2 DEF Contexts
  <1>4. f \in Flags
    BY <1>1 DEF Flags, States
  <1>5. N = 0 /\ pushed \in Seq(Nat \X Nat)
    BY <1>1, EmptySeq DEF N
  <1>6. TodoOK
    BY <1>1 DEF TodoOK
  <1>7. Types /\ Whole /\ InOrder
    <2>1. Types
      BY <1>1, <1>4, <1>5, <1>6 DEF Types
    <2>2. 1 .. N = {} /\ N <= NCols
      BY <1>1, <1>5
    <2>3. Whole
      BY <2>2 DEF Whole
    <2>. QED
      BY <1>1, <2>1, <2>3 DEF InOrder
  <1>8. Cursor /\ Commands /\ Order
    BY <1>1, <1>5 DEF Cursor, Commands, Order
  <1>9. AtCard
    BY <1>3 DEF AtCard, AtMain, AtTx, AtGpio, AtRe, Resting, Idle
  <1>. QED
    BY <1>7, <1>8, <1>9 DEF Data

\* Wherever the interrupts come in, short of a rewind, every context is at one of
\* the places the invariant names, with the cursor, the FIFO and the interrupt
\* source in agreement, for every deck, every FIFO shallower than a card, and any
\* number of strobes and rewinds.
THEOREM NestInvHolds == CardsOutlastFifo => (Spec => []NestInv)
  <1>. SUFFICES ASSUME CardsOutlastFifo PROVE Spec => []NestInv
    OBVIOUS
  <1>1. ASSUME NestInv, [Next]_vars PROVE NestInv'
    <2>1. CASE Next
      BY <1>1, <2>1, CutStays, NestStep DEF NestInv, Good
    <2>2. CASE UNCHANGED vars
      <3>1. cut' = cut /\ UNCHANGED <<f, fifo, todo, asked, struck, drawn, pushed, due, late>>
        BY <2>2 DEF vars
      <3>. QED
        BY <1>1, <3>1, NothingHappens DEF NestInv
    <2>. QED
      BY <1>1, <2>1, <2>2
  <1>. QED
    BY <1>1, NestInit, PTL DEF Spec

\* No column is left out or doubled whatever preempts present_next
\* (feeder.c, present_next and trigger_present).
THEOREM CardsStayWhole == CardsOutlastFifo => (Spec => []CardsWhole)
  <1>. SUFFICES ASSUME CardsOutlastFifo PROVE Spec => []CardsWhole
    OBVIOUS
  <1>1. NestInv => CardsWhole
    <2>. SUFFICES ASSUME NestInv, ~cut PROVE /\ \A i \in 1 .. Len(pushed) : pushed[i] = <<pushed[1][1], i - 1>>
                                             /\ AtRest /\ ~f.presenting => Len(pushed) \in {0, NCols}
      BY DEF CardsWhole
    <2>1. Whole
      BY DEF NestInv, Data
    <2>2. AtRest => Cursor
      BY RewindingNow DEF NestInv, Data
    <2>. QED
      BY <2>1, <2>2 DEF Whole, Cursor, N
  <1>. QED
    BY <1>1, NestInvHolds, PTL

\* With nothing under way the TX interrupt is on exactly while a card is being
\* presented (wire_tx.c, the level-triggered source).
THEOREM FedWhilePresenting == CardsOutlastFifo => (Spec => []FedExactlyWhilePresenting)
  <1>. SUFFICES ASSUME CardsOutlastFifo PROVE Spec => []FedExactlyWhilePresenting
    OBVIOUS
  <1>1. NestInv => FedExactlyWhilePresenting
    <2>. SUFFICES ASSUME NestInv, AtRest, ~cut PROVE f.presenting <=> f.feed_irq
      BY DEF FedExactlyWhilePresenting
    <2>1. Cursor /\ Types
      BY RewindingNow DEF NestInv, Data
    <2>2. Resting(todo[Main]) /\ todo[Gpio] = <<>> /\ Idle(Tx)
      BY Rested DEF Idle
    <2>3. ~InCard(todo[Main]) /\ ~InCard(todo[Gpio])
      BY <2>2, OutsideCard
    <2>4. f.presenting => f.feed_irq
      BY <2>1, <2>3, Presenting
    <2>5. ~f.presenting => ~f.feed_irq
      BY <2>1, <2>2, Fresher
    <2>6. f.presenting \in BOOLEAN /\ f.feed_irq \in BOOLEAN
      BY <2>1 DEF Types, Flags
    <2>. QED
      BY <2>4, <2>5, <2>6
  <1>. QED
    BY <1>1, NestInvHolds, PTL

\* The machine hears the cards one after the other, from the loader
\* (feeder_on_tu03 against the fallback of feeder_poll).
THEOREM CardsKeepOrder == CardsOutlastFifo => (Spec => []CardsInOrder)
  <1>. SUFFICES ASSUME CardsOutlastFifo PROVE Spec => []CardsInOrder
    OBVIOUS
  <1>1. NestInv => CardsInOrder
    BY DEF NestInv, Data, InOrder, CardsInOrder, N
  <1>. QED
    BY <1>1, NestInvHolds, PTL

----------------------------------------------------------------------------
(* LUPOB.  Whatever comes into a rewind, too: the statements a context can *)
(* have before it, rather than the places it can be at.                    *)

Store1(field, values) == {Put(field, v) : v \in values}
Ops(names) == {<<op>> : op \in names}

Pins == Store1("lupob", BOOLEAN)

Pushes == {<<"push", i, j>> : i \in Nat, j \in Nat}

TxStmts == Ops({"on_txfeed", "present_next"}) \cup Pushes
           \cup Store1("col", Nat) \cup Store1("presenting", {FALSE})
           \cup Store1("finin_pending", {TRUE}) \cup Store1("state", States)
           \cup Store1("feed_irq", BOOLEAN)

ReStmts == Ops({"on_read", "finin_release", "lupob_update"})
           \cup Store1("finin_pending", {FALSE}) \cup Store1("cmd_pending", {TRUE})

\* A feed that finds no command.
QuietStmts == Ops({"on_tu03", "finin_release", "advance_card", "card++", "lupob_update"})
              \cup Store1("col", Nat) \cup Store1("state", States)
              \cup Store1("finin_pending", {FALSE})

\* All but the store by which a presentation begins.
Stmts == TxStmts \cup QuietStmts
         \cup Ops({"trigger_present", "parked", "present_card", "prefill",
                   "poll_cmd", "poll_finin", "wfe", "clear"})
         \cup Store1("card", Nat) \cup Store1("cmd_pending", {FALSE})

Begin == Put("presenting", TRUE)

\* The pin is written right after it has been computed.
Shape(s, A) ==
    \/ s \in Seq(A)
    \/ s # <<>> /\ Head(s) \in Pins /\ Tail(s) \in Seq(A)

\* A presentation that begins computes the pin next.
Starting(s) ==
    /\ IsStack(s) /\ s # <<>> /\ Head(s) = Begin /\ Tail(s) \in Seq(Stmts)
    /\ Tail(s) # <<>> /\ Head(Tail(s)) = <<"lupob_update">>

Placed(s) ==
    \/ Shape(s, Stmts)
    \/ Starting(s)
    \/ s # <<>> /\ Head(s) = Put("state", "PRESENTING") /\ Starting(Tail(s))

High(c) == todo[c] # <<>> /\ Head(todo[c]) = Put("lupob", TRUE)

BusyTypes == f \in Flags /\ TodoOK /\ fifo \in Nat /\ struck \in BOOLEAN

BusyPlaces ==
    /\ Placed(todo[Main]) /\ Placed(todo[Gpio])
    /\ todo[Tx] \in Seq(TxStmts) /\ Shape(todo[Re], ReStmts)
    /\ ~Idle(Gpio) => struck /\ Idle(Re)
    /\ ~Idle(Re) => struck

\* While LUPOB is about to be set, no card is presented, and none will be before
\* it is set.
SetsAtRest ==
    /\ \A c \in Contexts : High(c) => ~f.presenting
    /\ High(Main) => /\ f.cmd_pending => struck
                     /\ ~Idle(Gpio) => ~f.cmd_pending /\ Shape(todo[Gpio], QuietStmts)

\* A context is about to compute the pin, or to clear it.
Clears(s) == s # <<>> /\ Head(s) \in {<<"lupob_update">>, Put("lupob", FALSE)}
PinOwed == f.presenting /\ f.lupob => \E c \in Contexts : Clears(todo[c])

BusyInv == BusyTypes /\ BusyPlaces /\ SetsAtRest /\ PinOwed

\* The bodies of the calls are of the statements of their contexts.
LEMMA Members ==
    /\ \A field, values : \A v \in values : Put(field, v) \in Store1(field, values)
    /\ \A names : \A op \in names : <<op>> \in Ops(names)
    /\ TxStmts \subseteq Stmts /\ QuietStmts \subseteq Stmts
  BY DEF Store1, Ops, Stmts

\* Lists of one statement to three.
LEMMA Lists ==
    ASSUME NEW A, NEW a \in A, NEW b \in A, NEW c \in A
    PROVE  /\ <<>> \in Seq(A) /\ <<a>> \in Seq(A) /\ <<a, b>> \in Seq(A) /\ <<a, b, c>> \in Seq(A)
           /\ <<a>> \o <<b>> \in Seq(A) /\ <<a, b, c>> \o <<c>> \in Seq(A)
           /\ <<>> \o <<b>> \in Seq(A) /\ <<a>> \o <<b, c>> \in Seq(A)
  <1>1. <<>> \in Seq(A) /\ <<a>> \in Seq(A) /\ <<b>> \in Seq(A) /\ <<a, b>> \in Seq(A)
        /\ <<a, b, c>> \in Seq(A) /\ <<c>> \in Seq(A) /\ <<b, c>> \in Seq(A)
    OBVIOUS
  <1>2. \A x, y \in Seq(A) : x \o y \in Seq(A)
    BY ConcatProperties
  <1>. QED
    BY <1>1, <1>2

\* finin_release.
LEMMA FininIn ==
    ASSUME f \in Flags
    PROVE  FininRelease \in Seq(QuietStmts) /\ FininRelease \in Seq(ReStmts)
  <1>. DEFINE a == Put("finin_pending", FALSE)
  <1>1. a \in QuietStmts
    BY Members DEF QuietStmts
  <1>2. a \in ReStmts
    BY Members DEF ReStmts
  <1>3. FininRelease = <<a>> \/ FininRelease = <<>>
    BY DEF FininRelease
  <1>. HIDE DEF a
  <1>. QED
    BY <1>1, <1>2, <1>3, Lists

\* advance_card.
LEMMA AdvanceIn ==
    ASSUME f \in Flags
    PROVE  AdvanceCard \in Seq(QuietStmts)
  <1>. DEFINE a == Put("col", 0)
              b == Put("state", "DONE")
              c == <<"card++">>
              d == Put("state", "ARMED_WAIT")
  <1>1. 0 \in Nat /\ "DONE" \in States /\ "ARMED_WAIT" \in States
    BY DEF States
  <1>2. a \in QuietStmts /\ b \in QuietStmts /\ c \in QuietStmts /\ d \in QuietStmts
    BY <1>1, Members DEF QuietStmts
  <1>3. AdvanceCard = <<a>> \o <<b>> \/ AdvanceCard = <<a>> \o <<c, d>>
    BY DEF AdvanceCard
  <1>. HIDE DEF a, b, c, d
  <1>. QED
    BY <1>1, <1>2, <1>3, Lists

\* present_next.
LEMMA PresentIn ==
    ASSUME f \in Flags
    PROVE  PresentNext \in Seq(TxStmts)
  <1>. DEFINE a == <<"push", f.card, f.col>>
              b == Put("col", f.col + 1)
              c == Put("col", 0)
              d == Put("presenting", FALSE)
              e == Put("finin_pending", TRUE)
              g == Put("state", "CARD_DONE")
              h == Put("feed_irq", FALSE)
  <1>1. f.card \in Nat /\ f.col \in Nat /\ f.col + 1 \in Nat /\ 0 \in Nat
        /\ "CARD_DONE" \in States
    BY DEF Flags, States
  <1>2. a \in Pushes
    BY <1>1 DEF Pushes
  <1>3. b \in Store1("col", Nat) /\ c \in Store1("col", Nat)
    BY <1>1, Members
  <1>4. d \in Store1("presenting", {FALSE}) /\ e \in Store1("finin_pending", {TRUE})
        /\ g \in Store1("state", States) /\ h \in Store1("feed_irq", BOOLEAN)
    BY <1>1, Members
  <1>5. PresentNext = <<a>> \o (IF f.col + 1 < NCols THEN <<b>> ELSE <<c, d, e, g, h>>)
    BY DEF PresentNext
  <1>. HIDE DEF a, b, c, d, e, g, h
  <1>6. a \in TxStmts /\ b \in TxStmts /\ c \in TxStmts /\ d \in TxStmts /\ e \in TxStmts
        /\ g \in TxStmts /\ h \in TxStmts
    BY <1>2, <1>3, <1>4 DEF TxStmts
  <1>7. <<a>> \in Seq(TxStmts) /\ <<b>> \in Seq(TxStmts) /\ <<c, d, e, g, h>> \in Seq(TxStmts)
    BY <1>6
  <1>. QED
    BY <1>5, <1>7, ConcatProperties

\* The TX FIFO handler.
LEMMA TxfeedIn ==
    ASSUME f \in Flags
    PROVE  OnTxfeed \in Seq(TxStmts)
  <1>. DEFINE a == <<"present_next">>
  <1>1. a \in TxStmts
    BY Members DEF TxStmts
  <1>2. OnTxfeed = <<a>> \/ OnTxfeed = <<>>
    BY DEF OnTxfeed
  <1>. HIDE DEF a
  <1>. QED
    BY <1>1, <1>2, Lists

\* feeder_on_re_cmd.
LEMMA ReadIn ==
    ASSUME f \in Flags
    PROVE  OnRead \in Seq(ReStmts)
  <1>. DEFINE a == <<"finin_release">>
              b == Put("cmd_pending", TRUE)
              c == <<"lupob_update">>
  <1>1. a \in ReStmts /\ b \in ReStmts /\ c \in ReStmts
    BY Members DEF ReStmts
  <1>2. OnRead = <<a, b, c>> \o <<c>> \/ OnRead = <<>> \o <<c>>
    BY DEF OnRead
  <1>. HIDE DEF a, b, c
  <1>. QED
    BY <1>1, <1>2, Lists

\* feeder_on_tu03.
LEMMA Tu03In ==
    ASSUME f \in Flags
    PROVE  OnTu03 \in Seq(Stmts) /\ (~f.cmd_pending => OnTu03 \in Seq(QuietStmts))
  <1>. DEFINE a == <<"finin_release">>
              b == <<"advance_card">>
              c == <<"lupob_update">>
              d == <<"trigger_present">>
  <1>1. a \in QuietStmts /\ b \in QuietStmts /\ c \in QuietStmts
    BY Members DEF QuietStmts
  <1>2. d \in Stmts /\ a \in Stmts /\ b \in Stmts /\ c \in Stmts
    BY <1>1, Members DEF Stmts
  <1>3. \/ OnTu03 = <<a, d>> /\ f.cmd_pending
        \/ OnTu03 = <<a, b, c>>
        \/ OnTu03 = <<>>
    BY DEF OnTu03
  <1>. HIDE DEF a, b, c, d
  <1>. QED
    BY <1>1, <1>2, <1>3, Lists

\* trigger_present, with what it does when the command is its own, and the prefill loop.
LEMMA TriggerIn ==
    ASSUME f \in Flags, fifo \in Nat
    PROVE  TriggerPresent \in Seq(Stmts) /\ Parked \in Seq(Stmts) /\ Prefill \in Seq(Stmts)
  <1>. DEFINE a == Put("cmd_pending", FALSE)
              b == <<"parked">>
              c == <<"advance_card">>
              d == <<"present_card">>
              e == <<"present_next">>
              g == <<"prefill">>
              h == Put("feed_irq", TRUE)
  <1>1. a \in Stmts /\ b \in Stmts /\ d \in Stmts /\ g \in Stmts
    BY Members DEF Stmts
  <1>2. e \in TxStmts /\ h \in TxStmts
    BY Members DEF TxStmts
  <1>3. c \in QuietStmts
    BY Members DEF QuietStmts
  <1>4. c \in Stmts /\ e \in Stmts /\ h \in Stmts
    BY <1>2, <1>3, Members
  <1>5. TriggerPresent = <<a, b>> \/ TriggerPresent = <<>>
    BY DEF TriggerPresent
  <1>6. Parked = <<c>> \o <<d>> \/ Parked = <<>> \o <<d>>
    BY DEF Parked
  <1>7. Prefill = CASE f.presenting /\ fifo < FifoDepth  -> <<e, g>>
                    [] f.presenting /\ fifo >= FifoDepth -> <<h>>
                    [] OTHER -> <<>>
    BY DEF Prefill
  <1>8. f.presenting \in BOOLEAN /\ FifoDepth \in Nat
    BY NestAssumption DEF Flags
  <1>. HIDE DEF a, b, c, d, e, g, h
  <1>9. Prefill = <<e, g>> \/ Prefill = <<h>> \/ Prefill = <<>>
    <2>1. CASE f.presenting /\ fifo < FifoDepth
      BY <1>7, <1>8, <2>1
    <2>2. CASE f.presenting /\ fifo >= FifoDepth
      BY <1>7, <1>8, <2>2
    <2>3. CASE ~f.presenting
      BY <1>7, <2>3
    <2>. QED
      BY <1>8, <2>1, <2>2, <2>3
  <1>. QED
    BY <1>1, <1>2, <1>3, <1>4, <1>5, <1>6, <1>9, Lists

\* IPC_REWIND.
LEMMA RewindIn == Rewind \in Seq(Stmts)
  <1>. DEFINE a == Put("card", Loader)
              b == Put("col", 0)
              c == Put("presenting", FALSE)
              d == Put("cmd_pending", FALSE)
              e == Put("finin_pending", FALSE)
              g == Put("state", "ARMED_WAIT")
              h == Put("feed_irq", FALSE)
              i == <<"clear">>
              j == <<"lupob_update">>
  <1>1. Loader \in Nat /\ 0 \in Nat /\ "ARMED_WAIT" \in States
    BY NestAssumption DEF States
  <1>2. a \in Stmts /\ d \in Stmts
    BY <1>1, Members DEF Stmts
  <1>3. b \in TxStmts /\ c \in TxStmts /\ g \in TxStmts /\ h \in TxStmts
    BY <1>1, Members DEF TxStmts
  <1>4. e \in QuietStmts /\ j \in QuietStmts
    BY Members DEF QuietStmts
  <1>5. i \in Stmts
    BY Members DEF Stmts
  <1>6. Rewind = <<a, b, c, d, e, g, h, i, j>>
    BY DEF Rewind
  <1>7. TxStmts \subseteq Stmts /\ QuietStmts \subseteq Stmts
    BY DEF Stmts
  <1>. HIDE DEF a, b, c, d, e, g, h, i, j
  <1>. QED
    BY <1>2, <1>3, <1>4, <1>5, <1>6, <1>7

\* Which calls and which stores a context can be at.
LEMMA CallsIn ==
    ASSUME NEW a, a[1] \in Calls
    PROVE  /\ a \notin Pins /\ a # Begin
           /\ a \in TxStmts => a[1] \in {"on_txfeed", "present_next"}
           /\ a \in ReStmts => a[1] \in {"on_read", "finin_release", "lupob_update"}
           /\ a \in QuietStmts => a[1] \in {"on_tu03", "finin_release", "advance_card", "lupob_update"}
           /\ a \in Stmts => a[1] # "on_read"
           /\ a \in Stmts \cup ReStmts /\ a[1] = "lupob_update" => a = <<"lupob_update">>
  <1>1. \A field, values : a \notin Store1(field, values)
    BY PutFacts DEF Calls, Store1
  <1>2. a \notin Pushes /\ a # Begin /\ a \notin Pins
    <2>1. \A i, j : <<"push", i, j>>[1] = "push"
      OBVIOUS
    <2>2. a[1] # "push" /\ a[1] # "put"
      BY DEF Calls
    <2>3. Begin[1] = "put"
      BY DEF Begin, Put
    <2>. QED
      BY <1>1, <2>1, <2>2, <2>3 DEF Pushes, Pins
  <1>3. \A names : a \in Ops(names) => a[1] \in names /\ a = <<a[1]>>
    BY DEF Ops
  <1>4. a \in TxStmts => a \in Ops({"on_txfeed", "present_next"})
    BY <1>1, <1>2 DEF TxStmts
  <1>5. a \in ReStmts => a \in Ops({"on_read", "finin_release", "lupob_update"})
    BY <1>1 DEF ReStmts
  <1>6. a \in QuietStmts =>
           a \in Ops({"on_tu03", "finin_release", "advance_card", "card++", "lupob_update"})
    BY <1>1 DEF QuietStmts
  <1>7. a \in Stmts => \/ a \in TxStmts \/ a \in QuietStmts
                       \/ a \in Ops({"trigger_present", "parked", "present_card", "prefill",
                                     "poll_cmd", "poll_finin", "wfe", "clear"})
    BY <1>1, Members DEF Stmts
  <1>8. a \in TxStmts => a[1] \in {"on_txfeed", "present_next"} /\ a = <<a[1]>>
    BY <1>3, <1>4
  <1>9. a \in ReStmts => a[1] \in {"on_read", "finin_release", "lupob_update"} /\ a = <<a[1]>>
    BY <1>3, <1>5
  <1>10. a \in QuietStmts => /\ a[1] \in {"on_tu03", "finin_release", "advance_card", "lupob_update"}
                             /\ a = <<a[1]>>
    BY <1>3, <1>6 DEF Calls
  <1>11. a \in Stmts => a[1] # "on_read" /\ a = <<a[1]>>
    BY <1>3, <1>7, <1>8, <1>10
  <1>. QED
    BY <1>2, <1>8, <1>9, <1>10, <1>11

\* A value the field can have.
Typed(field, value) ==
    \/ field = "state" /\ value \in States
    \/ field \in {"card", "col"} /\ value \in Nat
    \/ field \in {"presenting", "cmd_pending", "finin_pending", "lupob", "feed_irq"}
       /\ value \in BOOLEAN

\* A store is to a field, of a value it can have; which stores raise a flag.
LEMMA StoresIn ==
    ASSUME NEW a, a[1] = "put", a \in Stmts \cup ReStmts \cup Pins \cup {Begin}
    PROVE  /\ Typed(a[2], a[3])
           /\ a \in Stmts \/ a \in ReStmts => a[2] # "lupob" /\ (a[2] = "presenting" => ~a[3])
           /\ a \in Stmts => (a[2] = "cmd_pending" => ~a[3])
           /\ a \in Pins => a[2] = "lupob" /\ a = Put("lupob", a[3])
           /\ a = Begin => a[2] = "presenting" /\ a[3]
  <1>1. \A field, v : a = Put(field, v) => a[2] = field /\ a[3] = v
    BY PutFacts
  <1>2. a \notin Pushes
    BY DEF Pushes
  <1>3. ASSUME NEW names, a \in Ops(names)
        PROVE  "put" \in names
    BY <1>3 DEF Ops
  <1>4. a \in Pins => a[2] = "lupob" /\ a = Put("lupob", a[3]) /\ a[3] \in BOOLEAN
    BY <1>1 DEF Pins, Store1
  <1>5. a = Begin => a[2] = "presenting" /\ a[3] = TRUE
    BY <1>1 DEF Begin
  <1>6. \A field, values : a \in Store1(field, values) => a[2] = field /\ a[3] \in values
    BY <1>1 DEF Store1
  <1>7. a \in Stmts \cup ReStmts =>
            \/ a[2] \in {"col", "card"} /\ a[3] \in Nat
            \/ a[2] = "state" /\ a[3] \in States
            \/ a[2] = "presenting" /\ a[3] \in {FALSE}
            \/ a[2] \in {"finin_pending", "feed_irq"} /\ a[3] \in BOOLEAN
            \/ a[2] = "cmd_pending" /\ a[3] \in {FALSE} /\ a \in Stmts
            \/ a[2] = "cmd_pending" /\ a[3] \in {TRUE} /\ a \in ReStmts
    <2>1. a \in TxStmts => \/ a[2] = "col" /\ a[3] \in Nat
                           \/ a[2] = "presenting" /\ a[3] \in {FALSE}
                           \/ a[2] = "finin_pending" /\ a[3] \in {TRUE}
                           \/ a[2] = "state" /\ a[3] \in States
                           \/ a[2] = "feed_irq" /\ a[3] \in BOOLEAN
      BY <1>2, <1>3, <1>6 DEF TxStmts
    <2>2. a \in QuietStmts => \/ a[2] = "col" /\ a[3] \in Nat
                              \/ a[2] = "state" /\ a[3] \in States
                              \/ a[2] = "finin_pending" /\ a[3] \in {FALSE}
      BY <1>3, <1>6 DEF QuietStmts
    <2>3. a \in ReStmts => \/ a[2] = "finin_pending" /\ a[3] \in {FALSE}
                           \/ a[2] = "cmd_pending" /\ a[3] \in {TRUE}
      BY <1>3, <1>6 DEF ReStmts
    <2>4. a \in Stmts => \/ a \in TxStmts \/ a \in QuietStmts
                         \/ a[2] = "card" /\ a[3] \in Nat
                         \/ a[2] = "cmd_pending" /\ a[3] \in {FALSE}
      BY <1>3, <1>6 DEF Stmts
    <2>. QED
      BY <2>1, <2>2, <2>3, <2>4
  <1>8. a \in Stmts \cup ReStmts => /\ Typed(a[2], a[3]) /\ a[2] # "lupob"
                                    /\ a[2] = "presenting" => a[3] = FALSE
    BY <1>7 DEF Typed
  <1>9. a \in Pins \/ a = Begin => Typed(a[2], a[3])
    BY <1>4, <1>5 DEF Typed
  <1>10. a \in Stmts => (a[2] = "cmd_pending" => a[3] = FALSE)
    <2>1. a \in TxStmts => a[2] # "cmd_pending"
      BY <1>2, <1>3, <1>6 DEF TxStmts
    <2>2. a \in QuietStmts => a[2] # "cmd_pending"
      BY <1>3, <1>6 DEF QuietStmts
    <2>3. a \in Store1("card", Nat) => a[2] # "cmd_pending"
      BY <1>6
    <2>4. a \in Store1("cmd_pending", {FALSE}) => a[3] = FALSE
      <3>1. \A values : a \in Store1("cmd_pending", values) => a[3] \in values
        BY <1>6
      <3>. DEFINE V == {FALSE}
      <3>2. a \in Store1("cmd_pending", V) => a[3] \in V
        <4>. HIDE DEF V
        <4>. QED
          BY <3>1
      <3>. QED
        BY <3>2
    <2>5. a \notin Ops({"trigger_present", "parked", "present_card", "prefill",
                        "poll_cmd", "poll_finin", "wfe", "clear"})
      BY <1>3
    <2>. QED
      BY <2>1, <2>2, <2>3, <2>4, <2>5 DEF Stmts
  <1>. QED
    BY <1>4, <1>5, <1>8, <1>9, <1>10

\* A context goes on with s.
LEMMA BusyOn ==
    ASSUME BusyInv, NEW c \in Contexts, Runs(c), NEW s, Goes(c, s),
           f' \in Flags, fifo' \in Nat, struck' = struck,
           f'.cmd_pending => f.cmd_pending \/ c = Re,
           c \in {Main, Gpio} => Placed(s),
           c = Tx => s \in Seq(TxStmts),
           c = Re => Shape(s, ReStmts),
           c = Gpio /\ High(Main) => Shape(s, QuietStmts),
           s # <<>> /\ Head(s) = Put("lupob", TRUE) => ~f'.presenting /\ ~f'.cmd_pending,
           f'.presenting /\ ~f.presenting => \A d \in Contexts \ {c} : ~High(d),
           f'.presenting /\ f'.lupob =>
               Clears(s) \/ (f.presenting /\ f.lupob /\ ~Clears(todo[c]))
    PROVE  BusyInv'
  <1>1. BusyTypes /\ BusyPlaces /\ SetsAtRest /\ PinOwed /\ TodoOK
    BY DEF BusyInv, BusyTypes
  <1>2. todo' = [todo EXCEPT ![c] = s]
    BY DEF Goes
  <1>3. todo'[c] = s /\ TodoOK' /\ \A d \in Contexts \ {c} : todo'[d] = todo[d]
    BY <1>1, <1>2 DEF TodoOK
  <1>4. BusyTypes'
    BY <1>1, <1>3 DEF BusyTypes
  <1>5. /\ Contexts = {Main, Tx, Gpio, Re} /\ Main # Tx /\ Main # Gpio /\ Main # Re
        /\ Tx # Gpio /\ Tx # Re /\ Gpio # Re
    BY DEF Contexts, Main, Tx, Gpio, Re
  <1>6. ~Idle(c) /\ (c = Main => Idle(Tx) /\ Idle(Gpio) /\ Idle(Re))
        /\ (c = Tx => Idle(Gpio) /\ Idle(Re)) /\ (c = Gpio => Idle(Re))
        /\ (c = Re => Idle(Gpio))
    BY <1>1 DEF Runs, BusyPlaces, Contexts, Main, Tx, Gpio, Re
  <1>7. BusyPlaces'
    <2>1. Placed(todo[Main])' /\ Placed(todo[Gpio])' /\ todo'[Tx] \in Seq(TxStmts)
          /\ Shape(todo[Re], ReStmts)'
      BY <1>1, <1>3, <1>5 DEF BusyPlaces
    <2>2. ~Idle(Gpio)' => struck' /\ Idle(Re)'
      BY <1>1, <1>3, <1>5, <1>6 DEF BusyPlaces, Idle
    <2>3. ~Idle(Re)' => struck'
      BY <1>1, <1>3, <1>5, <1>6 DEF BusyPlaces, Idle
    <2>. QED
      BY <2>1, <2>2, <2>3 DEF BusyPlaces
  <1>8. SetsAtRest'
    <2>1. ASSUME NEW d \in Contexts, High(d)' PROVE ~f'.presenting
      <3>1. CASE d = c
        BY <1>3, <2>1, <3>1 DEF High
      <3>2. CASE d # c
        <4>1. High(d)
          BY <1>3, <2>1, <3>2 DEF High
        <4>2. ~f.presenting
          BY <1>1, <4>1 DEF SetsAtRest
        <4>. QED
          BY <3>2, <4>1, <4>2
      <3>. QED
        BY <3>1, <3>2
    <2>2. ASSUME High(Main)', c = Main
          PROVE  /\ f'.cmd_pending => struck'
                 /\ ~Idle(Gpio)' => ~f'.cmd_pending /\ Shape(todo[Gpio], QuietStmts)'
      BY <1>3, <1>5, <1>6, <2>2 DEF High, Idle
    <2>3. ASSUME High(Main)', c # Main
          PROVE  /\ f'.cmd_pending => struck'
                 /\ ~Idle(Gpio)' => ~f'.cmd_pending /\ Shape(todo[Gpio], QuietStmts)'
      <3>1. High(Main)
        BY <1>3, <1>5, <2>3 DEF High
      <3>2. /\ f.cmd_pending => struck
            /\ ~Idle(Gpio) => ~f.cmd_pending /\ Shape(todo[Gpio], QuietStmts)
        BY <1>1, <3>1 DEF SetsAtRest
      <3>3. c = Re => struck
        BY <1>1, <1>6 DEF BusyPlaces
      <3>4. f'.cmd_pending => struck'
        BY <3>2, <3>3
      <3>5. CASE c = Gpio
        BY <1>3, <1>5, <1>6, <3>1, <3>2, <3>4, <3>5
      <3>6. CASE c # Gpio
        BY <1>3, <1>5, <1>6, <2>3, <3>4, <3>6 DEF Idle
      <3>. QED
        BY <3>5, <3>6
    <2>. QED
      BY <2>1, <2>2, <2>3 DEF SetsAtRest
  <1>9. PinOwed'
    <2>1. ASSUME f'.presenting, f'.lupob PROVE \E d \in Contexts : Clears(todo'[d])
      <3>1. CASE Clears(s)
        BY <1>3, <3>1
      <3>2. CASE f.presenting /\ f.lupob /\ ~Clears(todo[c])
        <4>1. PICK d \in Contexts : Clears(todo[d])
          BY <1>1, <3>2 DEF PinOwed
        <4>2. d # c
          BY <3>2, <4>1
        <4>. QED
          BY <1>3, <4>1, <4>2
      <3>. QED
        BY <2>1, <3>1, <3>2
    <2>. QED
      BY <2>1 DEF PinOwed, Clears
  <1>. QED
    BY <1>4, <1>7, <1>8, <1>9 DEF BusyInv

\* The stack of a context that runs, and what it is at.
LEMMA RunsAt ==
    ASSUME BusyInv, NEW c \in Contexts, Runs(c)
    PROVE  /\ todo[c] # <<>>
           /\ c = Tx => Head(todo[c]) \in TxStmts /\ Tail(todo[c]) \in Seq(TxStmts)
           /\ c = Re => Head(todo[c]) \in ReStmts \cup Pins /\ Tail(todo[c]) \in Seq(ReStmts)
           /\ c \in {Main, Gpio} =>
                \/ Head(todo[c]) \in Stmts \cup Pins /\ Tail(todo[c]) \in Seq(Stmts)
                \/ Starting(todo[c])
                \/ Head(todo[c]) = Put("state", "PRESENTING") /\ Starting(Tail(todo[c]))
           /\ c = Gpio /\ High(Main) =>
                Head(todo[c]) \in QuietStmts \cup Pins /\ Tail(todo[c]) \in Seq(QuietStmts)
           /\ c = Gpio /\ High(Main) => ~f.cmd_pending
  <1>1. todo[c] # <<>> /\ BusyPlaces /\ SetsAtRest /\ ~Idle(c)
    BY DEF Runs, Idle, BusyInv
  <1>2. \A A : todo[c] \in Seq(A) => Head(todo[c]) \in A /\ Tail(todo[c]) \in Seq(A)
    BY <1>1, HeadTailProperties
  <1>3. \A A : Shape(todo[c], A) => Head(todo[c]) \in A \cup Pins /\ Tail(todo[c]) \in Seq(A)
    BY <1>2 DEF Shape
  <1>4. c = Gpio /\ High(Main) => Shape(todo[c], QuietStmts) /\ ~f.cmd_pending
    BY <1>1 DEF SetsAtRest
  <1>. QED
    BY <1>1, <1>2, <1>3, <1>4 DEF BusyPlaces, Placed

\* Sequences of plain statements are shapes.
LEMMA SeqShape ==
    ASSUME NEW A, NEW s \in Seq(A)
    PROVE  /\ Shape(s, A)
           /\ A = Stmts => Placed(s)
           /\ A \in {TxStmts, ReStmts, QuietStmts, Stmts} =>
                ~(s # <<>> /\ Head(s) = Put("lupob", TRUE))
  <1>1. Shape(s, A)
    BY DEF Shape
  <1>2. \A v : Put("lupob", v)[1] = "put" /\ Put("lupob", v)[2] = "lupob"
    BY PutFacts
  <1>3. Put("lupob", TRUE) \notin Stmts \cup ReStmts
    <2>. DEFINE a == Put("lupob", TRUE)
    <2>1. a[1] = "put" /\ a[2] = "lupob"
      BY <1>2
    <2>. HIDE DEF a
    <2>2. a \notin Stmts \cup ReStmts
      BY <2>1, StoresIn
    <2>. QED
      BY <2>2 DEF a
  <1>4. s # <<>> => Head(s) \in A
    BY HeadTailProperties
  <1>5. A = Stmts => Placed(s)
    BY <1>1 DEF Placed
  <1>6. TxStmts \subseteq Stmts /\ QuietStmts \subseteq Stmts
    BY Members
  <1>7. ASSUME A \in {TxStmts, ReStmts, QuietStmts, Stmts} PROVE Put("lupob", TRUE) \notin A
    BY <1>3, <1>6, <1>7
  <1>. QED
    BY <1>1, <1>4, <1>5, <1>7

\* A step that has to do neither with the pin nor with the beginning of a card.
LEMMA BusyPlain ==
    ASSUME BusyInv, NEW c \in Contexts, Runs(c), NEW x, Goes(c, x \o Tail(todo[c])),
           Head(todo[c])[1] \notin {"put", "lupob_update"},
           f' \in Flags, fifo' \in Nat, struck' = struck,
           f'.presenting = f.presenting, f'.cmd_pending = f.cmd_pending, f'.lupob = f.lupob,
           c \in {Main, Gpio} => x \in Seq(Stmts),
           c = Tx => x \in Seq(TxStmts),
           c = Re => x \in Seq(ReStmts),
           c = Gpio /\ High(Main) => x \in Seq(QuietStmts)
    PROVE  BusyInv'
  <1>. DEFINE a == Head(todo[c])
              r == Tail(todo[c])
              s == x \o r
  <1>1. /\ todo[c] # <<>>
        /\ c = Tx => a \in TxStmts /\ r \in Seq(TxStmts)
        /\ c = Re => a \in ReStmts \cup Pins /\ r \in Seq(ReStmts)
        /\ c \in {Main, Gpio} =>
             \/ a \in Stmts \cup Pins /\ r \in Seq(Stmts)
             \/ Starting(todo[c])
             \/ a = Put("state", "PRESENTING") /\ Starting(r)
        /\ c = Gpio /\ High(Main) => a \in QuietStmts \cup Pins /\ r \in Seq(QuietStmts)
    BY RunsAt
  <1>2. a # Begin /\ a # Put("state", "PRESENTING") /\ a \notin Pins
        /\ ~Clears(todo[c])
    <2>1. \A field, v : a # Put(field, v)
      BY PutFacts
    <2>2. a # <<"lupob_update">>
      OBVIOUS
    <2>. QED
      BY <2>1, <2>2 DEF Begin, Pins, Store1, Clears
  <1>3. /\ c = Tx => r \in Seq(TxStmts)
        /\ c = Re => r \in Seq(ReStmts)
        /\ c \in {Main, Gpio} => r \in Seq(Stmts)
        /\ c = Gpio /\ High(Main) => r \in Seq(QuietStmts)
    BY <1>1, <1>2 DEF Starting
  <1>. HIDE DEF a, r
  <1>4. /\ c = Tx => s \in Seq(TxStmts)
        /\ c = Re => s \in Seq(ReStmts)
        /\ c \in {Main, Gpio} => s \in Seq(Stmts)
        /\ c = Gpio /\ High(Main) => s \in Seq(QuietStmts)
    BY <1>3, ConcatProperties
  <1>5. Goes(c, s)
    BY DEF r
  <1>. HIDE DEF s
  <1>6. /\ c = Re => Shape(s, ReStmts)
        /\ c \in {Main, Gpio} => Placed(s)
        /\ c = Gpio /\ High(Main) => Shape(s, QuietStmts)
        /\ ~(s # <<>> /\ Head(s) = Put("lupob", TRUE))
    BY <1>4, SeqShape DEF Contexts
  <1>. QED
    BY <1>2, <1>4, <1>5, <1>6, BusyOn

\* A call.
LEMMA BusyCall ==
    ASSUME BusyInv, NEW c \in Contexts, Call(c)
    PROVE  BusyInv'
  <1>. DEFINE a == Head(todo[c])
              r == Tail(todo[c])
              op == a[1]
  <1>1. /\ Runs(c) /\ op \in Calls /\ Goes(c, Body(op) \o r)
        /\ UNCHANGED <<f, fifo, struck>> /\ f \in Flags /\ fifo \in Nat
    BY DEF Call, At, Then, Goes, BusyInv, BusyTypes
  <1>2. /\ todo[c] # <<>>
        /\ c = Tx => a \in TxStmts /\ r \in Seq(TxStmts)
        /\ c = Re => a \in ReStmts \cup Pins /\ r \in Seq(ReStmts)
        /\ c \in {Main, Gpio} =>
             \/ a \in Stmts \cup Pins /\ r \in Seq(Stmts)
             \/ Starting(todo[c])
             \/ a = Put("state", "PRESENTING") /\ Starting(r)
        /\ c = Gpio /\ High(Main) => a \in QuietStmts \cup Pins /\ r \in Seq(QuietStmts)
        /\ c = Gpio /\ High(Main) => ~f.cmd_pending
    BY <1>1, RunsAt
  <1>3. /\ a # Put("state", "PRESENTING") /\ ~Starting(todo[c])
        /\ op # "lupob_update" => ~Clears(todo[c])
    <2>1. a # Begin
      BY <1>1, CallsIn
    <2>2. a # Put("state", "PRESENTING") /\ a # Put("lupob", FALSE)
      <3>1. op # "put"
        BY <1>1 DEF Calls
      <3>2. \A field, v : a # Put(field, v)
        BY <3>1, PutFacts
      <3>. QED
        BY <3>2
    <2>3. op # "lupob_update" => a # <<"lupob_update">>
      OBVIOUS
    <2>. QED
      BY <2>1, <2>2, <2>3 DEF Starting, Clears
  <1>4. /\ c = Tx => op \in {"on_txfeed", "present_next"} /\ r \in Seq(TxStmts)
        /\ c = Re => op \in {"on_read", "finin_release", "lupob_update"} /\ r \in Seq(ReStmts)
        /\ c \in {Main, Gpio} => op # "on_read" /\ r \in Seq(Stmts)
        /\ c = Gpio /\ High(Main) => /\ op \in {"on_tu03", "finin_release", "advance_card", "lupob_update"}
                                     /\ r \in Seq(QuietStmts)
                                     /\ ~f.cmd_pending
    <2>. HIDE DEF a, r
    <2>. QED
      BY <1>1, <1>2, <1>3, CallsIn DEF op
  <1>5. Contexts = {Main, Tx, Gpio, Re} /\ Main # Tx /\ Gpio # Tx /\ Re # Tx /\ Gpio # Re /\ Main # Re
    BY DEF Contexts, Main, Tx, Gpio, Re
  <1>6. CASE op = "lupob_update"
    <2>. DEFINE p == Put("lupob", Ready)
                s == Do(p, r)
    <2>1. c # Tx
      BY <1>4, <1>6
    <2>2. Ready \in BOOLEAN
      BY DEF Ready
    <2>3. p \in Pins
      BY <2>2 DEF Pins, Store1
    <2>4. Body(op) = <<p>>
      BY <1>6 DEF Body
    <2>5. IsStack(r)
      BY <1>4, <1>5, SeqStack
    <2>6. Head(s) = p /\ Tail(s) = r /\ s # <<>>
      BY <2>5, DoFacts
    <2>7. Goes(c, s)
      BY <1>1, <2>4 DEF Do
    <2>8. p = Put("lupob", TRUE) => Ready
      BY DEF Put
    <2>9. Ready => ~f.presenting /\ ~f.cmd_pending
      BY DEF Ready
    <2>10. f.presenting => Clears(s)
      <3>1. f.presenting => p = Put("lupob", FALSE)
        BY <2>2, <2>9
      <3>. QED
        BY <2>6, <3>1 DEF Clears
    <2>. HIDE DEF s, p
    <2>11. /\ c = Re => Shape(s, ReStmts)
           /\ c \in {Main, Gpio} => Placed(s)
           /\ c = Gpio /\ High(Main) => Shape(s, QuietStmts)
      BY <1>4, <2>3, <2>6 DEF Shape, Placed
    <2>. HIDE DEF a, r, op
    <2>. QED
      BY <1>1, <2>1, <2>6, <2>7, <2>8, <2>9, <2>10, <2>11, BusyOn
  <1>7. CASE op = "present_card" /\ f.state = "ARMED_WAIT"
    <2>. DEFINE p == Put("state", "PRESENTING")
                q == Put("presenting", TRUE)
                u == <<"lupob_update">>
                w == <<"prefill">>
                t == Do(u, Do(w, r))
                s == Do(p, Do(q, t))
    <2>1. c \in {Main, Gpio} /\ ~(c = Gpio /\ High(Main))
      BY <1>4, <1>5, <1>7
    <2>2. r \in Seq(Stmts) /\ IsStack(r)
      BY <1>4, <2>1, SeqStack
    <2>3. Body(op) = <<p, q, u, w>>
      BY <1>7 DEF Body, PresentCard
    <2>4. w \in Stmts /\ u \in Stmts
      <3>1. u \in QuietStmts
        BY Members DEF QuietStmts
      <3>. QED
        BY <3>1, Members DEF Stmts
    <2>5. q = Begin
      BY DEF Begin
    <2>6. ~Clears(todo[c])
      BY <1>3, <1>7
    <2>7. p # Put("lupob", TRUE)
      BY DEF Put
    <2>. HIDE DEF p, q, u, w
    <2>8. Goes(c, s)
      <3>1. <<p, q, u, w>> \o r = s
        <4>. HIDE DEF a, r, op
        <4>1. <<p, q, u, w>> \o r = Do(p, Do(q, Do(u, Do(w, r))))
          BY <2>2, Cat4
        <4>. QED
          BY <4>1
      <3>. QED
        BY <1>1, <2>3, <3>1
    <2>9. t \in Seq(Stmts)
      <3>1. <<w>> \in Seq(Stmts) /\ <<u>> \in Seq(Stmts)
        BY <2>4
      <3>. QED
        BY <2>2, <3>1, ConcatProperties DEF Do
    <2>10. /\ IsStack(t) /\ t # <<>> /\ Head(t) = u /\ IsStack(Do(q, t))
           /\ Head(Do(q, t)) = q /\ Tail(Do(q, t)) = t /\ Do(q, t) # <<>>
           /\ Head(s) = p /\ Tail(s) = Do(q, t) /\ s # <<>>
      BY <2>2, DoFacts
    <2>11. Starting(Do(q, t))
      BY <2>5, <2>9, <2>10 DEF Starting, u
    <2>12. Placed(s)
      BY <2>10, <2>11 DEF Placed, p
    <2>. HIDE DEF s
    <2>. HIDE DEF a, r, op
    <2>. QED
      BY <1>1, <1>5, <2>1, <2>6, <2>7, <2>8, <2>10, <2>12, BusyOn
  <1>8. CASE op # "lupob_update" /\ ~(op = "present_card" /\ f.state = "ARMED_WAIT")
    <2>1. /\ c = Tx => Body(op) \in Seq(TxStmts)
          /\ c = Re => Body(op) \in Seq(ReStmts)
          /\ c = Gpio /\ High(Main) => Body(op) \in Seq(QuietStmts)
      <3>. HIDE DEF op
      <3>. QED
        BY <1>1, <1>4, <1>8, FininIn, AdvanceIn, PresentIn, TxfeedIn, ReadIn, Tu03In DEF Body
    <2>2. ASSUME c \in {Main, Gpio} PROVE Body(op) \in Seq(Stmts)
      <3>1. op \in Calls \ {"on_read", "lupob_update"}
        BY <1>1, <1>4, <1>8, <2>2
      <3>2. Seq(TxStmts) \subseteq Seq(Stmts) /\ Seq(QuietStmts) \subseteq Seq(Stmts)
        BY Members, SeqMonotonic
      <3>3. /\ FininRelease \in Seq(Stmts) /\ AdvanceCard \in Seq(Stmts)
            /\ PresentNext \in Seq(Stmts) /\ OnTxfeed \in Seq(Stmts)
            /\ OnTu03 \in Seq(Stmts) /\ TriggerPresent \in Seq(Stmts)
            /\ Parked \in Seq(Stmts) /\ Prefill \in Seq(Stmts)
        BY <1>1, <3>2, FininIn, AdvanceIn, PresentIn, TxfeedIn, Tu03In, TriggerIn
      <3>4. op = "present_card" => Body(op) \in Seq(Stmts)
        <4>. DEFINE u == <<"lupob_update">>
        <4>1. u \in Stmts
          <5>1. u \in QuietStmts
            BY Members DEF QuietStmts
          <5>. QED
            BY <5>1, Members
        <4>2. op = "present_card" => Body(op) = <<u>>
          BY <1>8 DEF Body, PresentCard
        <4>. HIDE DEF u
        <4>3. <<u>> \in Seq(Stmts)
          BY <4>1
        <4>. QED
          BY <4>2, <4>3
      <3>. HIDE DEF op
      <3>. QED
        BY <3>1, <3>3, <3>4 DEF Body, Calls
    <2>3. Head(todo[c])[1] \notin {"put", "lupob_update"}
      BY <1>1, <1>8 DEF Calls
    <2>. QED
      BY <1>1, <2>1, <2>2, <2>3, BusyPlain
  <1>. QED
    BY <1>6, <1>7, <1>8

\* A store.
LEMMA BusyStore ==
    ASSUME BusyInv, NEW c \in Contexts, Store(c)
    PROVE  BusyInv'
  <1>. DEFINE a == Head(todo[c])
              r == Tail(todo[c])
  <1>1. /\ Runs(c) /\ a[1] = "put" /\ Goes(c, <<>> \o r)
        /\ f' = [f EXCEPT ![a[2]] = a[3]] /\ UNCHANGED <<fifo, struck>>
        /\ fifo' \in Nat /\ f \in Flags /\ SetsAtRest /\ BusyPlaces
    BY DEF Store, At, Then, Goes, BusyInv, BusyTypes
  <1>2. /\ todo[c] # <<>>
        /\ c = Tx => a \in TxStmts /\ r \in Seq(TxStmts)
        /\ c = Re => a \in ReStmts \cup Pins /\ r \in Seq(ReStmts)
        /\ c \in {Main, Gpio} =>
             \/ a \in Stmts \cup Pins /\ r \in Seq(Stmts)
             \/ Starting(todo[c])
             \/ a = Put("state", "PRESENTING") /\ Starting(r)
        /\ c = Gpio /\ High(Main) => a \in QuietStmts \cup Pins /\ r \in Seq(QuietStmts)
    BY <1>1, RunsAt
  <1>3. Contexts = {Main, Tx, Gpio, Re} /\ Main # Tx /\ Gpio # Tx /\ Re # Tx /\ Gpio # Re /\ Main # Re
    BY DEF Contexts, Main, Tx, Gpio, Re
  <1>4. Starting(todo[c]) => a = Begin /\ r \in Seq(Stmts) /\ Clears(r)
    BY DEF Starting, Clears
  <1>5. \A A : r \in Seq(A) => IsStack(r)
    BY SeqStack
  <1>6. IsStack(r)
    BY <1>2, <1>3, <1>4, <1>5 DEF Starting
  <1>7. High(c) <=> a = Put("lupob", TRUE)
    BY <1>2 DEF High
  <1>8. Clears(todo[c]) => a = <<"lupob_update">> \/ a = Put("lupob", FALSE)
    BY DEF Clears
  <1>9. a # <<"lupob_update">>
    BY <1>1
  <1>. HIDE DEF a, r
  <1>10. Goes(c, r)
    BY <1>1, <1>6, Cat1
  <1>11. /\ TxStmts \subseteq Stmts /\ QuietStmts \subseteq Stmts
         /\ Put("state", "PRESENTING") \in Stmts
    <2>1. "PRESENTING" \in States
      BY DEF States
    <2>2. Put("state", "PRESENTING") \in TxStmts
      BY <2>1, Members DEF TxStmts
    <2>. QED
      BY <2>2, Members
  <1>12. a \in Stmts \cup ReStmts \cup Pins \cup {Begin}
    BY <1>2, <1>3, <1>4, <1>11
  <1>13. /\ Typed(a[2], a[3])
         /\ a \in Stmts \/ a \in ReStmts => a[2] # "lupob" /\ (a[2] = "presenting" => ~a[3])
         /\ a \in Stmts => (a[2] = "cmd_pending" => ~a[3])
         /\ a \in Pins => a[2] = "lupob" /\ a = Put("lupob", a[3])
         /\ a = Begin => a[2] = "presenting" /\ a[3]
    BY <1>1, <1>12, StoresIn
  <1>14. f' \in Flags
    BY <1>1, <1>13, FlagsKept DEF Typed
  <1>15. /\ f'.presenting = IF a[2] = "presenting" THEN a[3] ELSE f.presenting
         /\ f'.cmd_pending = IF a[2] = "cmd_pending" THEN a[3] ELSE f.cmd_pending
         /\ f'.lupob = IF a[2] = "lupob" THEN a[3] ELSE f.lupob
    <2>1. PICK field, value : field = a[2] /\ value = a[3]
      OBVIOUS
    <2>2. f \in Flags /\ f' = [f EXCEPT ![field] = value]
      BY <1>1, <2>1
    <2>3. f'.presenting = IF field = "presenting" THEN value ELSE f.presenting
      BY <2>2 DEF Flags
    <2>4. f'.cmd_pending = IF field = "cmd_pending" THEN value ELSE f.cmd_pending
      BY <2>2 DEF Flags
    <2>5. f'.lupob = IF field = "lupob" THEN value ELSE f.lupob
      BY <2>2 DEF Flags
    <2>. QED
      BY <2>1, <2>3, <2>4, <2>5
  <1>16. Begin \notin Stmts \cup ReStmts \cup Pins \cup {Put("state", "PRESENTING")}
    <2>1. Begin[1] = "put" /\ Begin[2] = "presenting" /\ Begin[3] = TRUE
      BY PutFacts DEF Begin
    <2>2. Put("state", "PRESENTING")[2] = "state"
      BY PutFacts
    <2>. HIDE DEF Begin
    <2>3. Begin \notin Stmts \cup ReStmts \cup Pins
      BY <2>1, StoresIn
    <2>. QED
      BY <2>1, <2>2, <2>3
  <1>17. f'.cmd_pending => f.cmd_pending \/ c = Re
    BY <1>2, <1>3, <1>4, <1>11, <1>13, <1>15
  <1>18. CASE a \in Pins
    <2>1. a \notin Stmts \cup ReStmts /\ a # Begin /\ a # Put("state", "PRESENTING")
      BY <1>11, <1>13, <1>16, <1>18
    <2>2. /\ c # Tx /\ (c = Re => r \in Seq(ReStmts)) /\ (c \in {Main, Gpio} => r \in Seq(Stmts))
          /\ c = Gpio /\ High(Main) => r \in Seq(QuietStmts)
      BY <1>2, <1>4, <1>11, <2>1
    <2>3. /\ c = Re => Shape(r, ReStmts)
          /\ c \in {Main, Gpio} => Placed(r)
          /\ c = Gpio /\ High(Main) => Shape(r, QuietStmts)
          /\ ~(r # <<>> /\ Head(r) = Put("lupob", TRUE))
      BY <1>3, <2>2, SeqShape
    <2>4. f'.presenting = f.presenting
      BY <1>13, <1>15, <1>18
    <2>5. ~(f'.presenting /\ f'.lupob)
      <3>1. ASSUME f'.presenting, f'.lupob PROVE FALSE
        <4>1. f'.lupob = a[3] /\ a = Put("lupob", a[3]) /\ f.presenting /\ f'.lupob = TRUE
          BY <1>13, <1>14, <1>15, <1>18, <2>4, <3>1 DEF Flags
        <4>2. High(c)
          BY <1>7, <4>1
        <4>. QED
          BY <1>1, <4>1, <4>2 DEF SetsAtRest
      <3>. QED
        BY <3>1
    <2>. QED
      BY <1>1, <1>10, <1>14, <1>17, <2>2, <2>3, <2>4, <2>5, BusyOn
  <1>19. CASE a = Begin
    <2>1. c \in {Main, Gpio} /\ Starting(todo[c]) /\ ~(c = Gpio /\ High(Main))
      BY <1>2, <1>3, <1>11, <1>16, <1>19
    <2>2. r \in Seq(Stmts) /\ Clears(r)
      BY <1>4, <2>1
    <2>3. Placed(r) /\ ~(r # <<>> /\ Head(r) = Put("lupob", TRUE))
      BY <2>2, SeqShape
    <2>4. ASSUME NEW d \in Contexts \ {c} PROVE ~High(d)
      <3>1. d = Tx => ~High(d)
        BY <1>1, SeqShape DEF BusyPlaces, High
      <3>2. d > c => ~High(d)
        BY <1>1 DEF Runs, Idle, High
      <3>3. c = Main => d > c
        BY DEF Contexts, Main, Tx, Gpio, Re
      <3>4. c = Gpio => d = Main \/ d = Tx \/ d > c
        BY DEF Contexts, Main, Tx, Gpio, Re
      <3>. QED
        BY <2>1, <3>1, <3>2, <3>3, <3>4
    <2>5. ~(c = Gpio /\ High(Main)) /\ c # Tx /\ c # Re
      BY <1>3, <2>1
    <2>. QED
      BY <1>1, <1>10, <1>14, <1>17, <2>1, <2>2, <2>3, <2>4, <2>5, BusyOn
  <1>20. CASE a \notin Pins /\ a # Begin
    <2>1. ~Clears(todo[c])
      <3>1. Put("lupob", FALSE) \in Pins
        BY DEF Pins, Store1
      <3>. QED
        BY <1>8, <1>9, <1>20, <3>1
    <2>2. /\ f'.presenting => f.presenting
          /\ f'.lupob = f.lupob
      BY <1>12, <1>13, <1>15, <1>20
    <2>3. CASE c \in {Main, Gpio} /\ a = Put("state", "PRESENTING") /\ Starting(r)
      <3>1. r # <<>> /\ Head(r) = Begin
        BY <2>3 DEF Starting
      <3>2. ~(c = Gpio /\ High(Main))
        <4>1. r \in Seq(QuietStmts) => Head(r) \in QuietStmts
          BY <3>1, HeadTailProperties
        <4>. QED
          BY <1>2, <1>11, <1>16, <3>1, <4>1
      <3>3. Placed(r)
        BY <2>3 DEF Placed
      <3>4. Put("lupob", TRUE) # Begin
        <4>1. Begin[2] = "presenting" /\ Put("lupob", TRUE)[2] = "lupob"
          BY PutFacts DEF Begin
        <4>. QED
          BY <4>1
      <3>5. c # Tx /\ c # Re
        BY <1>3, <2>3
      <3>. QED
        BY <1>1, <1>10, <1>14, <1>17, <2>1, <2>2, <3>1, <3>2, <3>3, <3>4, <3>5, BusyOn
    <2>4. CASE ~(c \in {Main, Gpio} /\ a = Put("state", "PRESENTING") /\ Starting(r))
      <3>1. /\ c = Tx => r \in Seq(TxStmts)
            /\ c = Re => r \in Seq(ReStmts)
            /\ c \in {Main, Gpio} => r \in Seq(Stmts)
            /\ c = Gpio /\ High(Main) => r \in Seq(QuietStmts)
        BY <1>2, <1>4, <1>20, <2>4
      <3>2. /\ c = Re => Shape(r, ReStmts)
            /\ c \in {Main, Gpio} => Placed(r)
            /\ c = Gpio /\ High(Main) => Shape(r, QuietStmts)
            /\ ~(r # <<>> /\ Head(r) = Put("lupob", TRUE))
        BY <1>3, <3>1, SeqShape
      <3>. QED
        BY <1>1, <1>10, <1>14, <1>17, <2>1, <2>2, <3>1, <3>2, BusyOn
    <2>. QED
      BY <2>3, <2>4
  <1>. QED
    BY <1>18, <1>19, <1>20

\* The other statements of core1.
LEMMA BusyOthers ==
    ASSUME BusyInv, \/ \E c \in Contexts : NextCard(c) \/ Push(c)
                    \/ ClearFifo \/ PollWaits \/ PollActs \/ PollPasses \/ Wakes
    PROVE  BusyInv'
  <1>1. f \in Flags /\ fifo \in Nat /\ TodoOK
    BY DEF BusyInv, BusyTypes
  <1>2. <<>> \in Seq(Stmts) /\ <<>> \in Seq(TxStmts) /\ <<>> \in Seq(ReStmts) /\ <<>> \in Seq(QuietStmts)
    BY EmptySeq
  <1>3. CASE \E c \in Contexts : NextCard(c) \/ Push(c)
    <2>1. PICK c \in Contexts : NextCard(c) \/ Push(c)
      BY <1>3
    <2>2. /\ Runs(c) /\ Head(todo[c])[1] \in {"card++", "push"}
          /\ Goes(c, <<>> \o Tail(todo[c])) /\ struck' = struck
      BY <2>1 DEF NextCard, Push, At, Then, Goes
    <2>3. fifo' \in Nat
      BY <1>1, <2>1 DEF NextCard, Push
    <2>4. /\ f' \in Flags /\ f'.presenting = f.presenting
          /\ f'.cmd_pending = f.cmd_pending /\ f'.lupob = f.lupob
      BY <1>1, <2>1 DEF NextCard, Push, Flags
    <2>. QED
      BY <1>2, <2>2, <2>3, <2>4, BusyPlain
  <1>4. CASE ClearFifo \/ PollWaits \/ PollActs \/ PollPasses \/ Wakes
    <2>1. /\ Runs(Main) /\ Head(todo[Main])[1] \in {"clear", "poll_cmd", "poll_finin", "wfe"}
          /\ UNCHANGED <<f, struck>>
      BY <1>4 DEF ClearFifo, PollWaits, PollActs, PollPasses, Wakes, At, PollUnchanged
    <2>2. fifo' \in Nat
      BY <1>1, <1>4 DEF ClearFifo, PollWaits, PollActs, PollPasses, Wakes, PollUnchanged
    <2>3. \E x \in Seq(Stmts) : Goes(Main, x \o Tail(todo[Main]))
      <3>. DEFINE a == <<"trigger_present">>
                  b == <<"poll_finin">>
                  c == <<"finin_release">>
                  d == <<"lupob_update">>
                  e == <<"wfe">>
      <3>1. a \in Stmts /\ b \in Stmts /\ e \in Stmts
        BY Members DEF Stmts
      <3>2. c \in QuietStmts /\ d \in QuietStmts
        BY Members DEF QuietStmts
      <3>3. c \in Stmts /\ d \in Stmts
        BY <3>2, Members
      <3>4. \E x \in {<<>>, <<a, b>>, <<c, d, e>>, <<b>>, <<e>>} : Goes(Main, x \o Tail(todo[Main]))
        BY <1>4 DEF ClearFifo, PollWaits, PollActs, PollPasses, Wakes, Then, Goes
      <3>. HIDE DEF a, b, c, d, e
      <3>5. \A x \in {<<>>, <<a, b>>, <<c, d, e>>, <<b>>, <<e>>} : x \in Seq(Stmts)
        BY <3>1, <3>3, Lists
      <3>. QED
        BY <3>4, <3>5
    <2>4. PICK x \in Seq(Stmts) : Goes(Main, x \o Tail(todo[Main]))
      BY <2>3
    <2>5. Main \in Contexts /\ Main # Tx /\ Main # Re /\ Main # Gpio
      BY DEF Contexts, Main, Tx, Gpio, Re
    <2>. QED
      BY <1>1, <2>1, <2>2, <2>4, <2>5, BusyPlain
  <1>. QED
    BY <1>3, <1>4

\* The top of the loop: nothing is under way, and no pin is owed.
LEMMA BusyLoop == ASSUME BusyInv, Loop PROVE BusyInv'
  <1>1. /\ BusyTypes /\ BusyPlaces /\ SetsAtRest /\ PinOwed
        /\ \A c \in Contexts : todo[c] = <<>>
        /\ struck' = FALSE /\ UNCHANGED <<f, fifo>>
    BY DEF BusyInv, Loop, Idle
  <1>2. PICK s \in Seq(Stmts) : todo' = [todo EXCEPT ![Main] = s]
    <2>. DEFINE a == <<"poll_cmd">>
    <2>1. a \in Stmts
      BY Members DEF Stmts
    <2>2. todo' = [todo EXCEPT ![Main] = Rewind] \/ todo' = [todo EXCEPT ![Main] = <<a>>]
      BY DEF Loop
    <2>. HIDE DEF a
    <2>3. <<a>> \in Seq(Stmts)
      BY <2>1, Lists
    <2>. QED
      BY <2>2, <2>3, RewindIn
  <1>3. /\ Contexts = {Main, Tx, Gpio, Re} /\ Main # Tx /\ Main # Gpio /\ Main # Re
    BY DEF Contexts, Main, Tx, Gpio, Re
  <1>4. todo'[Main] = s /\ TodoOK' /\ \A d \in Contexts \ {Main} : todo'[d] = <<>>
    BY <1>1, <1>2, <1>3 DEF BusyTypes, TodoOK
  <1>5. ~(f.presenting /\ f.lupob)
    BY <1>1 DEF PinOwed, Clears
  <1>6. \A c \in Contexts : ~High(c)'
    BY <1>4, SeqShape DEF High
  <1>7. Placed(s) /\ Placed(<<>>) /\ <<>> \in Seq(TxStmts) /\ Shape(<<>>, ReStmts)
    <2>1. <<>> \in Seq(Stmts) /\ <<>> \in Seq(TxStmts) /\ <<>> \in Seq(ReStmts)
      BY EmptySeq
    <2>. QED
      BY <2>1, SeqShape
  <1>8. BusyTypes'
    BY <1>1, <1>4 DEF BusyTypes
  <1>9. BusyPlaces'
    BY <1>3, <1>4, <1>7 DEF BusyPlaces, Idle
  <1>10. SetsAtRest' /\ PinOwed'
    BY <1>1, <1>3, <1>5, <1>6 DEF SetsAtRest, PinOwed
  <1>. QED
    BY <1>8, <1>9, <1>10 DEF BusyInv

\* A handler is called.
LEMMA BusyTaken ==
    ASSUME BusyInv, NEW c \in {Tx, Gpio, Re}, NEW a, Idle(c),
           todo' = [todo EXCEPT ![c] = <<a>>], UNCHANGED <<f, fifo>>,
           struck' \in BOOLEAN, struck => struck',
           c \in {Gpio, Re} => struck',
           c = Tx => a \in TxStmts,
           c = Re => a \in ReStmts /\ Idle(Gpio),
           c = Gpio => a \in QuietStmts /\ Idle(Re) /\ (High(Main) => ~f.cmd_pending)
    PROVE  BusyInv'
  <1>1. BusyTypes /\ BusyPlaces /\ SetsAtRest /\ PinOwed /\ TodoOK /\ todo[c] = <<>>
    BY DEF BusyInv, BusyTypes, Idle
  <1>2. /\ Contexts = {Main, Tx, Gpio, Re} /\ Main # Tx /\ Main # Gpio /\ Main # Re
        /\ Tx # Gpio /\ Tx # Re /\ Gpio # Re
    BY DEF Contexts, Main, Tx, Gpio, Re
  <1>. DEFINE s == <<a>>
  <1>3. todo'[c] = s /\ TodoOK' /\ \A d \in Contexts \ {c} : todo'[d] = todo[d]
    BY <1>1, <1>2 DEF TodoOK
  <1>4. /\ c = Tx => s \in Seq(TxStmts)
        /\ c = Re => s \in Seq(ReStmts)
        /\ c = Gpio => s \in Seq(QuietStmts) /\ s \in Seq(Stmts)
    BY Members, Lists
  <1>5. s # <<>>
    OBVIOUS
  <1>. HIDE DEF s
  <1>6. /\ c = Re => Shape(s, ReStmts)
        /\ c = Gpio => Placed(s) /\ Shape(s, QuietStmts)
        /\ Head(s) # Put("lupob", TRUE)
    BY <1>2, <1>4, <1>5, SeqShape
  <1>7. \A d \in Contexts : High(d)' => d # c /\ High(d)
    BY <1>3, <1>6 DEF High
  <1>8. BusyTypes'
    BY <1>1, <1>3 DEF BusyTypes
  <1>9. BusyPlaces'
    <2>1. Placed(todo[Main])' /\ Placed(todo[Gpio])' /\ todo'[Tx] \in Seq(TxStmts)
          /\ Shape(todo[Re], ReStmts)'
      BY <1>1, <1>2, <1>3, <1>4, <1>6 DEF BusyPlaces
    <2>2. ~Idle(Gpio)' => struck' /\ Idle(Re)'
      BY <1>1, <1>2, <1>3, <1>5 DEF BusyPlaces, Idle
    <2>3. ~Idle(Re)' => struck'
      BY <1>1, <1>2, <1>3, <1>5 DEF BusyPlaces, Idle
    <2>. QED
      BY <2>1, <2>2, <2>3 DEF BusyPlaces
  <1>10. SetsAtRest'
    <2>1. \A d \in Contexts : High(d)' => ~f'.presenting
      BY <1>1, <1>7 DEF SetsAtRest
    <2>2. ASSUME High(Main)'
          PROVE  /\ f'.cmd_pending => struck'
                 /\ ~Idle(Gpio)' => ~f'.cmd_pending /\ Shape(todo[Gpio], QuietStmts)'
      <3>1. High(Main)
        BY <1>2, <1>7, <2>2
      <3>2. /\ f.cmd_pending => struck
            /\ ~Idle(Gpio) => ~f.cmd_pending /\ Shape(todo[Gpio], QuietStmts)
        BY <1>1, <3>1 DEF SetsAtRest
      <3>3. CASE c = Gpio
        BY <1>2, <1>3, <1>6, <3>1, <3>2, <3>3
      <3>4. CASE c # Gpio
        BY <1>2, <1>3, <3>2, <3>4 DEF Idle
      <3>. QED
        BY <3>3, <3>4
    <2>. QED
      BY <2>1, <2>2 DEF SetsAtRest
  <1>11. PinOwed'
    <2>1. ASSUME f.presenting, f.lupob PROVE \E d \in Contexts : Clears(todo'[d])
      <3>1. PICK d \in Contexts : Clears(todo[d])
        BY <1>1, <2>1 DEF PinOwed
      <3>2. d # c
        BY <1>1, <3>1 DEF Clears
      <3>. QED
        BY <1>3, <3>1, <3>2
    <2>. QED
      BY <2>1 DEF PinOwed, Clears
  <1>. QED
    BY <1>8, <1>9, <1>10, <1>11 DEF BusyInv

\* An interrupt is taken: the TX FIFO's, a command, a feed.
LEMMA BusyStruck ==
    ASSUME BusyInv, TxTaken \/ Read \/ Feed
    PROVE  BusyInv'
  <1>1. BusyTypes /\ BusyPlaces /\ SetsAtRest
    BY DEF BusyInv
  <1>2. /\ Contexts = {Main, Tx, Gpio, Re} /\ Main # Tx /\ Main # Gpio /\ Main # Re
        /\ Tx # Gpio /\ Tx # Re /\ Gpio # Re
    BY DEF Contexts, Main, Tx, Gpio, Re
  <1>3. CASE TxTaken
    <2>1. /\ Idle(Tx) /\ todo' = [todo EXCEPT ![Tx] = <<<<"on_txfeed">>>>]
          /\ UNCHANGED <<f, fifo, struck>>
      BY <1>2, <1>3 DEF TxTaken
    <2>2. <<"on_txfeed">> \in TxStmts
      BY Members DEF TxStmts
    <2>. QED
      BY <1>1, <1>2, <2>1, <2>2, BusyTaken DEF BusyTypes
  <1>4. AtRest => /\ Idle(Tx) /\ Idle(Gpio) /\ Idle(Re) /\ ~High(Main)
    <2>1. AtRest => Idle(Tx) /\ Idle(Gpio) /\ Idle(Re)
      BY <1>2 DEF AtRest
    <2>2. ASSUME NEW op, op # "put", todo[Main] = <<<<op>>>> PROVE ~High(Main)
      <3>1. Head(todo[Main])[1] # "put"
        BY <2>2
      <3>2. Put("lupob", TRUE)[1] = "put"
        BY DEF Put
      <3>. QED
        BY <3>1, <3>2 DEF High
    <2>3. todo[Main] = <<>> => ~High(Main)
      BY DEF High
    <2>. QED
      BY <2>1, <2>2, <2>3 DEF AtRest
  <1>5. ASSUME NEW c \in {Gpio, Re}, NEW call, Strobe(c, call)
        PROVE  /\ Idle(c) /\ todo' = [todo EXCEPT ![c] = <<<<call>>>>] /\ struck' = TRUE
               /\ UNCHANGED <<f, fifo>> /\ (struck => AtRest)
    BY <1>5 DEF Strobe
  <1>6. CASE Read
    <2>1. /\ Idle(Re) /\ todo' = [todo EXCEPT ![Re] = <<<<"on_read">>>>] /\ struck' = TRUE
          /\ UNCHANGED <<f, fifo>> /\ (struck => AtRest)
      BY <1>5, <1>6 DEF Read
    <2>2. <<"on_read">> \in ReStmts
      BY Members DEF ReStmts
    <2>3. Idle(Gpio)
      BY <1>1, <1>4, <2>1 DEF BusyPlaces
    <2>. QED
      BY <1>2, <2>1, <2>2, <2>3, BusyTaken
  <1>7. CASE Feed
    <2>1. /\ Idle(Gpio) /\ todo' = [todo EXCEPT ![Gpio] = <<<<"on_tu03">>>>] /\ struck' = TRUE
          /\ UNCHANGED <<f, fifo>> /\ (struck => AtRest)
      BY <1>5, <1>7 DEF Feed
    <2>2. <<"on_tu03">> \in QuietStmts
      BY Members DEF QuietStmts
    <2>3. Idle(Re)
      BY <1>1, <1>4, <2>1 DEF BusyPlaces
    <2>4. High(Main) => ~f.cmd_pending
      BY <1>1, <1>4, <2>1 DEF SetsAtRest
    <2>. QED
      BY <1>2, <2>1, <2>2, <2>3, <2>4, BusyTaken
  <1>. QED
    BY <1>3, <1>6, <1>7

\* What leaves core1 alone.
LEMMA BusyStays ==
    ASSUME BusyInv, UNCHANGED <<f, todo, struck>>, fifo' \in Nat
    PROVE  BusyInv'
  <1>1. BusyTypes /\ BusyPlaces /\ SetsAtRest /\ PinOwed
    BY DEF BusyInv
  <1>2. BusyTypes'
    BY <1>1 DEF BusyTypes, TodoOK
  <1>3. BusyPlaces'
    BY <1>1 DEF BusyPlaces, Idle
  <1>4. SetsAtRest' /\ PinOwed'
    BY <1>1 DEF SetsAtRest, PinOwed, High, Idle
  <1>. QED
    BY <1>2, <1>3, <1>4 DEF BusyInv

\* It holds at the start.
LEMMA BusyInit == Init => BusyInv
  <1>. SUFFICES ASSUME Init PROVE BusyInv
    OBVIOUS
  <1>1. /\ f = [state |-> "ARMED_WAIT", card |-> Loader, col |-> 0,
                presenting |-> FALSE, cmd_pending |-> FALSE,
                finin_pending |-> FALSE, lupob |-> TRUE, feed_irq |-> FALSE]
        /\ fifo = 0 /\ struck = FALSE /\ Loader \in Nat
        /\ todo = [c \in Contexts |-> <<>>]
    BY NestAssumption DEF Init
  <1>1a. f \in Flags /\ f.presenting = FALSE
    BY <1>1 DEF Flags, States
  <1>2. \A c \in Contexts : todo[c] = <<>> /\ Idle(c) /\ ~High(c)
    BY <1>1 DEF Idle, High
  <1>3. Contexts = {Main, Tx, Gpio, Re}
    BY DEF Contexts
  <1>4. Placed(<<>>) /\ <<>> \in Seq(TxStmts) /\ Shape(<<>>, ReStmts)
    <2>1. <<>> \in Seq(Stmts) /\ <<>> \in Seq(TxStmts) /\ <<>> \in Seq(ReStmts)
      BY EmptySeq
    <2>. QED
      BY <2>1, SeqShape
  <1>5. BusyTypes
    BY <1>1, <1>1a DEF BusyTypes, TodoOK
  <1>6. BusyPlaces
    BY <1>2, <1>3, <1>4 DEF BusyPlaces
  <1>7. SetsAtRest /\ PinOwed
    BY <1>1a, <1>2, <1>3 DEF SetsAtRest, PinOwed
  <1>. QED
    BY <1>5, <1>6, <1>7 DEF BusyInv

\* While a card is presented and the pin is set, a context is about to clear it;
\* while the pin is about to be set, no card is presented: whatever comes in, a
\* rewind included, for every deck and FIFO.
THEOREM BusyInvHolds == Spec => []BusyInv
  <1>1. ASSUME BusyInv, [Next]_vars PROVE BusyInv'
    <2>1. CASE Core1
      <3>1. \/ \E c \in Contexts : Call(c) \/ Store(c) \/ NextCard(c) \/ Push(c)
            \/ ClearFifo \/ Loop \/ PollWaits \/ PollActs \/ PollPasses \/ Wakes
        BY <2>1 DEF Core1
      <3>. QED
        BY <1>1, <3>1, BusyCall, BusyStore, BusyOthers, BusyLoop
    <2>2. CASE TxTaken \/ Read \/ Feed
      BY <1>1, <2>2, BusyStruck
    <2>3. CASE SmPulls \/ IpcSend \/ UNCHANGED vars
      <3>1. UNCHANGED <<f, todo, struck>> /\ fifo \in Nat
        BY <1>1, <2>3 DEF SmPulls, IpcSend, vars, BusyInv, BusyTypes
      <3>2. fifo' \in Nat
        BY <2>3, <3>1 DEF SmPulls, IpcSend, vars
      <3>. QED
        BY <1>1, <3>1, <3>2, BusyStays
    <2>. QED
      BY <1>1, <2>1, <2>2, <2>3 DEF Next
  <1>. QED
    BY <1>1, BusyInit, PTL DEF Spec

\* With nothing under way LUPOB is never ready while a card is presented
\* (lupob_update, and the calls of it that interrupts come between).
THEOREM BusyAtRest == Spec => []BusyWhilePresenting
  <1>1. BusyInv => BusyWhilePresenting
    <2>. SUFFICES ASSUME BusyInv, AtRest, f.presenting, f.lupob PROVE FALSE
      BY DEF BusyWhilePresenting
    <2>1. PICK c \in Contexts : Clears(todo[c])
      BY DEF BusyInv, PinOwed
    <2>2. c = Main
      BY <2>1 DEF AtRest, Idle, Clears
    <2>3. PICK op \in {"poll_cmd", "wfe"} : todo[Main] = <<<<op>>>>
      BY <2>1, <2>2 DEF AtRest, Clears
    <2>4. Head(todo[Main]) = <<op>> /\ <<op>>[1] = op
      BY <2>3
    <2>5. Put("lupob", FALSE)[1] = "put"
      BY DEF Put
    <2>6. <<op>> # <<"lupob_update">>
      OBVIOUS
    <2>7. <<op>> # Put("lupob", FALSE)
      BY <2>4, <2>5
    <2>. QED
      BY <2>1, <2>2, <2>4, <2>6, <2>7 DEF Clears
  <1>. QED
    BY <1>1, BusyInvHolds, PTL
=============================================================================
