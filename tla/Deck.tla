-------------------------------- MODULE Deck --------------------------------
(***************************************************************************)
(* The RAM image of a deck and the pure code that fills it: the .cap       *)
(* parser and the loader-card search of src/src/deck.c, the recipes of     *)
(* src/src/surgery.c and the deck synthesis of src/src/bin2deck.c.         *)
(*                                                                         *)
(* An image is an index -- for each card where its columns begin and how   *)
(* many there are -- into one buffer of columns.  Cards are numbered from  *)
(* 0, so card c is entry c + 1 of the index.                               *)
(*                                                                         *)
(* The text of a capture is abstracted to what the parser tells apart: a   *)
(* line is a card header or a sequence of tokens, each either a column in  *)
(* four hex digits or something else (NoColumn).                           *)
(***************************************************************************)
EXTENDS Transcode, SequencesExt

CONSTANTS
    MaxCards, MaxCols,  \* DECK_MAX_CARDS, DECK_MAX_COLS
    CardCols,           \* CARD_COLS, the columns of a synthesized card
    BodyFirst,          \* the body's first card in a box-order deck (5), and
                        \* how many cards may hold the loader
    NoColumn,           \* a token that is not a column
    Chunk, IplMax,      \* BIN2DECK_CHUNK, BIN2DECK_IPL_MAX
    AddressSpace,       \* 0x10000
    LoaderCols          \* the columns of the embedded loader card

ASSUME DeckAssumption ==
    /\ {MaxCards, MaxCols, CardCols, BodyFirst, Chunk, IplMax, AddressSpace} \subseteq Nat \ {0}
    /\ 11 + Chunk <= CardCols /\ 19 <= CardCols /\ 2 * IplMax <= CardCols
    /\ CardCols <= MaxCols /\ AddressSpace <= 65536 /\ Chunk <= 256
    /\ LoaderCols \in Seq(Columns) /\ Len(LoaderCols) = CardCols

\* Columns are only ever added behind the last: the sequence is as long as
\* the used part of the buffer.
EmptyDeck == [idx |-> <<>>, cols |-> <<>>, loader_card |-> -1]

NCards(img) == Len(img.idx)

\* The columns of a card, resp. of every card, as sequences.
CardOf(img, c) ==
    LET e == img.idx[c + 1] IN SubSeq(img.cols, e.off + 1, e.off + e.ncols)

CardsOf(img) == [i \in 1 .. NCards(img) |-> CardOf(img, i - 1)]

\* Where the columns of the next card go.
NextOff(img) ==
    IF img.idx = <<>> THEN 0 ELSE Last(img.idx).off + Last(img.idx).ncols

\* A copy of a card's columns becomes the last card of an image.
Put(img, columns) ==
    LET off == NextOff(img) IN
    [img EXCEPT
        !.idx  = Append(@, [off |-> off, ncols |-> Len(columns)]),
        !.cols = SubSeq(@, 1, off) \o columns]

----------------------------------------------------------------------------
(* The parser (deck.c).  error is 0, -1 (cards), -2 (columns) or -3        *)
(* (nothing parsed).                                                       *)

ParserInit == [img |-> EmptyDeck, in_card |-> FALSE, error |-> 0]

\* Mutant: one card too many.
OpenCard_OffByOne(p) ==
    IF NCards(p.img) > MaxCards THEN [p EXCEPT !.error = -1]
    ELSE [p EXCEPT !.in_card = TRUE, !.img = Put(@, <<>>)]

OpenCard(p) ==
    IF NCards(p.img) >= MaxCards THEN [p EXCEPT !.error = -1]
    ELSE [p EXCEPT !.in_card = TRUE, !.img = Put(@, <<>>)]

\* A column goes to the end of the card that is open.
AddToken(p, token) ==
    LET n == NCards(p.img)  end == NextOff(p.img) IN
    IF token = NoColumn \/ p.error # 0 THEN p
    ELSE IF end >= MaxCols THEN [p EXCEPT !.error = -2]
    ELSE [p EXCEPT !.img.cols = SubSeq(@, 1, end) \o <<token>>, !.img.idx[n].ncols = @ + 1]

ProcessLine(p, line) ==
    IF line.header    THEN OpenCard(p)
    ELSE IF p.in_card THEN FoldLeft(AddToken, p, line.tokens)
                      ELSE p

\* Mutant: the visual-section duplicates stay.
CapParseFinish_KeepsEmpty(p) ==
    IF p.error = 0 /\ p.img.idx = <<>> THEN [p EXCEPT !.error = -3] ELSE p

\* Drop the cards without columns; the columns need no move.
KeepFilled(kept, e) == IF e.ncols > 0 THEN Append(kept, e) ELSE kept

CapParseFinish(p) ==
    LET kept == FoldLeft(KeepFilled, <<>>, p.img.idx) IN
    IF p.error # 0    THEN p
    ELSE IF kept = <<>> THEN [p EXCEPT !.img.idx = <<>>, !.error = -3]
    ELSE [p EXCEPT !.img.idx = kept]

----------------------------------------------------------------------------
(* The loader card.                                                        *)

\* Row 8 punched in column 3, and nothing else.
Marked(columns) == Len(columns) >= 3 /\ columns[3] = {8}

\* Mutant: a deck that leads with its loader is taken for a titled one.
FindLoader_SkipsFirst(img) ==
    LET n == NCards(img)
        marked == {c \in 1 .. Min({n, BodyFirst}) - 1 : Marked(CardOf(img, c))} IN
    IF marked # {} THEN Min(marked) ELSE IF n > 1 THEN 1 ELSE 0

FindLoader(img) ==
    LET n == NCards(img)
        marked == {c \in 0 .. Min({n, BodyFirst}) - 1 : Marked(CardOf(img, c))} IN
    IF marked # {} THEN Min(marked) ELSE IF n > 1 THEN 1 ELSE 0

WithLoader(img) == [img EXCEPT !.loader_card = FindLoader(img)]

----------------------------------------------------------------------------
(* Surgery (surgery.c): the cards a recipe keeps, in their order.          *)

Range0(a, b) == [i \in 1 .. (IF b >= a THEN b - a + 1 ELSE 0) |-> a + i - 1]

SurgeryAllowed(src, op) ==
    NCards(src) >= CASE op = "AS_IS" -> 0
                     [] op = "TRIM_TITLE_SUMMARY" -> 3
                     [] op = "SERIAL_LOADER" -> BodyFirst + 2

\* Mutant: the summary card stays.
Picks_WithSummary(src, op) ==
    LET n == NCards(src) IN
    CASE op = "AS_IS" -> Range0(0, n - 1)
      [] op = "TRIM_TITLE_SUMMARY" -> Range0(1, n - 1)
      [] op = "SERIAL_LOADER" -> <<FindLoader(src)>> \o Range0(BodyFirst, n - 1)

Picks(src, op) ==
    LET n == NCards(src) IN
    CASE op = "AS_IS" -> Range0(0, n - 1)
      [] op = "TRIM_TITLE_SUMMARY" -> Range0(1, n - 2)
      [] op = "SERIAL_LOADER" -> <<FindLoader(src)>> \o Range0(BodyFirst, n - 2)

\* append_card and append_range: they stop at the first card that does not
\* fit.  s is the image and whether everything so far did.
AppendCard(s, columns) ==
    IF ~s.ok \/ NCards(s.img) >= MaxCards
             \/ NextOff(s.img) + Len(columns) > MaxCols
    THEN [s EXCEPT !.ok = FALSE]
    ELSE [s EXCEPT !.img = Put(@, columns)]

SurgeryApply(dst, src, op) ==
    LET s == [img |-> dst, ok |-> TRUE]  picks == Picks(src, op) IN
    IF ~SurgeryAllowed(src, op) THEN [s EXCEPT !.ok = FALSE]
    ELSE FoldLeft(AppendCard, s, [i \in DOMAIN picks |-> CardOf(src, picks[i])])

----------------------------------------------------------------------------
(* Synthesis (bin2deck.c).  A builder is the image, the next load address  *)
(* and the bytes of the card being filled.                                 *)

CanAppendCols(img) == NCards(img) < MaxCards /\ NextOff(img) + CardCols <= MaxCols

\* A card image: the given columns from column k on, the rest blank.
CardFrom(k, columns) ==
    [i \in 1 .. CardCols |->
        IF i - 1 \in k .. k + Len(columns) - 1 THEN columns[i - k] ELSE {}]

\* LL, II and the payload from column 8 on.
ScatterCard(addr, payload) ==
    CardFrom(8, [i \in 1 .. 3 + Len(payload) |->
        ByteToCol(CASE i = 1 -> Len(payload) - 1
                    [] i = 2 -> addr \div 256
                    [] i = 3 -> addr % 256
                    [] OTHER -> payload[i - 3])])

Bin2DeckBegin(base) ==
    [img |-> [Put(EmptyDeck, LoaderCols) EXCEPT !.loader_card = 0],
     addr |-> base, buf |-> <<>>, error |-> 0]

\* Mutant: the last byte of the address space is left out.
FlushCard_Short(b) ==
    IF b.buf = <<>> \/ b.error # 0 THEN b
    ELSE IF b.addr + Len(b.buf) >= AddressSpace \/ ~CanAppendCols(b.img)
    THEN [b EXCEPT !.error = -1]
    ELSE [b EXCEPT !.img = Put(@, ScatterCard(b.addr, b.buf)),
                   !.addr = @ + Len(b.buf), !.buf = <<>>]

FlushCard(b) ==
    IF b.buf = <<>> \/ b.error # 0 THEN b
    ELSE IF b.addr + Len(b.buf) > AddressSpace \/ ~CanAppendCols(b.img)
    THEN [b EXCEPT !.error = -1]
    ELSE [b EXCEPT !.img = Put(@, ScatterCard(b.addr, b.buf)),
                   !.addr = @ + Len(b.buf), !.buf = <<>>]

\* Byte by byte what bin2deck_feed does with memcpy; a full card is flushed.
FeedByte(b, byte) ==
    LET fed == [b EXCEPT !.buf = Append(@, byte)] IN
    IF b.error # 0 THEN b
    ELSE IF Len(fed.buf) = Chunk THEN FlushCard(fed) ELSE fed

Bin2DeckFeed(b, bytes) == FoldLeft(FeedByte, b, bytes)

\* NOP2, NOP2, jump-always to the entry.
Termination(entry) == <<7, 0, 7, 0, 67, 240, entry \div 256, entry % 256>>

Bin2DeckEnd(b, entry) ==
    LET flushed == FlushCard(b) IN
    IF flushed.error # 0 \/ ~CanAppendCols(flushed.img)
    THEN [flushed EXCEPT !.error = -1]
    ELSE [flushed EXCEPT !.img = Put(@, ScatterCard(0, Termination(entry)))]

IplOk(bytes) == bytes # <<>> /\ Len(bytes) <= IplMax

\* The whole program as one hex card, two columns a byte.
Bin2DeckIpl(bytes) ==
    LET nibbles == [i \in 1 .. 2 * Len(bytes) |->
            NibbleToHexCol(IF i % 2 = 1 THEN bytes[(i + 1) \div 2] \div 16
                                        ELSE bytes[i \div 2] % 16)] IN
    [Put(EmptyDeck, CardFrom(0, nibbles)) EXCEPT !.loader_card = 0]

=============================================================================
