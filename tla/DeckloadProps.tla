--------------------------- MODULE DeckloadProps ---------------------------
(***************************************************************************)
(* What a loaded deck has to be, stated over the contents of the files     *)
(* without offsets, parsers or builders.                                   *)
(***************************************************************************)
EXTENDS Deckload

TypeOK ==
    /\ phase \in {"rest", "open", "capture", "binary", "loaded", "failed"}
    /\ source \in 0 .. Len(job.sources)
    /\ \A img \in {dst, parser.img} :
          /\ NCards(img) <= MaxCards /\ NextOff(img) <= MaxCols
          /\ img.cols \in Seq(Columns)
          /\ img.loader_card \in -1 .. NCards(img) - 1
    /\ Len(builder.buf) < Chunk + IF phase = "failed" THEN 1 ELSE 0
    /\ parser.error \in -3 .. 0 /\ builder.error \in {-1, 0}

----------------------------------------------------------------------------
(* The cards of a capture: for each header the columns of the lines up to  *)
(* the next one, the visual sections left out.                             *)

Headers(lines) == {i \in DOMAIN lines : lines[i].header}

AddColumn(columns, t) == IF t = NoColumn THEN columns ELSE Append(columns, t)

AddLine(columns, line) == FoldLeft(AddColumn, columns, line.tokens)

Section(lines, h) ==
    LET next == Min({i \in Headers(lines) : i > h} \cup {Len(lines) + 1}) IN
    FoldLeft(AddLine, <<>>, SubSeq(lines, h + 1, next - 1))

AddCard(cards, columns) == IF columns = <<>> THEN cards ELSE Append(cards, columns)

Punched(lines) ==
    FoldLeft(AddCard, <<>>, [i \in DOMAIN lines |->
                                IF i \in Headers(lines) THEN Section(lines, i) ELSE <<>>])

\* Which of the cards is the loader: the first marked one near the front, or
\* else the one behind the title.
LoaderAt(cards) ==
    LET marked == {i \in DOMAIN cards : i <= BodyFirst /\ Marked(cards[i])} IN
    IF marked # {} THEN Min(marked) ELSE Min({2, Len(cards)})

Kept(cards, op) ==
    CASE op = "AS_IS" -> cards
      [] op = "TRIM_TITLE_SUMMARY" -> SubSeq(cards, 2, Len(cards) - 1)
      [] op = "SERIAL_LOADER" -> <<cards[LoaderAt(cards)]>>
                                 \o SubSeq(cards, BodyFirst + 1, Len(cards) - 1)

\* A box-order deck has something in front of its loader, and a body.
BoxOrder(cards) == LoaderAt(cards) > 1 /\ Len(cards) >= BodyFirst + 2

OpOf(j, k) ==
    IF IsBatch(j) THEN j.sources[k].op
    ELSE IF ~j.raw /\ BoxOrder(Punched(j.sources[k].lines)) THEN "SERIAL_LOADER"
    ELSE "AS_IS"

Concat(s, t) == s \o t

\* What the recipes keep of the first k captures of a job.
DeckOf(j, k) ==
    FoldLeft(Concat, <<>>, [i \in 1 .. k |-> Kept(Punched(j.sources[i].lines), OpOf(j, i))])

\* A loaded deck is the captures' cards, in their order, with every column,
\* less what the recipes take out (cap_parse_*, surgery_apply): no card of
\* one file reaches into another, no visual duplicate stays, none is lost.
DeckIsTheCaptures ==
    phase = "loaded" /\ job.kind # "bin" => CardsOf(dst) = DeckOf(job, Len(job.sources))

\* What the feeder relies on when it indexes a deck (cursor_reset,
\* present_next): there is a first card, and no card is without columns.
FeedableDeck ==
    phase = "loaded" =>
        /\ dst.loader_card \in 0 .. NCards(dst) - 1
        /\ \A i \in 1 .. NCards(dst) : dst.idx[i].ncols > 0

\* The card the feed starts at is a marked loader card whenever the first
\* source has one near its front: the IPL is not handed a title or a body
\* card (deck_find_loader_card; the comment there tells of a deck whose
\* "IPL executed junk").
LoaderLeads ==
    LET first == IF dst.loader_card > 0 THEN dst.loader_card ELSE 0
        cards == Punched(job.sources[1].lines)
    IN  phase = "loaded" /\ job.kind = "capture" /\ Marked(cards[LoaderAt(cards)])
            => Marked(CardOf(dst, first))

----------------------------------------------------------------------------
(* What the machine makes of a synthesized deck: the loader program reads  *)
(* a card in column binary and moves LL + 1 bytes to the address II.       *)

Decoded(columns, mode) == [i \in DOMAIN columns |-> TranscodeColumn(columns[i], mode)]

LoadCard(memory, columns) ==
    LET card == Decoded(columns, "COLBIN")
        at == card[10] * 256 + card[11]
        moved == at .. at + card[9]
        buffer == [i \in 12 .. 12 + card[9] |-> IF i \in DOMAIN card THEN card[i] ELSE 0]
    IN  [a \in DOMAIN memory \cup moved |->
            IF a \in moved THEN buffer[12 + a - at] ELSE memory[a]]

Memory(img) == FoldLeft(LoadCard, <<>>, Tail(CardsOf(img)))

\* Reading the deck puts the program where it was to be loaded, a jump to it
\* at 0, and nothing anywhere else: the columns bin2deck punches are what
\* the feeder's decoder takes back, across every way the file is read in
\* pieces and cut into cards.  A program of its own loader (base 0) is the
\* nibbles of its one card.
MemoryImage ==
    phase = "loaded" /\ job.kind = "bin" =>
        LET bytes == job.sources[1].bytes  base == job.base
            nibbles == Decoded(CardOf(dst, 0), "HEX")
        IN  IF IplJob(job)
            THEN /\ NCards(dst) = 1
                 /\ \A i \in DOMAIN bytes :
                       16 * nibbles[2 * i - 1] + nibbles[2 * i] = bytes[i]
                 /\ \A k \in 2 * Len(bytes) + 1 .. Len(nibbles) : nibbles[k] = 0
            ELSE Memory(dst) =
                    [a \in 0 .. 7 \cup base .. base + Len(bytes) - 1 |->
                        IF a \in 0 .. 7
                        THEN <<7, 0, 7, 0, 67, 240, base \div 256, base % 256>>[a + 1]
                        ELSE bytes[a - base + 1]]

----------------------------------------------------------------------------
(* What there is room for.                                                 *)

AddLength(n, columns) == n + Len(columns)

Columns0(cards) == FoldLeft(AddLength, 0, cards)

Fewest(op) == CASE op = "AS_IS" -> 1
                [] op = "TRIM_TITLE_SUMMARY" -> 3
                [] op = "SERIAL_LOADER" -> BodyFirst + 2

\* The first k captures of a job.  The parser wants room for the header of
\* every section of a capture, those of the hole art included (deck.c:56),
\* and so for twice its cards (see the README); the deck is what is kept.
RoomForCaptures(j, k) ==
    LET kept == DeckOf(j, k)
    IN  /\ \A i \in 1 .. k :
              LET cards == Punched(j.sources[i].lines) IN
              /\ Cardinality(Headers(j.sources[i].lines)) <= MaxCards
              /\ Columns0(cards) <= MaxCols
              /\ Len(cards) >= Fewest(OpOf(j, i))
        /\ Len(kept) <= MaxCards /\ Columns0(kept) <= MaxCols

\* A program: its cards, the loader, and the termination card.
RoomForProgram(j) ==
    LET size == Len(j.sources[1].bytes)
        cards == 2 + (size + Chunk - 1) \div Chunk
    IN  IF IplJob(j) THEN size \in 1 .. IplMax
        ELSE /\ j.base + size <= AddressSpace
             /\ cards <= MaxCards /\ cards * CardCols <= MaxCols

\* A load that is not stopped by a read is refused only if there is no room
\* for what it describes: nothing a load before it has left behind, no full
\* buffer or card and no boundary between two pieces of a file is in the way
\* (cap_parse_*, append_card, flush_card).
RefusedForCause ==
    [][phase' = "failed" /\ ~ReadFails =>
          ~ IF job.kind = "bin" THEN RoomForProgram(job)
                                ELSE RoomForCaptures(job, source)]_vars

=============================================================================
