---------------------------- MODULE MCDeckload ----------------------------
(* Small captures, batches and programs for TLC.                           *)
EXTENDS DeckloadProps

CardHeader == <<[header |-> TRUE, tokens |-> <<>>]>>
TextLine(tokens) == <<[header |-> FALSE, tokens |-> tokens]>>

\* A capture holds the deck twice: in hex, and as hole art, which has no
\* column in it.
Visual == CardHeader \o TextLine(<<NoColumn, NoColumn>>)
Card(tokens) == CardHeader \o TextLine(tokens)

Loader == Card(<<{9}, {6, 8}, {8}>>)
Title == Card(<<{1}, {8}>>)
Body == Card(<<{0, 2}>>)
\* Columns on two lines, with a counter between them.
Split == CardHeader \o TextLine(<<{3}, NoColumn>>) \o TextLine(<<NoColumn, {4, 5}, {12}>>)
Summary == Card(<<{}, {7}>>)

Boxed == Title \o Loader \o Body \o Split \o Summary
Synthesized == Loader \o Body \o Split \o Body
Short == Title \o Loader \o Split
Banner == TextLine(<<{1}>>)
Full == Banner \o Title \o Loader \o Split \o Visual \o Visual \o Visual
TooMany == Boxed \o Body \o Body
\* One column more than there is room for, on short lines.
Row16 == TextLine([i \in 1 .. 16 |-> {0}])
TooLong == CardHeader \o Row16 \o Row16 \o Row16 \o Row16 \o Row16 \o Row16
Unmarked == Title \o Body \o Split \o Body \o Summary

MCCaptures == {Boxed, Synthesized, Short, Full, TooMany, TooLong, Unmarked, Body,
               Banner, <<>>}

Src(lines, op) == [lines |-> lines, op |-> op]
MCBatches ==
    {<<Src(Boxed, "SERIAL_LOADER")>>,
     <<Src(Boxed, "SERIAL_LOADER"), Src(Full, "TRIM_TITLE_SUMMARY")>>,
     <<Src(Boxed, "SERIAL_LOADER"), Src(Body, "TRIM_TITLE_SUMMARY")>>,
     <<Src(Boxed, "SERIAL_LOADER"), Src(Unmarked, "TRIM_TITLE_SUMMARY")>>,
     <<Src(Boxed, "SERIAL_LOADER"), Src(Boxed, "TRIM_TITLE_SUMMARY"),
       Src(Boxed, "TRIM_TITLE_SUMMARY")>>}

Bytes(n) == [i \in 1 .. n |-> (37 * i + 218) % 256]
MCPrograms == {<<>>, <<255>>, <<0, 128, 7>>, Bytes(4), Bytes(5), Bytes(6), Bytes(9), Bytes(10)}
MCBases == {0, 134, 256, 65532}

MCLoaderCols ==
    [i \in 1 .. CardCols |-> IF i = 3 THEN {8} ELSE IF i = 1 THEN {9} ELSE {0}]
MCNoColumn == {99}
=============================================================================
