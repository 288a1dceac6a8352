--------------------------- MODULE DeckloadProofs ---------------------------
(***************************************************************************)
(* Loading, for every capture, batch and program, all limits and every way *)
(* to read a file in pieces: images are well formed at every step, a       *)
(* loaded deck is what its files describe and can be fed from its loader,  *)
(* a synthesized one loads the program it was made of, and a load is       *)
(* refused only when there is no room for its files.                       *)
(*                                                                         *)
(* The model's operators are folds, so the lemmas about them use the       *)
(* theorems of module Folding; the parts of DeckloadInv say what parser,   *)
(* destination and builder hold of what has been read so far.              *)
(***************************************************************************)
EXTENDS DeckloadProps, SequenceTheorems, FiniteSetTheorems, TLAPS

Tokens == INSTANCE Folding WITH Op <- AddToken
Filled == INSTANCE Folding WITH Op <- KeepFilled
Dealt  == INSTANCE Folding WITH Op <- AppendCard
Fed    == INSTANCE Folding WITH Op <- FeedByte
Picked == INSTANCE Folding WITH Op <- AddColumn
Listed == INSTANCE Folding WITH Op <- AddCard
Lined  == INSTANCE Folding WITH Op <- AddLine

----------------------------------------------------------------------------
(* The folds of the model are those of module Folding.                     *)

LEMMA TokensFold == \A p, s : FoldLeft(AddToken, p, s) = Tokens!Fold(p, s)
  BY DEF Tokens!Fold, Tokens!Greatest, FoldLeft, MapThenFoldSet, Max

LEMMA FilledFold == \A p, s : FoldLeft(KeepFilled, p, s) = Filled!Fold(p, s)
  BY DEF Filled!Fold, Filled!Greatest, FoldLeft, MapThenFoldSet, Max

LEMMA DealtFold == \A p, s : FoldLeft(AppendCard, p, s) = Dealt!Fold(p, s)
  BY DEF Dealt!Fold, Dealt!Greatest, FoldLeft, MapThenFoldSet, Max

LEMMA PickedFold == \A p, s : FoldLeft(AddColumn, p, s) = Picked!Fold(p, s)
  BY DEF Picked!Fold, Picked!Greatest, FoldLeft, MapThenFoldSet, Max

LEMMA ListedFold == \A p, s : FoldLeft(AddCard, p, s) = Listed!Fold(p, s)
  BY DEF Listed!Fold, Listed!Greatest, FoldLeft, MapThenFoldSet, Max

LEMMA LinedFold == \A p, s : FoldLeft(AddLine, p, s) = Lined!Fold(p, s)
  BY DEF Lined!Fold, Lined!Greatest, FoldLeft, MapThenFoldSet, Max

LEMMA FedFold == \A p, s : FoldLeft(FeedByte, p, s) = Fed!Fold(p, s)
  BY DEF Fed!Fold, Fed!Greatest, FoldLeft, MapThenFoldSet, Max

----------------------------------------------------------------------------
(* What is assumed of the sizes, each on its own.                          *)

LEMMA SizeFacts ==
    /\ MaxCards \in Nat /\ MaxCards > 0 /\ MaxCols \in Nat
    /\ CardCols \in Nat /\ CardCols > 0 /\ CardCols <= MaxCols
    /\ BodyFirst \in Nat /\ BodyFirst > 0
    /\ Chunk \in Nat /\ Chunk > 0 /\ AddressSpace \in Nat
    /\ 11 + Chunk <= CardCols /\ 19 <= CardCols
    /\ AddressSpace <= 65536 /\ Chunk <= 256
    /\ IplMax \in Nat /\ 2 * IplMax <= CardCols
  BY DeckAssumption

----------------------------------------------------------------------------
(* Sequences, with a name for each that a leaf can match.                  *)

LEMMA AppendAt ==
    ASSUME NEW S, NEW s \in Seq(S), NEW x \in S, NEW m, m = Len(s), NEW t, t = Append(s, x)
    PROVE  /\ t \in Seq(S) /\ Len(t) = m + 1
           /\ t[m + 1] = x /\ \A i \in 1 .. m : t[i] = s[i]
  OBVIOUS

LEMMA ConcatAt ==
    ASSUME NEW S, NEW s \in Seq(S), NEW t \in Seq(S), NEW u, u = s \o t,
           NEW n, n = Len(s), NEW m, m = Len(t)
    PROVE  /\ n \in Nat /\ m \in Nat /\ u \in Seq(S) /\ Len(u) = n + m
           /\ \A i \in 1 .. n : u[i] = s[i]
           /\ \A i \in 1 .. m : u[n + i] = t[i]
  OBVIOUS

----------------------------------------------------------------------------
(* Images.                                                                 *)

EntrySet == [off : Nat, ncols : Nat]

ImageSet == [idx : Seq(EntrySet), cols : Seq(Columns), loader_card : Int]

\* Cards lie one behind the other in the buffer.
InOrder(idx) ==
    \A i, j \in 1 .. Len(idx) : i < j => idx[i].off + idx[i].ncols <= idx[j].off

\* An image that the operations of module Deck can go on with.
ImgOK(img) ==
    /\ img \in ImageSet /\ InOrder(img.idx)
    /\ NCards(img) <= MaxCards
    /\ NextOff(img) <= Len(img.cols) /\ NextOff(img) <= MaxCols

\* No card without columns.
AllFilled(img) == \A i \in 1 .. NCards(img) : img.idx[i].ncols > 0

LEMMA ImgFacts ==
    ASSUME NEW img, ImgOK(img)
    PROVE  /\ img \in ImageSet /\ img.idx \in Seq(EntrySet) /\ Len(img.idx) = NCards(img)
           /\ img.cols \in Seq(Columns) /\ Len(img.cols) \in Nat
           /\ NCards(img) <= MaxCards /\ NextOff(img) <= Len(img.cols) /\ NextOff(img) <= MaxCols
  <1>1. img \in ImageSet
    BY DEF ImgOK
  <1>2. img.idx \in Seq(EntrySet) /\ img.cols \in Seq(Columns)
    BY <1>1 DEF ImageSet
  <1> QED
    BY <1>1, <1>2 DEF ImgOK, NCards

LEMMA NextOffFacts ==
    ASSUME NEW img, ImgOK(img)
    PROVE  /\ NCards(img) \in Nat /\ NextOff(img) \in Nat
           /\ \A i \in 1 .. NCards(img) :
                 /\ img.idx[i] \in EntrySet
                 /\ img.idx[i].off + img.idx[i].ncols <= NextOff(img)
           /\ NCards(img) = 0 => NextOff(img) = 0
           /\ NCards(img) > 0 => NextOff(img) = img.idx[NCards(img)].off + img.idx[NCards(img)].ncols
  <1> DEFINE n == Len(img.idx)
  <1>1. img.idx \in Seq(EntrySet) /\ n \in Nat
    BY DEF ImgOK, ImageSet
  <1>2. \A i \in 1 .. n : img.idx[i] \in EntrySet
    BY <1>1
  <1>3. img.idx = <<>> <=> n = 0
    BY <1>1
  <1>4. n > 0 => NextOff(img) = img.idx[n].off + img.idx[n].ncols
    BY <1>3 DEF NextOff, Last
  <1>5. NextOff(img) \in Nat
    <2>1. CASE n = 0
      BY <1>3, <2>1 DEF NextOff
    <2>2. CASE n > 0
      BY <1>2, <1>4, <2>2 DEF EntrySet
    <2> QED
      BY <1>1, <2>1, <2>2
  <1>6. ASSUME NEW i \in 1 .. n PROVE img.idx[i].off + img.idx[i].ncols <= NextOff(img)
    <2>1. n > 0 /\ n \in 1 .. n
      BY <1>1
    <2>2. img.idx[i] \in EntrySet /\ img.idx[n] \in EntrySet
      BY <1>2, <2>1
    <2>3. i = n \/ img.idx[i].off + img.idx[i].ncols <= img.idx[n].off
      BY <1>1, <2>1 DEF ImgOK, InOrder
    <2> QED
      BY <1>4, <2>1, <2>2, <2>3 DEF EntrySet
  <1> QED
    BY <1>1, <1>2, <1>3, <1>4, <1>5, <1>6 DEF NCards, NextOff

\* The cards of an image, one by one.
LEMMA CardFacts ==
    ASSUME NEW img, ImgOK(img), NEW i \in 1 .. NCards(img)
    PROVE  /\ CardOf(img, i - 1) = SubSeq(img.cols, img.idx[i].off + 1, img.idx[i].off + img.idx[i].ncols)
           /\ CardOf(img, i - 1) \in Seq(Columns)
           /\ Len(CardOf(img, i - 1)) = img.idx[i].ncols
           /\ \A k \in 1 .. img.idx[i].ncols : CardOf(img, i - 1)[k] = img.cols[img.idx[i].off + k]
  <1>1. /\ NCards(img) \in Nat /\ NextOff(img) \in Nat
        /\ img.idx[i] \in EntrySet /\ img.idx[i].off + img.idx[i].ncols <= NextOff(img)
    BY NextOffFacts
  <1> DEFINE o == img.idx[i].off  c == img.idx[i].ncols
  <1>2. o \in Nat /\ c \in Nat /\ img.cols \in Seq(Columns) /\ o + c <= Len(img.cols)
    BY <1>1 DEF ImgOK, EntrySet, ImageSet
  <1>3. CardOf(img, i - 1) = SubSeq(img.cols, o + 1, o + c)
    <2>1. (i - 1) + 1 = i
      BY <1>1
    <2> QED
      BY <2>1 DEF CardOf
  <1> HIDE DEF o, c
  <1>4. \A k \in o + 1 .. o + c : img.cols[k] \in Columns
    BY <1>2
  <1>5. /\ SubSeq(img.cols, o + 1, o + c) \in Seq(Columns)
        /\ Len(SubSeq(img.cols, o + 1, o + c)) = c
        /\ \A k \in 1 .. c : SubSeq(img.cols, o + 1, o + c)[k] = img.cols[o + k]
    BY <1>2, <1>4
  <1> QED
    BY <1>3, <1>5 DEF o, c

LEMMA CardsOfFacts ==
    ASSUME NEW img, ImgOK(img)
    PROVE  /\ CardsOf(img) \in Seq(Seq(Columns)) /\ Len(CardsOf(img)) = NCards(img)
           /\ \A i \in 1 .. NCards(img) : CardsOf(img)[i] = CardOf(img, i - 1)
  <1>1. NCards(img) \in Nat
    BY NextOffFacts
  <1>2. \A i \in 1 .. NCards(img) : CardOf(img, i - 1) \in Seq(Columns)
    BY CardFacts
  <1> QED
    BY <1>1, <1>2 DEF CardsOf

\* A card that is put behind the last.
LEMMA PutFacts ==
    ASSUME NEW img, ImgOK(img), NEW columns \in Seq(Columns),
           NCards(img) < MaxCards, NextOff(img) + Len(columns) <= MaxCols
    PROVE  LET put == Put(img, columns) IN
           /\ ImgOK(put) /\ put.loader_card = img.loader_card
           /\ NCards(put) = NCards(img) + 1
           /\ NextOff(put) = NextOff(img) + Len(columns)
           /\ put.idx = Append(img.idx, [off |-> NextOff(img), ncols |-> Len(columns)])
           /\ CardsOf(put) = Append(CardsOf(img), columns)
  <1> DEFINE put == Put(img, columns)
             n == NCards(img)
             off == NextOff(img)
             c == Len(columns)
             e == [off |-> off, ncols |-> c]
  <1>1. /\ n \in Nat /\ off \in Nat /\ c \in Nat /\ MaxCards \in Nat /\ MaxCols \in Nat
        /\ \A i \in 1 .. n : /\ img.idx[i] \in EntrySet
                             /\ img.idx[i].off + img.idx[i].ncols <= off
        /\ off <= Len(img.cols)
    BY NextOffFacts, SizeFacts, ImgFacts
  <1>2. img.idx \in Seq(EntrySet) /\ Len(img.idx) = n /\ img.cols \in Seq(Columns)
    BY DEF ImgOK, ImageSet, NCards
  <1>3. e \in EntrySet
    BY <1>1 DEF EntrySet
  <1>4. /\ put.idx = Append(img.idx, e) /\ put.cols = SubSeq(img.cols, 1, off) \o columns
        /\ put.loader_card = img.loader_card
        /\ put = [idx |-> put.idx, cols |-> put.cols, loader_card |-> put.loader_card]
    <2> DEFINE x == Append(img.idx, e)
               y == SubSeq(img.cols, 1, off) \o columns
    <2>1. img \in ImageSet
      BY DEF ImgOK
    <2>2. put = [img EXCEPT !.idx = x, !.cols = y]
      BY DEF Put
    <2> HIDE DEF put, x, y
    <2>3. put = [idx |-> x, cols |-> y, loader_card |-> img.loader_card]
      BY <2>1, <2>2 DEF ImageSet
    <2>4. /\ put.idx = x /\ put.cols = y /\ put.loader_card = img.loader_card
          /\ put = [idx |-> put.idx, cols |-> put.cols, loader_card |-> put.loader_card]
      BY <2>3
    <2> QED
      BY <2>4 DEF x, y
  <1> HIDE DEF put, n, off, c, e
  <1>5. /\ put.idx \in Seq(EntrySet) /\ Len(put.idx) = n + 1
        /\ \A i \in 1 .. n : put.idx[i] = img.idx[i]
        /\ put.idx[n + 1] = e
    BY <1>2, <1>3, <1>4
  <1>6. /\ SubSeq(img.cols, 1, off) \in Seq(Columns) /\ Len(SubSeq(img.cols, 1, off)) = off
        /\ \A k \in 1 .. off : SubSeq(img.cols, 1, off)[k] = img.cols[k]
    BY <1>1, <1>2
  <1>7. /\ put.cols \in Seq(Columns) /\ Len(put.cols) = off + c
        /\ \A k \in 1 .. off : put.cols[k] = img.cols[k]
        /\ \A k \in 1 .. c : put.cols[off + k] = columns[k]
    <2> DEFINE p == SubSeq(img.cols, 1, off)
    <2>1. p \in Seq(Columns) /\ Len(p) = off /\ \A k \in 1 .. off : p[k] = img.cols[k]
      BY <1>6
    <2> DEFINE w == put.cols
    <2>2. w = p \o columns /\ c = Len(columns) /\ off = Len(p) /\ p \in Seq(Columns)
      BY <1>4, <2>1 DEF c
    <2> HIDE DEF p, w
    <2>3. /\ w \in Seq(Columns) /\ Len(w) = off + c
          /\ \A k \in 1 .. off : w[k] = p[k]
          /\ \A k \in 1 .. c : w[off + k] = columns[k]
      BY <2>2, ConcatAt
    <2> QED
      BY <2>1, <2>3 DEF w
  <1>8. NCards(put) = n + 1
    BY <1>5 DEF NCards
  <1>9. NextOff(put) = off + c
    <2>1. put.idx # <<>> /\ Last(put.idx) = e
      BY <1>1, <1>5 DEF Last
    <2> QED
      BY <2>1 DEF NextOff, e
  <1>10. InOrder(put.idx)
    <2> SUFFICES ASSUME NEW i \in 1 .. n + 1, NEW j \in 1 .. n + 1, i < j
                 PROVE  put.idx[i].off + put.idx[i].ncols <= put.idx[j].off
      BY <1>5 DEF InOrder
    <2>1. i \in 1 .. n /\ put.idx[i] = img.idx[i]
      BY <1>1, <1>5
    <2>2. CASE j = n + 1
      BY <1>1, <1>5, <2>1, <2>2 DEF e
    <2>3. CASE j \in 1 .. n
      BY <1>2, <1>5, <2>1, <2>3 DEF ImgOK, InOrder
    <2> QED
      BY <1>1, <2>2, <2>3
  <1>11. ImgOK(put)
    <2>1. put \in ImageSet
      BY <1>4, <1>5, <1>7 DEF ImageSet, ImgOK
    <2>2. n + 1 <= MaxCards /\ off + c <= MaxCols
      BY <1>1 DEF n, off, c
    <2> QED
      BY <1>7, <1>8, <1>9, <1>10, <2>1, <2>2 DEF ImgOK
  <1>12. CardsOf(put) = Append(CardsOf(img), columns)
    <2>1. /\ CardsOf(img) \in Seq(Seq(Columns)) /\ Len(CardsOf(img)) = n
          /\ \A i \in 1 .. n : CardsOf(img)[i] = CardOf(img, i - 1)
      BY CardsOfFacts DEF n
    <2>2. /\ CardsOf(put) \in Seq(Seq(Columns)) /\ Len(CardsOf(put)) = n + 1
          /\ \A i \in 1 .. n + 1 : CardsOf(put)[i] = CardOf(put, i - 1)
      BY <1>8, <1>11, CardsOfFacts
    <2>3. ASSUME NEW i \in 1 .. n PROVE CardOf(put, i - 1) = CardOf(img, i - 1)
      <3>1. i \in 1 .. NCards(put) /\ i \in 1 .. NCards(img) /\ put.idx[i] = img.idx[i]
        BY <1>1, <1>5, <1>8 DEF n
      <3> DEFINE a == CardOf(put, i - 1)
                 b == CardOf(img, i - 1)
                 o == img.idx[i].off
                 m == img.idx[i].ncols
      <3>2. /\ a \in Seq(Columns) /\ Len(a) = m
            /\ \A k \in 1 .. m : a[k] = put.cols[o + k]
        BY <1>11, <3>1, CardFacts
      <3>3. /\ b \in Seq(Columns) /\ Len(b) = m
            /\ \A k \in 1 .. m : b[k] = img.cols[o + k]
        BY <3>1, CardFacts
      <3>4. o \in Nat /\ m \in Nat /\ o + m <= off
        BY <1>1, <3>1 DEF EntrySet
      <3> HIDE DEF a, b, o, m
      <3>5. ASSUME NEW k \in 1 .. m PROVE a[k] = b[k]
        <4>1. o + k \in 1 .. off
          BY <1>1, <3>4
        <4>2. put.cols[o + k] = img.cols[o + k]
          BY <1>7, <4>1
        <4> QED
          BY <3>2, <3>3, <4>2
      <3> QED
        BY <3>2, <3>3, <3>5, SeqEqual DEF a, b
    <2>4. CardOf(put, (n + 1) - 1) = columns
      <3>1. n + 1 \in 1 .. NCards(put)
        BY <1>1, <1>8
      <3>2. put.idx[n + 1].off = off /\ put.idx[n + 1].ncols = c
        BY <1>5 DEF e
      <3> DEFINE a == CardOf(put, (n + 1) - 1)
      <3>3. /\ a \in Seq(Columns) /\ Len(a) = c
            /\ \A k \in 1 .. c : a[k] = put.cols[off + k]
        BY <1>11, <3>1, <3>2, CardFacts
      <3> HIDE DEF a
      <3>4. \A k \in 1 .. c : a[k] = columns[k]
        BY <1>7, <3>3
      <3> QED
        BY <3>3, <3>4, SeqEqual DEF a, c
    <2>5. Append(CardsOf(img), columns) \in Seq(Seq(Columns))
      BY <2>1
    <2>6. /\ Len(Append(CardsOf(img), columns)) = n + 1
          /\ \A i \in 1 .. n : Append(CardsOf(img), columns)[i] = CardsOf(img)[i]
          /\ Append(CardsOf(img), columns)[n + 1] = columns
      BY <1>1, <2>1
    <2>7. ASSUME NEW i \in 1 .. n + 1
          PROVE  CardsOf(put)[i] = Append(CardsOf(img), columns)[i]
      <3>1. CASE i \in 1 .. n
        BY <2>1, <2>2, <2>3, <2>6, <3>1
      <3>2. CASE i = n + 1
        BY <2>2, <2>4, <2>6, <3>2
      <3>3. i \in 1 .. n \/ i = n + 1
        BY <1>1
      <3> QED
        BY <3>1, <3>2, <3>3
    <2> QED
      BY <2>2, <2>5, <2>6, <2>7, SeqEqual
  <1> QED
    BY <1>4, <1>8, <1>9, <1>11, <1>12 DEF put, n, off, c, e

LEMMA EmptyDeckFacts ==
    /\ ImgOK(EmptyDeck) /\ NCards(EmptyDeck) = 0 /\ NextOff(EmptyDeck) = 0
    /\ EmptyDeck.loader_card = -1 /\ CardsOf(EmptyDeck) = <<>>
  <1>1. EmptyDeck.idx = <<>> /\ EmptyDeck.cols = <<>> /\ EmptyDeck.loader_card = -1
    BY DEF EmptyDeck
  <1>2. <<>> \in Seq(EntrySet) /\ <<>> \in Seq(Columns) /\ Len(<<>>) = 0
    OBVIOUS
  <1>3. EmptyDeck \in ImageSet
    BY <1>2 DEF EmptyDeck, ImageSet
  <1>4. InOrder(<<>>)
    BY <1>2 DEF InOrder
  <1>5. NCards(EmptyDeck) = 0 /\ NextOff(EmptyDeck) = 0
    BY <1>1, <1>2 DEF NCards, NextOff
  <1>6. ImgOK(EmptyDeck)
    BY <1>1, <1>2, <1>3, <1>4, <1>5, SizeFacts DEF ImgOK
  <1>7. CardsOf(EmptyDeck) = <<>>
    <2>1. CardsOf(EmptyDeck) \in Seq(Seq(Columns)) /\ Len(CardsOf(EmptyDeck)) = 0
      BY <1>5, <1>6, CardsOfFacts
    <2> QED
      BY <2>1
  <1> QED
    BY <1>1, <1>5, <1>6, <1>7

\* The column that is added to the last card.
Extended(img, column) ==
    [img EXCEPT !.cols = SubSeq(@, 1, NextOff(img)) \o <<column>>,
                !.idx[NCards(img)].ncols = @ + 1]

LEMMA ExtendedFacts ==
    ASSUME NEW img, ImgOK(img), NEW column \in Columns, NCards(img) > 0,
           NextOff(img) < MaxCols
    PROVE  LET ext == Extended(img, column)  n == NCards(img) IN
           /\ ImgOK(ext) /\ ext.loader_card = img.loader_card
           /\ NCards(ext) = n /\ NextOff(ext) = NextOff(img) + 1
           /\ CardsOf(ext) = [CardsOf(img) EXCEPT ![n] = Append(@, column)]
  <1> DEFINE ext == Extended(img, column)
             n == NCards(img)
             off == NextOff(img)
             o == img.idx[n].off
             m == img.idx[n].ncols
             e == [off |-> o, ncols |-> m + 1]
  <1>1. /\ n \in Nat /\ n \in 1 .. n /\ off \in Nat /\ MaxCols \in Nat
        /\ \A i \in 1 .. n : /\ img.idx[i] \in EntrySet
                             /\ img.idx[i].off + img.idx[i].ncols <= off
        /\ off <= Len(img.cols) /\ off = o + m
    BY NextOffFacts, SizeFacts, ImgFacts
  <1>2. img.idx \in Seq(EntrySet) /\ Len(img.idx) = n /\ img.cols \in Seq(Columns)
    BY DEF ImgOK, ImageSet, NCards
  <1>3. o \in Nat /\ m \in Nat /\ e \in EntrySet /\ img.idx[n] = [off |-> o, ncols |-> m]
    BY <1>1 DEF EntrySet
  <1>4. /\ ext.idx = [img.idx EXCEPT ![n] = e] /\ ext.cols = SubSeq(img.cols, 1, off) \o <<column>>
        /\ ext.loader_card = img.loader_card
        /\ ext = [idx |-> ext.idx, cols |-> ext.cols, loader_card |-> ext.loader_card]
    <2> DEFINE x == [img.idx EXCEPT ![n].ncols = @ + 1]
               y == SubSeq(img.cols, 1, off) \o <<column>>
    <2>1. img \in ImageSet
      BY DEF ImgOK
    <2>2. ext = [img EXCEPT !.cols = y, !.idx = x]
      BY <2>1 DEF Extended, ImageSet
    <2>3. x = [img.idx EXCEPT ![n] = e]
      <3>1. [img.idx[n] EXCEPT !.ncols = @ + 1] = e
        <4> HIDE DEF o, m, n
        <4> QED
          BY <1>3
      <3> QED
        BY <3>1
    <2> HIDE DEF ext, x, y
    <2>4. ext = [idx |-> x, cols |-> y, loader_card |-> img.loader_card]
      BY <2>1, <2>2 DEF ImageSet
    <2>5. /\ ext.idx = x /\ ext.cols = y /\ ext.loader_card = img.loader_card
          /\ ext = [idx |-> ext.idx, cols |-> ext.cols, loader_card |-> ext.loader_card]
      BY <2>4
    <2> QED
      BY <2>3, <2>5 DEF y
  <1> HIDE DEF ext, n, off, o, m, e
  <1>5. /\ ext.idx \in Seq(EntrySet) /\ Len(ext.idx) = n
        /\ \A i \in 1 .. n : i # n => ext.idx[i] = img.idx[i]
        /\ ext.idx[n] = e
    BY <1>1, <1>2, <1>3, <1>4
  <1>6. /\ SubSeq(img.cols, 1, off) \in Seq(Columns) /\ Len(SubSeq(img.cols, 1, off)) = off
        /\ \A k \in 1 .. off : SubSeq(img.cols, 1, off)[k] = img.cols[k]
    BY <1>1, <1>2
  <1>7. /\ ext.cols \in Seq(Columns) /\ Len(ext.cols) = off + 1
        /\ \A k \in 1 .. off : ext.cols[k] = img.cols[k]
        /\ ext.cols[off + 1] = column
    BY <1>1, <1>4, <1>6
  <1>8. NCards(ext) = n
    BY <1>5 DEF NCards
  <1>9. NextOff(ext) = off + 1
    <2>1. ext.idx # <<>> /\ Last(ext.idx) = e
      BY <1>1, <1>5 DEF Last
    <2> QED
      BY <1>1, <1>3, <2>1 DEF NextOff, e
  <1>10. InOrder(ext.idx)
    <2> SUFFICES ASSUME NEW i \in 1 .. n, NEW j \in 1 .. n, i < j
                 PROVE  ext.idx[i].off + ext.idx[i].ncols <= ext.idx[j].off
      BY <1>5 DEF InOrder
    <2>1. i # n /\ ext.idx[i] = img.idx[i]
      BY <1>1, <1>5
    <2>2. ext.idx[j].off = img.idx[j].off
      BY <1>3, <1>5 DEF e, o
    <2> QED
      BY <1>2, <2>1, <2>2 DEF ImgOK, InOrder
  <1>11. ImgOK(ext)
    <2>1. ext \in ImageSet
      BY <1>4, <1>5, <1>7 DEF ImageSet, ImgOK
    <2>2. n <= MaxCards /\ off + 1 <= MaxCols
      BY <1>1 DEF n, off, ImgOK
    <2> QED
      BY <1>7, <1>8, <1>9, <1>10, <2>1, <2>2 DEF ImgOK
  <1>12. CardsOf(ext) = [CardsOf(img) EXCEPT ![n] = Append(@, column)]
    <2>1. /\ CardsOf(img) \in Seq(Seq(Columns)) /\ Len(CardsOf(img)) = n
          /\ \A i \in 1 .. n : CardsOf(img)[i] = CardOf(img, i - 1)
      BY CardsOfFacts DEF n
    <2>2. /\ CardsOf(ext) \in Seq(Seq(Columns)) /\ Len(CardsOf(ext)) = n
          /\ \A i \in 1 .. n : CardsOf(ext)[i] = CardOf(ext, i - 1)
      BY <1>8, <1>11, CardsOfFacts
    <2>3. ASSUME NEW i \in 1 .. n
          PROVE  CardOf(ext, i - 1) = IF i = n THEN Append(CardOf(img, i - 1), column)
                                               ELSE CardOf(img, i - 1)
      <3> DEFINE a == CardOf(ext, i - 1)
                 b == CardOf(img, i - 1)
                 p == img.idx[i].off
                 l == img.idx[i].ncols
      <3>1. i \in 1 .. NCards(ext) /\ i \in 1 .. NCards(img)
        BY <1>8 DEF n
      <3>2. /\ b \in Seq(Columns) /\ Len(b) = l
            /\ \A k \in 1 .. l : b[k] = img.cols[p + k]
        BY <3>1, CardFacts
      <3>3. p \in Nat /\ l \in Nat /\ p + l <= off
        BY <1>1, <3>1 DEF EntrySet
      <3> DEFINE q == ext.idx[i].off
                 r == ext.idx[i].ncols
      <3>0. /\ a \in Seq(Columns) /\ Len(a) = r
            /\ \A k \in 1 .. r : a[k] = ext.cols[q + k]
        BY <1>11, <3>1, CardFacts
      <3>4. CASE i # n
        <4>1. ext.idx[i].off = p /\ ext.idx[i].ncols = l
          BY <1>5, <3>4
        <4>2. /\ a \in Seq(Columns) /\ Len(a) = l
              /\ \A k \in 1 .. l : a[k] = ext.cols[p + k]
          <5> HIDE DEF a, p, l
          <5> QED
            BY <3>0, <4>1
        <4> HIDE DEF a, b, p, l
        <4>3. ASSUME NEW k \in 1 .. l PROVE a[k] = b[k]
          <5>1. p + k \in 1 .. off
            BY <1>1, <3>3
          <5>2. ext.cols[p + k] = img.cols[p + k]
            BY <1>7, <5>1
          <5> QED
            BY <3>2, <4>2, <5>2
        <4>4. a = b
          BY <3>2, <4>2, <4>3, SeqEqual
        <4> QED
          BY <3>4, <4>4 DEF a, b
      <3>5. CASE i = n
        <4>1. ext.idx[i].off = p /\ ext.idx[i].ncols = l + 1 /\ off = p + l
          BY <1>1, <1>5, <3>5 DEF e, o, m
        <4>2. /\ a \in Seq(Columns) /\ Len(a) = l + 1
              /\ \A k \in 1 .. l + 1 : a[k] = ext.cols[p + k]
          <5> HIDE DEF a, p, l
          <5> QED
            BY <3>0, <4>1
        <4> HIDE DEF a, b, p, l
        <4>3. /\ Append(b, column) \in Seq(Columns) /\ Len(Append(b, column)) = l + 1
              /\ \A k \in 1 .. l : Append(b, column)[k] = b[k]
              /\ Append(b, column)[l + 1] = column
          BY <3>2
        <4>4. ASSUME NEW k \in 1 .. l + 1 PROVE a[k] = Append(b, column)[k]
          <5>1. CASE k = l + 1
            BY <1>7, <3>3, <4>1, <4>2, <4>3, <5>1
          <5>2. CASE k \in 1 .. l
            <6>1. p + k \in 1 .. off
              BY <1>1, <3>3, <5>2
            <6>2. ext.cols[p + k] = img.cols[p + k]
              BY <1>7, <6>1
            <6> QED
              BY <3>2, <4>2, <4>3, <5>2, <6>2
          <5>3. k = l + 1 \/ k \in 1 .. l
            BY <3>3
          <5> QED
            BY <5>1, <5>2, <5>3
        <4>5. a = Append(b, column)
          BY <4>2, <4>3, <4>4, SeqEqual
        <4> QED
          BY <3>5, <4>5 DEF a, b
      <3> QED
        BY <3>4, <3>5
    <2> DEFINE w == [CardsOf(img) EXCEPT ![n] = Append(@, column)]
    <2>4. Append(CardsOf(img)[n], column) \in Seq(Columns)
      BY <1>1, <2>1
    <2>5. /\ w \in Seq(Seq(Columns)) /\ Len(w) = n
          /\ \A i \in 1 .. n : w[i] = IF i = n THEN Append(CardsOf(img)[n], column)
                                               ELSE CardsOf(img)[i]
      BY <1>1, <2>1, <2>4, ExceptSeq
    <2>6. \A i \in 1 .. n : CardsOf(ext)[i] = w[i]
      BY <1>1, <2>1, <2>2, <2>3, <2>5
    <2> HIDE DEF w
    <2>7. CardsOf(ext) = w
      BY <2>2, <2>5, <2>6, SeqEqual
    <2> QED
      BY <2>7 DEF w
  <1> QED
    BY <1>4, <1>8, <1>9, <1>11, <1>12 DEF ext, n, off

LEMMA EmptyIff ==
    ASSUME NEW S, NEW x \in Seq(S)
    PROVE  x = <<>> <=> Len(x) = 0
  OBVIOUS

\* Without the cards that have no columns: the image, and the cards.
LEMMA FilledFacts ==
    ASSUME NEW img, ImgOK(img), NEW fin,
           fin = [img EXCEPT !.idx = FoldLeft(KeepFilled, <<>>, img.idx)]
    PROVE  /\ ImgOK(fin) /\ AllFilled(fin) /\ fin.loader_card = img.loader_card
           /\ NCards(fin) <= NCards(img)
           /\ CardsOf(fin) = FoldLeft(AddCard, <<>>, CardsOf(img))
  <1> DEFINE n == NCards(img)
             idx == img.idx
             cards == CardsOf(img)
             Cols(e) == SubSeq(img.cols, e.off + 1, e.off + e.ncols)
  <1>1. /\ n \in Nat /\ \A i \in 1 .. n : idx[i] \in EntrySet
        /\ idx \in Seq(EntrySet) /\ Len(idx) = n /\ DOMAIN idx = 1 .. n
    BY NextOffFacts DEF ImgOK, ImageSet, NCards
  <1>2. /\ cards \in Seq(Seq(Columns)) /\ Len(cards) = n /\ DOMAIN cards = 1 .. n
        /\ \A i \in 1 .. n : cards[i] = Cols(idx[i]) /\ Len(cards[i]) = idx[i].ncols
    <2>1. /\ cards \in Seq(Seq(Columns)) /\ Len(cards) = n
          /\ \A i \in 1 .. n : cards[i] = CardOf(img, i - 1)
      BY CardsOfFacts
    <2>2. \A i \in 1 .. n : CardOf(img, i - 1) = Cols(idx[i]) /\ Len(CardOf(img, i - 1)) = idx[i].ncols
      BY CardFacts
    <2> QED
      BY <2>1, <2>2
  <1>3. PICK g : Listed!Steps(g, <<>>, cards, n) /\ Listed!Fold(<<>>, cards) = g[n]
    <2> HIDE DEF n, cards
    <2> QED
      BY <1>1, <1>2, Listed!FoldSteps
  <1> DEFINE OK(v, k) ==
          /\ v \in Seq(EntrySet) /\ Len(v) <= k /\ InOrder(v)
          /\ \A i \in 1 .. Len(v) : v[i].ncols > 0 /\ \E j \in 1 .. k : v[i] = idx[j]
          /\ [i \in 1 .. Len(v) |-> Cols(v[i])] = g[k]
        K == [k \in 0 .. n |-> {v \in Seq(EntrySet) : OK(v, k)}]
  <1>4. <<>> \in K[0]
    <2>1. g[0] = <<>>
      BY <1>3 DEF Listed!Steps
    <2>2. <<>> \in Seq(EntrySet) /\ Len(<<>>) = 0 /\ InOrder(<<>>)
      BY DEF InOrder
    <2>3. [i \in 1 .. Len(<<>>) |-> Cols(<<>>[i])] = <<>>
      OBVIOUS
    <2>4. OK(<<>>, 0)
      BY <2>1, <2>2, <2>3
    <2> QED
      BY <1>1, <2>2, <2>4
  <1>5. ASSUME NEW k \in 1 .. n, NEW v \in K[k - 1] PROVE KeepFilled(v, idx[k]) \in K[k]
    <2>1. v \in Seq(EntrySet) /\ OK(v, k - 1) /\ k - 1 \in Nat /\ k \in 0 .. n
      BY <1>1
    <2> DEFINE l == Len(v)
               w == Append(v, idx[k])
    <2>2. idx[k] \in EntrySet /\ l \in Nat
      BY <1>1, <2>1
    <2>3. g[k] = AddCard(g[k - 1], cards[k])
      BY <1>3 DEF Listed!Steps
    <2>4. cards[k] = Cols(idx[k]) /\ Len(cards[k]) = idx[k].ncols /\ cards[k] \in Seq(Columns)
      BY <1>2
    <2>5. cards[k] = <<>> <=> ~ idx[k].ncols > 0
      <3>1. idx[k].ncols \in Nat
        BY <2>2 DEF EntrySet
      <3> HIDE DEF idx, cards, K, w, Cols
      <3>2. cards[k] = <<>> <=> Len(cards[k]) = 0
        BY <2>4, EmptyIff
      <3>3. Len(cards[k]) = idx[k].ncols
        BY <2>4
      <3> QED
        BY <3>1, <3>2, <3>3
    <2>6. CASE ~ idx[k].ncols > 0
      <3>1. KeepFilled(v, idx[k]) = v
        BY <2>6 DEF KeepFilled
      <3>2. g[k] = g[k - 1]
        BY <2>3, <2>5, <2>6 DEF AddCard
      <3>3. OK(v, k)
        BY <2>1, <2>2, <3>2
      <3> QED
        BY <2>1, <3>1, <3>3
    <2>7. CASE idx[k].ncols > 0
      <3>1. KeepFilled(v, idx[k]) = w
        BY <2>7 DEF KeepFilled
      <3>2. /\ w \in Seq(EntrySet) /\ Len(w) = l + 1 /\ w[l + 1] = idx[k]
            /\ \A i \in 1 .. l : w[i] = v[i]
        BY <2>1, <2>2
      <3> HIDE DEF w, K
      <3>3. InOrder(w)
        <4> SUFFICES ASSUME NEW i \in 1 .. l + 1, NEW j \in 1 .. l + 1, i < j
                     PROVE  w[i].off + w[i].ncols <= w[j].off
          BY <3>2 DEF InOrder
        <4>1. i \in 1 .. l /\ w[i] = v[i]
          BY <2>2, <3>2
        <4>2. CASE j \in 1 .. l
          BY <2>1, <3>2, <4>1, <4>2 DEF InOrder
        <4>3. CASE j = l + 1
          <5>1. PICK h \in 1 .. k - 1 : v[i] = idx[h]
            BY <2>1, <4>1
          <5>2. h \in 1 .. Len(idx) /\ k \in 1 .. Len(idx) /\ h < k
            BY <1>1
          <5>3. idx[h].off + idx[h].ncols <= idx[k].off
            BY <5>2 DEF ImgOK, InOrder
          <5> QED
            BY <3>2, <4>1, <4>3, <5>1, <5>3
        <4> QED
          BY <2>2, <4>2, <4>3
      <3>4. ASSUME NEW i \in 1 .. l + 1
            PROVE  w[i].ncols > 0 /\ \E j \in 1 .. k : w[i] = idx[j]
        <4>1. CASE i = l + 1
          BY <2>7, <3>2, <4>1
        <4>2. CASE i \in 1 .. l
          <5>1. w[i] = v[i] /\ v[i].ncols > 0
            BY <2>1, <3>2, <4>2
          <5>2. PICK j \in 1 .. k - 1 : v[i] = idx[j]
            BY <2>1, <4>2
          <5>3. j \in 1 .. k
            BY <1>1
          <5> QED
            BY <5>1, <5>2, <5>3
        <4>3. i = l + 1 \/ i \in 1 .. l
          BY <2>2
        <4> QED
          BY <4>1, <4>2, <4>3
      <3>5. [i \in 1 .. l + 1 |-> Cols(w[i])] = g[k]
        <4> DEFINE a == [i \in 1 .. l |-> Cols(v[i])]
                   b == [i \in 1 .. l + 1 |-> Cols(w[i])]
        <4>1. g[k - 1] = a
          BY <2>1
        <4>2. g[k] = Append(a, cards[k])
          BY <2>3, <2>5, <2>7, <4>1 DEF AddCard
        <4>3. ASSUME NEW i \in 1 .. l PROVE Cols(v[i]) \in Seq(Columns)
          <5>1. PICK j \in 1 .. n : v[i] = idx[j]
            BY <1>1, <2>1
          <5>2. cards[j] \in Seq(Columns) /\ cards[j] = Cols(idx[j])
            BY <1>2
          <5> QED
            BY <5>1, <5>2
        <4>4. a \in Seq(Seq(Columns)) /\ Len(a) = l /\ \A i \in 1 .. l : a[i] = Cols(v[i])
          <5> HIDE DEF Cols, l
          <5> QED
            BY <2>2, <4>3
        <4>5. \A i \in 1 .. l + 1 : b[i] = IF i = l + 1 THEN cards[k] ELSE a[i]
          <5>1. ASSUME NEW i \in 1 .. l + 1 PROVE b[i] = IF i = l + 1 THEN cards[k] ELSE a[i]
            <6>1. b[i] = Cols(w[i])
              OBVIOUS
            <6>2. CASE i = l + 1
              BY <2>4, <3>2, <6>1, <6>2
            <6>3. CASE i \in 1 .. l
              <7>1. w[i] = v[i] /\ a[i] = Cols(v[i]) /\ i # l + 1
                <8>1. w[i] = v[i]
                  BY <3>2, <6>3
                <8>2. a[i] = Cols(v[i])
                  BY <4>4, <6>3
                <8>3. i # l + 1
                  BY <2>2, <6>3
                <8> QED
                  BY <8>1, <8>2, <8>3
              <7> HIDE DEF a, b, Cols
              <7> QED
                BY <6>1, <7>1
            <6>4. i = l + 1 \/ i \in 1 .. l
              BY <2>2
            <6> QED
              BY <6>2, <6>3, <6>4
          <5> QED
            BY <5>1
        <4>6. b \in Seq(Seq(Columns)) /\ Len(b) = l + 1
          <5>1. ASSUME NEW i \in 1 .. l + 1 PROVE b[i] \in Seq(Columns)
            <6> HIDE DEF a, b, l, cards
            <6>1. i = l + 1 \/ i \in 1 .. l
              BY <2>2
            <6>2. i \in 1 .. l => a[i] \in Seq(Columns)
              BY <4>4
            <6> QED
              BY <2>4, <4>5, <6>1, <6>2
          <5>2. b = [i \in 1 .. l + 1 |-> b[i]]
            OBVIOUS
          <5> HIDE DEF b, l
          <5> QED
            BY <2>2, <5>1, <5>2
        <4> HIDE DEF a, b, l
        <4>7. /\ Append(a, cards[k]) \in Seq(Seq(Columns)) /\ Len(Append(a, cards[k])) = l + 1
              /\ \A i \in 1 .. l + 1 : Append(a, cards[k])[i] = IF i = l + 1 THEN cards[k] ELSE a[i]
          BY <2>2, <2>4, <4>4
        <4>8. b = Append(a, cards[k])
          BY <4>5, <4>6, <4>7, SeqEqual
        <4> QED
          BY <4>2, <4>8 DEF b, l
      <3>6. OK(w, k)
        BY <2>1, <2>2, <3>2, <3>3, <3>4, <3>5
      <3> QED
        BY <2>1, <3>1, <3>2, <3>6 DEF K
    <2> QED
      BY <2>6, <2>7
  <1> DEFINE kept == FoldLeft(KeepFilled, <<>>, img.idx)
  <1>6. kept \in K[n]
    <2>1. Filled!Fold(<<>>, idx) \in K[n]
      <3> HIDE DEF K, idx, n
      <3> QED
        BY <1>1, <1>4, <1>5, Filled!FoldInvariant
    <2> QED
      BY <2>1, FilledFold
  <1>7. kept \in Seq(EntrySet) /\ OK(kept, n)
    BY <1>1, <1>6
  <1>8. fin.idx = kept /\ fin.cols = img.cols /\ fin.loader_card = img.loader_card /\ fin \in ImageSet
    <2>1. img \in ImageSet
      BY DEF ImgOK
    <2>2. fin = [img EXCEPT !.idx = kept]
      OBVIOUS
    <2> HIDE DEF kept
    <2> QED
      BY <1>7, <2>1, <2>2 DEF ImageSet
  <1>9. NCards(fin) = Len(kept) /\ Len(kept) \in Nat
    BY <1>7, <1>8 DEF NCards
  <1>10. NextOff(fin) <= NextOff(img) /\ NextOff(fin) \in Nat
    <2>1. CASE kept = <<>>
      BY <1>8, <2>1, NextOffFacts DEF NextOff
    <2>2. CASE kept # <<>>
      <3>1. Len(kept) \in 1 .. Len(kept)
        BY <1>7, <2>2
      <3>2. PICK j \in 1 .. n : kept[Len(kept)] = idx[j]
        BY <1>7, <3>1
      <3>3. NextOff(fin) = idx[j].off + idx[j].ncols
        BY <1>8, <2>2, <3>2 DEF NextOff, Last
      <3> QED
        BY <3>3, <1>1, NextOffFacts DEF EntrySet
    <2> QED
      BY <2>1, <2>2
  <1>11. ImgOK(fin)
    <2>1. NCards(img) <= MaxCards /\ NextOff(img) <= Len(img.cols) /\ NextOff(img) <= MaxCols
          /\ Len(img.cols) \in Nat /\ MaxCards \in Nat /\ MaxCols \in Nat /\ NextOff(img) \in Nat
      BY NextOffFacts, SizeFacts, ImgFacts
    <2> HIDE DEF K, kept
    <2> QED
      BY <1>1, <1>7, <1>8, <1>9, <1>10, <2>1 DEF ImgOK
  <1>12. AllFilled(fin)
    <2>1. NCards(fin) = Len(kept) /\ fin.idx = kept
      BY <1>8, <1>9
    <2>2. \A i \in 1 .. Len(kept) : kept[i].ncols > 0
      BY <1>7
    <2> HIDE DEF kept
    <2> QED
      BY <2>1, <2>2 DEF AllFilled
  <1>13. CardsOf(fin) = g[n]
    <2>1. \A i \in 1 .. NCards(fin) : CardOf(fin, i - 1) = Cols(kept[i])
      <3>1. \A i \in 1 .. NCards(fin) : CardOf(fin, i - 1) =
               SubSeq(fin.cols, fin.idx[i].off + 1, fin.idx[i].off + fin.idx[i].ncols)
        <4> HIDE DEF K, kept
        <4>1. ASSUME NEW i \in 1 .. NCards(fin)
              PROVE  CardOf(fin, i - 1) =
                        SubSeq(fin.cols, fin.idx[i].off + 1, fin.idx[i].off + fin.idx[i].ncols)
          BY <1>11, CardFacts
        <4> QED
          BY <4>1
      <3> QED
        BY <1>8, <3>1
    <2>2. CardsOf(fin) = [i \in 1 .. Len(kept) |-> Cols(kept[i])]
      <3> HIDE DEF kept, Cols
      <3> QED
        BY <1>9, <2>1 DEF CardsOf
    <2>3. [i \in 1 .. Len(kept) |-> Cols(kept[i])] = g[n]
      BY <1>7
    <2> QED
      BY <2>2, <2>3
  <1>14. g[n] = FoldLeft(AddCard, <<>>, CardsOf(img))
    BY <1>3, ListedFold
  <1> QED
    BY <1>1, <1>7, <1>8, <1>9, <1>11, <1>12, <1>13, <1>14

----------------------------------------------------------------------------
(* Surgery.                                                                *)

\* The next of a sequence goes behind those of it that are there.
LEMMA ConcatOneMore ==
    ASSUME NEW S, NEW a \in Seq(S), NEW b \in Seq(S), NEW k \in 1 .. Len(b)
    PROVE  Append(a \o SubSeq(b, 1, k - 1), b[k]) = a \o SubSeq(b, 1, k)
  <1> DEFINE p == SubSeq(b, 1, k - 1)
             q == SubSeq(b, 1, k)
  <1>1. /\ p \in Seq(S) /\ Len(p) = k - 1 /\ \A i \in 1 .. k - 1 : p[i] = b[i]
        /\ q \in Seq(S) /\ Len(q) = k /\ \A i \in 1 .. k : q[i] = b[i]
        /\ b[k] \in S
    OBVIOUS
  <1> HIDE DEF p, q
  <1> DEFINE x == a \o p
             y == Append(x, b[k])
             z == a \o q
             n == Len(a)
  <1>2. /\ n \in Nat /\ k \in Nat
        /\ x \in Seq(S) /\ Len(x) = n + (k - 1)
        /\ \A i \in 1 .. n : x[i] = a[i]
        /\ \A i \in 1 .. k - 1 : x[n + i] = b[i]
    <2>1. k \in Nat /\ x = a \o p /\ n = Len(a) /\ k - 1 = Len(p)
      BY <1>1
    <2> HIDE DEF x, n
    <2>2. /\ n \in Nat /\ x \in Seq(S) /\ Len(x) = n + (k - 1)
          /\ \A i \in 1 .. n : x[i] = a[i]
          /\ \A i \in 1 .. k - 1 : x[n + i] = p[i]
      BY <1>1, <2>1, ConcatAt
    <2> QED
      BY <1>1, <2>1, <2>2
  <1>3. /\ z \in Seq(S) /\ Len(z) = n + k
        /\ \A i \in 1 .. n : z[i] = a[i]
        /\ \A i \in 1 .. k : z[n + i] = b[i]
    <2>1. z = a \o q /\ n = Len(a) /\ k = Len(q) /\ q \in Seq(S)
      BY <1>1
    <2> HIDE DEF z, n, x, y
    <2>2. /\ z \in Seq(S) /\ Len(z) = n + k
          /\ \A i \in 1 .. n : z[i] = a[i]
          /\ \A i \in 1 .. k : z[n + i] = q[i]
      BY <2>1, ConcatAt
    <2> QED
      BY <1>1, <2>2
  <1> HIDE DEF x, z, n
  <1>4. /\ y \in Seq(S) /\ Len(y) = n + k
        /\ \A i \in 1 .. n + (k - 1) : y[i] = x[i]
        /\ y[n + k] = b[k]
    <2> DEFINE l == n + (k - 1)
    <2>1. l + 1 = n + k /\ x \in Seq(S) /\ l = Len(x) /\ b[k] \in S
      BY <1>1, <1>2
    <2> HIDE DEF l
    <2>2. /\ y \in Seq(S) /\ Len(y) = l + 1 /\ y[l + 1] = b[k]
          /\ \A i \in 1 .. l : y[i] = x[i]
      BY <2>1, AppendAt
    <2> QED
      BY <2>1, <2>2 DEF l
  <1> HIDE DEF y
  <1>5. ASSUME NEW i \in 1 .. n + k PROVE y[i] = z[i]
    <2>1. CASE i \in 1 .. n
      BY <1>2, <1>3, <1>4, <2>1
    <2>2. CASE i = n + k
      BY <1>2, <1>3, <1>4, <2>2
    <2>3. CASE i \in n + 1 .. n + (k - 1)
      <3>1. i - n \in 1 .. k - 1 /\ n + (i - n) = i /\ i - n \in 1 .. k
        BY <1>2, <2>3
      <3>2. x[i] = b[i - n] /\ z[i] = b[i - n]
        BY <1>2, <1>3, <3>1
      <3>3. y[i] = x[i]
        BY <1>2, <1>4, <2>3
      <3> QED
        BY <3>2, <3>3
    <2> QED
      BY <1>2, <2>1, <2>2, <2>3
  <1>6. y = z
    BY <1>3, <1>4, <1>5, SeqEqual
  <1> QED
    BY <1>6 DEF y, z, x, p, q

\* Cards that go behind those of an image, one by one: they are there in
\* their order, or not all of them.
LEMMA DealtFacts ==
    ASSUME NEW img, ImgOK(img), AllFilled(img),
           NEW cards \in Seq(Seq(Columns)), \A i \in 1 .. Len(cards) : cards[i] # <<>>,
           NEW res, res = FoldLeft(AppendCard, [img |-> img, ok |-> TRUE], cards)
    PROVE  /\ ImgOK(res.img) /\ AllFilled(res.img) /\ res.img.loader_card = img.loader_card
           /\ res.ok \in BOOLEAN
           /\ res.ok => CardsOf(res.img) = CardsOf(img) \o cards
  <1> DEFINE n == Len(cards)
             s == [img |-> img, ok |-> TRUE]
             all == CardsOf(img)
             Has(v, k) ==
                 /\ ImgOK(v.img) /\ AllFilled(v.img) /\ v.img.loader_card = img.loader_card
                 /\ v.ok => CardsOf(v.img) = all \o SubSeq(cards, 1, k)
             K == [k \in 0 .. n |-> {v \in [img : ImageSet, ok : BOOLEAN] : Has(v, k)}]
  <1>1. n \in Nat /\ DOMAIN cards = 1 .. n /\ all \in Seq(Seq(Columns))
    BY CardsOfFacts
  <1>2. s \in K[0]
    <2>1. s \in [img : ImageSet, ok : BOOLEAN] /\ s.img = img
      BY DEF ImgOK
    <2>2. SubSeq(cards, 1, 0) = <<>> /\ all \o <<>> = all
      BY <1>1
    <2>3. Has(s, 0)
      BY <2>1, <2>2
    <2> HIDE DEF Has, s
    <2> QED
      BY <1>1, <2>1, <2>3
  <1>3. ASSUME NEW k \in 1 .. n, NEW v \in K[k - 1] PROVE AppendCard(v, cards[k]) \in K[k]
    <2> DEFINE w == AppendCard(v, cards[k])
    <2>1. /\ v \in [img : ImageSet, ok : BOOLEAN] /\ Has(v, k - 1)
          /\ k - 1 \in Nat /\ k \in 0 .. n
      <3> HIDE DEF Has
      <3> QED
        BY <1>1
    <2>2. cards[k] \in Seq(Columns) /\ cards[k] # <<>> /\ Len(cards[k]) \in Nat
      BY <1>1
    <2>3. CASE w = [v EXCEPT !.ok = FALSE]
      <3>1. w = [img |-> v.img, ok |-> FALSE]
        <4> HIDE DEF w
        <4> QED
          BY <2>1, <2>3
      <3>2. w \in [img : ImageSet, ok : BOOLEAN] /\ w.img = v.img /\ ~w.ok
        <4> HIDE DEF w
        <4> QED
          BY <2>1, <3>1
      <3>3. Has(w, k)
        BY <2>1, <3>2
      <3> HIDE DEF w, Has
      <3> QED
        BY <2>1, <3>2, <3>3 DEF w
    <2>4. CASE /\ v.ok /\ NCards(v.img) < MaxCards
               /\ NextOff(v.img) + Len(cards[k]) <= MaxCols
               /\ w = [v EXCEPT !.img = Put(v.img, cards[k])]
      <3> DEFINE put == Put(v.img, cards[k])
                 e == [off |-> NextOff(v.img), ncols |-> Len(cards[k])]
      <3>1. w = [img |-> put, ok |-> v.ok]
        <4> HIDE DEF w, put
        <4> QED
          BY <2>1, <2>4 DEF put
      <3>2. /\ ImgOK(put) /\ put.loader_card = v.img.loader_card
            /\ NCards(put) = NCards(v.img) + 1
            /\ put.idx = Append(v.img.idx, e)
            /\ CardsOf(put) = Append(CardsOf(v.img), cards[k])
        BY <2>1, <2>2, <2>4, PutFacts
      <3> HIDE DEF put, w
      <3>3. AllFilled(put)
        <4> DEFINE m == NCards(v.img)
        <4>1. m \in Nat /\ v.img.idx \in Seq(EntrySet) /\ Len(v.img.idx) = m
          BY <2>1, NextOffFacts DEF ImgOK, ImageSet, NCards
        <4>2. e \in EntrySet /\ e.ncols > 0
          <5>1. NextOff(v.img) \in Nat
            BY <2>1, NextOffFacts
          <5> QED
            BY <2>2, <5>1 DEF EntrySet
        <4> HIDE DEF e, m
        <4>3. put.idx[m + 1] = e /\ \A i \in 1 .. m : put.idx[i] = v.img.idx[i]
          <5> DEFINE t == put.idx
                     old == v.img.idx
          <5>1. t = Append(old, e) /\ old \in Seq(EntrySet) /\ m = Len(old) /\ e \in EntrySet
            BY <3>2, <4>1, <4>2
          <5> HIDE DEF t, old
          <5>2. t[m + 1] = e /\ \A i \in 1 .. m : t[i] = old[i]
            BY <5>1, AppendAt
          <5> QED
            BY <5>2 DEF t, old
        <4>4. \A i \in 1 .. m : v.img.idx[i].ncols > 0
          BY <2>1 DEF AllFilled, m
        <4>5. ASSUME NEW i \in 1 .. m + 1 PROVE put.idx[i].ncols > 0
          <5>1. i = m + 1 \/ i \in 1 .. m
            BY <4>1
          <5> QED
            BY <4>2, <4>3, <4>4, <5>1
        <4> QED
          BY <3>2, <4>5 DEF AllFilled, m
      <3>4. CardsOf(put) = all \o SubSeq(cards, 1, k)
        <4>1. CardsOf(v.img) = all \o SubSeq(cards, 1, k - 1)
          BY <2>1, <2>4
        <4>2. CardsOf(v.img) \in Seq(Seq(Columns))
          BY <2>1, CardsOfFacts
        <4>3. Append(all \o SubSeq(cards, 1, k - 1), cards[k]) = all \o SubSeq(cards, 1, k)
          <5> DEFINE S == Seq(Columns)
          <5>1. k \in 1 .. Len(cards) /\ all \in Seq(S) /\ cards \in Seq(S)
            BY <1>1
          <5> HIDE DEF all, S, Has, K, w
          <5> QED
            BY <5>1, ConcatOneMore
        <4> HIDE DEF all
        <4> QED
          BY <3>2, <4>1, <4>3
      <3>5. w \in [img : ImageSet, ok : BOOLEAN] /\ w.img = put
        BY <2>1, <3>1, <3>2 DEF ImgOK
      <3>6. Has(w, k)
        BY <2>1, <3>2, <3>3, <3>4, <3>5
      <3> HIDE DEF Has
      <3> QED
        BY <2>1, <3>5, <3>6 DEF w
    <2>5. \/ w = [v EXCEPT !.ok = FALSE]
          \/ /\ v.ok /\ ~(NCards(v.img) >= MaxCards)
             /\ ~(NextOff(v.img) + Len(cards[k]) > MaxCols)
             /\ w = [v EXCEPT !.img = Put(v.img, cards[k])]
      BY DEF AppendCard
    <2>6. NCards(v.img) \in Nat /\ NextOff(v.img) \in Nat /\ MaxCards \in Nat /\ MaxCols \in Nat
      BY <2>1, NextOffFacts, SizeFacts
    <2> HIDE DEF w, K, Has
    <2> QED
      BY <2>2, <2>3, <2>4, <2>5, <2>6 DEF w
  <1>4. res \in K[n]
    <2>1. Dealt!Fold(s, cards) \in K[n]
      <3> HIDE DEF K, s, n
      <3> QED
        BY <1>1, <1>2, <1>3, Dealt!FoldInvariant
    <2> QED
      BY <2>1, DealtFold
  <1>5. SubSeq(cards, 1, n) = cards
    OBVIOUS
  <1>6. res \in [img : ImageSet, ok : BOOLEAN] /\ Has(res, n)
    <2> HIDE DEF Has
    <2> QED
      BY <1>1, <1>4
  <1> QED
    BY <1>5, <1>6

LEMMA MinFacts ==
    ASSUME NEW S \in SUBSET Nat, S # {}
    PROVE  Min(S) \in S /\ \A y \in S : Min(S) <= y
  <1>1. \E x \in S : \A y \in S : x <= y
    BY Tokens!LeastElement
  <1> QED
    BY <1>1 DEF Min

\* What deck_find_loader_card finds is a card of the deck, and the one it is
\* said to be.
LEMMA LoaderFacts ==
    ASSUME NEW img, ImgOK(img), NCards(img) > 0
    PROVE  /\ FindLoader(img) \in 0 .. NCards(img) - 1
           /\ LoaderAt(CardsOf(img)) = FindLoader(img) + 1
  <1> DEFINE n == NCards(img)
             b == Min({n, BodyFirst})
             cards == CardsOf(img)
             m == {c \in 0 .. b - 1 : Marked(CardOf(img, c))}
             l == {i \in DOMAIN cards : i <= BodyFirst /\ Marked(cards[i])}
  <1>1. n \in Nat /\ BodyFirst \in Nat \ {0}
    BY NextOffFacts, SizeFacts
  <1>2. b \in {n, BodyFirst} /\ b <= n /\ b <= BodyFirst
    <2>1. {n, BodyFirst} \in SUBSET Nat
      BY <1>1
    <2> HIDE DEF n
    <2> QED
      BY <2>1, MinFacts
  <1>3. cards \in Seq(Seq(Columns)) /\ Len(cards) = n /\ \A i \in 1 .. n : cards[i] = CardOf(img, i - 1)
    BY CardsOfFacts
  <1>4. DOMAIN cards = 1 .. n
    BY <1>3
  <1>5. m \in SUBSET Nat /\ l \in SUBSET Nat
    BY <1>1, <1>2, <1>4
  <1>6. FindLoader(img) = IF m # {} THEN Min(m) ELSE IF n > 1 THEN 1 ELSE 0
    BY DEF FindLoader
  <1>7. LoaderAt(cards) = IF l # {} THEN Min(l) ELSE Min({2, n})
    BY <1>3 DEF LoaderAt
  <1> HIDE DEF n, b, cards
  <1>8. ASSUME NEW c \in m PROVE c + 1 \in l
    <2>1. c \in 0 .. b - 1 /\ Marked(CardOf(img, c))
      OBVIOUS
    <2>2. c + 1 \in 1 .. n /\ c + 1 <= BodyFirst /\ (c + 1) - 1 = c
      BY <1>1, <1>2, <2>1
    <2>3. cards[c + 1] = CardOf(img, c)
      BY <1>3, <2>2
    <2> QED
      BY <1>4, <2>1, <2>2, <2>3
  <1>9. ASSUME NEW i \in l PROVE i - 1 \in m
    <2>1. i \in 1 .. n /\ i <= BodyFirst /\ Marked(cards[i])
      BY <1>4
    <2>2. i - 1 \in 0 .. b - 1
      BY <1>1, <1>2, <2>1
    <2>3. cards[i] = CardOf(img, i - 1)
      BY <1>3, <2>1
    <2> QED
      BY <2>1, <2>2, <2>3
  <1>10. CASE m # {}
    <2> HIDE DEF m, l
    <2>1. l # {}
      BY <1>8, <1>10
    <2>2. Min(m) \in m /\ \A c \in m : Min(m) <= c
      BY <1>5, <1>10, MinFacts
    <2>3. Min(l) \in l /\ \A i \in l : Min(l) <= i
      BY <1>5, <2>1, MinFacts
    <2>4. Min(m) + 1 \in l /\ Min(l) - 1 \in m
      BY <1>8, <1>9, <2>2, <2>3
    <2>5. Min(m) \in Nat /\ Min(l) \in Nat
      BY <1>5, <2>2, <2>3
    <2>6. Min(l) = Min(m) + 1
      BY <2>2, <2>3, <2>4, <2>5
    <2>7. Min(m) \in 0 .. n - 1
      BY <1>1, <1>2, <2>2 DEF m
    <2> QED
      BY <1>6, <1>7, <1>10, <2>1, <2>6, <2>7 DEF n, cards
  <1>11. CASE m = {}
    <2> HIDE DEF m, l
    <2>1. l = {}
      BY <1>9, <1>11
    <2>2. Min({2, n}) \in {2, n} /\ Min({2, n}) <= 2 /\ Min({2, n}) <= n
      <3>1. {2, n} \in SUBSET Nat
        BY <1>1
      <3> QED
        BY <3>1, MinFacts
    <2>3. n > 0
      BY DEF n
    <2> DEFINE f == FindLoader(img)
               k == LoaderAt(cards)
               t == Min({2, n})
    <2>4. f = (IF n > 1 THEN 1 ELSE 0) /\ k = t
      BY <1>6, <1>7, <1>11, <2>1
    <2> HIDE DEF f, k, t
    <2>5. t \in {2, n} /\ t <= 2 /\ t <= n
      BY <2>2 DEF t
    <2>6. f \in 0 .. n - 1 /\ k = f + 1
      BY <1>1, <2>3, <2>4, <2>5
    <2> QED
      BY <2>6 DEF f, k, n, cards
  <1> QED
    BY <1>10, <1>11

\* The cards a recipe takes.
LEMMA TakenFacts ==
    ASSUME NEW src, ImgOK(src), AllFilled(src),
           NEW picks \in Seq(0 .. NCards(src) - 1),
           NEW taken, taken = [i \in DOMAIN picks |-> CardOf(src, picks[i])]
    PROVE  /\ taken \in Seq(Seq(Columns)) /\ Len(taken) = Len(picks)
           /\ \A i \in 1 .. Len(picks) : taken[i] = CardsOf(src)[picks[i] + 1] /\ taken[i] # <<>>
  <1> DEFINE n == NCards(src)
  <1>1. n \in Nat /\ DOMAIN picks = 1 .. Len(picks) /\ Len(picks) \in Nat
        /\ \A i \in 1 .. Len(picks) : picks[i] \in 0 .. n - 1
    BY NextOffFacts
  <1>2. ASSUME NEW i \in 1 .. Len(picks)
        PROVE  /\ taken[i] \in Seq(Columns) /\ taken[i] # <<>>
               /\ taken[i] = CardsOf(src)[picks[i] + 1]
    <2>1. picks[i] + 1 \in 1 .. n /\ (picks[i] + 1) - 1 = picks[i]
      BY <1>1
    <2>2. taken[i] = CardOf(src, picks[i])
      BY <1>1
    <2>3. CardOf(src, picks[i]) = CardOf(src, (picks[i] + 1) - 1)
      BY <2>1
    <2> DEFINE c == picks[i] + 1
               card == CardOf(src, c - 1)
    <2>4. c \in 1 .. NCards(src)
      BY <2>1
    <2> HIDE DEF c
    <2>5. card \in Seq(Columns) /\ Len(card) = src.idx[c].ncols
      BY <2>4, CardFacts
    <2>6. src.idx[c].ncols > 0 /\ card = CardsOf(src)[c]
      BY <2>4, CardsOfFacts DEF AllFilled
    <2> HIDE DEF card
    <2>7. card # <<>>
      BY <2>5, <2>6
    <2> QED
      BY <2>2, <2>3, <2>5, <2>6, <2>7 DEF c, card
  <1>3. taken \in Seq(Seq(Columns)) /\ Len(taken) = Len(picks)
    <2>1. taken = [i \in 1 .. Len(picks) |-> taken[i]]
      BY <1>1
    <2> QED
      BY <1>1, <1>2, <2>1
  <1> QED
    BY <1>2, <1>3

LEMMA SubSeqAt ==
    ASSUME NEW S, NEW s \in Seq(S), NEW o \in Nat, NEW n \in Nat, o + n <= Len(s),
           NEW a, a = o + 1, NEW b, b = o + n, NEW t, t = SubSeq(s, a, b)
    PROVE  t \in Seq(S) /\ Len(t) = n /\ \A i \in 1 .. n : t[i] = s[o + i]
  <1>1. \A i \in a .. b : s[i] \in S
    OBVIOUS
  <1> QED
    BY <1>1

\* One element in front.
LEMMA PrependAt ==
    ASSUME NEW S, NEW x \in S, NEW t \in Seq(S), NEW m, m = Len(t), NEW u, u = <<x>> \o t
    PROVE  u \in Seq(S) /\ Len(u) = 1 + m /\ u[1] = x /\ \A i \in 1 .. m : u[1 + i] = t[i]
  OBVIOUS

\* What a recipe keeps, read off the cards.
LEMMA PicksFacts ==
    ASSUME NEW src, ImgOK(src), AllFilled(src), NCards(src) > 0,
           NEW op \in Ops, SurgeryAllowed(src, op),
           NEW picks, picks = Picks(src, op)
    PROVE  /\ picks \in Seq(0 .. NCards(src) - 1) /\ Len(picks) > 0
           /\ [i \in DOMAIN picks |-> CardOf(src, picks[i])] = Kept(CardsOf(src), op)
  <1> DEFINE n == NCards(src)
             cards == CardsOf(src)
             taken == [i \in DOMAIN picks |-> CardOf(src, picks[i])]
             S == Seq(Columns)
  <1>1. n \in Nat /\ n > 0 /\ BodyFirst \in Nat \ {0}
    BY NextOffFacts, SizeFacts
  <1>2. cards \in Seq(S) /\ Len(cards) = n
    BY CardsOfFacts
  <1>3. ASSUME picks \in Seq(0 .. n - 1)
        PROVE  /\ taken \in Seq(S) /\ Len(taken) = Len(picks)
               /\ \A i \in 1 .. Len(picks) : taken[i] = cards[picks[i] + 1]
    <2>1. picks \in Seq(0 .. NCards(src) - 1)
      BY <1>3
    <2>2. taken = [i \in DOMAIN picks |-> CardOf(src, picks[i])]
      OBVIOUS
    <2> HIDE DEF n, taken
    <2> QED
      BY <2>1, <2>2, TakenFacts
  <1>4. CASE op = "AS_IS"
    <2>1. picks = Range0(0, n - 1)
      BY <1>4 DEF Picks
    <2> HIDE DEF n
    <2>2. picks \in Seq(0 .. n - 1) /\ Len(picks) = n /\ \A i \in 1 .. n : picks[i] = i - 1
      BY <1>1, <2>1 DEF Range0
    <2> HIDE DEF taken, cards, S
    <2>3. \A i \in 1 .. n : taken[i] = cards[i]
      BY <1>1, <1>3, <2>2
    <2>4. taken \in Seq(S) /\ Len(taken) = n
      BY <1>3, <2>2
    <2>5. taken = cards
      BY <1>2, <2>3, <2>4, SeqEqual
    <2> QED
      BY <1>1, <1>4, <2>2, <2>5 DEF Kept, n, cards, taken
  <1>5. CASE op = "TRIM_TITLE_SUMMARY"
    <2>1. picks = Range0(1, n - 2) /\ n >= 3
      BY <1>5 DEF Picks, SurgeryAllowed
    <2> HIDE DEF n
    <2> DEFINE m == n - 2
    <2>2. m \in Nat /\ m >= 1 /\ picks = [i \in 1 .. m |-> 1 + i - 1]
      BY <1>1, <2>1 DEF Range0
    <2>3. picks \in Seq(0 .. n - 1) /\ Len(picks) = m /\ \A i \in 1 .. m : picks[i] = i
      BY <1>1, <2>1, <2>2
    <2> DEFINE kept == SubSeq(cards, 2, n - 1)
    <2> HIDE DEF taken, cards, S
    <2>4. taken \in Seq(S) /\ Len(taken) = m /\ \A i \in 1 .. m : taken[i] = cards[i + 1]
      <3> HIDE DEF m
      <3> QED
        BY <1>3, <2>3
    <2>5. kept \in Seq(S) /\ Len(kept) = m /\ \A i \in 1 .. m : kept[i] = cards[2 + i - 1]
      <3> DEFINE a == 2  b == n - 1  o == 1
      <3>1. a = o + 1 /\ b = o + m /\ o + m <= Len(cards) /\ o \in Nat
            /\ kept = SubSeq(cards, a, b)
            /\ cards \in Seq(S) /\ m \in Nat
        BY <1>1, <1>2, <2>2
      <3>2. \A i \in Nat : o + i = 2 + i - 1
        OBVIOUS
      <3> HIDE DEF m, a, b, o, kept
      <3>3. kept \in Seq(S) /\ Len(kept) = m /\ \A i \in 1 .. m : kept[i] = cards[o + i]
        BY <3>1, SubSeqAt
      <3>4. ASSUME NEW i \in 1 .. m PROVE kept[i] = cards[2 + i - 1]
        <4>1. i \in Nat
          BY <2>2
        <4> QED
          BY <3>2, <3>3, <4>1
      <3> QED
        BY <3>3, <3>4
    <2> HIDE DEF kept, m
    <2>6. \A i \in 1 .. m : taken[i] = kept[i]
      <3>1. \A i \in 1 .. m : 2 + i - 1 = i + 1
        BY <2>2
      <3> QED
        BY <2>4, <2>5, <3>1
    <2>7. taken = kept
      BY <2>4, <2>5, <2>6, SeqEqual
    <2>8. Kept(cards, op) = kept
      BY <1>2, <1>5 DEF Kept, kept
    <2> QED
      BY <2>2, <2>3, <2>7, <2>8 DEF n, cards, taken
  <1>6. CASE op = "SERIAL_LOADER"
    <2> DEFINE f == FindLoader(src)
               B == BodyFirst
    <2>1. picks = <<f>> \o Range0(B, n - 2) /\ n >= B + 2
      BY <1>6 DEF Picks, SurgeryAllowed
    <2>2. f \in 0 .. n - 1 /\ LoaderAt(cards) = f + 1
      BY LoaderFacts
    <2> HIDE DEF n, f
    <2> DEFINE m == n - 1 - B
               body == [i \in 1 .. m |-> B + i - 1]
    <2>3. m \in Nat /\ m >= 1 /\ picks = <<f>> \o body
      BY <1>1, <2>1 DEF Range0
    <2>4. body \in Seq(0 .. n - 1) /\ Len(body) = m /\ \A i \in 1 .. m : body[i] = B + i - 1
      <3>1. \A i \in 1 .. m : B + i - 1 \in 0 .. n - 1
        BY <1>1, <2>3
      <3> HIDE DEF m
      <3> QED
        BY <2>3, <3>1
    <2> HIDE DEF body, m
    <2>6. /\ picks \in Seq(0 .. n - 1) /\ Len(picks) = 1 + m
          /\ picks[1] = f /\ \A i \in 1 .. m : picks[1 + i] = B + i - 1
      <3> DEFINE Z == 0 .. n - 1
      <3>1. f \in Z /\ body \in Seq(Z) /\ picks = <<f>> \o body /\ m = Len(body)
        BY <2>2, <2>3, <2>4
      <3> HIDE DEF Z
      <3>2. /\ picks \in Seq(Z) /\ Len(picks) = 1 + m /\ picks[1] = f
            /\ \A i \in 1 .. m : picks[1 + i] = body[i]
        BY <3>1, PrependAt
      <3> QED
        BY <2>4, <3>2 DEF Z
    <2> DEFINE tail == SubSeq(cards, B + 1, n - 1)
               x == cards[LoaderAt(cards)]
               kept == <<x>> \o tail
    <2> HIDE DEF taken, cards, S
    <2>7. /\ taken \in Seq(S) /\ Len(taken) = 1 + m
          /\ \A i \in 1 .. 1 + m : taken[i] = cards[picks[i] + 1]
      BY <1>3, <2>6
    <2>8. tail \in Seq(S) /\ Len(tail) = m /\ \A i \in 1 .. m : tail[i] = cards[B + 1 + i - 1]
      <3> DEFINE a == B + 1  b == n - 1
      <3>1. a = B + 1 /\ b = B + m /\ B + m <= Len(cards) /\ B \in Nat /\ tail = SubSeq(cards, a, b)
        BY <1>1, <1>2, <2>3 DEF m
      <3> HIDE DEF a, b, B, tail
      <3>2. tail \in Seq(S) /\ Len(tail) = m /\ \A i \in 1 .. m : tail[i] = cards[B + i]
        BY <1>2, <2>3, <3>1, SubSeqAt
      <3>3. \A i \in Nat : B + i = B + 1 + i - 1
        BY <3>1
      <3> QED
        BY <2>3, <3>2, <3>3
    <2>9. x = cards[f + 1] /\ x \in S
      BY <1>1, <1>2, <2>2
    <2> HIDE DEF tail, x
    <2>11. /\ kept \in Seq(S) /\ Len(kept) = 1 + m
           /\ kept[1] = x /\ \A i \in 1 .. m : kept[1 + i] = tail[i]
      <3>1. kept = <<x>> \o tail /\ m = Len(tail) /\ tail \in Seq(S)
        BY <2>8
      <3> HIDE DEF kept
      <3> QED
        BY <2>9, <3>1, PrependAt
    <2> HIDE DEF kept
    <2>12. ASSUME NEW i \in 1 .. 1 + m PROVE taken[i] = kept[i]
      <3>1. CASE i = 1
        BY <2>3, <2>6, <2>7, <2>9, <2>11, <3>1
      <3>2. CASE i - 1 \in 1 .. m
        <4> DEFINE k == i - 1
        <4>1. k \in 1 .. m /\ 1 + k = i
          BY <2>3, <3>2
        <4> HIDE DEF k
        <4>2. picks[i] = B + k - 1 /\ kept[i] = tail[k]
          BY <2>6, <2>11, <4>1
        <4>3. taken[i] = cards[(B + k - 1) + 1] /\ tail[k] = cards[B + 1 + k - 1]
          BY <2>7, <2>8, <4>1, <4>2
        <4>4. (B + k - 1) + 1 = B + 1 + k - 1
          BY <1>1, <2>3, <4>1
        <4> QED
          BY <4>2, <4>3, <4>4
      <3>3. i = 1 \/ i - 1 \in 1 .. m
        BY <2>3
      <3> QED
        BY <3>1, <3>2, <3>3
    <2>13. taken = kept
      BY <2>7, <2>11, <2>12, SeqEqual
    <2>14. Kept(cards, op) = kept
      BY <1>2, <1>6 DEF Kept, kept, x, tail
    <2> QED
      BY <2>3, <2>6, <2>13, <2>14 DEF n, cards, taken
  <1> QED
    BY <1>4, <1>5, <1>6 DEF Ops

\* A surgery: the destination is well formed however it ends, and if it ends
\* well it has got the cards the recipe keeps, behind those it had.
LEMMA SurgeryFacts ==
    ASSUME NEW img, ImgOK(img), AllFilled(img),
           NEW src, ImgOK(src), AllFilled(src), NCards(src) > 0, NEW op \in Ops,
           NEW res, res = SurgeryApply(img, src, op)
    PROVE  /\ ImgOK(res.img) /\ AllFilled(res.img) /\ res.img.loader_card = img.loader_card
           /\ res.ok \in BOOLEAN
           /\ res.ok => /\ CardsOf(res.img) = CardsOf(img) \o Kept(CardsOf(src), op)
                        /\ Kept(CardsOf(src), op) \in Seq(Seq(Columns))
                        /\ NCards(res.img) > 0
                        /\ SurgeryAllowed(src, op)
  <1> DEFINE s == [img |-> img, ok |-> TRUE]
             picks == Picks(src, op)
             taken == [i \in DOMAIN picks |-> CardOf(src, picks[i])]
  <1>1. CASE ~SurgeryAllowed(src, op)
    <2>1. res = [s EXCEPT !.ok = FALSE]
      BY <1>1 DEF SurgeryApply
    <2>2. res = [img |-> img, ok |-> FALSE]
      BY <2>1
    <2> QED
      BY <2>2
  <1>2. CASE SurgeryAllowed(src, op)
    <2>1. res = FoldLeft(AppendCard, s, taken)
      BY <1>2 DEF SurgeryApply
    <2>2. picks \in Seq(0 .. NCards(src) - 1) /\ Len(picks) > 0 /\ taken = Kept(CardsOf(src), op)
      BY <1>2, PicksFacts
    <2> HIDE DEF picks
    <2>3. /\ taken \in Seq(Seq(Columns)) /\ Len(taken) = Len(picks)
          /\ \A i \in 1 .. Len(picks) : taken[i] # <<>>
      <3>1. picks \in Seq(0 .. NCards(src) - 1)
        BY <2>2
      <3>2. taken = [i \in DOMAIN picks |-> CardOf(src, picks[i])]
        OBVIOUS
      <3> HIDE DEF taken
      <3> QED
        BY <3>1, <3>2, TakenFacts
    <2> HIDE DEF taken
    <2>4. /\ ImgOK(res.img) /\ AllFilled(res.img) /\ res.img.loader_card = img.loader_card
          /\ res.ok \in BOOLEAN
          /\ res.ok => CardsOf(res.img) = CardsOf(img) \o taken
      BY <2>1, <2>3, DealtFacts
    <2>5. res.ok => NCards(res.img) > 0
      <3> SUFFICES ASSUME res.ok PROVE NCards(res.img) > 0
        OBVIOUS
      <3>1. CardsOf(img) \in Seq(Seq(Columns)) /\ Len(CardsOf(res.img)) = NCards(res.img)
        BY <2>4, CardsOfFacts
      <3> DEFINE a == CardsOf(img)
                 u == CardsOf(res.img)
                 la == Len(a)
                 lt == Len(taken)
                 S == Seq(Columns)
      <3>2. a \in Seq(S) /\ taken \in Seq(S) /\ u = a \o taken /\ la = Len(a) /\ lt = Len(taken)
        BY <2>3, <2>4, <3>1
      <3> HIDE DEF a, u, la, lt, S
      <3>3. la \in Nat /\ lt \in Nat /\ Len(u) = la + lt
        BY <3>2, ConcatAt
      <3> QED
        BY <2>2, <2>3, <3>1, <3>3 DEF u, lt
    <2> QED
      BY <1>2, <2>2, <2>3, <2>4, <2>5
  <1> QED
    BY <1>1, <1>2

----------------------------------------------------------------------------
(* The parser.                                                             *)

\* A parser that has got so far without an error, or with one.
ParserSet == [img : ImageSet, in_card : BOOLEAN, error : -3 .. 0]

Parsing(p) ==
    /\ p \in ParserSet /\ ImgOK(p.img) /\ p.img.loader_card = -1
    /\ p.in_card <=> NCards(p.img) > 0

LEMMA SeqIsFunction ==
    ASSUME NEW S, NEW s \in Seq(S), NEW n, n = Len(s)
    PROVE  n \in Nat /\ s = [i \in 1 .. n |-> s[i]]
  OBVIOUS

\* What the columns of a line make of the cards.
LEMMA AddColumnFacts ==
    ASSUME NEW columns \in Seq(Columns), NEW t \in Columns \cup {NoColumn}
    PROVE  AddColumn(columns, t) \in Seq(Columns)
  BY DEF AddColumn

LEMMA ParserInitFacts == Parsing(ParserInit) /\ ParserInit.error = 0 /\ CardsOf(ParserInit.img) = <<>>
  <1>1. ParserInit.img = EmptyDeck /\ ParserInit.error = 0 /\ ParserInit.in_card = FALSE
    BY DEF ParserInit
  <1>2. EmptyDeck \in ImageSet
    BY EmptyDeckFacts DEF ImgOK
  <1>3. ParserInit \in ParserSet
    BY <1>2 DEF ParserInit, ParserSet
  <1> QED
    BY <1>1, <1>3, EmptyDeckFacts DEF Parsing

LEMMA OpenCardFacts ==
    ASSUME NEW p, Parsing(p), p.error = 0, NEW q, q = OpenCard(p)
    PROVE  /\ Parsing(q) /\ q.error \in {-1, 0}
           /\ q.error = 0 => q.in_card /\ CardsOf(q.img) = Append(CardsOf(p.img), <<>>)
  <1>1. /\ p \in ParserSet /\ NCards(p.img) \in Nat /\ NextOff(p.img) \in Nat
        /\ MaxCards \in Nat /\ MaxCols \in Nat /\ ImgOK(p.img)
    BY NextOffFacts, SizeFacts DEF Parsing
  <1>2. CASE NCards(p.img) >= MaxCards
    <2>1. q = [p EXCEPT !.error = -1]
      BY <1>2 DEF OpenCard
    <2>2. q = [img |-> p.img, in_card |-> p.in_card, error |-> -1]
      BY <1>1, <2>1 DEF ParserSet
    <2>3. q \in ParserSet
      BY <1>1, <2>2 DEF ParserSet
    <2> QED
      BY <2>2, <2>3 DEF Parsing
  <1>3. CASE ~(NCards(p.img) >= MaxCards)
    <2> DEFINE put == Put(p.img, <<>>)
    <2>1. q = [p EXCEPT !.in_card = TRUE, !.img = put]
      BY <1>3 DEF OpenCard
    <2>2. <<>> \in Seq(Columns) /\ Len(<<>>) = 0
      OBVIOUS
    <2>3. NCards(p.img) < MaxCards /\ NextOff(p.img) + Len(<<>>) <= MaxCols
      BY <1>1, <1>3, <2>2 DEF ImgOK
    <2>4. /\ ImgOK(put) /\ put.loader_card = p.img.loader_card
          /\ NCards(put) = NCards(p.img) + 1
          /\ CardsOf(put) = Append(CardsOf(p.img), <<>>)
      BY <1>1, <2>2, <2>3, PutFacts
    <2> HIDE DEF put
    <2>5. q = [img |-> put, in_card |-> TRUE, error |-> p.error]
      BY <1>1, <2>1 DEF ParserSet
    <2>6. q \in ParserSet
      BY <1>1, <2>4, <2>5 DEF ParserSet, ImgOK
    <2> QED
      BY <1>1, <2>4, <2>5, <2>6 DEF Parsing
  <1> QED
    BY <1>2, <1>3

LEMMA AddTokenFacts ==
    ASSUME NEW p, Parsing(p), p.in_card, NEW t \in Columns \cup {NoColumn},
           NEW q, q = AddToken(p, t)
    PROVE  /\ Parsing(q) /\ NCards(q.img) = NCards(p.img) /\ q.in_card
           /\ p.error # 0 => q = p
           /\ p.error = 0 => q.error \in {-2, 0}
           /\ q.error = 0 => CardsOf(q.img) =
                  [CardsOf(p.img) EXCEPT ![NCards(p.img)] = AddColumn(@, t)]
  <1> DEFINE img == p.img
             n == NCards(img)
             end == NextOff(img)
  <1>1. /\ p \in ParserSet /\ n \in Nat /\ end \in Nat
        /\ MaxCards \in Nat /\ MaxCols \in Nat /\ ImgOK(img)
        /\ n > 0 /\ img.loader_card = -1
    BY NextOffFacts, SizeFacts DEF Parsing
  <1>2. /\ CardsOf(img) \in Seq(Seq(Columns)) /\ Len(CardsOf(img)) = n /\ n \in 1 .. n
    BY <1>1, CardsOfFacts
  <1>3. CASE p.error # 0
    BY <1>3 DEF AddToken
  <1>4. CASE t = NoColumn /\ p.error = 0
    <2>1. q = p
      BY <1>4 DEF AddToken
    <2>2. \A columns : AddColumn(columns, t) = columns
      BY <1>4 DEF AddColumn
    <2> DEFINE cards == CardsOf(img)
    <2>3. [cards EXCEPT ![n] = cards[n]] = cards
      <3>1. cards = [i \in 1 .. n |-> cards[i]]
        BY <1>2, SeqIsFunction
      <3> HIDE DEF cards, n
      <3> QED
        BY <3>1
    <2>4. [cards EXCEPT ![n] = AddColumn(@, t)] = cards
      <3>1. AddColumn(cards[n], t) = cards[n]
        BY <2>2
      <3> HIDE DEF cards, n
      <3> QED
        BY <2>3, <3>1
    <2> QED
      BY <1>4, <2>1, <2>4
  <1>5. CASE t # NoColumn /\ p.error = 0 /\ end >= MaxCols
    <2>1. q = [p EXCEPT !.error = -2]
      BY <1>5 DEF AddToken
    <2>2. q = [img |-> p.img, in_card |-> p.in_card, error |-> -2]
      BY <1>1, <2>1 DEF ParserSet
    <2>3. q \in ParserSet
      BY <1>1, <2>2 DEF ParserSet
    <2> QED
      BY <1>5, <2>2, <2>3 DEF Parsing
  <1>6. CASE t # NoColumn /\ p.error = 0 /\ ~(end >= MaxCols)
    <2> DEFINE ext == Extended(img, t)
    <2>1. q = [p EXCEPT !.img.cols = SubSeq(@, 1, end) \o <<t>>, !.img.idx[n].ncols = @ + 1]
      BY <1>6 DEF AddToken
    <2>2. q = [p EXCEPT !.img = ext]
      BY <1>1, <2>1 DEF Extended, ParserSet, ImageSet, ImgOK
    <2>8. ImgOK(img) /\ t \in Columns /\ NCards(img) > 0 /\ NextOff(img) < MaxCols
      <3>1. NextOff(img) \in Nat /\ MaxCols \in Nat
        BY <1>1, NextOffFacts, SizeFacts
      <3> QED
        BY <1>1, <1>6, <3>1
    <2>3. /\ ImgOK(ext) /\ ext.loader_card = img.loader_card /\ NCards(ext) = n
          /\ CardsOf(ext) = [CardsOf(img) EXCEPT ![n] = Append(@, t)]
      <3> HIDE DEF img
      <3> QED
        BY <2>8, ExtendedFacts
    <2> HIDE DEF ext
    <2>4. q = [img |-> ext, in_card |-> p.in_card, error |-> p.error]
      BY <1>1, <2>2 DEF ParserSet
    <2>5. q \in ParserSet
      BY <1>1, <2>3, <2>4 DEF ParserSet, ImgOK
    <2>6. AddColumn(CardsOf(img)[n], t) = Append(CardsOf(img)[n], t)
      BY <1>6 DEF AddColumn
    <2> QED
      BY <1>1, <1>6, <2>3, <2>4, <2>5, <2>6 DEF Parsing
  <1> QED
    BY <1>3, <1>4, <1>5, <1>6

\* A line: its columns go into the card that is open.
LEMMA LineFacts ==
    ASSUME NEW p, Parsing(p), p.error = 0, NEW line \in Line,
           NEW q, q = ProcessLine(p, line)
    PROVE  /\ Parsing(q) /\ q.error \in {-2, -1, 0}
           /\ q.error = 0 => CardsOf(q.img) =
                  IF line.header THEN Append(CardsOf(p.img), <<>>)
                  ELSE IF CardsOf(p.img) = <<>> THEN <<>>
                  ELSE [CardsOf(p.img) EXCEPT ![Len(CardsOf(p.img))] = AddLine(@, line)]
  <1> DEFINE cards == CardsOf(p.img)
             n == NCards(p.img)
             tokens == line.tokens
  <1>1. /\ cards \in Seq(Seq(Columns)) /\ Len(cards) = n /\ n \in Nat
        /\ p \in ParserSet /\ (p.in_card <=> n > 0)
    BY CardsOfFacts, NextOffFacts DEF Parsing
  <1>2. line.header \in BOOLEAN /\ tokens \in Seq(Columns \cup {NoColumn})
    BY DEF Line
  <1>3. CASE line.header
    <2>1. q = OpenCard(p)
      BY <1>3 DEF ProcessLine
    <2> QED
      BY <1>3, <2>1, OpenCardFacts
  <1>4. CASE ~line.header /\ n = 0
    <2>1. q = p
      BY <1>1, <1>4 DEF ProcessLine
    <2>2. cards = <<>>
      BY <1>1, <1>4
    <2> QED
      BY <1>4, <2>1, <2>2
  <1>5. CASE ~line.header /\ n > 0
    <2>1. q = FoldLeft(AddToken, p, tokens)
      BY <1>1, <1>5 DEF ProcessLine
    <2> DEFINE m == Len(tokens)
    <2>2. m \in Nat /\ DOMAIN tokens = 1 .. m /\ \A k \in 1 .. m : tokens[k] \in Columns \cup {NoColumn}
      BY <1>2
    <2>3. PICK g : Picked!Steps(g, cards[n], tokens, m) /\ Picked!Fold(cards[n], tokens) = g[m]
      <3> HIDE DEF m, tokens, cards
      <3> QED
        BY <2>2, Picked!FoldSteps
    <2>4. g[0] = cards[n] /\ \A k \in 1 .. m : g[k] = AddColumn(g[k - 1], tokens[k])
      BY <2>3 DEF Picked!Steps
    <2> DEFINE Has(v, k) ==
                   /\ Parsing(v) /\ NCards(v.img) = n /\ v.in_card
                   /\ v.error \in {-2, 0}
                   /\ v.error = 0 => CardsOf(v.img) = [cards EXCEPT ![n] = g[k]]
               K == [k \in 0 .. m |-> {v \in ParserSet : Has(v, k)}]
    <2>5. p \in K[0]
      <3>1. cards = [cards EXCEPT ![n] = g[0]]
        <4>0. cards = [i \in 1 .. n |-> cards[i]]
          BY <1>1, SeqIsFunction
        <4>1. cards = [i \in 1 .. n |-> cards[i]] /\ n \in 1 .. n
          <5> HIDE DEF cards, n
          <5> QED
            BY <1>1, <1>5, <4>0
        <4> HIDE DEF cards, n
        <4> QED
          BY <2>4, <4>1
      <3>2. Has(p, 0)
        BY <1>1, <1>5, <3>1
      <3> HIDE DEF Has
      <3> QED
        BY <1>1, <2>2, <3>2
    <2>6. ASSUME NEW k \in 1 .. m, NEW v \in K[k - 1] PROVE AddToken(v, tokens[k]) \in K[k]
      <3> DEFINE w == AddToken(v, tokens[k])
      <3>1. v \in ParserSet /\ Has(v, k - 1) /\ k - 1 \in Nat /\ k \in 0 .. m
        <4> HIDE DEF Has
        <4> QED
          BY <2>2
      <3>2. tokens[k] \in Columns \cup {NoColumn}
        BY <2>2
      <3>3. /\ Parsing(w) /\ NCards(w.img) = n /\ w.in_card
            /\ v.error # 0 => w = v
            /\ v.error = 0 => w.error \in {-2, 0}
            /\ w.error = 0 => CardsOf(w.img) = [CardsOf(v.img) EXCEPT ![n] = AddColumn(@, tokens[k])]
        <4> DEFINE t == tokens[k]
                   c == CardsOf(v.img)
        <4>1. Parsing(v) /\ v.in_card /\ NCards(v.img) = n
          BY <3>1
        <4>2. t \in Columns \cup {NoColumn} /\ w = AddToken(v, t)
          BY <3>2
        <4> HIDE DEF t, w, n
        <4>3. /\ Parsing(w) /\ NCards(w.img) = NCards(v.img) /\ w.in_card
              /\ v.error # 0 => w = v
              /\ v.error = 0 => w.error \in {-2, 0}
              /\ w.error = 0 => CardsOf(w.img) = [CardsOf(v.img) EXCEPT ![NCards(v.img)] = AddColumn(@, t)]
          BY <4>1, <4>2, AddTokenFacts
        <4> QED
          BY <4>1, <4>3 DEF t
      <3> HIDE DEF w
      <3>4. w.error = 0 => CardsOf(w.img) = [cards EXCEPT ![n] = g[k]]
        <4> SUFFICES ASSUME w.error = 0 PROVE CardsOf(w.img) = [cards EXCEPT ![n] = g[k]]
          OBVIOUS
        <4>1. v.error = 0
          BY <3>3
        <4>2. CardsOf(v.img) = [cards EXCEPT ![n] = g[k - 1]]
          BY <3>1, <4>1
        <4>3. g[k] = AddColumn(g[k - 1], tokens[k])
          BY <2>4
        <4>0. cards = [i \in 1 .. n |-> cards[i]]
          BY <1>1, SeqIsFunction
        <4>4. cards = [i \in 1 .. n |-> cards[i]] /\ n \in 1 .. n
          <5> HIDE DEF cards, n
          <5> QED
            BY <1>1, <1>5, <4>0
        <4> DEFINE c == CardsOf(v.img)
                   x == g[k - 1]
                   y == AddColumn(x, tokens[k])
        <4> HIDE DEF n
        <4>5. c[n] = x /\ CardsOf(w.img) = [c EXCEPT ![n] = AddColumn(c[n], tokens[k])]
          <5> HIDE DEF cards
          <5> QED
            BY <3>3, <4>2, <4>4
        <4>6. CardsOf(w.img) = [c EXCEPT ![n] = y]
          BY <4>5
        <4>7. c = [cards EXCEPT ![n] = x]
          BY <4>2
        <4> HIDE DEF c, x, y, cards
        <4>8. [c EXCEPT ![n] = y] = [cards EXCEPT ![n] = y]
          BY <4>4, <4>7
        <4> QED
          BY <4>3, <4>6, <4>8 DEF x, y
      <3>5. w \in ParserSet /\ w.error \in {-2, 0}
        BY <3>1, <3>3 DEF Parsing
      <3>6. Has(w, k)
        BY <3>3, <3>4, <3>5
      <3> HIDE DEF Has
      <3> QED
        BY <3>1, <3>5, <3>6 DEF w
    <2>7. q \in K[m]
      <3>1. Tokens!Fold(p, tokens) \in K[m]
        <4> HIDE DEF K, m, tokens
        <4> QED
          BY <2>2, <2>5, <2>6, Tokens!FoldInvariant
      <3> QED
        BY <2>1, <3>1, TokensFold
    <2>8. q \in ParserSet /\ Has(q, m)
      <3> HIDE DEF Has
      <3> QED
        BY <2>2, <2>7
    <2>9. g[m] = AddLine(cards[n], line)
      BY <2>3, PickedFold DEF AddLine
    <2>10. cards # <<>>
      BY <1>1, <1>5
    <2> QED
      BY <1>1, <1>5, <2>8, <2>9, <2>10
  <1> QED
    BY <1>1, <1>2, <1>3, <1>4, <1>5

\* The end of the capture.
LEMMA FinishFacts ==
    ASSUME NEW p, Parsing(p), p.error = 0, NEW q, q = CapParseFinish(p)
    PROVE  /\ q \in ParserSet /\ ImgOK(q.img) /\ q.img.loader_card = -1
           /\ q.error \in {-3, 0}
           /\ q.error = 0 => /\ AllFilled(q.img) /\ NCards(q.img) > 0
                             /\ CardsOf(q.img) = FoldLeft(AddCard, <<>>, CardsOf(p.img))
           /\ q.error # 0 => FoldLeft(AddCard, <<>>, CardsOf(p.img)) = <<>>
  <1> DEFINE kept == FoldLeft(KeepFilled, <<>>, p.img.idx)
             fin == [p.img EXCEPT !.idx = kept]
  <1>1. p \in ParserSet /\ ImgOK(p.img) /\ p.img \in ImageSet
    BY DEF Parsing, ImgOK
  <1>2. /\ ImgOK(fin) /\ AllFilled(fin) /\ fin.loader_card = p.img.loader_card
        /\ CardsOf(fin) = FoldLeft(AddCard, <<>>, CardsOf(p.img))
    BY <1>1, FilledFacts
  <1> HIDE DEF kept
  <1>3. fin.idx = kept
    BY <1>1 DEF ImageSet
  <1>4. CASE kept = <<>>
    <2>1. q = [p EXCEPT !.img.idx = <<>>, !.error = -3]
      BY <1>4 DEF CapParseFinish, kept
    <2>2. q = [img |-> fin, in_card |-> p.in_card, error |-> -3]
      <3>1. fin = [p.img EXCEPT !.idx = <<>>]
        BY <1>4
      <3> HIDE DEF fin
      <3> QED
        BY <1>1, <2>1, <3>1 DEF ParserSet
    <2> HIDE DEF fin
    <2>3. q \in ParserSet
      BY <1>1, <1>2, <2>2 DEF ParserSet, ImgOK
    <2>4. CardsOf(fin) = <<>>
      <3>1. NCards(fin) = 0
        BY <1>3, <1>4 DEF NCards
      <3>2. CardsOf(fin) \in Seq(Seq(Columns)) /\ Len(CardsOf(fin)) = 0
        BY <1>2, <3>1, CardsOfFacts
      <3> QED
        BY <3>2, EmptySeq
    <2> QED
      BY <1>2, <2>2, <2>3, <2>4 DEF Parsing
  <1>5. CASE kept # <<>>
    <2>1. q = [p EXCEPT !.img.idx = kept]
      BY <1>5 DEF CapParseFinish, kept
    <2>2. q = [img |-> fin, in_card |-> p.in_card, error |-> 0]
      BY <1>1, <2>1 DEF ParserSet
    <2>3. NCards(fin) > 0
      <3>1. fin.idx \in Seq(EntrySet)
        BY <1>2 DEF ImgOK, ImageSet
      <3> HIDE DEF fin
      <3> QED
        BY <1>3, <1>5, <3>1 DEF NCards
    <2> HIDE DEF fin
    <2>4. q \in ParserSet
      BY <1>1, <1>2, <2>2 DEF ParserSet, ImgOK
    <2> QED
      BY <1>2, <2>2, <2>3, <2>4 DEF Parsing
  <1> QED
    BY <1>4, <1>5

----------------------------------------------------------------------------
(* What was parsed is what was punched.                                    *)

\* The cards while a capture is parsed, those without columns included.
ParseLine(cards, line) ==
    IF line.header THEN Append(cards, <<>>)
    ELSE IF cards = <<>> THEN <<>>
    ELSE [cards EXCEPT ![Len(cards)] = AddLine(@, line)]

Parsed == INSTANCE Folding WITH Op <- ParseLine

\* The columns of the lines behind h, up to k.
Between(lines, h, k) == FoldLeft(AddLine, <<>>, SubSeq(lines, h + 1, k))

LEMMA AddLineFacts ==
    ASSUME NEW columns \in Seq(Columns), NEW line \in Line
    PROVE  AddLine(columns, line) \in Seq(Columns)
  <1> DEFINE tokens == line.tokens
             n == Len(tokens)
             K == [k \in 0 .. n |-> Seq(Columns)]
  <1>1. tokens \in Seq(Columns \cup {NoColumn})
    BY DEF Line
  <1>2. n \in Nat /\ DOMAIN tokens = 1 .. n /\ \A k \in 1 .. n : tokens[k] \in Columns \cup {NoColumn}
    BY <1>1
  <1> HIDE DEF tokens, n
  <1>3. columns \in K[0] /\ \A k \in 1 .. n : \A v \in K[k - 1] : AddColumn(v, tokens[k]) \in K[k]
    <2>1. ASSUME NEW k \in 1 .. n, NEW v \in K[k - 1] PROVE AddColumn(v, tokens[k]) \in K[k]
      <3>1. k - 1 \in 0 .. n /\ k \in 0 .. n
        BY <1>2
      <3> QED
        BY <1>2, <3>1, AddColumnFacts
    <2> QED
      BY <1>2, <2>1
  <1>4. Picked!Fold(columns, tokens) \in K[n]
    <2> HIDE DEF K
    <2> QED
      BY <1>2, <1>3, Picked!FoldInvariant
  <1>5. n \in 0 .. n
    BY <1>2
  <1> QED
    BY <1>4, <1>5, PickedFold DEF AddLine, tokens

LEMMA BetweenFacts ==
    ASSUME NEW lines \in Seq(Line), NEW h \in Nat, NEW k \in Nat, h <= k
    PROVE  /\ Between(lines, h, h) = <<>>
           /\ k < Len(lines) =>
                 Between(lines, h, k + 1) = AddLine(Between(lines, h, k), lines[k + 1])
  <1>1. Between(lines, h, h) = <<>>
    <2>1. SubSeq(lines, h + 1, h) = <<>>
      BY SubSeqEmpty
    <2> QED
      BY <2>1, LinedFold, Lined!FoldEmpty DEF Between
  <1>2. ASSUME k < Len(lines)
        PROVE  Between(lines, h, k + 1) = AddLine(Between(lines, h, k), lines[k + 1])
    <2> DEFINE s == SubSeq(lines, h + 1, k)
               t == SubSeq(lines, h + 1, k + 1)
               x == lines[k + 1]
    <2>1. x \in Line
      BY <1>2
    <2>2. s \in Seq(Line) /\ t = Append(s, x)
      <3>1. \A i \in h + 1 .. k + 1 : lines[i] \in Line
        BY <1>2
      <3> QED
        BY <1>2, <3>1
    <2> HIDE DEF s, t, x
    <2>3. Lined!Fold(<<>>, Append(s, x)) = AddLine(Lined!Fold(<<>>, s), x)
      BY <2>1, <2>2, Lined!FoldAppend
    <2> QED
      BY <2>2, <2>3, LinedFold DEF Between, s, t, x
  <1> QED
    BY <1>1, <1>2

\* The columns of a card end where the next card begins, or the capture.
LEMMA SectionFacts ==
    ASSUME NEW lines \in Seq(Line), NEW h \in Nat \ {0}, NEW k \in Nat, h <= k, k <= Len(lines),
           \A i \in h + 1 .. k : i \notin Headers(lines),
           k = Len(lines) \/ k + 1 \in Headers(lines)
    PROVE  Section(lines, h) = Between(lines, h, k)
  <1> DEFINE S == {i \in Headers(lines) : i > h} \cup {Len(lines) + 1}
  <1>1. Len(lines) \in Nat /\ Headers(lines) \subseteq 1 .. Len(lines)
    BY DEF Headers
  <1>2. S \in SUBSET Nat /\ S # {}
    BY <1>1
  <1>3. k + 1 \in S
    OBVIOUS
  <1>4. \A i \in S : k + 1 <= i
    BY <1>1
  <1>5. Min(S) \in S /\ \A i \in S : Min(S) <= i
    <2> HIDE DEF S
    <2> QED
      BY <1>2, MinFacts
  <1>6. Min(S) = k + 1
    <2> DEFINE m == Min(S)
    <2>1. m \in S /\ m \in Nat /\ m <= k + 1 /\ k + 1 <= m
      <3> HIDE DEF S
      <3> QED
        BY <1>2, <1>3, <1>4, <1>5
    <2> HIDE DEF m
    <2>2. m = k + 1
      BY <2>1
    <2> QED
      BY <2>2 DEF m
  <1>7. Section(lines, h) = FoldLeft(AddLine, <<>>, SubSeq(lines, h + 1, Min(S) - 1))
    BY DEF Section
  <1>8. Min(S) - 1 = k
    BY <1>6
  <1> HIDE DEF S
  <1> QED
    BY <1>7, <1>8 DEF Between

LEMMA LastReplaced ==
    ASSUME NEW S, NEW q \in Seq(S), NEW c \in S, NEW d \in S,
           NEW a, a = Append(q, c), NEW m, m = Len(a)
    PROVE  [a EXCEPT ![m] = d] = Append(q, d)
  <1> DEFINE n == Len(q)
             x == [a EXCEPT ![m] = d]
             y == Append(q, d)
  <1>1. /\ n \in Nat /\ a \in Seq(S) /\ m = n + 1 /\ Len(a) = n + 1
        /\ \A i \in 1 .. n : a[i] = q[i]
    BY AppendAt
  <1>2. y \in Seq(S) /\ Len(y) = n + 1 /\ y[n + 1] = d /\ \A i \in 1 .. n : y[i] = q[i]
    BY AppendAt
  <1>3. x \in Seq(S) /\ Len(x) = n + 1 /\ x[n + 1] = d /\ \A i \in 1 .. n : x[i] = a[i]
    <2>1. a = [i \in 1 .. m |-> a[i]]
      BY <1>1, SeqIsFunction
    <2> DEFINE z == [i \in 1 .. m |-> IF i = m THEN d ELSE a[i]]
    <2>2. x = z
      <3> HIDE DEF n
      <3> QED
        BY <1>1, <2>1
    <2>3. \A i \in 1 .. m : a[i] \in S
      BY <1>1
    <2>4. z \in Seq(S) /\ Len(z) = m /\ z[m] = d /\ \A i \in 1 .. n : z[i] = a[i]
      <3>1. m \in Nat /\ m \in 1 .. m /\ \A i \in 1 .. n : i \in 1 .. m /\ i # m
        BY <1>1
      <3> HIDE DEF n
      <3> QED
        BY <2>3, <3>1
    <2> HIDE DEF z, x, n
    <2> QED
      BY <1>1, <2>2, <2>4
  <1> HIDE DEF n, x, y
  <1>4. ASSUME NEW i \in 1 .. n + 1 PROVE x[i] = y[i]
    <2>1. i = n + 1 \/ i \in 1 .. n
      BY <1>1
    <2> QED
      BY <1>1, <1>2, <1>3, <2>1
  <1>5. x = y
    BY <1>2, <1>3, <1>4, SeqEqual
  <1> QED
    BY <1>5 DEF x, y

\* The cards of a capture as the parser comes by them are those that are
\* headed by a header each.
LEMMA PunchedFacts ==
    ASSUME NEW lines \in Seq(Line)
    PROVE  FoldLeft(AddCard, <<>>, Parsed!Fold(<<>>, lines)) = Punched(lines)
  <1> DEFINE n == Len(lines)
             T == [i \in DOMAIN lines |->
                      IF i \in Headers(lines) THEN Section(lines, i) ELSE <<>>]
             S == Seq(Columns)
             Listing(cards) == FoldLeft(AddCard, <<>>, cards)
  <1>1. n \in Nat /\ DOMAIN lines = 1 .. n /\ DOMAIN T = 1 .. n /\ \A k \in 1 .. n : lines[k] \in Line
    OBVIOUS
  <1>2. PICK f : Parsed!Steps(f, <<>>, lines, n) /\ Parsed!Fold(<<>>, lines) = f[n]
    BY <1>1, Parsed!FoldSteps
  <1>3. PICK g : Listed!Steps(g, <<>>, T, n) /\ Listed!Fold(<<>>, T) = g[n]
    <2> HIDE DEF T, n
    <2> QED
      BY <1>1, Listed!FoldSteps
  <1>4. f[0] = <<>> /\ \A k \in 1 .. n : f[k] = ParseLine(f[k - 1], lines[k])
    BY <1>2 DEF Parsed!Steps
  <1>5. g[0] = <<>> /\ \A k \in 1 .. n : g[k] = AddCard(g[k - 1], T[k])
    <2> HIDE DEF T
    <2> QED
      BY <1>3 DEF Listed!Steps
  <1>6. \A k \in 1 .. n : (k \in Headers(lines) <=> lines[k].header)
    BY <1>1 DEF Headers
  <1>7. \A k \in 1 .. n : T[k] = IF k \in Headers(lines) THEN Section(lines, k) ELSE <<>>
    BY <1>1
  <1>8. \A cards \in Seq(S) : \A c \in S :
           Listing(Append(cards, c)) = AddCard(Listing(cards), c)
    <2> SUFFICES ASSUME NEW cards \in Seq(S), NEW c \in S
                 PROVE  Listing(Append(cards, c)) = AddCard(Listing(cards), c)
      OBVIOUS
    <2>1. Listed!Fold(<<>>, Append(cards, c)) = AddCard(Listed!Fold(<<>>, cards), c)
      <3> HIDE DEF S
      <3> QED
        BY Listed!FoldAppend
    <2> QED
      BY <2>1, ListedFold
  <1>9. Listing(<<>>) = <<>>
    BY ListedFold, Listed!FoldEmpty
  \* The card that is open: its header, and those in front of it.
  <1> DEFINE Open(h, q, k) ==
                 /\ h \in 1 .. k /\ h \in Headers(lines)
                 /\ \A i \in h + 1 .. k : i \notin Headers(lines)
                 /\ q \in Seq(S) /\ Between(lines, h, k) \in S
                 /\ f[k] = Append(q, Between(lines, h, k))
                 /\ Listing(q) = g[h - 1]
                 /\ g[k] = AddCard(g[h - 1], Section(lines, h))
             Known(k) == (f[k] = <<>> /\ g[k] = <<>>) \/ \E h, q : Open(h, q, k)
             K == {k \in Nat : k <= n => Known(k)}
  <1> HIDE DEF T, Listing, Open
  <1>10. 0 \in K
    BY <1>4, <1>5
  <1>11. ASSUME NEW k \in Nat, k \in K PROVE k + 1 \in K
    <2> SUFFICES ASSUME k + 1 <= n PROVE Known(k + 1)
      OBVIOUS
    <2> DEFINE l == k + 1
               line == lines[l]
    <2>1. l \in 1 .. n /\ l - 1 = k /\ k <= n /\ k < n /\ l \in Nat \ {0}
      BY <1>1
    <2>2. Known(k)
      <3> HIDE DEF Known
      <3> QED
        BY <1>11, <2>1
    <2>3. line \in Line /\ f[l] = ParseLine(f[k], line) /\ g[l] = AddCard(g[k], T[l])
      BY <1>1, <1>4, <1>5, <2>1
    <2> HIDE DEF Known, K, n
    <2>4. CASE l \in Headers(lines)
      <3>1. line.header /\ T[l] = Section(lines, l)
        BY <1>6, <1>7, <2>1, <2>4
      <3>2. f[l] = Append(f[k], <<>>)
        BY <2>3, <3>1 DEF ParseLine
      <3>3. Between(lines, l, l) = <<>> /\ <<>> \in S
        BY <2>1, BetweenFacts
      <3>4. f[k] \in Seq(S) /\ Listing(f[k]) = g[k]
        <4>1. CASE f[k] = <<>> /\ g[k] = <<>>
          BY <1>9, <4>1
        <4>2. CASE \E h, q : Open(h, q, k)
          <5>1. PICK h, q : Open(h, q, k)
            BY <4>2
          <5>2. h \in Nat \ {0} /\ h <= k /\ \A i \in h + 1 .. k : i \notin Headers(lines)
            BY <5>1 DEF Open
          <5>3. Section(lines, h) = Between(lines, h, k)
            BY <2>1, <2>4, <5>2, SectionFacts DEF n
          <5>4. q \in Seq(S) /\ Between(lines, h, k) \in S
            BY <5>1 DEF Open
          <5> DEFINE c == Between(lines, h, k)
          <5>5. f[k] = Append(q, c) /\ Listing(q) = g[h - 1] /\ g[k] = AddCard(g[h - 1], c)
            BY <5>1, <5>3 DEF Open
          <5> HIDE DEF c, S
          <5>6. Listing(Append(q, c)) = AddCard(Listing(q), c)
            BY <1>8, <5>4 DEF c
          <5>7. Append(q, c) \in Seq(S)
            BY <5>4 DEF c
          <5> QED
            BY <5>5, <5>6, <5>7
        <4> QED
          BY <2>2, <4>1, <4>2 DEF Known
      <3>5. g[l] = AddCard(g[k], Section(lines, l))
        BY <2>3, <3>1
      <3>6. Open(l, f[k], l)
        <4> HIDE DEF S
        <4>1. l \in 1 .. l /\ \A i \in l + 1 .. l : i \notin Headers(lines)
          BY <2>1
        <4>2. g[l - 1] = g[k]
          BY <2>1
        <4> HIDE DEF l
        <4> QED
          BY <2>4, <3>2, <3>3, <3>4, <3>5, <4>1, <4>2 DEF Open
      <3> QED
        BY <3>6 DEF Known
    <2>5. CASE l \notin Headers(lines)
      <3>1. ~line.header /\ T[l] = <<>>
        BY <1>6, <1>7, <2>1, <2>5
      <3>2. g[l] = g[k]
        BY <2>3, <3>1 DEF AddCard
      <3>3. CASE f[k] = <<>> /\ g[k] = <<>>
        BY <2>3, <3>1, <3>2, <3>3 DEF ParseLine, Known
      <3>4. CASE \E h, q : Open(h, q, k)
        <4>1. PICK h, q : Open(h, q, k)
          BY <3>4
        <4> DEFINE c == Between(lines, h, k)
                   d == AddLine(c, line)
        <4>2. /\ h \in 1 .. k /\ h \in Nat /\ h <= k /\ q \in Seq(S) /\ c \in S
              /\ f[k] = Append(q, c)
          BY <4>1 DEF Open
        <4>3. Between(lines, h, l) = d
          BY <2>1, <4>2, BetweenFacts DEF n
        <4>4. d \in S
          BY <2>3, <4>2, AddLineFacts
        <4>5. f[l] = Append(q, d)
          <5> DEFINE a == f[k]
                     m == Len(a)
          <5>1. a = Append(q, c)
            BY <4>2
          <5>2. f[l] = IF a = <<>> THEN <<>> ELSE [a EXCEPT ![m] = AddLine(a[m], line)]
            BY <2>3, <3>1 DEF ParseLine
          <5> HIDE DEF a, c, S, line, l
          <5>3. a # <<>> /\ a[m] = c
            BY <4>2, <5>1
          <5>4. f[l] = [a EXCEPT ![m] = d]
            BY <5>2, <5>3
          <5>6. m = Len(a)
            OBVIOUS
          <5>7. q \in Seq(S) /\ c \in S
            BY <4>2
          <5> HIDE DEF d, m
          <5>5. [a EXCEPT ![m] = d] = Append(q, d)
            BY <4>4, <5>1, <5>6, <5>7, LastReplaced
          <5> QED
            BY <5>4, <5>5
        <4>6. \A i \in h + 1 .. l : i \notin Headers(lines)
          <5>1. ASSUME NEW i \in h + 1 .. l PROVE i \notin Headers(lines)
            <6>1. i = l \/ i \in h + 1 .. k
              BY <4>2
            <6> QED
              BY <2>5, <4>1, <6>1 DEF Open
          <5> QED
            BY <5>1
        <4>7. h \in 1 .. l
          BY <4>2
        <4>8. Open(h, q, l)
          <5>1. /\ h \in Headers(lines) /\ Listing(q) = g[h - 1]
                /\ g[k] = AddCard(g[h - 1], Section(lines, h))
            BY <4>1 DEF Open
          <5> HIDE DEF l, d, S
          <5> QED
            BY <3>2, <4>2, <4>3, <4>4, <4>5, <4>6, <4>7, <5>1 DEF Open
        <4> QED
          BY <4>8 DEF Known
      <3> QED
        BY <2>2, <3>3, <3>4 DEF Known
    <2> QED
      BY <2>4, <2>5
  <1>12. Known(n)
    <2>1. n \in K
      <3> HIDE DEF K, n
      <3> QED
        BY <1>1, <1>10, <1>11, Tokens!Induction
    <2> QED
      BY <2>1
  <1>13. Listing(f[n]) = g[n]
    <2>1. CASE f[n] = <<>> /\ g[n] = <<>>
      BY <1>9, <2>1
    <2>2. CASE \E h, q : Open(h, q, n)
      <3>1. PICK h, q : Open(h, q, n)
        BY <2>2
      <3>2. h \in Nat \ {0} /\ h <= n /\ \A i \in h + 1 .. n : i \notin Headers(lines)
        BY <1>1, <3>1 DEF Open
      <3>3. Section(lines, h) = Between(lines, h, n)
        BY <1>1, <3>2, SectionFacts
      <3> DEFINE c == Between(lines, h, n)
      <3>4. /\ q \in Seq(S) /\ c \in S
            /\ f[n] = Append(q, c) /\ Listing(q) = g[h - 1] /\ g[n] = AddCard(g[h - 1], c)
        BY <3>1, <3>3 DEF Open
      <3> HIDE DEF c, S, n
      <3>5. Listing(Append(q, c)) = AddCard(Listing(q), c)
        BY <1>8, <3>4
      <3> QED
        BY <3>4, <3>5
    <2> QED
      BY <1>12, <2>1, <2>2
  <1>14. Punched(lines) = g[n]
    BY <1>3, ListedFold DEF Punched, T
  <1> QED
    BY <1>2, <1>13, <1>14 DEF Listing

----------------------------------------------------------------------------
(* Synthesis.                                                              *)

LEMMA PutFilled ==
    ASSUME NEW img, ImgOK(img), AllFilled(img), NEW columns \in Seq(Columns), columns # <<>>,
           NCards(img) < MaxCards, NextOff(img) + Len(columns) <= MaxCols,
           NEW put, put = Put(img, columns)
    PROVE  AllFilled(put)
  <1> DEFINE m == NCards(img)
             e == [off |-> NextOff(img), ncols |-> Len(columns)]
             t == put.idx
             old == img.idx
  <1>1. t = Append(old, e) /\ NCards(put) = m + 1
    BY PutFacts
  <1>2. m \in Nat /\ NextOff(img) \in Nat /\ old \in Seq(EntrySet) /\ m = Len(old)
    BY NextOffFacts DEF ImgOK, ImageSet, NCards
  <1>3. e \in EntrySet /\ e.ncols > 0
    BY <1>2 DEF EntrySet
  <1>4. \A i \in 1 .. m : old[i].ncols > 0
    BY DEF AllFilled
  <1> HIDE DEF t, old, m, e
  <1>5. t[m + 1] = e /\ \A i \in 1 .. m : t[i] = old[i]
    BY <1>1, <1>2, <1>3, AppendAt
  <1>6. ASSUME NEW i \in 1 .. m + 1 PROVE t[i].ncols > 0
    <2>1. i = m + 1 \/ i \in 1 .. m
      BY <1>2
    <2> QED
      BY <1>3, <1>4, <1>5, <2>1
  <1> QED
    BY <1>1, <1>6 DEF AllFilled, t

\* The bits of a byte, as holes.
LEMMA ByteToColType == \A byte : ByteToCol(byte) \in Columns
  <1> SUFFICES ASSUME NEW byte, NEW i \in 0 .. 7 PROVE B2R[i + 1] \in 0 .. 12
    BY DEF ByteToCol, Columns
  <1> QED
    BY DEF B2R

LEMMA NibbleToHexColType == \A n \in 0 .. 15 : NibbleToHexCol(n) \in Columns
  BY DEF NibbleToHexCol, Columns

LEMMA CardFromFacts ==
    ASSUME NEW k \in Nat, NEW columns \in Seq(Columns), NEW card, card = CardFrom(k, columns)
    PROVE  /\ card \in Seq(Columns) /\ Len(card) = CardCols /\ card # <<>>
           /\ \A i \in 1 .. CardCols :
                 card[i] = IF i - 1 \in k .. k + Len(columns) - 1 THEN columns[i - k] ELSE {}
  <1> DEFINE n == CardCols
             x(i) == IF i - 1 \in k .. k + Len(columns) - 1 THEN columns[i - k] ELSE {}
  <1>1. n \in Nat /\ n > 0
    BY SizeFacts
  <1>2. ASSUME NEW i \in 1 .. n PROVE x(i) \in Columns
    <2>1. CASE i - 1 \in k .. k + Len(columns) - 1
      <3>1. i - k \in 1 .. Len(columns)
        BY <1>1, <2>1
      <3> QED
        BY <2>1, <3>1
    <2>2. CASE ~(i - 1 \in k .. k + Len(columns) - 1)
      BY <2>2 DEF Columns
    <2> QED
      BY <2>1, <2>2
  <1>3. card = [i \in 1 .. n |-> x(i)]
    BY DEF CardFrom
  <1> HIDE DEF n, x
  <1>4. card \in Seq(Columns) /\ Len(card) = n /\ card # <<>> /\ \A i \in 1 .. n : card[i] = x(i)
    <2>1. card \in Seq(Columns) /\ Len(card) = n /\ \A i \in 1 .. n : card[i] = x(i)
      BY <1>1, <1>2, <1>3
    <2> QED
      BY <1>1, <2>1
  <1> QED
    BY <1>4 DEF n, x

Byte == 0 .. 255

LEMMA ScatterCardType ==
    ASSUME NEW addr, NEW payload \in Seq(Byte)
    PROVE  /\ ScatterCard(addr, payload) \in Seq(Columns)
           /\ Len(ScatterCard(addr, payload)) = CardCols /\ ScatterCard(addr, payload) # <<>>
  <1> DEFINE n == 3 + Len(payload)
             b(i) == CASE i = 1 -> Len(payload) - 1
                       [] i = 2 -> addr \div 256
                       [] i = 3 -> addr % 256
                       [] OTHER -> payload[i - 3]
             columns == [i \in 1 .. n |-> ByteToCol(b(i))]
  <1>1. n \in Nat
    OBVIOUS
  <1>2. columns \in Seq(Columns)
    <2> HIDE DEF n, b
    <2> QED
      BY <1>1, ByteToColType
  <1>3. ScatterCard(addr, payload) = CardFrom(8, columns)
    BY DEF ScatterCard
  <1> HIDE DEF columns
  <1> QED
    BY <1>2, <1>3, CardFromFacts

\* A builder between two of its operations.
BuilderSet == [img : ImageSet, addr : Nat, buf : Seq(Byte), error : {-1, 0}]

Building(b) ==
    /\ b \in BuilderSet /\ ImgOK(b.img) /\ AllFilled(b.img)
    /\ Len(b.buf) <= Chunk /\ (b.error = 0 => Len(b.buf) < Chunk)

LEMMA RoomFacts ==
    ASSUME NEW img, ImgOK(img), AllFilled(img), CanAppendCols(img),
           NEW card \in Seq(Columns), Len(card) = CardCols, card # <<>>,
           NEW put, put = Put(img, card)
    PROVE  /\ ImgOK(put) /\ AllFilled(put) /\ put.loader_card = img.loader_card
           /\ NCards(put) = NCards(img) + 1
           /\ CardsOf(put) = Append(CardsOf(img), card)
  <1>1. NCards(img) < MaxCards /\ NextOff(img) + Len(card) <= MaxCols
    BY DEF CanAppendCols
  <1> QED
    BY <1>1, PutFacts, PutFilled

\* The mark of the loader is not part of a deck's cards.
LEMMA MarkedFacts ==
    ASSUME NEW img, ImgOK(img), NEW c \in Int, NEW q, q = [img EXCEPT !.loader_card = c]
    PROVE  /\ ImgOK(q) /\ (AllFilled(img) => AllFilled(q)) /\ NCards(q) = NCards(img)
           /\ q.loader_card = c /\ CardsOf(q) = CardsOf(img)
  <1>1. img \in ImageSet
    BY DEF ImgOK
  <1>2. q = [idx |-> img.idx, cols |-> img.cols, loader_card |-> c]
    BY <1>1 DEF ImageSet
  <1>3. q.idx = img.idx /\ q.cols = img.cols /\ q.loader_card = c
    BY <1>2
  <1>4. q \in ImageSet
    BY <1>1, <1>2 DEF ImageSet
  <1>5. NCards(q) = NCards(img) /\ NextOff(q) = NextOff(img)
    BY <1>3 DEF NCards, NextOff
  <1>6. \A i : CardOf(q, i) = CardOf(img, i)
    BY <1>3 DEF CardOf
  <1>7. CardsOf(q) = CardsOf(img)
    BY <1>5, <1>6 DEF CardsOf
  <1> QED
    BY <1>3, <1>4, <1>5, <1>7 DEF ImgOK, AllFilled

LEMMA FlushFacts ==
    ASSUME NEW b \in BuilderSet, ImgOK(b.img), AllFilled(b.img), Len(b.buf) <= Chunk,
           NEW q, q = FlushCard(b)
    PROVE  /\ Building(q) \/ (q = b /\ b.error = -1)
           /\ q.img.loader_card = b.img.loader_card
           /\ NCards(q.img) >= NCards(b.img)
           /\ q.error = 0 =>
                 /\ b.error = 0 /\ q.buf = <<>>
                 /\ b.buf = <<>> => q = b
                 /\ b.buf # <<>> =>
                       /\ b.addr + Len(b.buf) <= AddressSpace
                       /\ q.addr = b.addr + Len(b.buf)
                       /\ CardsOf(q.img) = Append(CardsOf(b.img), ScatterCard(b.addr, b.buf))
  <1> DEFINE card == ScatterCard(b.addr, b.buf)
             put == Put(b.img, card)
  <1>1. /\ b.img \in ImageSet /\ b.addr \in Nat /\ b.buf \in Seq(Byte) /\ b.error \in {-1, 0}
        /\ NCards(b.img) \in Nat /\ Chunk \in Nat \ {0} /\ AddressSpace \in Nat
        /\ Len(b.buf) \in Nat
    BY NextOffFacts, SizeFacts DEF BuilderSet
  <1>2. b = [img |-> b.img, addr |-> b.addr, buf |-> b.buf, error |-> b.error]
    BY DEF BuilderSet
  <1>3. CASE b.buf = <<>> \/ b.error # 0
    <2>1. q = b
      BY <1>3 DEF FlushCard
    <2>2. CASE b.error # 0
      BY <1>1, <2>1, <2>2
    <2>3. CASE b.error = 0
      <3>1. b.buf = <<>> /\ Len(b.buf) = 0
        BY <1>1, <1>3, <2>3
      <3> QED
        BY <1>1, <2>1, <2>3, <3>1 DEF Building
    <2> QED
      BY <2>2, <2>3
  <1>4. CASE ~(b.buf = <<>> \/ b.error # 0) /\ (b.addr + Len(b.buf) > AddressSpace \/ ~CanAppendCols(b.img))
    <2>1. q = [b EXCEPT !.error = -1]
      BY <1>4 DEF FlushCard
    <2>2. q = [img |-> b.img, addr |-> b.addr, buf |-> b.buf, error |-> -1]
      BY <1>2, <2>1
    <2>3. q \in BuilderSet
      BY <1>1, <2>2 DEF BuilderSet
    <2> QED
      BY <1>1, <2>2, <2>3 DEF Building
  <1>5. CASE ~(b.buf = <<>> \/ b.error # 0) /\ ~(b.addr + Len(b.buf) > AddressSpace \/ ~CanAppendCols(b.img))
    <2>1. q = [b EXCEPT !.img = put, !.addr = b.addr + Len(b.buf), !.buf = <<>>]
      BY <1>5 DEF FlushCard
    <2>2. /\ ImgOK(put) /\ AllFilled(put) /\ put.loader_card = b.img.loader_card
          /\ NCards(put) = NCards(b.img) + 1
          /\ CardsOf(put) = Append(CardsOf(b.img), card)
      <3>1. card \in Seq(Columns) /\ Len(card) = CardCols /\ card # <<>>
        BY <1>1, ScatterCardType
      <3> HIDE DEF card
      <3> QED
        BY <1>5, <3>1, RoomFacts
    <2> HIDE DEF put, card
    <2>3. q = [img |-> put, addr |-> b.addr + Len(b.buf), buf |-> <<>>, error |-> 0]
      BY <1>1, <1>2, <1>5, <2>1
    <2>4. q \in BuilderSet
      <3>1. put \in ImageSet /\ b.addr + Len(b.buf) \in Nat /\ <<>> \in Seq(Byte)
        BY <1>1, <2>2 DEF ImgOK
      <3> QED
        BY <2>3, <3>1 DEF BuilderSet
    <2>5. Len(<<>>) = 0
      OBVIOUS
    <2>6. Building(q)
      BY <1>1, <2>2, <2>3, <2>4, <2>5 DEF Building
    <2> QED
      BY <1>1, <1>5, <2>2, <2>3, <2>6 DEF card
  <1> QED
    BY <1>3, <1>4, <1>5

LEMMA FeedByteFacts ==
    ASSUME NEW b, Building(b), NEW byte \in Byte, NEW q, q = FeedByte(b, byte)
    PROVE  /\ Building(q) /\ q.img.loader_card = b.img.loader_card
           /\ NCards(q.img) >= NCards(b.img)
           /\ q.error = 0 =>
                 LET buf == Append(b.buf, byte) IN
                 /\ b.error = 0
                 /\ \/ /\ q.img = b.img /\ q.addr = b.addr /\ q.buf = buf
                    \/ /\ b.addr + Len(buf) <= AddressSpace
                       /\ q.addr = b.addr + Len(buf) /\ q.buf = <<>>
                       /\ CardsOf(q.img) = Append(CardsOf(b.img), ScatterCard(b.addr, buf))
  <1> DEFINE buf == Append(b.buf, byte)
             fed == [b EXCEPT !.buf = buf]
  <1>1. /\ b \in BuilderSet /\ b.img \in ImageSet /\ b.addr \in Nat /\ b.buf \in Seq(Byte)
        /\ b.error \in {-1, 0} /\ NCards(b.img) \in Nat /\ Chunk \in Nat \ {0}
        /\ Len(b.buf) \in Nat
    BY NextOffFacts, SizeFacts DEF BuilderSet, Building
  <1>2. fed = [img |-> b.img, addr |-> b.addr, buf |-> buf, error |-> b.error]
    <2> HIDE DEF buf
    <2> QED
      BY <1>1 DEF BuilderSet
  <1>3. buf \in Seq(Byte) /\ Len(buf) = Len(b.buf) + 1 /\ buf # <<>>
    BY <1>1
  <1>4. CASE b.error # 0
    BY <1>1, <1>4 DEF FeedByte
  <1>5. CASE b.error = 0 /\ Len(buf) # Chunk
    <2>1. q = fed
      BY <1>5 DEF FeedByte
    <2>2. Len(buf) < Chunk
      BY <1>1, <1>3, <1>5 DEF Building
    <2> HIDE DEF buf, fed
    <2>3. q \in BuilderSet
      BY <1>1, <1>2, <1>3, <2>1 DEF BuilderSet
    <2>4. Building(q)
      BY <1>1, <1>2, <1>3, <1>5, <2>1, <2>2, <2>3 DEF Building
    <2> QED
      BY <1>1, <1>2, <1>5, <2>1, <2>4 DEF buf
  <1>6. CASE b.error = 0 /\ Len(buf) = Chunk
    <2>1. q = FlushCard(fed)
      BY <1>2, <1>6 DEF FeedByte
    <2> HIDE DEF buf, fed
    <2>2. /\ fed \in BuilderSet /\ fed.img = b.img /\ fed.buf = buf /\ fed.addr = b.addr
          /\ fed.error = 0 /\ Len(fed.buf) <= Chunk
      BY <1>1, <1>2, <1>3, <1>6 DEF BuilderSet
    <2>3. /\ Building(q) \/ (q = fed /\ fed.error = -1)
          /\ q.img.loader_card = fed.img.loader_card
          /\ NCards(q.img) >= NCards(fed.img)
          /\ q.error = 0 =>
                /\ q.buf = <<>>
                /\ fed.buf # <<>> =>
                      /\ fed.addr + Len(fed.buf) <= AddressSpace
                      /\ q.addr = fed.addr + Len(fed.buf)
                      /\ CardsOf(q.img) = Append(CardsOf(fed.img), ScatterCard(fed.addr, fed.buf))
      BY <2>1, <2>2, FlushFacts DEF Building
    <2> QED
      BY <1>3, <1>6, <2>2, <2>3 DEF buf
  <1> QED
    BY <1>4, <1>5, <1>6

LEMMA BeginFacts ==
    ASSUME NEW base \in Nat, NEW q, q = Bin2DeckBegin(base)
    PROVE  /\ Building(q) /\ q.error = 0 /\ q.buf = <<>> /\ q.addr = base
           /\ NCards(q.img) = 1 /\ q.img.loader_card = 0
           /\ CardsOf(q.img) = <<LoaderCols>>
  <1> DEFINE put == Put(EmptyDeck, LoaderCols)
             img == [put EXCEPT !.loader_card = 0]
  <1>1. /\ ImgOK(EmptyDeck) /\ NCards(EmptyDeck) = 0 /\ NextOff(EmptyDeck) = 0
        /\ CardsOf(EmptyDeck) = <<>>
    BY EmptyDeckFacts
  <1>2. LoaderCols \in Seq(Columns) /\ Len(LoaderCols) = CardCols /\ LoaderCols # <<>>
    BY SizeFacts, DeckAssumption
  <1>3. CanAppendCols(EmptyDeck) /\ AllFilled(EmptyDeck)
    BY <1>1, SizeFacts DEF CanAppendCols, AllFilled
  <1>4. /\ ImgOK(put) /\ AllFilled(put) /\ NCards(put) = 1
        /\ CardsOf(put) = Append(<<>>, LoaderCols)
    <2> DEFINE card == LoaderCols
               none == EmptyDeck
    <2>1. put = Put(none, card) /\ CardsOf(none) = <<>> /\ NCards(none) = 0
      BY <1>1
    <2>2. ImgOK(none) /\ AllFilled(none) /\ CanAppendCols(none)
      BY <1>1, <1>3
    <2>3. card \in Seq(Columns) /\ Len(card) = CardCols /\ card # <<>>
      BY <1>2
    <2> HIDE DEF put, card, none
    <2>4. /\ ImgOK(put) /\ AllFilled(put) /\ NCards(put) = NCards(none) + 1
          /\ CardsOf(put) = Append(CardsOf(none), card)
      BY <2>1, <2>2, <2>3, RoomFacts
    <2> QED
      BY <2>1, <2>4 DEF card
  <1> HIDE DEF put
  <1>5. /\ ImgOK(img) /\ AllFilled(img) /\ NCards(img) = 1 /\ img.loader_card = 0
        /\ CardsOf(img) = <<LoaderCols>>
    BY <1>4, MarkedFacts
  <1> HIDE DEF img
  <1>6. q = [img |-> img, addr |-> base, buf |-> <<>>, error |-> 0]
    BY DEF Bin2DeckBegin, img, put
  <1>7. q \in BuilderSet /\ Len(<<>>) = 0
    BY <1>5, <1>6 DEF BuilderSet, ImgOK
  <1> QED
    BY <1>5, <1>6, <1>7, SizeFacts DEF Building

\* The byte a nibble belongs to, and what half of it.
LEMMA HalfFacts ==
    ASSUME NEW m \in Nat, NEW i \in 1 .. 2 * m
    PROVE  /\ i % 2 = 1 => (i + 1) \div 2 \in 1 .. m
           /\ i % 2 # 1 => i \div 2 \in 1 .. m
  OBVIOUS

LEMMA NibbleFacts ==
    ASSUME NEW byte \in Nat, byte <= 255
    PROVE  byte \div 16 \in 0 .. 15 /\ byte % 16 \in 0 .. 15
  OBVIOUS

NibbleOf(bytes, i) ==
    IF i % 2 = 1 THEN bytes[(i + 1) \div 2] \div 16 ELSE bytes[i \div 2] % 16

LEMMA ByteFacts == \A x \in Byte : x \in Nat /\ x <= 255
  BY DEF Byte

LEMMA NibbleOfType ==
    ASSUME NEW bytes \in Seq(Byte), NEW i \in 1 .. 2 * Len(bytes)
    PROVE  NibbleOf(bytes, i) \in 0 .. 15
  <1> DEFINE j == (i + 1) \div 2
             k == i \div 2
             m == Len(bytes)
  <1>1. m \in Nat /\ i \in 1 .. 2 * m /\ \A l \in 1 .. m : bytes[l] \in Nat /\ bytes[l] <= 255
    <2>1. m \in Nat /\ i \in 1 .. 2 * m /\ \A l \in 1 .. m : bytes[l] \in Byte
      OBVIOUS
    <2> HIDE DEF m
    <2> QED
      BY <2>1, ByteFacts
  <1>2. (i % 2 = 1 => j \in 1 .. m) /\ (i % 2 # 1 => k \in 1 .. m)
    <2> HIDE DEF m
    <2> QED
      BY <1>1, HalfFacts
  <1>3. NibbleOf(bytes, i) = IF i % 2 = 1 THEN bytes[j] \div 16 ELSE bytes[k] % 16
    BY DEF NibbleOf
  <1> HIDE DEF j, k, m
  <1>4. i % 2 = 1 => bytes[j] \div 16 \in 0 .. 15
    BY <1>1, <1>2, NibbleFacts
  <1>5. i % 2 # 1 => bytes[k] % 16 \in 0 .. 15
    BY <1>1, <1>2, NibbleFacts
  <1> QED
    BY <1>3, <1>4, <1>5

LEMMA IplFacts ==
    ASSUME NEW bytes \in Seq(Byte), IplOk(bytes), NEW q, q = Bin2DeckIpl(bytes),
           NEW nibbles,
           nibbles = [i \in 1 .. 2 * Len(bytes) |-> NibbleToHexCol(NibbleOf(bytes, i))]
    PROVE  /\ ImgOK(q) /\ AllFilled(q) /\ NCards(q) = 1 /\ q.loader_card = 0
           /\ nibbles \in Seq(Columns) /\ Len(nibbles) = 2 * Len(bytes)
           /\ CardsOf(q) = <<CardFrom(0, nibbles)>>
  <1> DEFINE n == 2 * Len(bytes)
             card == CardFrom(0, nibbles)
             put == Put(EmptyDeck, card)
  <1>1. n \in Nat
    OBVIOUS
  <1>2. nibbles \in Seq(Columns) /\ Len(nibbles) = n
    <2>1. nibbles = [i \in 1 .. n |-> nibbles[i]]
      OBVIOUS
    <2>2. \A i \in 1 .. n : nibbles[i] \in Columns
      BY NibbleOfType, NibbleToHexColType
    <2> DEFINE S == Columns
               x(i) == nibbles[i]
    <2>3. nibbles = [i \in 1 .. n |-> x(i)] /\ \A i \in 1 .. n : x(i) \in S
      BY <2>1, <2>2
    <2> HIDE DEF n, S, x
    <2>4. nibbles \in Seq(S) /\ Len(nibbles) = n
      BY <1>1, <2>3
    <2> QED
      BY <2>4 DEF S
  <1>3. card \in Seq(Columns) /\ Len(card) = CardCols /\ card # <<>>
    BY <1>2, CardFromFacts
  <1>4. /\ ImgOK(EmptyDeck) /\ NCards(EmptyDeck) = 0 /\ NextOff(EmptyDeck) = 0
        /\ CardsOf(EmptyDeck) = <<>>
    BY EmptyDeckFacts
  <1>5. CanAppendCols(EmptyDeck) /\ AllFilled(EmptyDeck)
    BY <1>4, SizeFacts DEF CanAppendCols, AllFilled
  <1> HIDE DEF card
  <1>6. /\ ImgOK(put) /\ AllFilled(put) /\ NCards(put) = 1
        /\ CardsOf(put) = Append(<<>>, card)
    <2> DEFINE none == EmptyDeck
    <2>1. put = Put(none, card) /\ CardsOf(none) = <<>> /\ NCards(none) = 0
      BY <1>4
    <2>2. ImgOK(none) /\ AllFilled(none) /\ CanAppendCols(none)
      BY <1>4, <1>5
    <2> HIDE DEF put, none
    <2>3. /\ ImgOK(put) /\ AllFilled(put) /\ NCards(put) = NCards(none) + 1
          /\ CardsOf(put) = Append(CardsOf(none), card)
      BY <1>3, <2>1, <2>2, RoomFacts
    <2> QED
      BY <2>1, <2>3
  <1>7. q = [put EXCEPT !.loader_card = 0]
    BY DEF Bin2DeckIpl, card, NibbleOf
  <1> HIDE DEF put
  <1>8. /\ ImgOK(q) /\ AllFilled(q) /\ NCards(q) = 1 /\ q.loader_card = 0
        /\ CardsOf(q) = <<card>>
    <2> HIDE DEF n
    <2>1. 0 \in Int
      OBVIOUS
    <2>2. /\ ImgOK(q) /\ (AllFilled(put) => AllFilled(q)) /\ NCards(q) = NCards(put)
          /\ q.loader_card = 0 /\ CardsOf(q) = CardsOf(put)
      BY <1>6, <1>7, <2>1, MarkedFacts
    <2> QED
      BY <1>6, <2>2
  <1> QED
    BY <1>2, <1>8 DEF card

LEMMA AddressFacts ==
    ASSUME NEW a \in Nat, a < 65536
    PROVE  /\ a \div 256 \in Byte /\ a % 256 \in Byte
           /\ (a \div 256) * 256 + (a % 256) = a
  <1>1. a \div 256 \in Nat /\ a \div 256 <= 255 /\ a % 256 \in Nat /\ a % 256 <= 255
    OBVIOUS
  <1>2. (a \div 256) * 256 + (a % 256) = a
    OBVIOUS
  <1> QED
    BY <1>1, <1>2 DEF Byte

LEMMA TerminationFacts ==
    ASSUME NEW entry \in Nat, entry < 65536
    PROVE  Termination(entry) \in Seq(Byte) /\ Len(Termination(entry)) = 8
  <1>1. entry \div 256 \in Byte /\ entry % 256 \in Byte
    BY AddressFacts
  <1>2. {0, 7, 67, 240} \subseteq Byte
    BY DEF Byte
  <1> DEFINE hi == entry \div 256
             lo == entry % 256
  <1>3. Termination(entry) = <<7, 0, 7, 0, 67, 240, hi, lo>>
    BY DEF Termination
  <1> HIDE DEF hi, lo
  <1> QED
    BY <1>1, <1>2, <1>3 DEF hi, lo

LEMMA EndFacts ==
    ASSUME NEW b, Building(b), NEW entry \in Nat, entry < 65536, NEW q, q = Bin2DeckEnd(b, entry)
    PROVE  /\ q \in BuilderSet /\ ImgOK(q.img) /\ AllFilled(q.img) /\ Len(q.buf) <= Chunk
           /\ q.img.loader_card = b.img.loader_card
           /\ NCards(q.img) >= NCards(b.img)
           /\ q.error = 0 =>
                 LET flushed == FlushCard(b) IN
                 /\ flushed.error = 0 /\ q.buf = <<>>
                 /\ ImgOK(flushed.img) /\ NCards(flushed.img) >= NCards(b.img)
                 /\ CardsOf(q.img) = Append(CardsOf(flushed.img), ScatterCard(0, Termination(entry)))
  <1> DEFINE f == FlushCard(b)
             card == ScatterCard(0, Termination(entry))
             put == Put(f.img, card)
  <1>1. b \in BuilderSet /\ ImgOK(b.img) /\ AllFilled(b.img) /\ Len(b.buf) <= Chunk
    BY DEF Building
  <1>2. /\ Building(f) \/ (f = b /\ b.error = -1)
        /\ f.img.loader_card = b.img.loader_card
        /\ NCards(f.img) >= NCards(b.img)
        /\ f.error = 0 => f.buf = <<>>
    BY <1>1, FlushFacts
  <1>3. /\ f \in BuilderSet /\ ImgOK(f.img) /\ AllFilled(f.img) /\ Len(f.buf) <= Chunk
        /\ NCards(f.img) \in Nat /\ NCards(b.img) \in Nat
    BY <1>1, <1>2, NextOffFacts DEF Building
  <1>4. card \in Seq(Columns) /\ Len(card) = CardCols /\ card # <<>>
    BY TerminationFacts, ScatterCardType
  <1>5. f = [img |-> f.img, addr |-> f.addr, buf |-> f.buf, error |-> f.error]
    BY <1>3 DEF BuilderSet
  <1>6. q = IF f.error # 0 \/ ~CanAppendCols(f.img) THEN [f EXCEPT !.error = -1]
            ELSE [f EXCEPT !.img = put]
    BY DEF Bin2DeckEnd
  <1> HIDE DEF f, card
  <1>7. CASE f.error # 0 \/ ~CanAppendCols(f.img)
    <2>1. q = [img |-> f.img, addr |-> f.addr, buf |-> f.buf, error |-> -1]
      BY <1>5, <1>6, <1>7
    <2>2. q \in BuilderSet
      BY <1>3, <2>1 DEF BuilderSet
    <2> QED
      BY <1>2, <1>3, <2>1, <2>2
  <1>8. CASE ~(f.error # 0 \/ ~CanAppendCols(f.img))
    <2>1. /\ ImgOK(put) /\ AllFilled(put) /\ put.loader_card = f.img.loader_card
          /\ NCards(put) = NCards(f.img) + 1
          /\ CardsOf(put) = Append(CardsOf(f.img), card)
      BY <1>3, <1>4, <1>8, RoomFacts
    <2> HIDE DEF put
    <2>2. q = [img |-> put, addr |-> f.addr, buf |-> f.buf, error |-> 0]
      BY <1>5, <1>6, <1>8
    <2>3. q \in BuilderSet
      BY <1>3, <2>1, <2>2 DEF BuilderSet, ImgOK
    <2> QED
      BY <1>2, <1>3, <1>8, <2>1, <2>2, <2>3 DEF f, card
  <1> QED
    BY <1>7, <1>8

----------------------------------------------------------------------------
(* The decoders take back what the encoders punch.                         *)

LEMMA PowerFacts ==
    /\ 2^0 = 1 /\ 2^1 = 2 /\ 2^2 = 4 /\ 2^3 = 8 /\ 2^4 = 16 /\ 2^5 = 32 /\ 2^6 = 64 /\ 2^7 = 128
  OBVIOUS

Power(i) == 2^i

\* The powers in a set of bits, summed up.
Part(s, i) == IF i \in s THEN Power(i) ELSE 0

Value(s) == Part(s, 0) + Part(s, 1) + Part(s, 2) + Part(s, 3)
            + Part(s, 4) + Part(s, 5) + Part(s, 6) + Part(s, 7)

LEMMA PowerType == \A i \in 0 .. 7 : Power(i) \in Nat /\ Power(i) > 0
  <1>1. ASSUME NEW i \in 0 .. 7 PROVE Power(i) \in Nat /\ Power(i) > 0
    <2>1. i \in {0, 1, 2, 3, 4, 5, 6, 7}
      OBVIOUS
    <2>2. /\ Power(0) = 1 /\ Power(1) = 2 /\ Power(2) = 4 /\ Power(3) = 8
          /\ Power(4) = 16 /\ Power(5) = 32 /\ Power(6) = 64 /\ Power(7) = 128
      BY PowerFacts DEF Power
    <2> QED
      BY <2>1, <2>2
  <1> QED
    BY <1>1

LEMMA ValueFacts ==
    ASSUME NEW s \in SUBSET (0 .. 7)
    PROVE  /\ Value(s) \in Nat /\ (s = {} => Value(s) = 0)
           /\ \A x \in s : Value(s) = Power(x) + Value(s \ {x})
  <1>1. \A t, i : i \in 0 .. 7 => Part(t, i) \in Nat
    BY PowerType DEF Part
  <1>2. \A t : /\ Part(t, 0) \in Nat /\ Part(t, 1) \in Nat /\ Part(t, 2) \in Nat /\ Part(t, 3) \in Nat
               /\ Part(t, 4) \in Nat /\ Part(t, 5) \in Nat /\ Part(t, 6) \in Nat /\ Part(t, 7) \in Nat
    BY <1>1
  <1>3. \A t : Value(t) \in Nat
    BY <1>2 DEF Value
  <1>4. s = {} => Value(s) = 0
    BY DEF Value, Part
  <1>5. ASSUME NEW x \in s PROVE Value(s) = Power(x) + Value(s \ {x})
    <2> DEFINE t == s \ {x}
    <2>1. Part(s, x) = Power(x) /\ Part(t, x) = 0 /\ Power(x) \in Nat
      BY PowerType DEF Part
    <2>2. \A i \in 0 .. 7 : i # x => Part(s, i) = Part(t, i)
      BY DEF Part
    <2>3. x \in {0, 1, 2, 3, 4, 5, 6, 7}
      OBVIOUS
    <2> HIDE DEF t
    <2>4. /\ 0 # x => Part(s, 0) = Part(t, 0)
          /\ 1 # x => Part(s, 1) = Part(t, 1)
          /\ 2 # x => Part(s, 2) = Part(t, 2)
          /\ 3 # x => Part(s, 3) = Part(t, 3)
          /\ 4 # x => Part(s, 4) = Part(t, 4)
          /\ 5 # x => Part(s, 5) = Part(t, 5)
          /\ 6 # x => Part(s, 6) = Part(t, 6)
          /\ 7 # x => Part(s, 7) = Part(t, 7)
      BY <2>2
    <2> QED
      BY <1>2, <2>1, <2>3, <2>4 DEF Value, t
  <1> QED
    BY <1>3, <1>4, <1>5

LEMMA ByteOfFacts ==
    ASSUME NEW S \in SUBSET (0 .. 7)
    PROVE  ByteOf(S) = Value(S)
  <1> DEFINE Pick(s) == CHOOSE x \in s : TRUE
             Is(h) == h = [s \in SUBSET S |-> IF s = {} THEN 0 ELSE Power(Pick(s)) + h[s \ {Pick(s)}]]
             g == [s \in SUBSET S |-> Value(s)]
             h == CHOOSE f : Is(f)
  <1>1. ByteOf(S) = h[S]
    BY DEF ByteOf, MapThenSumSet, MapThenFoldSet, Power
  <1>2. \A s \in SUBSET S : s # {} => Pick(s) \in s
    OBVIOUS
  <1> HIDE DEF Pick
  <1>3. \A s \in SUBSET S : g[s] = IF s = {} THEN 0 ELSE Power(Pick(s)) + g[s \ {Pick(s)}]
    <2>1. ASSUME NEW s \in SUBSET S PROVE g[s] = IF s = {} THEN 0 ELSE Power(Pick(s)) + g[s \ {Pick(s)}]
      <3>1. s \in SUBSET (0 .. 7) /\ s \ {Pick(s)} \in SUBSET S
        OBVIOUS
      <3>2. s = {} => Value(s) = 0
        BY <3>1, ValueFacts
      <3>3. s # {} => Value(s) = Power(Pick(s)) + Value(s \ {Pick(s)})
        BY <1>2, <3>1, ValueFacts
      <3> QED
        BY <3>1, <3>2, <3>3
    <2> QED
      BY <2>1
  <1>4. Is(g)
    <2> DEFINE r(s) == IF s = {} THEN 0 ELSE Power(Pick(s)) + g[s \ {Pick(s)}]
    <2>1. \A s \in SUBSET S : g[s] = r(s)
      BY <1>3
    <2>2. g = [s \in SUBSET S |-> g[s]]
      OBVIOUS
    <2> HIDE DEF g, r
    <2>3. g = [s \in SUBSET S |-> r(s)]
      BY <2>1, <2>2
    <2> QED
      BY <2>3 DEF r
  <1>5. Is(h)
    <2> HIDE DEF g, Is
    <2> QED
      BY <1>4
  <1>6. \A s \in SUBSET S : h[s] = IF s = {} THEN 0 ELSE Power(Pick(s)) + h[s \ {Pick(s)}]
    <2> HIDE DEF h
    <2> QED
      BY <1>5
  <1> HIDE DEF h, g, Is
  <1>7. \A s \in SUBSET S : h[s] = Value(s)
    <2> DEFINE Bad == {s \in SUBSET S : h[s] # Value(s)}
               V == {Value(s) : s \in Bad}
    <2> SUFFICES ASSUME Bad # {} PROVE FALSE
      OBVIOUS
    <2>1. V \in SUBSET Nat /\ V # {}
      <3>1. \A s \in SUBSET S : Value(s) \in Nat
        BY ValueFacts
      <3> QED
        BY <3>1
    <2> HIDE DEF V
    <2>2. PICK v \in V : \A y \in V : v <= y
      BY <2>1, Tokens!LeastElement
    <2>3. PICK s \in Bad : v = Value(s)
      BY DEF V
    <2>4. s \in SUBSET S /\ h[s] # Value(s) /\ s \in SUBSET (0 .. 7)
      BY <2>3
    <2>5. s # {}
      BY <1>6, <2>4, ValueFacts
    <2> DEFINE x == Pick(s)
               t == s \ {x}
    <2>6. x \in s /\ t \in SUBSET S /\ t \in SUBSET (0 .. 7) /\ x \in 0 .. 7
      BY <1>2, <2>4, <2>5
    <2>7. h[s] = Power(x) + h[t]
      BY <1>6, <2>4, <2>5
    <2> HIDE DEF x
    <2>8. Value(s) = Power(x) + Value(t)
      BY <2>4, <2>6, ValueFacts
    <2> HIDE DEF t
    <2>9. Value(t) \in Nat /\ Value(s) \in Nat /\ Power(x) \in Nat /\ Power(x) > 0
      BY <2>4, <2>6, ValueFacts, PowerType
    <2>10. h[t] # Value(t)
      BY <2>4, <2>7, <2>8
    <2>11. Value(t) \in V
      BY <2>6, <2>10 DEF V
    <2> QED
      BY <2>2, <2>3, <2>8, <2>9, <2>11
  <1> QED
    BY <1>1, <1>7

\* A byte is the sum of its bits.
LEMMA BitsFacts ==
    ASSUME NEW byte \in Nat, byte <= 255
    PROVE  Value({i \in 0 .. 7 : Bit(byte, i)}) = byte
  <1> DEFINE b(k) == IF (byte \div k) % 2 = 1 THEN k ELSE 0
             S == {i \in 0 .. 7 : Bit(byte, i)}
  <1>1. /\ 0 \in S <=> (byte \div 1) % 2 = 1
        /\ 1 \in S <=> (byte \div 2) % 2 = 1
        /\ 2 \in S <=> (byte \div 4) % 2 = 1
        /\ 3 \in S <=> (byte \div 8) % 2 = 1
        /\ 4 \in S <=> (byte \div 16) % 2 = 1
        /\ 5 \in S <=> (byte \div 32) % 2 = 1
        /\ 6 \in S <=> (byte \div 64) % 2 = 1
        /\ 7 \in S <=> (byte \div 128) % 2 = 1
    BY PowerFacts DEF Bit
  <1> HIDE DEF S
  <1>2. Value(S) = b(1) + b(2) + b(4) + b(8) + b(16) + b(32) + b(64) + b(128)
    BY <1>1, PowerFacts DEF Value, Part, Power
  <1>3. b(1) + b(2) + b(4) + b(8) + b(16) + b(32) + b(64) + b(128) = byte
    <2> DEFINE q1 == byte \div 2
               q2 == byte \div 4
               q3 == byte \div 8
               q4 == byte \div 16
               q5 == byte \div 32
               q6 == byte \div 64
               q7 == byte \div 128
    <2>1. /\ b(1) = byte - 2 * q1 /\ b(2) = 2 * q1 - 4 * q2 /\ q1 \in Nat /\ q2 \in Nat
      OBVIOUS
    <2>2. /\ b(4) = 4 * q2 - 8 * q3 /\ b(8) = 8 * q3 - 16 * q4 /\ q3 \in Nat /\ q4 \in Nat
      OBVIOUS
    <2>3. /\ b(16) = 16 * q4 - 32 * q5 /\ b(32) = 32 * q5 - 64 * q6 /\ q5 \in Nat /\ q6 \in Nat
      OBVIOUS
    <2>4. /\ b(64) = 64 * q6 - 128 * q7 /\ b(128) = 128 * q7 /\ q7 \in Nat
      OBVIOUS
    <2> HIDE DEF b, q1, q2, q3, q4, q5, q6, q7
    <2> QED
      BY <2>1, <2>2, <2>3, <2>4
  <1> HIDE DEF b
  <1> QED
    BY <1>2, <1>3 DEF S

LEMMA RowsDiffer ==
    /\ \A i \in 0 .. 7 : B2R[i + 1] \in 0 .. 12
    /\ \A i, k \in 0 .. 7 : B2R[i + 1] = B2R[k + 1] => i = k
  <1>1. \A i \in 0 .. 7 : i \in {0, 1, 2, 3, 4, 5, 6, 7}
    OBVIOUS
  <1>2. /\ B2R[0 + 1] = 9 /\ B2R[1 + 1] = 8 /\ B2R[2 + 1] = 7 /\ B2R[3 + 1] = 6
        /\ B2R[4 + 1] = 3 /\ B2R[5 + 1] = 2 /\ B2R[6 + 1] = 1 /\ B2R[7 + 1] = 0
    BY DEF B2R
  <1> QED
    BY <1>1, <1>2

THEOREM ColumnBinary == \A byte \in Byte : TranscodeColumn(ByteToCol(byte), "COLBIN") = byte
  <1>1. ASSUME NEW byte \in Byte PROVE TranscodeColumn(ByteToCol(byte), "COLBIN") = byte
    <2> DEFINE S == {i \in 0 .. 7 : Bit(byte, i)}
               T == {i \in 0 .. 7 : B2R[i + 1] \in ByteToCol(byte)}
    <2>1. T = S
      <3>1. ASSUME NEW i \in 0 .. 7 PROVE B2R[i + 1] \in ByteToCol(byte) <=> Bit(byte, i)
        <4> HIDE DEF S
        <4>1. ByteToCol(byte) = {B2R[k + 1] : k \in S}
          BY DEF ByteToCol, S
        <4>2. S \in SUBSET (0 .. 7) /\ (i \in S <=> Bit(byte, i))
          BY DEF S
        <4> QED
          BY <4>1, <4>2, RowsDiffer
      <3> QED
        BY <3>1
    <2>2. TranscodeColumn(ByteToCol(byte), "COLBIN") = ByteOf(T)
      BY DEF TranscodeColumn
    <2>3. ByteOf(S) = Value(S)
      BY ByteOfFacts
    <2>4. byte \in Nat /\ byte <= 255
      BY ByteFacts
    <2>5. Value(S) = byte
      BY <2>4, BitsFacts
    <2> HIDE DEF S, T
    <2> QED
      BY <2>1, <2>2, <2>3, <2>5
  <1> QED
    BY <1>1

\* The sum of one or two rows.
LEMMA PairSum ==
    ASSUME NEW a \in Nat, NEW b \in Nat, NEW S, S \in SUBSET {a, b}
    PROVE  MapThenSumSet(LAMBDA row : row, S)
               = (IF a \in S THEN a ELSE 0) + (IF b \in S /\ b # a THEN b ELSE 0)
  <1> DEFINE Pick(s) == CHOOSE x \in s : TRUE
             Is(h) == h = [s \in SUBSET S |-> IF s = {} THEN 0 ELSE Pick(s) + h[s \ {Pick(s)}]]
             V(s) == (IF a \in s THEN a ELSE 0) + (IF b \in s /\ b # a THEN b ELSE 0)
             g == [s \in SUBSET S |-> V(s)]
             h == CHOOSE f : Is(f)
  <1>1. MapThenSumSet(LAMBDA row : row, S) = h[S]
    BY DEF MapThenSumSet, MapThenFoldSet
  <1>2. \A s \in SUBSET S : s # {} => Pick(s) \in s
    OBVIOUS
  <1> HIDE DEF Pick
  <1>3. \A s \in SUBSET S : V(s) = IF s = {} THEN 0 ELSE Pick(s) + V(s \ {Pick(s)})
    <2>1. ASSUME NEW s \in SUBSET S, s # {} PROVE V(s) = Pick(s) + V(s \ {Pick(s)})
      <3> DEFINE x == Pick(s)
      <3>1. x \in s /\ x \in {a, b}
        BY <1>2, <2>1
      <3> HIDE DEF x
      <3>2. ASSUME x = a PROVE V(s) = x + V(s \ {x})
        <4>1. a \in s /\ a \notin s \ {x} /\ (b # a => (b \in s \ {x} <=> b \in s))
          BY <3>1, <3>2
        <4> QED
          BY <3>2, <4>1
      <3>3. ASSUME x = b, a # b PROVE V(s) = x + V(s \ {x})
        <4>1. b \in s /\ b \notin s \ {x} /\ (a \in s \ {x} <=> a \in s)
          BY <3>1, <3>3
        <4> QED
          BY <3>3, <4>1
      <3>4. V(s) = x + V(s \ {x})
        BY <3>1, <3>2, <3>3
      <3> QED
        BY <3>4 DEF x
    <2>2. V({}) = 0
      OBVIOUS
    <2> QED
      BY <2>1, <2>2
  <1> HIDE DEF V
  <1>4. Is(g)
    <2> DEFINE r(s) == IF s = {} THEN 0 ELSE Pick(s) + g[s \ {Pick(s)}]
    <2>1. \A s \in SUBSET S : g[s] = r(s)
      BY <1>3
    <2>2. g = [s \in SUBSET S |-> g[s]]
      OBVIOUS
    <2> HIDE DEF g, r
    <2>3. g = [s \in SUBSET S |-> r(s)]
      BY <2>1, <2>2
    <2> QED
      BY <2>3 DEF r
  <1>5. Is(h)
    <2> HIDE DEF g, Is
    <2> QED
      BY <1>4
  <1>6. \A s \in SUBSET S : h[s] = IF s = {} THEN 0 ELSE Pick(s) + h[s \ {Pick(s)}]
    <2> HIDE DEF h
    <2> QED
      BY <1>5
  <1> HIDE DEF h, g, Is
  <1>7. h[{}] = V({})
    BY <1>3, <1>6
  <1>8. \A x \in S : h[{x}] = V({x})
    <2>1. ASSUME NEW x \in S PROVE h[{x}] = V({x})
      <3>1. Pick({x}) = x /\ {x} \ {x} = {} /\ {x} \in SUBSET S
        BY <1>2
      <3> QED
        BY <1>3, <1>6, <1>7, <3>1
    <2> QED
      BY <2>1
  <1>9. h[S] = V(S)
    <2>1. CASE S = {}
      BY <1>7, <2>1
    <2>2. CASE \E x \in S : S = {x}
      <3>1. PICK x \in S : S = {x}
        BY <2>2
      <3>2. h[{x}] = V({x})
        BY <1>8
      <3> HIDE DEF V
      <3> QED
        BY <3>1, <3>2
    <2>3. CASE S # {} /\ ~\E x \in S : S = {x}
      <3>1. Pick(S) \in S /\ S \in SUBSET S
        BY <1>2, <2>3
      <3> DEFINE x == Pick(S)
      <3>2. PICK y \in S : x \in S /\ y # x
        BY <2>3, <3>1
      <3>3. S \ {x} = {y}
        <4> HIDE DEF x
        <4>1. \A z \in S : z = a \/ z = b
          OBVIOUS
        <4>2. \A z \in S : z = x \/ z = y
          BY <3>2, <4>1
        <4> QED
          BY <3>2, <4>2
      <3> QED
        BY <1>3, <1>6, <1>8, <2>3, <3>1, <3>3
    <2> QED
      BY <2>1, <2>2, <2>3
  <1> QED
    BY <1>1, <1>9 DEF V

THEOREM HexColumn == \A n \in 0 .. 15 : TranscodeColumn(NibbleToHexCol(n), "HEX") = n
  <1>1. ASSUME NEW n \in 0 .. 15 PROVE TranscodeColumn(NibbleToHexCol(n), "HEX") = n
    <2> DEFINE T == NibbleToHexCol(n) \cap 0 .. 9
               a == 9
               b == IF n <= 9 THEN n ELSE n - 9
    <2>1. a \in Nat /\ b \in Nat /\ b <= 9
      OBVIOUS
    <2>2. T \in SUBSET {a, b}
      BY DEF NibbleToHexCol
    <2>3. (IF a \in T THEN a ELSE 0) + (IF b \in T /\ b # a THEN b ELSE 0) = n
      <3>1. CASE n = 0
        BY <3>1 DEF NibbleToHexCol
      <3>2. CASE n # 0 /\ n < 9
        BY <3>2 DEF NibbleToHexCol
      <3>3. CASE n = 9
        BY <3>3 DEF NibbleToHexCol
      <3>4. CASE n > 9
        BY <3>4 DEF NibbleToHexCol
      <3> QED
        BY <3>1, <3>2, <3>3, <3>4
    <2>4. TranscodeColumn(NibbleToHexCol(n), "HEX") = MapThenSumSet(LAMBDA row : row, T) % 16
      BY DEF TranscodeColumn
    <2> HIDE DEF T, a, b
    <2>5. MapThenSumSet(LAMBDA row : row, T) = (IF a \in T THEN a ELSE 0) + (IF b \in T /\ b # a THEN b ELSE 0)
      BY <2>1, <2>2, PairSum
    <2>6. MapThenSumSet(LAMBDA row : row, T) = n
      BY <2>3, <2>5
    <2>7. n % 16 = n
      OBVIOUS
    <2> QED
      BY <2>4, <2>6, <2>7
  <1> QED
    BY <1>1

\* A column without holes stands for nothing.
LEMMA BlankColumn == TranscodeColumn({}, "HEX") = 0
  <1>1. NibbleToHexCol(0) = {}
    BY DEF NibbleToHexCol
  <1> QED
    BY <1>1, HexColumn

----------------------------------------------------------------------------
(* What the loader program makes of the cards of a synthesized deck.       *)

Loaded == INSTANCE Folding WITH Op <- LoadCard

LEMMA LoadedFold == \A p, s : FoldLeft(LoadCard, p, s) = Loaded!Fold(p, s)
  BY DEF Loaded!Fold, Loaded!Greatest, FoldLeft, MapThenFoldSet, Max

LEMMA BytesAre == \A x \in Nat : x <= 255 => x \in Byte
  BY DEF Byte

\* A payload there is room for on a card, and in the memory.
Payload(addr, payload, n) ==
    /\ addr \in Nat /\ payload \in Seq(Byte) /\ n = Len(payload)
    /\ n > 0 /\ n <= 256 /\ 11 + n <= CardCols /\ addr + n <= 65536

LEMMA ScatterDecoded ==
    ASSUME NEW addr, NEW payload, NEW n, Payload(addr, payload, n),
           NEW card, card = Decoded(ScatterCard(addr, payload), "COLBIN")
    PROVE  /\ DOMAIN card = 1 .. CardCols
           /\ card[9] = n - 1 /\ card[10] = addr \div 256 /\ card[11] = addr % 256
           /\ \A i \in 1 .. n : card[11 + i] = payload[i]
  <1> DEFINE m == 3 + n
             b(i) == CASE i = 1 -> n - 1
                       [] i = 2 -> addr \div 256
                       [] i = 3 -> addr % 256
                       [] OTHER -> payload[i - 3]
             columns == [i \in 1 .. m |-> ByteToCol(b(i))]
             image == CardFrom(8, columns)
  <1>1. /\ n \in Nat /\ n > 0 /\ n <= 256 /\ 11 + n <= CardCols /\ payload \in Seq(Byte)
        /\ n = Len(payload) /\ addr \in Nat /\ addr < 65536 /\ CardCols \in Nat
    BY SizeFacts DEF Payload
  <1>2. b(1) = n - 1 /\ b(2) = addr \div 256 /\ b(3) = addr % 256 /\ \A i \in 1 .. n : b(3 + i) = payload[i]
    <2>1. ASSUME NEW i \in 1 .. n PROVE b(3 + i) = payload[i]
      <3>1. 3 + i # 1 /\ 3 + i # 2 /\ 3 + i # 3 /\ 3 + i - 3 = i
        BY <1>1
      <3> QED
        BY <3>1
    <2> QED
      BY <2>1
  <1> HIDE DEF b
  <1>3. b(1) \in Byte /\ b(2) \in Byte /\ b(3) \in Byte /\ \A i \in 1 .. n : b(3 + i) \in Byte
    <2>1. n - 1 \in Byte
      <3>1. n - 1 \in Nat /\ n - 1 <= 255
        BY <1>1
      <3> QED
        BY <3>1, BytesAre
    <2>2. \A i \in 1 .. n : payload[i] \in Byte
      BY <1>1
    <2> QED
      BY <1>1, <1>2, <2>1, <2>2, AddressFacts
  <1>4. ScatterCard(addr, payload) = image
    BY <1>1 DEF ScatterCard, b
  <1>5. columns \in Seq(Columns) /\ Len(columns) = m
    <2>1. m \in Nat
      BY <1>1
    <2> HIDE DEF m
    <2> QED
      BY <2>1, ByteToColType
  <1>6. \A i \in 1 .. m : columns[i] = ByteToCol(b(i))
    OBVIOUS
  <1>7. /\ image \in Seq(Columns) /\ Len(image) = CardCols
        /\ \A i \in 1 .. CardCols :
              image[i] = IF i - 1 \in 8 .. 8 + Len(columns) - 1 THEN columns[i - 8] ELSE {}
    <2>1. 8 \in Nat /\ image = CardFrom(8, columns)
      OBVIOUS
    <2> DEFINE k == 8
    <2>2. k \in Nat /\ image = CardFrom(k, columns)
      BY <2>1
    <2> HIDE DEF image, columns, k
    <2>3. /\ image \in Seq(Columns) /\ Len(image) = CardCols
          /\ \A i \in 1 .. CardCols :
                image[i] = IF i - 1 \in k .. k + Len(columns) - 1 THEN columns[i - k] ELSE {}
      BY <1>5, <2>2, CardFromFacts
    <2> QED
      BY <2>3 DEF k
  <1> HIDE DEF columns
  <1> HIDE DEF image
  <1>8. /\ card = [i \in DOMAIN image |-> TranscodeColumn(image[i], "COLBIN")]
        /\ DOMAIN image = 1 .. CardCols
    BY <1>4, <1>7 DEF Decoded
  <1>9. ASSUME NEW i \in 1 .. m, b(i) \in Byte PROVE card[8 + i] = b(i)
    <2>1. /\ 8 + i \in 1 .. CardCols /\ 8 + i - 1 \in 8 .. 8 + Len(columns) - 1 /\ 8 + i - 8 = i
      BY <1>1, <1>5
    <2>2. image[8 + i] = columns[i]
      BY <1>7, <2>1
    <2>3. card[8 + i] = TranscodeColumn(image[8 + i], "COLBIN")
      BY <1>8, <2>1
    <2> QED
      BY <1>6, <1>9, <2>2, <2>3, ColumnBinary
  <1>10. DOMAIN card = 1 .. CardCols
    BY <1>8
  <1>11. card[9] = n - 1 /\ card[10] = addr \div 256 /\ card[11] = addr % 256
    <2>1. 1 \in 1 .. m /\ 2 \in 1 .. m /\ 3 \in 1 .. m
      BY <1>1
    <2>2. card[8 + 1] = b(1) /\ card[8 + 2] = b(2) /\ card[8 + 3] = b(3)
      BY <1>3, <1>9, <2>1
    <2> QED
      BY <1>2, <2>2
  <1>12. ASSUME NEW i \in 1 .. n PROVE card[11 + i] = payload[i]
    <2>1. 3 + i \in 1 .. m /\ 8 + (3 + i) = 11 + i
      BY <1>1
    <2>2. card[8 + (3 + i)] = b(3 + i)
      BY <1>3, <1>9, <2>1
    <2> QED
      BY <1>2, <2>1, <2>2
  <1> QED
    BY <1>10, <1>11, <1>12

\* The memory with a payload moved into it.
Moved(memory, addr, payload, n) ==
    [a \in DOMAIN memory \cup addr .. addr + n - 1 |->
        IF a \in addr .. addr + n - 1 THEN payload[a - addr + 1] ELSE memory[a]]

LEMMA LoadCardFacts ==
    ASSUME NEW addr, NEW payload, NEW n, Payload(addr, payload, n), NEW memory
    PROVE  LoadCard(memory, ScatterCard(addr, payload)) = Moved(memory, addr, payload, n)
  <1> DEFINE card == Decoded(ScatterCard(addr, payload), "COLBIN")
             at == card[10] * 256 + card[11]
             moved == at .. at + card[9]
             buffer == [i \in 12 .. 12 + card[9] |-> IF i \in DOMAIN card THEN card[i] ELSE 0]
             D == DOMAIN memory
  <1>1. LoadCard(memory, ScatterCard(addr, payload)) =
            [a \in D \cup moved |-> IF a \in moved THEN buffer[12 + a - at] ELSE memory[a]]
    BY DEF LoadCard
  <1>2. /\ n \in Nat /\ n > 0 /\ n <= 256 /\ 11 + n <= CardCols /\ CardCols \in Nat
        /\ addr \in Nat /\ addr < 65536
    BY SizeFacts DEF Payload
  <1>3. /\ DOMAIN card = 1 .. CardCols
        /\ card[9] = n - 1 /\ card[10] = addr \div 256 /\ card[11] = addr % 256
        /\ \A i \in 1 .. n : card[11 + i] = payload[i]
    BY ScatterDecoded
  <1> HIDE DEF card
  <1>4. at = addr
    BY <1>2, <1>3, AddressFacts
  <1> HIDE DEF at
  <1>5. moved = addr .. addr + n - 1
    BY <1>2, <1>3, <1>4
  <1>6. ASSUME NEW a \in addr .. addr + n - 1 PROVE buffer[12 + a - at] = payload[a - addr + 1]
    <2> DEFINE i == a - addr + 1
    <2>1. i \in 1 .. n /\ 12 + a - at = 11 + i /\ 11 + i \in 12 .. 12 + card[9] /\ 11 + i \in 1 .. CardCols
      BY <1>2, <1>3, <1>4
    <2> HIDE DEF i
    <2>2. buffer[11 + i] = card[11 + i]
      BY <1>3, <2>1
    <2> QED
      BY <1>3, <2>1, <2>2 DEF i
  <1> HIDE DEF moved, buffer, D
  <1> QED
    BY <1>1, <1>5, <1>6 DEF D, Moved

LEMMA MemoryFacts ==
    ASSUME NEW S, NEW img, CardsOf(img) \in Seq(S), Len(CardsOf(img)) > 0, NEW card \in S,
           NEW grown, CardsOf(grown) = Append(CardsOf(img), card)
    PROVE  Memory(grown) = LoadCard(Memory(img), card)
  <1> DEFINE s == CardsOf(img)
  <1>1. s \in Seq(S) /\ Len(s) > 0
    OBVIOUS
  <1>2. CardsOf(grown) = Append(s, card)
    OBVIOUS
  <1>3. \A i : Memory(i) = Loaded!Fold(<<>>, Tail(CardsOf(i)))
    BY LoadedFold DEF Memory
  <1> DEFINE t == Tail(s)
  <1>4. Memory(img) = Loaded!Fold(<<>>, t) /\ Memory(grown) = Loaded!Fold(<<>>, Tail(Append(s, card)))
    BY <1>2, <1>3
  <1> HIDE DEF s
  <1>5. t \in Seq(S) /\ Tail(Append(s, card)) = Append(t, card)
    BY <1>1
  <1> HIDE DEF t
  <1>6. Loaded!Fold(<<>>, Append(t, card)) = LoadCard(Loaded!Fold(<<>>, t), card)
    BY <1>5, Loaded!FoldAppend
  <1> QED
    BY <1>4, <1>5, <1>6

\* The bytes of a program that are in memory up to an address.
Loading(bytes, base, addr) == [a \in base .. addr - 1 |-> bytes[a - base + 1]]

\* One card more in the memory.
Grows(img, grown, bytes, base, addr, next, payload, n) ==
    /\ ImgOK(img) /\ NCards(img) > 0 /\ base \in Nat /\ addr \in Nat /\ base <= addr
    /\ payload \in Seq(Byte) /\ n = Len(payload) /\ n > 0 /\ n <= Chunk
    /\ addr + n <= AddressSpace /\ next = addr + n
    /\ CardsOf(grown) = Append(CardsOf(img), ScatterCard(addr, payload))
    /\ \A i \in 1 .. n : payload[i] = bytes[addr - base + i]
    /\ Memory(img) = Loading(bytes, base, addr)

LEMMA MemoryGrows ==
    ASSUME NEW img, NEW grown, NEW bytes, NEW base, NEW addr, NEW next, NEW payload, NEW n,
           Grows(img, grown, bytes, base, addr, next, payload, n)
    PROVE  Memory(grown) = Loading(bytes, base, next)
  <1> DEFINE card == ScatterCard(addr, payload)
  <1>10. /\ ImgOK(img) /\ NCards(img) > 0 /\ base \in Nat /\ addr \in Nat /\ base <= addr
         /\ payload \in Seq(Byte) /\ n = Len(payload) /\ n > 0 /\ n <= Chunk
         /\ addr + n <= AddressSpace /\ next = addr + n
         /\ CardsOf(grown) = Append(CardsOf(img), ScatterCard(addr, payload))
         /\ \A i \in 1 .. n : payload[i] = bytes[addr - base + i]
         /\ Memory(img) = Loading(bytes, base, addr)
    BY DEF Grows
  <1>1. Payload(addr, payload, n)
    BY <1>10, SizeFacts DEF Payload
  <1>2. card \in Seq(Columns) /\ CardsOf(img) \in Seq(Seq(Columns)) /\ Len(CardsOf(img)) > 0
    BY <1>10, ScatterCardType, CardsOfFacts
  <1>3. Memory(grown) = LoadCard(Memory(img), card)
    <2> HIDE DEF card
    <2> DEFINE S == Seq(Columns)
    <2>1. card \in S /\ CardsOf(img) \in Seq(S) /\ CardsOf(grown) = Append(CardsOf(img), card)
      BY <1>2, <1>10 DEF card
    <2> HIDE DEF S
    <2> QED
      BY <1>2, <2>1, MemoryFacts
  <1> DEFINE memory == Loading(bytes, base, addr)
             D == base .. addr - 1
             M == addr .. addr + n - 1
  <1>4. LoadCard(memory, card) =
            [a \in DOMAIN memory \cup M |-> IF a \in M THEN payload[a - addr + 1] ELSE memory[a]]
    <2>1. LoadCard(memory, card) = Moved(memory, addr, payload, n)
      <3> HIDE DEF memory
      <3> QED
        BY <1>1, LoadCardFacts
    <2> HIDE DEF memory, card
    <2> QED
      BY <2>1 DEF Moved
  <1>5. DOMAIN memory = D /\ \A a \in D : memory[a] = bytes[a - base + 1]
    BY DEF Loading
  <1>6. n \in Nat /\ base \in Nat /\ addr \in Nat /\ base <= addr /\ next = addr + n
    BY <1>10
  <1>7. D \cup M = base .. next - 1
    BY <1>6
  <1>8. ASSUME NEW a \in base .. next - 1
        PROVE  (IF a \in M THEN payload[a - addr + 1] ELSE memory[a]) = bytes[a - base + 1]
    <2>1. CASE a \in M
      <3> DEFINE i == a - addr + 1
      <3>1. i \in 1 .. n /\ addr - base + i = a - base + 1
        BY <1>6, <2>1
      <3> HIDE DEF i
      <3>2. payload[i] = bytes[a - base + 1]
        BY <1>10, <3>1
      <3> QED
        BY <2>1, <3>2 DEF i
    <2>2. CASE a \notin M
      <3>1. a \in D
        BY <1>6, <2>2
      <3> HIDE DEF memory, M
      <3> QED
        BY <1>5, <2>2, <3>1
    <2> QED
      BY <2>1, <2>2
  <1>11. Memory(img) = memory
    BY <1>10
  <1> HIDE DEF memory, D, M, card
  <1>9. Memory(grown) = [a \in base .. next - 1 |-> bytes[a - base + 1]]
    BY <1>3, <1>4, <1>5, <1>7, <1>8, <1>11
  <1> QED
    BY <1>9 DEF Loading

----------------------------------------------------------------------------
(* The jobs, and the inductive invariant.                                  *)

Joined == INSTANCE Folding WITH Op <- Concat

Capturing(j) == j.kind \in {"capture", "batch"}

Jobs == CaptureJobs \cup BatchJobs \cup BinJobs

\* A builder with a deck to go on with, or to be fed.
Sound(b) ==
    /\ b \in BuilderSet /\ ImgOK(b.img) /\ AllFilled(b.img) /\ Len(b.buf) <= Chunk
    /\ b.img.loader_card \in -1 .. NCards(b.img) - 1

\* The types of what is loaded from, and that there is a job to a load.
JobInv ==
    /\ phase \in {"rest", "open", "capture", "binary", "loaded", "failed"}
    /\ job \in Jobs \cup {NoJob} /\ source \in 0 .. Len(job.sources)
    /\ phase \in {"open", "capture", "binary", "loaded"} =>
          job \in Jobs /\ source \in 1 .. Len(job.sources)

\* Both images are well formed, whatever came before.
ScratchInv ==
    /\ parser \in ParserSet /\ ImgOK(parser.img)
    /\ parser.img.loader_card \in -1 .. NCards(parser.img) - 1

DeckInv ==
    /\ Sound(builder)
    /\ phase # "failed" => Building(builder) /\ builder.error = 0

\* The parser has the cards of the lines it has been given.
ParseInv ==
    phase = "capture" =>
        LET lines == job.sources[source].lines IN
        /\ Capturing(job) /\ Parsing(parser) /\ parser.error = 0
        /\ \E k \in 0 .. Len(lines) :
              /\ rest = SubSeq(lines, k + 1, Len(lines))
              /\ CardsOf(parser.img) = Parsed!Fold(<<>>, SubSeq(lines, 1, k))

\* The destination has what is kept of the captures that have been parsed.
KeptInv ==
    Capturing(job) =>
        /\ phase \in {"open", "capture"} /\ IsBatch(job) =>
              CardsOf(dst) = DeckOf(job, source - 1) /\ dst.loader_card = -1
        /\ phase = "loaded" =>
              /\ CardsOf(dst) = DeckOf(job, Len(job.sources))
              /\ NCards(dst) > 0 /\ dst.loader_card = FindLoader(dst)
        /\ phase # "binary"

\* The first k bytes of a program are in the memory, or on the card that is
\* being filled.
Placed(b, bytes, base, k) ==
    /\ base <= b.addr /\ b.addr <= AddressSpace /\ base + k = b.addr + Len(b.buf)
    /\ \A i \in 1 .. Len(b.buf) : b.buf[i] = bytes[b.addr - base + i]
    /\ Memory(b.img) = Loading(bytes, base, b.addr)

\* A synthesized deck leads with its loader, and the rest of it is what has
\* been read of the program.
SynthInv ==
    job.kind = "bin" =>
        LET bytes == job.sources[1].bytes IN
        /\ phase # "capture"
        /\ phase = "binary" =>
              /\ ~IplJob(job)
              /\ \E k \in 0 .. Len(bytes) :
                    /\ rest = SubSeq(bytes, k + 1, Len(bytes))
                    /\ Placed(builder, bytes, job.base, k)
        /\ phase \in {"binary", "loaded"} => NCards(dst) > 0 /\ dst.loader_card = 0

DeckloadInv ==
    JobInv /\ ScratchInv /\ DeckInv /\ ParseInv /\ KeptInv /\ SynthInv /\ MemoryImage

LEMMA JoinedFold == \A p, s : FoldLeft(Concat, p, s) = Joined!Fold(p, s)
  BY DEF Joined!Fold, Joined!Greatest, FoldLeft, MapThenFoldSet, Max

LEMMA JobFacts ==
    ASSUME NEW j \in Jobs
    PROVE  /\ j.kind \in {"capture", "batch", "bin"}
           /\ Len(j.sources) \in Nat \ {0} /\ (j.kind # "batch" => Len(j.sources) = 1)
           /\ Capturing(j) => \A k \in 1 .. Len(j.sources) :
                                 j.sources[k].lines \in Seq(Line) /\ OpOf(j, k) \in Ops
           /\ j.kind = "bin" => /\ j.sources[1].bytes \in Seq(Byte)
                                /\ j.base \in Nat /\ j.base < AddressSpace
  <1>1. CASE j \in CaptureJobs
    <2>1. PICK raw \in BOOLEAN, lines \in Captures :
             j = [kind |-> "capture", raw |-> raw, sources |-> <<[lines |-> lines]>>]
      BY <1>1 DEF CaptureJobs
    <2>2. /\ j.kind = "capture" /\ Len(j.sources) = 1 /\ j.sources[1].lines = lines
          /\ lines \in Seq(Line)
      BY <2>1, DeckloadAssumption
    <2>3. \A k \in 1 .. Len(j.sources) : k = 1
      BY <2>2
    <2>4. OpOf(j, 1) \in Ops
      BY <2>2 DEF OpOf, IsBatch, Ops
    <2> QED
      BY <2>2, <2>3, <2>4
  <1>2. CASE j \in BatchJobs
    <2>1. PICK b \in Batches : j = [kind |-> "batch", sources |-> b]
      BY <1>2 DEF BatchJobs
    <2>2. j.kind = "batch" /\ j.sources \in Seq([lines : Seq(Line), op : Ops]) \ {<<>>}
      BY <2>1, DeckloadAssumption
    <2>3. Len(j.sources) \in Nat \ {0}
      BY <2>2, EmptySeq
    <2>4. \A k \in 1 .. Len(j.sources) :
             /\ j.sources[k] \in [lines : Seq(Line), op : Ops]
             /\ OpOf(j, k) = j.sources[k].op
      <3> DEFINE S == [lines : Seq(Line), op : Ops]
      <3>1. j.sources \in Seq(S)
        BY <2>2
      <3> HIDE DEF S
      <3>2. \A k \in 1 .. Len(j.sources) : j.sources[k] \in S
        BY <3>1
      <3>3. \A k : OpOf(j, k) = j.sources[k].op
        BY <2>2 DEF OpOf, IsBatch
      <3> QED
        BY <3>2, <3>3 DEF S
    <2>5. \A k \in 1 .. Len(j.sources) : j.sources[k].lines \in Seq(Line) /\ OpOf(j, k) \in Ops
      BY <2>4
    <2> QED
      BY <2>2, <2>3, <2>5
  <1>3. CASE j \in BinJobs
    <2>1. PICK base \in Bases, bytes \in Programs :
             j = [kind |-> "bin", base |-> base, sources |-> <<[bytes |-> bytes]>>]
      BY <1>3 DEF BinJobs
    <2>2. /\ bytes \in Seq(Byte) /\ base \in 0 .. AddressSpace - 1
      BY DeckloadAssumption DEF Byte
    <2>3. base \in Nat /\ base < AddressSpace
      BY <2>2, SizeFacts
    <2> QED
      BY <2>1, <2>2, <2>3 DEF Capturing
  <1> QED
    BY <1>1, <1>2, <1>3 DEF Jobs

LEMMA NoJobFacts == NoJob.kind = "none" /\ Len(NoJob.sources) = 0 /\ NoJob \notin Jobs
  <1>1. NoJob.kind = "none" /\ Len(NoJob.sources) = 0
    BY DEF NoJob
  <1> QED
    BY <1>1, JobFacts

LEMMA IdleFacts ==
    ASSUME NEW img, ImgOK(img), AllFilled(img), img.loader_card \in -1 .. NCards(img) - 1,
           NEW b, b = IdleBuilder(img)
    PROVE  b.img = img /\ b.error = 0 /\ Sound(b) /\ Building(b)
  <1>1. b = [img |-> img, addr |-> 0, buf |-> <<>>, error |-> 0]
    BY DEF IdleBuilder
  <1>2. b \in BuilderSet /\ Len(b.buf) = 0
    BY <1>1 DEF ImgOK, BuilderSet
  <1> QED
    BY <1>1, <1>2, SizeFacts DEF Sound, Building

LEMMA DeckOfFacts ==
    ASSUME NEW j, NEW k \in Nat
    PROVE  /\ DeckOf(j, 0) = <<>>
           /\ DeckOf(j, k + 1) = DeckOf(j, k) \o Kept(Punched(j.sources[k + 1].lines), OpOf(j, k + 1))
  <1> DEFINE f(i) == Kept(Punched(j.sources[i].lines), OpOf(j, i))
             s(m) == [i \in 1 .. m |-> f(i)]
  <1>1. \A m : DeckOf(j, m) = Joined!Fold(<<>>, s(m))
    BY JoinedFold DEF DeckOf
  <1> HIDE DEF f
  <1>2. s(0) = <<>>
    OBVIOUS
  <1>3. DeckOf(j, 0) = <<>>
    BY <1>1, <1>2, Joined!FoldEmpty
  <1> DEFINE S == {f(i) : i \in 1 .. k + 1}
  <1>4. s(k) \in Seq(S) /\ f(k + 1) \in S
    OBVIOUS
  <1>5. s(k + 1) = Append(s(k), f(k + 1))
    OBVIOUS
  <1> HIDE DEF S, s
  <1>6. Joined!Fold(<<>>, s(k + 1)) = Concat(Joined!Fold(<<>>, s(k)), f(k + 1))
    BY <1>4, <1>5, Joined!FoldAppend
  <1>7. DeckOf(j, k + 1) = DeckOf(j, k) \o f(k + 1)
    BY <1>1, <1>6 DEF Concat
  <1> QED
    BY <1>3, <1>7 DEF f

LEMMA InitDeckload == Init => DeckloadInv
  <1> SUFFICES ASSUME Init PROVE DeckloadInv
    OBVIOUS
  <1>1. /\ phase = "rest" /\ job = NoJob /\ source = 0
        /\ parser = ParserInit /\ builder = IdleBuilder(EmptyDeck)
    BY DEF Init
  <1>2. AllFilled(EmptyDeck)
    BY EmptyDeckFacts DEF AllFilled
  <1>3. JobInv
    BY <1>1, NoJobFacts DEF JobInv
  <1>4. ScratchInv
    BY <1>1, ParserInitFacts, NextOffFacts DEF ScratchInv, Parsing
  <1>5. DeckInv
    BY <1>1, <1>2, EmptyDeckFacts, IdleFacts DEF DeckInv
  <1>6. ParseInv /\ KeptInv /\ SynthInv /\ MemoryImage
    BY <1>1, NoJobFacts DEF ParseInv, KeptInv, SynthInv, MemoryImage, Capturing
  <1> QED
    BY <1>3, <1>4, <1>5, <1>6 DEF DeckloadInv

LEMMA LoadStep ==
    ASSUME DeckloadInv, NEW j \in Jobs, Load(j)
    PROVE  DeckloadInv'
  <1> DEFINE img == IF IsBatch(j) THEN EmptyDeck ELSE dst
  <1>1. /\ phase' = "open" /\ job' = j /\ source' = 1 /\ parser' = parser
        /\ builder' = IdleBuilder(img)
    BY DEF Load
  <1>2. ImgOK(img) /\ AllFilled(img) /\ img.loader_card \in -1 .. NCards(img) - 1
    BY EmptyDeckFacts DEF DeckloadInv, DeckInv, Sound, dst, AllFilled
  <1>3. dst' = img /\ builder'.error = 0 /\ Sound(builder') /\ Building(builder')
    BY <1>1, <1>2, IdleFacts DEF dst
  <1>4. JobInv'
    BY <1>1, JobFacts DEF JobInv
  <1>5. ScratchInv'
    BY <1>1 DEF DeckloadInv, ScratchInv
  <1>6. DeckInv'
    BY <1>1, <1>3 DEF DeckInv
  <1>7. ParseInv' /\ SynthInv' /\ MemoryImage'
    BY <1>1 DEF ParseInv, SynthInv, MemoryImage
  <1>8. KeptInv'
    <2>1. IsBatch(j) => CardsOf(dst') = DeckOf(j, 0) /\ dst'.loader_card = -1
      BY <1>3, EmptyDeckFacts, DeckOfFacts
    <2> QED
      BY <1>1, <2>1 DEF KeptInv
  <1> QED
    BY <1>4, <1>5, <1>6, <1>7, <1>8 DEF DeckloadInv

LEMMA OpenCaptureStep ==
    ASSUME DeckloadInv, OpenCapture
    PROVE  DeckloadInv'
  <1> DEFINE lines == job.sources[source].lines
  <1>1. /\ phase = "open" /\ Capturing(job) /\ phase' = "capture" /\ rest' = lines
        /\ parser' = ParserInit /\ job' = job /\ source' = source /\ builder' = builder
    BY DEF OpenCapture, Capturing
  <1>2. job \in Jobs /\ source \in 1 .. Len(job.sources) /\ lines \in Seq(Line)
    BY <1>1, JobFacts DEF DeckloadInv, JobInv
  <1>3. JobInv'
    BY <1>1, <1>2 DEF DeckloadInv, JobInv
  <1>4. ScratchInv'
    BY <1>1, ParserInitFacts, NextOffFacts DEF ScratchInv, Parsing
  <1>5. DeckInv'
    BY <1>1 DEF DeckloadInv, DeckInv
  <1>6. ParseInv'
    <2> HIDE DEF lines
    <2>1. lines = SubSeq(lines, 0 + 1, Len(lines)) /\ SubSeq(lines, 1, 0) = <<>> /\ 0 \in 0 .. Len(lines)
      BY <1>2
    <2>2. CardsOf(ParserInit.img) = Parsed!Fold(<<>>, SubSeq(lines, 1, 0))
      BY <2>1, ParserInitFacts, Parsed!FoldEmpty
    <2>3. job'.sources[source'].lines = lines
      BY <1>1 DEF lines
    <2> QED
      BY <1>1, <2>1, <2>2, <2>3, ParserInitFacts DEF ParseInv
  <1>7. KeptInv'
    BY <1>1 DEF DeckloadInv, KeptInv, dst
  <1>8. SynthInv' /\ MemoryImage'
    BY <1>1 DEF SynthInv, MemoryImage, Capturing
  <1> QED
    BY <1>3, <1>4, <1>5, <1>6, <1>7, <1>8 DEF DeckloadInv

LEMMA ReadFailsStep ==
    ASSUME DeckloadInv, ReadFails
    PROVE  DeckloadInv'
  <1>1. /\ phase' = "failed" /\ job' = job /\ source' = source /\ rest' = rest
        /\ parser' = parser /\ builder' = builder
    BY DEF ReadFails
  <1>2. JobInv' /\ ScratchInv' /\ DeckInv'
    BY <1>1 DEF DeckloadInv, JobInv, ScratchInv, DeckInv
  <1>3. ParseInv' /\ KeptInv' /\ SynthInv' /\ MemoryImage'
    BY <1>1 DEF ParseInv, KeptInv, SynthInv, MemoryImage
  <1> QED
    BY <1>2, <1>3 DEF DeckloadInv

LEMMA ReadLineStep ==
    ASSUME DeckloadInv, ReadLine
    PROVE  DeckloadInv'
  <1> DEFINE lines == job.sources[source].lines
             q == ProcessLine(parser, Head(rest))
             cards == CardsOf(parser.img)
  <1>1. /\ phase = "capture" /\ rest # <<>> /\ parser' = q /\ rest' = Tail(rest)
        /\ phase' = IF q.error # 0 THEN "failed" ELSE "capture"
        /\ job' = job /\ source' = source /\ builder' = builder
    BY DEF ReadLine
  <1>2. job \in Jobs /\ source \in 1 .. Len(job.sources)
    BY <1>1 DEF DeckloadInv, JobInv
  <1>3. Capturing(job) /\ Parsing(parser) /\ parser.error = 0
    BY <1>1 DEF DeckloadInv, ParseInv
  <1>4. lines \in Seq(Line)
    BY <1>2, <1>3, JobFacts
  <1>5. PICK k \in 0 .. Len(lines) :
           /\ rest = SubSeq(lines, k + 1, Len(lines))
           /\ cards = Parsed!Fold(<<>>, SubSeq(lines, 1, k))
    BY <1>1 DEF DeckloadInv, ParseInv
  <1>6. /\ k \in Nat /\ k < Len(lines) /\ Head(rest) = lines[k + 1] /\ lines[k + 1] \in Line
        /\ Tail(rest) = SubSeq(lines, k + 1 + 1, Len(lines)) /\ k + 1 \in 0 .. Len(lines)
        /\ SubSeq(lines, 1, k) \in Seq(Line)
        /\ SubSeq(lines, 1, k + 1) = Append(SubSeq(lines, 1, k), lines[k + 1])
    <2> HIDE DEF lines
    <2> QED
      BY <1>1, <1>4, <1>5
  <1>7. /\ Parsing(q) /\ q.error \in {-2, -1, 0}
        /\ q.error = 0 => CardsOf(q.img) = ParseLine(cards, lines[k + 1])
    <2> HIDE DEF lines
    <2> QED
      BY <1>3, <1>6, LineFacts DEF ParseLine
  <1>8. q.error = 0 => CardsOf(q.img) = Parsed!Fold(<<>>, SubSeq(lines, 1, k + 1))
    <2> HIDE DEF lines, q
    <2> DEFINE s == SubSeq(lines, 1, k)  line == lines[k + 1]
    <2>1. s \in Seq(Line) /\ line \in Line /\ SubSeq(lines, 1, k + 1) = Append(s, line)
      BY <1>6
    <2>2. q.error = 0 => CardsOf(q.img) = ParseLine(Parsed!Fold(<<>>, s), line)
      BY <1>5, <1>7
    <2> HIDE DEF s, line
    <2> QED
      BY <2>1, <2>2, Parsed!FoldAppend
  <1> HIDE DEF q, cards
  <1>9. JobInv'
    BY <1>1, <1>2 DEF DeckloadInv, JobInv
  <1>10. ScratchInv'
    BY <1>1, <1>7, NextOffFacts DEF ScratchInv, Parsing
  <1>11. DeckInv'
    BY <1>1 DEF DeckloadInv, DeckInv
  <1>12. ParseInv'
    <2> SUFFICES ASSUME phase' = "capture" PROVE ParseInv'
      BY DEF ParseInv
    <2>1. q.error = 0
      BY <1>1
    <2>2. job'.sources[source'].lines = lines
      BY <1>1
    <2> HIDE DEF lines
    <2> QED
      BY <1>1, <1>3, <1>6, <1>7, <1>8, <2>1, <2>2 DEF ParseInv
  <1>13. KeptInv'
    BY <1>1 DEF DeckloadInv, KeptInv, dst
  <1>14. SynthInv' /\ MemoryImage'
    BY <1>1, <1>3 DEF SynthInv, MemoryImage, Capturing
  <1> QED
    BY <1>9, <1>10, <1>11, <1>12, <1>13, <1>14 DEF DeckloadInv

\* Which recipe it is does not depend on where the cards lie.
LEMMA RecipeFacts ==
    ASSUME NEW j, NEW k, NEW img, ImgOK(img), NCards(img) > 0, img.loader_card = FindLoader(img),
           CardsOf(img) = Punched(j.sources[k].lines)
    PROVE  Recipe(j, k, img) = OpOf(j, k)
  <1> DEFINE cards == CardsOf(img)
  <1>1. /\ FindLoader(img) \in 0 .. NCards(img) - 1 /\ LoaderAt(cards) = FindLoader(img) + 1
        /\ Len(cards) = NCards(img) /\ NCards(img) \in Nat
    BY LoaderFacts, CardsOfFacts, NextOffFacts
  <1>2. (img.loader_card > 0 /\ NCards(img) >= BodyFirst + 2) <=> BoxOrder(cards)
    <2> HIDE DEF cards
    <2> QED
      BY <1>1 DEF BoxOrder
  <1>3. OpOf(j, k) = IF IsBatch(j) THEN j.sources[k].op
                     ELSE IF ~j.raw /\ BoxOrder(cards) THEN "SERIAL_LOADER" ELSE "AS_IS"
    BY DEF OpOf
  <1> HIDE DEF cards
  <1> QED
    BY <1>2, <1>3 DEF Recipe

LEMMA SameLoader ==
    ASSUME NEW img, ImgOK(img), NEW c \in Int, NEW q, q = [img EXCEPT !.loader_card = c]
    PROVE  FindLoader(q) = FindLoader(img)
  <1>1. q.idx = img.idx /\ q.cols = img.cols
    BY DEF ImgOK, ImageSet
  <1> QED
    BY <1>1 DEF FindLoader, NCards, CardOf

\* What there is when the last line of a capture has been parsed.
LEMMA CaptureFacts ==
    ASSUME DeckloadInv, phase = "capture", rest = <<>>
    PROVE  LET lines == job.sources[source].lines
               parsed == CapParseFinish(parser)
               tmp == WithLoader(parsed.img)
               op == OpOf(job, source)
               into == IF IsBatch(job) THEN dst ELSE EmptyDeck
           IN  /\ job \in Jobs /\ source \in 1 .. Len(job.sources) /\ Capturing(job)
               /\ lines \in Seq(Line) /\ op \in Ops
               /\ CardsOf(parser.img) = Parsed!Fold(<<>>, lines)
               /\ parsed \in ParserSet /\ ImgOK(parsed.img) /\ parsed.img.loader_card = -1
               /\ parsed.error # 0 => Punched(lines) = <<>>
               /\ parsed.error = 0 =>
                     /\ ImgOK(tmp) /\ AllFilled(tmp) /\ NCards(tmp) > 0
                     /\ CardsOf(tmp) = Punched(lines) /\ Recipe(job, source, tmp) = op
                     /\ tmp.loader_card = FindLoader(tmp)
                     /\ tmp.loader_card \in 0 .. NCards(tmp) - 1
               /\ ImgOK(into) /\ AllFilled(into) /\ into.loader_card = -1
               /\ CardsOf(into) = DeckOf(job, source - 1)
               /\ DeckOf(job, source) = CardsOf(into) \o Kept(Punched(lines), op)
  <1> DEFINE lines == job.sources[source].lines
             parsed == CapParseFinish(parser)
             tmp == WithLoader(parsed.img)
             op == OpOf(job, source)
             into == IF IsBatch(job) THEN dst ELSE EmptyDeck
  <1>1. job \in Jobs /\ source \in 1 .. Len(job.sources)
    BY DEF DeckloadInv, JobInv
  <1>2. Capturing(job) /\ Parsing(parser) /\ parser.error = 0
    BY DEF DeckloadInv, ParseInv
  <1>3. lines \in Seq(Line) /\ op \in Ops
    BY <1>1, <1>2, JobFacts
  <1>4. CardsOf(parser.img) = Parsed!Fold(<<>>, lines)
    <2>1. PICK k \in 0 .. Len(lines) :
             /\ rest = SubSeq(lines, k + 1, Len(lines))
             /\ CardsOf(parser.img) = Parsed!Fold(<<>>, SubSeq(lines, 1, k))
      BY DEF DeckloadInv, ParseInv
    <2> HIDE DEF lines
    <2>2. k = Len(lines)
      <3>1. k \in Nat /\ Len(lines) \in Nat /\ k <= Len(lines)
        BY <1>3
      <3>2. Len(SubSeq(lines, k + 1, Len(lines))) = Len(lines) - k
        BY <1>3, <3>1
      <3>3. Len(SubSeq(lines, k + 1, Len(lines))) = 0
        <4>1. SubSeq(lines, k + 1, Len(lines)) = <<>>
          BY <2>1
        <4> QED
          BY <4>1
      <3> QED
        BY <3>1, <3>2, <3>3
    <2>3. SubSeq(lines, 1, k) = lines
      BY <1>3, <2>2
    <2> QED
      BY <2>1, <2>3
  <1>5. /\ parsed \in ParserSet /\ ImgOK(parsed.img) /\ parsed.img.loader_card = -1
        /\ parsed.error # 0 => Punched(lines) = <<>>
        /\ parsed.error = 0 => /\ AllFilled(parsed.img) /\ NCards(parsed.img) > 0
                               /\ CardsOf(parsed.img) = Punched(lines)
    BY <1>2, <1>3, <1>4, FinishFacts, PunchedFacts
  <1>6. ASSUME parsed.error = 0
        PROVE  /\ ImgOK(tmp) /\ AllFilled(tmp) /\ NCards(tmp) > 0 /\ CardsOf(tmp) = Punched(lines)
               /\ tmp.loader_card = FindLoader(tmp) /\ tmp.loader_card \in 0 .. NCards(tmp) - 1
    <2> DEFINE img == parsed.img
             c == FindLoader(img)
    <2> HIDE DEF parsed
    <2>1. ImgOK(img) /\ AllFilled(img) /\ NCards(img) > 0 /\ CardsOf(img) = Punched(lines)
      BY <1>5, <1>6
    <2>2. c \in 0 .. NCards(img) - 1 /\ c \in Int
      BY <2>1, LoaderFacts
    <2>3. tmp = [img EXCEPT !.loader_card = c]
      BY DEF WithLoader
    <2> HIDE DEF img, c, tmp, lines
    <2>4. /\ ImgOK(tmp) /\ AllFilled(tmp) /\ NCards(tmp) = NCards(img)
          /\ tmp.loader_card = c /\ CardsOf(tmp) = CardsOf(img)
      BY <2>1, <2>2, <2>3, MarkedFacts
    <2>5. FindLoader(tmp) = c
      BY <2>1, <2>2, <2>3, SameLoader DEF c
    <2> QED
      BY <2>1, <2>2, <2>4, <2>5
  <1>7. parsed.error = 0 => Recipe(job, source, tmp) = op
    <2> HIDE DEF tmp, parsed
    <2> QED
      BY <1>6, RecipeFacts
  <1>8. ImgOK(into) /\ AllFilled(into) /\ into.loader_card = -1 /\ CardsOf(into) = DeckOf(job, source - 1)
    <2>1. CASE IsBatch(job)
      BY <1>2, <2>1 DEF DeckloadInv, DeckInv, Sound, dst, KeptInv
    <2>2. CASE ~IsBatch(job)
      <3>1. source - 1 = 0
        <4>1. Len(job.sources) = 1
          BY <1>1, <2>2, JobFacts DEF IsBatch
        <4> QED
          BY <1>1, <4>1
      <3>2. into = EmptyDeck /\ DeckOf(job, 0) = <<>>
        BY <2>2, DeckOfFacts
      <3> QED
        BY <3>1, <3>2, EmptyDeckFacts DEF AllFilled
    <2> QED
      BY <2>1, <2>2
  <1>9. DeckOf(job, source) = CardsOf(into) \o Kept(Punched(lines), op)
    <2>1. source - 1 \in Nat /\ source - 1 + 1 = source
      BY <1>1, JobFacts
    <2>2. DeckOf(job, source - 1 + 1) = DeckOf(job, source - 1) \o
              Kept(Punched(job.sources[source - 1 + 1].lines), OpOf(job, source - 1 + 1))
      BY <2>1, DeckOfFacts
    <2>3. DeckOf(job, source) = DeckOf(job, source - 1) \o Kept(Punched(lines), op)
      BY <2>1, <2>2
    <2> HIDE DEF into, op, lines
    <2> QED
      BY <1>8, <2>3
  <1> HIDE DEF lines, parsed, tmp, op, into
  <1>10. parsed.error = 0 =>
            /\ ImgOK(tmp) /\ AllFilled(tmp) /\ NCards(tmp) > 0
            /\ CardsOf(tmp) = Punched(lines) /\ Recipe(job, source, tmp) = op
            /\ tmp.loader_card = FindLoader(tmp)
            /\ tmp.loader_card \in 0 .. NCards(tmp) - 1
    BY <1>6, <1>7
  <1> QED
    BY <1>1, <1>2, <1>3, <1>4, <1>5, <1>8, <1>9, <1>10 DEF lines, parsed, tmp, op, into

LEMMA EndOfCaptureStep ==
    ASSUME DeckloadInv, EndOfCapture
    PROVE  DeckloadInv'
  <1> DEFINE lines == job.sources[source].lines
             parsed == CapParseFinish(parser)
             tmp == WithLoader(parsed.img)
             op == Recipe(job, source, tmp)
             into == IF IsBatch(job) THEN dst ELSE EmptyDeck
             result == SurgeryApply(into, tmp, op)
             read == [parsed EXCEPT !.img = tmp]
  <1>1. /\ phase = "capture" /\ rest = <<>> /\ job' = job /\ rest' = rest
        /\ \/ /\ parsed.error # 0 /\ phase' = "failed" /\ parser' = parsed
              /\ source' = source /\ builder' = builder
           \/ /\ parsed.error = 0 /\ parser' = read
              /\ \/ /\ ~result.ok /\ phase' = "failed" /\ source' = source
                    /\ builder' = IdleBuilder(result.img)
                 \/ /\ result.ok /\ source < Len(job.sources)
                    /\ phase' = "open" /\ source' = source + 1
                    /\ builder' = IdleBuilder(result.img)
                 \/ /\ result.ok /\ ~(source < Len(job.sources))
                    /\ phase' = "loaded" /\ source' = source
                    /\ builder' = IdleBuilder(WithLoader(result.img))
    BY DEF EndOfCapture
  <1>11. rest = <<>> /\ job' = job
    BY <1>1
  <1>2. job \in Jobs /\ source \in 1 .. Len(job.sources) /\ Capturing(job)
    BY <1>1, CaptureFacts
  <1>6. /\ parsed \in ParserSet /\ ImgOK(parsed.img) /\ parsed.img.loader_card = -1
        /\ parsed.error = 0 =>
              /\ ImgOK(tmp) /\ AllFilled(tmp) /\ NCards(tmp) > 0
              /\ CardsOf(tmp) = Punched(lines) /\ op = OpOf(job, source)
              /\ tmp.loader_card = FindLoader(tmp) /\ tmp.loader_card \in 0 .. NCards(tmp) - 1
    BY <1>1, CaptureFacts
  <1>3. /\ op = OpOf(job, source) => op \in Ops
        /\ ImgOK(into) /\ AllFilled(into) /\ into.loader_card = -1
        /\ DeckOf(job, source) = CardsOf(into) \o Kept(Punched(lines), OpOf(job, source))
    BY <1>1, CaptureFacts
  <1>7. ParseInv'
    BY <1>1 DEF ParseInv
  <1>8. SynthInv' /\ MemoryImage'
    BY <1>1, <1>2 DEF SynthInv, MemoryImage, Capturing
  <1>9. CASE parsed.error # 0
    <2>1. /\ phase' = "failed" /\ parser' = parsed /\ source' = source /\ builder' = builder
      BY <1>1, <1>9
    <2> HIDE DEF parsed
    <2>2. JobInv'
      BY <1>1, <1>2, <2>1 DEF DeckloadInv, JobInv
    <2>3. ScratchInv'
      BY <1>6, <2>1, NextOffFacts DEF ScratchInv
    <2>4. DeckInv' /\ KeptInv'
      BY <2>1 DEF DeckloadInv, DeckInv, KeptInv
    <2> QED
      BY <1>7, <1>8, <2>2, <2>3, <2>4 DEF DeckloadInv
  <1>10. CASE parsed.error = 0
    <2>1. /\ ImgOK(tmp) /\ AllFilled(tmp) /\ NCards(tmp) > 0 /\ CardsOf(tmp) = Punched(lines)
          /\ tmp.loader_card = FindLoader(tmp) /\ tmp.loader_card \in 0 .. NCards(tmp) - 1
      BY <1>6, <1>10
    <2>2. op = OpOf(job, source)
      BY <1>6, <1>10
    <2>13. op \in Ops
      BY <1>3, <2>2
    <2>3. /\ ImgOK(into) /\ AllFilled(into) /\ into.loader_card = -1
          /\ DeckOf(job, source) = CardsOf(into) \o Kept(CardsOf(tmp), op)
      BY <1>3, <2>1, <2>2
    <2>4. /\ ImgOK(result.img) /\ AllFilled(result.img) /\ result.img.loader_card = -1
          /\ result.ok => /\ CardsOf(result.img) = CardsOf(into) \o Kept(CardsOf(tmp), op)
                          /\ NCards(result.img) > 0
      <3> HIDE DEF tmp, into, op
      <3> QED
        BY <2>1, <2>3, <2>13, SurgeryFacts
    <2> HIDE DEF parsed, tmp, into, op, result
    <2>5. result.ok => CardsOf(result.img) = DeckOf(job, source)
      BY <2>3, <2>4
    <2> HIDE DEF lines
    <2>6. read = [img |-> tmp, in_card |-> parsed.in_card, error |-> parsed.error]
      BY <1>6 DEF ParserSet
    <2>7. parser' = read
      BY <1>1, <1>10
    <2>8. ScratchInv'
      <3>1. read \in ParserSet /\ read.img = tmp
        BY <1>6, <2>1, <2>6 DEF ParserSet, ImgOK
      <3> HIDE DEF read
      <3> QED
        BY <2>1, <2>7, <3>1, NextOffFacts DEF ScratchInv
    <2> HIDE DEF read
    <2> DEFINE img == result.img
    <2>9. /\ IdleBuilder(img).img = img /\ IdleBuilder(img).error = 0
          /\ Sound(IdleBuilder(img)) /\ Building(IdleBuilder(img))
      <3>1. img.loader_card \in -1 .. NCards(img) - 1
        BY <2>4, NextOffFacts
      <3> QED
        BY <2>4, <3>1, IdleFacts
    <2>10. CASE ~result.ok
      <3>1. phase' = "failed" /\ source' = source /\ builder' = IdleBuilder(img)
        BY <1>1, <1>10, <2>10
      <3>2. JobInv' /\ DeckInv' /\ KeptInv'
        BY <1>1, <1>2, <2>9, <3>1 DEF DeckloadInv, JobInv, DeckInv, KeptInv
      <3> QED
        BY <1>7, <1>8, <2>8, <3>2 DEF DeckloadInv
    <2>11. CASE result.ok /\ source < Len(job.sources)
      <3>1. phase' = "open" /\ source' = source + 1 /\ builder' = IdleBuilder(img) /\ dst' = img
        BY <1>1, <1>10, <2>9, <2>11 DEF dst
      <3>2. source + 1 \in 1 .. Len(job.sources) /\ source + 1 - 1 = source
        BY <1>2, <2>11, JobFacts
      <3>3. JobInv'
        BY <1>1, <1>2, <3>1, <3>2 DEF DeckloadInv, JobInv
      <3>4. DeckInv'
        BY <2>9, <3>1 DEF DeckInv
      <3>5. KeptInv'
        <4>1. CardsOf(img) = DeckOf(job, source) /\ img.loader_card = -1
          BY <2>4, <2>5, <2>11
        <4>2. source' - 1 = source /\ job' = job
          <5>1. source' = source + 1
            BY <3>1
          <5>2. source \in Int
            BY <1>2, JobFacts
          <5>3. source' - 1 = source
            BY <5>1, <5>2
          <5> QED
            BY <1>11, <5>3
        <4> HIDE DEF img
        <4>3. CardsOf(dst') = DeckOf(job', source' - 1) /\ dst'.loader_card = -1
          BY <3>1, <4>1, <4>2
        <4> QED
          BY <3>1, <4>3 DEF KeptInv
      <3> QED
        BY <1>7, <1>8, <2>8, <3>3, <3>4, <3>5 DEF DeckloadInv
    <2>12. CASE result.ok /\ ~(source < Len(job.sources))
      <3> DEFINE last == WithLoader(img)
                 c == FindLoader(img)
      <3>1. phase' = "loaded" /\ source' = source /\ builder' = IdleBuilder(last)
        BY <1>1, <1>10, <2>12
      <3>2. source = Len(job.sources)
        BY <1>2, <2>12, JobFacts
      <3>3. c \in 0 .. NCards(img) - 1 /\ c \in Int /\ NCards(img) \in Nat
        BY <2>4, <2>12, LoaderFacts, NextOffFacts
      <3>4. last = [img EXCEPT !.loader_card = c]
        BY DEF WithLoader
      <3>5. ImgOK(img) /\ AllFilled(img) /\ NCards(img) > 0 /\ CardsOf(img) = DeckOf(job, source)
        BY <2>4, <2>5, <2>12
      <3> HIDE DEF img, c, last
      <3>6. /\ ImgOK(last) /\ AllFilled(last) /\ NCards(last) = NCards(img)
            /\ last.loader_card = c /\ CardsOf(last) = CardsOf(img)
        BY <3>3, <3>4, <3>5, MarkedFacts
      <3>7. FindLoader(last) = c
        BY <3>3, <3>4, <3>5, SameLoader DEF c
      <3>8. last.loader_card \in -1 .. NCards(last) - 1
        BY <3>3, <3>6
      <3>9. /\ dst' = last /\ builder'.error = 0 /\ Sound(builder') /\ Building(builder')
        BY <3>1, <3>6, <3>8, IdleFacts DEF dst
      <3>10. JobInv'
        BY <1>1, <1>2, <3>1 DEF DeckloadInv, JobInv
      <3>11. DeckInv'
        BY <3>9 DEF DeckInv
      <3>12. KeptInv'
        BY <1>1, <3>1, <3>2, <3>5, <3>6, <3>7, <3>9 DEF KeptInv
      <3> QED
        BY <1>7, <1>8, <2>8, <3>10, <3>11, <3>12 DEF DeckloadInv
    <2> QED
      BY <2>10, <2>11, <2>12
  <1> QED
    BY <1>9, <1>10

----------------------------------------------------------------------------
(* The steps of a synthesis.                                               *)

LEMMA BeginPlaced ==
    ASSUME NEW base \in Nat, base < AddressSpace, NEW bytes, NEW b, b = Bin2DeckBegin(base)
    PROVE  Placed(b, bytes, base, 0)
  <1>1. /\ b.buf = <<>> /\ b.addr = base /\ CardsOf(b.img) = <<LoaderCols>>
    BY BeginFacts
  <1>2. AddressSpace \in Nat
    BY SizeFacts
  <1>3. Memory(b.img) = <<>>
    <2>1. Tail(<<LoaderCols>>) = <<>>
      OBVIOUS
    <2>2. Memory(b.img) = Loaded!Fold(<<>>, Tail(<<LoaderCols>>))
      BY <1>1, LoadedFold DEF Memory
    <2> QED
      BY <2>1, <2>2, Loaded!FoldEmpty
  <1>4. Loading(bytes, base, base) = <<>>
    <2>1. base .. base - 1 = {}
      OBVIOUS
    <2>2. \A D : D = {} => [a \in D |-> bytes[a - base + 1]] = <<>>
      OBVIOUS
    <2> QED
      BY <2>1, <2>2 DEF Loading
  <1>5. Len(b.buf) = 0
    BY <1>1
  <1> QED
    BY <1>1, <1>2, <1>3, <1>4, <1>5 DEF Placed

LEMMA FeedBytePlaced ==
    ASSUME NEW b, Building(b), NCards(b.img) > 0, b.error = 0,
           NEW base \in Nat, NEW k \in Nat, NEW bytes \in Seq(Byte), k < Len(bytes),
           Placed(b, bytes, base, k),
           NEW q, q = FeedByte(b, bytes[k + 1]), q.error = 0
    PROVE  Placed(q, bytes, base, k + 1)
  <1> DEFINE byte == bytes[k + 1]
             buf == Append(b.buf, byte)
             m == Len(b.buf)
             n == Len(buf)
  <1>1. byte \in Byte /\ q = FeedByte(b, byte)
    OBVIOUS
  <1> HIDE DEF byte
  <1>2. /\ b \in BuilderSet /\ ImgOK(b.img) /\ m <= Chunk /\ b.addr \in Nat /\ b.buf \in Seq(Byte)
        /\ m < Chunk
    BY DEF Building, BuilderSet
  <1>3. /\ base <= b.addr /\ b.addr <= AddressSpace /\ base + k = b.addr + m
        /\ \A i \in 1 .. m : b.buf[i] = bytes[b.addr - base + i]
        /\ Memory(b.img) = Loading(bytes, base, b.addr)
    BY DEF Placed
  <1>4. \/ /\ q.img = b.img /\ q.addr = b.addr /\ q.buf = buf
        \/ /\ b.addr + Len(buf) <= AddressSpace
           /\ q.addr = b.addr + Len(buf) /\ q.buf = <<>>
           /\ CardsOf(q.img) = Append(CardsOf(b.img), ScatterCard(b.addr, buf))
    BY <1>1, FeedByteFacts
  <1>5. /\ buf \in Seq(Byte) /\ n = m + 1 /\ n \in Nat /\ m \in Nat /\ buf[m + 1] = byte
        /\ \A i \in 1 .. m : buf[i] = b.buf[i]
    BY <1>1, <1>2
  <1>10. byte = bytes[k + 1]
    BY DEF byte
  <1> HIDE DEF buf, m, n
  <1>6. base + (k + 1) = b.addr + n
    <2>1. base + k = b.addr + m /\ n = m + 1 /\ m \in Nat /\ b.addr \in Nat
      BY <1>2, <1>3, <1>5
    <2> DEFINE addr == b.addr
    <2> HIDE DEF addr
    <2>2. base + k = addr + m /\ n = m + 1 /\ m \in Nat /\ addr \in Nat
      BY <2>1 DEF addr
    <2>3. base + (k + 1) = addr + n
      BY <2>2
    <2> QED
      BY <2>3 DEF addr
  <1>7. \A i \in 1 .. n : buf[i] = bytes[b.addr - base + i]
    <2>1. ASSUME NEW i \in 1 .. n PROVE buf[i] = bytes[b.addr - base + i]
      <3>1. CASE i = m + 1
        <4>1. b.addr - base + i = k + 1
          BY <1>2, <1>3, <1>5, <3>1
        <4> HIDE DEF buf
        <4> QED
          BY <1>5, <1>10, <3>1, <4>1
      <3>2. CASE i # m + 1
        <4>1. i \in 1 .. m
          BY <1>5, <3>2
        <4> HIDE DEF buf
        <4> QED
          BY <1>3, <1>5, <4>1
      <3> QED
        BY <3>1, <3>2
    <2> QED
      BY <2>1
  <1>8. CASE q.img = b.img /\ q.addr = b.addr /\ q.buf = buf
    BY <1>3, <1>6, <1>7, <1>8 DEF Placed, n
  <1>9. CASE /\ b.addr + Len(buf) <= AddressSpace
             /\ q.addr = b.addr + Len(buf) /\ q.buf = <<>>
             /\ CardsOf(q.img) = Append(CardsOf(b.img), ScatterCard(b.addr, buf))
    <2>1. n > 0 /\ n <= Chunk
      BY <1>2, <1>5, SizeFacts
    <2> DEFINE img == b.img
               addr == b.addr
               grown == q.img
               next == q.addr
    <2>2. /\ ImgOK(img) /\ NCards(img) > 0 /\ addr \in Nat /\ base <= addr /\ addr + n <= AddressSpace
          /\ CardsOf(grown) = Append(CardsOf(img), ScatterCard(addr, buf))
          /\ Memory(img) = Loading(bytes, base, addr) /\ next = addr + n
          /\ \A i \in 1 .. n : buf[i] = bytes[addr - base + i]
      BY <1>2, <1>3, <1>7, <1>9 DEF n
    <2>3. n = Len(buf)
      BY DEF n
    <2>6. buf \in Seq(Byte) /\ n \in Nat /\ base + (k + 1) = addr + n /\ q.buf = <<>>
      BY <1>5, <1>6, <1>9
    <2> HIDE DEF img, addr, grown, next
    <2>4. Memory(grown) = Loading(bytes, base, next)
      <3>1. Grows(img, grown, bytes, base, addr, next, buf, n)
        BY <2>1, <2>2, <2>3, <2>6 DEF Grows
      <3> QED
        BY <3>1, MemoryGrows
    <2>5. Len(q.buf) = 0 /\ base + (k + 1) = next + 0 /\ base <= next /\ next <= AddressSpace
      BY <2>2, <2>6
    <2> QED
      BY <2>4, <2>5 DEF Placed, grown, next
  <1> QED
    BY <1>4, <1>8, <1>9

\* A piece of the file that comes next.
Piece(b, bytes, base, k, piece, n) ==
    /\ Building(b) /\ NCards(b.img) > 0 /\ b.img.loader_card = 0 /\ b.error = 0
    /\ base \in Nat /\ k \in Nat /\ n \in Nat /\ bytes \in Seq(Byte) /\ k + n <= Len(bytes)
    /\ Placed(b, bytes, base, k)
    /\ piece \in Seq(Byte) /\ Len(piece) = n /\ \A i \in 1 .. n : piece[i] = bytes[k + i]

LEMMA FeedFacts ==
    ASSUME NEW b, NEW bytes, NEW base, NEW k, NEW piece, NEW n, Piece(b, bytes, base, k, piece, n),
           NEW q, q = Bin2DeckFeed(b, piece)
    PROVE  /\ Building(q) /\ NCards(q.img) > 0 /\ q.img.loader_card = 0
           /\ q.error = 0 => Placed(q, bytes, base, k + n)
  <1>11. /\ Building(b) /\ NCards(b.img) > 0 /\ b.img.loader_card = 0 /\ b.error = 0
         /\ base \in Nat /\ k \in Nat /\ n \in Nat /\ bytes \in Seq(Byte) /\ k + n <= Len(bytes)
         /\ Placed(b, bytes, base, k)
         /\ piece \in Seq(Byte) /\ Len(piece) = n /\ \A i \in 1 .. n : piece[i] = bytes[k + i]
    BY DEF Piece
  <1> DEFINE Good(v, m) == /\ Building(v) /\ NCards(v.img) > 0 /\ v.img.loader_card = 0
                           /\ v.error = 0 => Placed(v, bytes, base, k + m)
             K == [m \in 0 .. n |-> {v \in BuilderSet : Good(v, m)}]
  <1>1. \A v, m : m \in 0 .. n /\ Good(v, m) => v \in K[m]
    BY DEF Building
  <1>2. \A v, m : m \in 0 .. n /\ v \in K[m] => Good(v, m)
    OBVIOUS
  <1>3. Good(b, 0)
    BY <1>11
  <1>4. ASSUME NEW m \in 1 .. n, NEW v, Good(v, m - 1) PROVE Good(FeedByte(v, piece[m]), m)
    <2> DEFINE w == FeedByte(v, piece[m])
               l == k + (m - 1)
    <2>1. l \in Nat /\ l < Len(bytes) /\ l + 1 = k + m /\ piece[m] = bytes[l + 1] /\ bytes[l + 1] \in Byte
      BY <1>11
    <2>2. Building(v) /\ NCards(v.img) > 0 /\ v.img.loader_card = 0 /\ NCards(v.img) \in Nat
      BY <1>4, NextOffFacts DEF Building
    <2>3. /\ Building(w) /\ w.img.loader_card = 0 /\ NCards(w.img) >= NCards(v.img)
          /\ w.error = 0 => v.error = 0
      BY <2>1, <2>2, FeedByteFacts
    <2>4. NCards(w.img) > 0
      BY <2>2, <2>3, NextOffFacts DEF Building
    <2>5. w.error = 0 => Placed(w, bytes, base, k + m)
      <3> SUFFICES ASSUME w.error = 0 PROVE Placed(w, bytes, base, l + 1)
        BY <2>1
      <3>1. v.error = 0 /\ Placed(v, bytes, base, l)
        BY <1>4, <2>3
      <3>2. w = FeedByte(v, bytes[l + 1])
        BY <2>1
      <3> HIDE DEF w, l
      <3> QED
        BY <1>11, <2>1, <2>2, <3>1, <3>2, FeedBytePlaced
    <2> HIDE DEF w
    <2>6. Good(w, m)
      BY <2>3, <2>4, <2>5
    <2> QED
      BY <2>6 DEF w
  <1> HIDE DEF Good
  <1>5. b \in K[0]
    BY <1>1, <1>3, <1>11
  <1>6. \A m \in 1 .. n : \A v \in K[m - 1] : FeedByte(v, piece[m]) \in K[m]
    <2>1. ASSUME NEW m \in 1 .. n, NEW v \in K[m - 1] PROVE FeedByte(v, piece[m]) \in K[m]
      <3>1. m - 1 \in 0 .. n /\ m \in 0 .. n
        BY <1>11
      <3> HIDE DEF K
      <3>2. Good(v, m - 1)
        BY <1>2, <2>1, <3>1
      <3>3. Good(FeedByte(v, piece[m]), m)
        BY <1>4, <3>2
      <3> QED
        BY <1>1, <3>1, <3>3
    <2> QED
      BY <2>1
  <1>7. DOMAIN piece = 1 .. n
    BY <1>11
  <1>8. q = Fed!Fold(b, piece)
    BY FedFold DEF Bin2DeckFeed
  <1>12. n \in Nat
    BY <1>11
  <1> HIDE DEF K
  <1>9. Fed!Fold(b, piece) \in K[n]
    BY <1>5, <1>6, <1>7, <1>12, Fed!FoldInvariant
  <1>10. Good(q, n)
    <2>1. n \in 0 .. n
      BY <1>11
    <2> QED
      BY <1>2, <1>8, <1>9, <2>1
  <1> QED
    BY <1>10 DEF Good

LEMMA FlushPlaced ==
    ASSUME NEW b, Building(b), NCards(b.img) > 0,
           NEW base \in Nat, NEW k \in Nat, NEW bytes, Placed(b, bytes, base, k),
           NEW q, q = FlushCard(b), q.error = 0
    PROVE  /\ ImgOK(q.img) /\ NCards(q.img) > 0
           /\ Memory(q.img) = Loading(bytes, base, base + k)
  <1> DEFINE buf == b.buf
             n == Len(buf)
  <1>1. /\ b \in BuilderSet /\ ImgOK(b.img) /\ AllFilled(b.img) /\ n <= Chunk
        /\ b.addr \in Nat /\ buf \in Seq(Byte)
    BY DEF Building, BuilderSet
  <1>2. /\ base <= b.addr /\ base + k = b.addr + n
        /\ \A i \in 1 .. n : buf[i] = bytes[b.addr - base + i]
        /\ Memory(b.img) = Loading(bytes, base, b.addr)
    BY DEF Placed
  <1>3. /\ Building(q) \/ (q = b /\ b.error = -1)
        /\ NCards(q.img) >= NCards(b.img) /\ b.error = 0
        /\ buf = <<>> => q = b
        /\ buf # <<>> =>
              /\ b.addr + n <= AddressSpace
              /\ q.addr = b.addr + n
              /\ CardsOf(q.img) = Append(CardsOf(b.img), ScatterCard(b.addr, buf))
    BY <1>1, FlushFacts
  <1>4. ImgOK(q.img) /\ NCards(q.img) > 0
    <2>1. Building(q)
      BY <1>3
    <2>2. ImgOK(q.img) /\ NCards(q.img) \in Nat /\ NCards(b.img) \in Nat
      BY <1>1, <2>1, NextOffFacts DEF Building
    <2> QED
      BY <1>3, <2>2
  <1>5. n \in Nat /\ (buf = <<>> <=> n = 0)
    BY <1>1, EmptyIff
  <1>6. CASE buf = <<>>
    <2>1. b.addr = base + k /\ q = b
      BY <1>1, <1>2, <1>3, <1>5, <1>6
    <2> QED
      BY <1>2, <1>4, <2>1
  <1>7. CASE buf # <<>>
    <2> DEFINE img == b.img
               grown == q.img
               addr == b.addr
               next == base + k
    <2>1. /\ ImgOK(img) /\ NCards(img) > 0 /\ addr \in Nat /\ base <= addr /\ addr + n <= AddressSpace
          /\ CardsOf(grown) = Append(CardsOf(img), ScatterCard(addr, buf))
          /\ Memory(img) = Loading(bytes, base, addr) /\ next = addr + n
          /\ \A i \in 1 .. n : buf[i] = bytes[addr - base + i]
      BY <1>1, <1>2, <1>3, <1>7
    <2>2. n > 0 /\ n <= Chunk /\ buf \in Seq(Byte)
      BY <1>1, <1>5, <1>7
    <2>3. n = Len(buf)
      OBVIOUS
    <2> HIDE DEF img, addr, grown, next, n, buf
    <2>4. Grows(img, grown, bytes, base, addr, next, buf, n)
      BY <2>1, <2>2, <2>3 DEF Grows
    <2>5. Memory(grown) = Loading(bytes, base, next)
      BY <2>4, MemoryGrows
    <2> QED
      BY <1>4, <2>5 DEF grown, next
  <1> QED
    BY <1>6, <1>7

\* The machine's memory when it has read the deck of a program.
Image(bytes, base) ==
    [a \in 0 .. 7 \cup base .. base + Len(bytes) - 1 |->
        IF a \in 0 .. 7
        THEN <<7, 0, 7, 0, 67, 240, base \div 256, base % 256>>[a + 1]
        ELSE bytes[a - base + 1]]

LEMMA EndPlaced ==
    ASSUME NEW b, Building(b), NCards(b.img) > 0,
           NEW base \in Nat, base < AddressSpace, NEW bytes \in Seq(Byte),
           Placed(b, bytes, base, Len(bytes)),
           NEW q, q = Bin2DeckEnd(b, base), q.error = 0
    PROVE  Memory(q.img) = Image(bytes, base)
  <1> DEFINE f == FlushCard(b)
             T == Termination(base)
             k == Len(bytes)
             card == ScatterCard(0, T)
             img == f.img
             grown == q.img
  <1>1. base < 65536 /\ k \in Nat
    BY SizeFacts
  <1>2. f.error = 0 /\ CardsOf(grown) = Append(CardsOf(img), card)
    BY <1>1, EndFacts
  <1>3. ImgOK(img) /\ NCards(img) > 0 /\ Memory(img) = Loading(bytes, base, base + k)
    <2> HIDE DEF k
    <2>1. Placed(b, bytes, base, k)
      BY DEF k
    <2> HIDE DEF f
    <2>2. f = FlushCard(b)
      BY DEF f
    <2> QED
      BY <1>1, <1>2, <2>1, <2>2, FlushPlaced
  <1>4. T \in Seq(Byte) /\ Len(T) = 8
    BY <1>1, TerminationFacts
  <1> HIDE DEF T
  <1>5. Payload(0, T, 8)
    BY <1>4, SizeFacts DEF Payload
  <1>6. card \in Seq(Columns) /\ CardsOf(img) \in Seq(Seq(Columns)) /\ Len(CardsOf(img)) > 0
    BY <1>3, <1>4, ScatterCardType, CardsOfFacts
  <1>7. Memory(grown) = LoadCard(Memory(img), card)
    <2> DEFINE S == Seq(Columns)
    <2>1. card \in S /\ CardsOf(img) \in Seq(S)
      BY <1>6
    <2> HIDE DEF S, card, img, grown
    <2> QED
      BY <1>2, <1>6, <2>1, MemoryFacts
  <1> DEFINE memory == Loading(bytes, base, base + k)
             D == base .. base + k - 1
             M == 0 .. 0 + 8 - 1
  <1>8. LoadCard(memory, card) = Moved(memory, 0, T, 8)
    <2> HIDE DEF memory
    <2> QED
      BY <1>5, LoadCardFacts
  <1>9. DOMAIN memory = D /\ \A a \in D : memory[a] = bytes[a - base + 1]
    BY DEF Loading
  <1>10. Memory(img) = memory
    BY <1>3
  <1> HIDE DEF memory, card, img, grown
  <1>11. Memory(grown) = [a \in D \cup M |-> IF a \in M THEN T[a - 0 + 1] ELSE memory[a]]
    BY <1>7, <1>8, <1>9, <1>10 DEF Moved
  <1>12. M = 0 .. 7 /\ D \cup M = 0 .. 7 \cup D
    <2>1. M = 0 .. 7
      OBVIOUS
    <2> HIDE DEF M, D
    <2> QED
      BY <2>1
  <1>13. \A a \in D \cup M : (IF a \in M THEN T[a - 0 + 1] ELSE memory[a])
                                 = (IF a \in 0 .. 7 THEN T[a + 1] ELSE bytes[a - base + 1])
    <2>1. ASSUME NEW a \in D \cup M
          PROVE  (IF a \in M THEN T[a - 0 + 1] ELSE memory[a])
                     = (IF a \in 0 .. 7 THEN T[a + 1] ELSE bytes[a - base + 1])
      <3>1. CASE a \in M
        <4>1. a - 0 + 1 = a + 1
          BY <3>1
        <4> HIDE DEF M
        <4> QED
          BY <1>12, <3>1, <4>1
      <3>2. CASE a \notin M
        <4> HIDE DEF M, D
        <4> QED
          BY <1>9, <1>12, <3>2
      <3> QED
        BY <3>1, <3>2
    <2> QED
      BY <2>1
  <1> HIDE DEF D, M
  <1>14. Memory(grown) = [a \in 0 .. 7 \cup D |-> IF a \in 0 .. 7 THEN T[a + 1] ELSE bytes[a - base + 1]]
    <2> DEFINE x(a) == IF a \in M THEN T[a - 0 + 1] ELSE memory[a]
               y(a) == IF a \in 0 .. 7 THEN T[a + 1] ELSE bytes[a - base + 1]
    <2>1. Memory(grown) = [a \in D \cup M |-> x(a)]
      BY <1>11
    <2>2. \A a \in D \cup M : x(a) = y(a)
      BY <1>13
    <2> HIDE DEF x, y
    <2>3. Memory(grown) = [a \in 0 .. 7 \cup D |-> y(a)]
      BY <1>12, <2>1, <2>2
    <2> QED
      BY <2>3 DEF y
  <1> QED
    BY <1>14 DEF Image, D, T, Termination, k, grown

\* A program that is its own loader, as nibbles.
HexImage(img, bytes) ==
    LET nibbles == Decoded(CardOf(img, 0), "HEX") IN
    /\ NCards(img) = 1
    /\ \A i \in DOMAIN bytes : 16 * nibbles[2 * i - 1] + nibbles[2 * i] = bytes[i]
    /\ \A k \in 2 * Len(bytes) + 1 .. Len(nibbles) : nibbles[k] = 0

LEMMA IplImage ==
    ASSUME NEW bytes \in Seq(Byte), IplOk(bytes), NEW q, q = Bin2DeckIpl(bytes)
    PROVE  HexImage(q, bytes)
  <1> DEFINE n == Len(bytes)
             x(i) == NibbleOf(bytes, i)
             columns == [i \in 1 .. 2 * n |-> NibbleToHexCol(x(i))]
             card == CardFrom(0, columns)
             nibbles == Decoded(card, "HEX")
  <1>1. n \in Nat /\ 2 * n <= CardCols /\ CardCols \in Nat
    BY SizeFacts DEF IplOk
  <1>2. /\ ImgOK(q) /\ NCards(q) = 1 /\ columns \in Seq(Columns) /\ Len(columns) = 2 * n
        /\ CardsOf(q) = <<card>>
    BY IplFacts
  <1>3. CardOf(q, 0) = card
    <2>1. CardsOf(q)[1] = CardOf(q, 1 - 1)
      BY <1>2, CardsOfFacts
    <2>2. CardsOf(q)[1] = card
      BY <1>2
    <2>3. 1 - 1 = 0
      OBVIOUS
    <2> QED
      BY <2>1, <2>2, <2>3
  <1>4. \A i \in 1 .. 2 * n : columns[i] = NibbleToHexCol(x(i)) /\ x(i) \in 0 .. 15
    BY NibbleOfType
  <1> HIDE DEF columns, x
  <1>5. /\ card \in Seq(Columns) /\ Len(card) = CardCols
        /\ \A i \in 1 .. CardCols :
              card[i] = IF i - 1 \in 0 .. 0 + Len(columns) - 1 THEN columns[i - 0] ELSE {}
    BY <1>2, CardFromFacts
  <1> HIDE DEF card
  <1>6. /\ nibbles = [i \in 1 .. CardCols |-> TranscodeColumn(card[i], "HEX")]
        /\ \A i \in 1 .. CardCols : nibbles[i] = TranscodeColumn(card[i], "HEX")
    BY <1>5 DEF Decoded
  <1>7. Len(nibbles) = CardCols
    BY <1>1, <1>6
  <1> HIDE DEF nibbles
  <1>8. ASSUME NEW i \in 1 .. 2 * n PROVE nibbles[i] = x(i)
    <2>1. i \in 1 .. CardCols /\ i - 1 \in 0 .. 0 + Len(columns) - 1 /\ i - 0 = i
      BY <1>1, <1>2
    <2>2. card[i] = NibbleToHexCol(x(i)) /\ x(i) \in 0 .. 15
      BY <1>4, <1>5, <2>1
    <2> QED
      BY <1>6, <2>1, <2>2, HexColumn
  <1>9. ASSUME NEW i \in DOMAIN bytes PROVE 16 * nibbles[2 * i - 1] + nibbles[2 * i] = bytes[i]
    <2> DEFINE y == bytes[i]
    <2>1. i \in 1 .. n /\ y \in Byte
      OBVIOUS
    <2>2. y \in Nat
      BY <2>1, ByteFacts
    <2>3. 2 * i - 1 \in 1 .. 2 * n /\ 2 * i \in 1 .. 2 * n
      BY <1>1, <2>1
    <2>4. x(2 * i - 1) = y \div 16 /\ x(2 * i) = y % 16
      <3>1. (2 * i - 1) % 2 = 1 /\ (2 * i - 1 + 1) \div 2 = i /\ (2 * i) % 2 # 1 /\ (2 * i) \div 2 = i
        BY <1>1, <2>1
      <3>2. /\ x(2 * i - 1) = bytes[(2 * i - 1 + 1) \div 2] \div 16
            /\ x(2 * i) = bytes[(2 * i) \div 2] % 16
        BY <3>1 DEF x, NibbleOf
      <3> QED
        BY <3>1, <3>2
    <2> HIDE DEF y
    <2> DEFINE high == y \div 16
               low == y % 16
    <2>5. high \in Int /\ low \in Int /\ high * 16 + low = y
      BY <2>2
    <2>6. nibbles[2 * i - 1] = high /\ nibbles[2 * i] = low
      BY <1>8, <2>3, <2>4
    <2> HIDE DEF high, low
    <2>7. 16 * high + low = y
      BY <2>5
    <2> QED
      BY <2>6, <2>7 DEF y
  <1>10. ASSUME NEW k \in 2 * n + 1 .. Len(nibbles) PROVE nibbles[k] = 0
    <2>1. k \in 1 .. CardCols /\ k - 1 \notin 0 .. 0 + Len(columns) - 1
      BY <1>1, <1>2, <1>7
    <2>2. card[k] = {}
      BY <1>5, <2>1
    <2> QED
      BY <1>6, <2>1, <2>2, BlankColumn
  <1>11. nibbles = Decoded(CardOf(q, 0), "HEX")
    BY <1>3 DEF nibbles
  <1> HIDE DEF n
  <1> QED
    BY <1>2, <1>9, <1>10, <1>11 DEF HexImage, n

LEMMA OpenBinaryStep ==
    ASSUME DeckloadInv, OpenBinary
    PROVE  DeckloadInv'
  <1> DEFINE bytes == job.sources[1].bytes
             b == Bin2DeckBegin(job.base)
  <1>1. /\ phase = "open" /\ job.kind = "bin" /\ ~IplJob(job) /\ phase' = "binary"
        /\ rest' = job.sources[source].bytes /\ builder' = b
        /\ job' = job /\ source' = source /\ parser' = parser
    BY DEF OpenBinary
  <1>2. job \in Jobs /\ source \in 1 .. Len(job.sources)
    BY <1>1 DEF DeckloadInv, JobInv
  <1>3. /\ bytes \in Seq(Byte) /\ job.base \in Nat /\ job.base < AddressSpace /\ source = 1
    <2>1. /\ bytes \in Seq(Byte) /\ job.base \in Nat /\ job.base < AddressSpace /\ Len(job.sources) = 1
      BY <1>1, <1>2, JobFacts
    <2> QED
      BY <1>2, <2>1
  <1>4. Building(b) /\ b.error = 0 /\ NCards(b.img) = 1 /\ b.img.loader_card = 0
    BY <1>3, BeginFacts
  <1>5. Placed(b, bytes, job.base, 0)
    <2> HIDE DEF bytes
    <2> QED
      BY <1>3, BeginPlaced
  <1> HIDE DEF b
  <1>6. JobInv' /\ ScratchInv'
    BY <1>1, <1>2 DEF DeckloadInv, JobInv, ScratchInv
  <1>7. DeckInv'
    BY <1>1, <1>4 DEF DeckInv, Sound, Building
  <1>8. ParseInv' /\ KeptInv' /\ MemoryImage'
    BY <1>1 DEF ParseInv, KeptInv, MemoryImage, Capturing
  <1>9. SynthInv'
    <2>1. rest' = bytes /\ job'.sources[1].bytes = bytes
      BY <1>1, <1>3
    <2>2. 0 \in 0 .. Len(bytes) /\ rest' = SubSeq(bytes, 0 + 1, Len(bytes))
      <3> HIDE DEF bytes
      <3> QED
        BY <1>3, <2>1
    <2>3. NCards(dst') > 0 /\ dst'.loader_card = 0
      BY <1>1, <1>4 DEF dst
    <2>4. ~IplJob(job')
      BY <1>1
    <2> HIDE DEF bytes
    <2> QED
      BY <1>1, <1>5, <2>1, <2>2, <2>3, <2>4 DEF SynthInv
  <1> QED
    BY <1>6, <1>7, <1>8, <1>9 DEF DeckloadInv

LEMMA LoadIplStep ==
    ASSUME DeckloadInv, LoadIpl
    PROVE  DeckloadInv'
  <1> DEFINE bytes == job.sources[1].bytes
             img == Bin2DeckIpl(bytes)
  <1>1. /\ phase = "open" /\ IplJob(job) /\ job.kind = "bin"
        /\ job' = job /\ source' = source /\ parser' = parser
        /\ LET data == job.sources[source].bytes IN
           \/ IplOk(data) /\ phase' = "loaded" /\ builder' = IdleBuilder(Bin2DeckIpl(data))
           \/ phase' = "failed" /\ builder' = builder
    BY DEF LoadIpl, IplJob
  <1>2. job \in Jobs /\ source \in 1 .. Len(job.sources)
    BY <1>1 DEF DeckloadInv, JobInv
  <1>3. bytes \in Seq(Byte) /\ source = 1
    <2>1. bytes \in Seq(Byte) /\ Len(job.sources) = 1
      BY <1>1, <1>2, JobFacts
    <2> QED
      BY <1>2, <2>1
  <1>4. JobInv' /\ ScratchInv'
    BY <1>1, <1>2 DEF DeckloadInv, JobInv, ScratchInv
  <1>5. ParseInv' /\ KeptInv'
    BY <1>1 DEF ParseInv, KeptInv, Capturing
  <1>6. CASE phase' = "failed" /\ builder' = builder
    <2>1. DeckInv' /\ SynthInv' /\ MemoryImage'
      BY <1>6 DEF DeckloadInv, DeckInv, SynthInv, MemoryImage
    <2> QED
      BY <1>4, <1>5, <2>1 DEF DeckloadInv
  <1>7. CASE IplOk(bytes) /\ phase' = "loaded" /\ builder' = IdleBuilder(img)
    <2>1. /\ ImgOK(img) /\ AllFilled(img) /\ NCards(img) = 1 /\ img.loader_card = 0
          /\ HexImage(img, bytes)
      <3> HIDE DEF bytes
      <3> QED
        BY <1>3, <1>7, IplFacts, IplImage
    <2> HIDE DEF img
    <2>2. dst' = img /\ builder'.error = 0 /\ Sound(builder') /\ Building(builder')
      BY <1>7, <2>1, IdleFacts DEF dst
    <2>3. DeckInv'
      BY <2>2 DEF DeckInv
    <2>4. SynthInv'
      BY <1>7, <2>1, <2>2 DEF SynthInv
    <2>5. MemoryImage'
      <3>1. HexImage(dst', job'.sources[1].bytes)
        BY <1>1, <2>1, <2>2
      <3>2. IplJob(job')
        BY <1>1
      <3> QED
        BY <3>1, <3>2 DEF MemoryImage, HexImage
    <2> QED
      BY <1>4, <1>5, <2>3, <2>4, <2>5 DEF DeckloadInv
  <1> QED
    BY <1>1, <1>3, <1>6, <1>7

LEMMA BinaryFacts ==
    ASSUME DeckloadInv, phase = "binary"
    PROVE  LET bytes == job.sources[1].bytes IN
           /\ job \in Jobs /\ source \in 1 .. Len(job.sources) /\ job.kind = "bin" /\ ~IplJob(job)
           /\ bytes \in Seq(Byte) /\ job.base \in Nat /\ job.base < AddressSpace
           /\ Building(builder) /\ builder.error = 0
           /\ NCards(builder.img) > 0 /\ builder.img.loader_card = 0
           /\ \E k \in 0 .. Len(bytes) :
                 /\ rest = SubSeq(bytes, k + 1, Len(bytes))
                 /\ Placed(builder, bytes, job.base, k)
  <1>1. job \in Jobs /\ source \in 1 .. Len(job.sources) /\ ~Capturing(job)
    BY DEF DeckloadInv, JobInv, KeptInv
  <1>2. job.kind = "bin"
    BY <1>1, JobFacts DEF Capturing
  <1>3. job.sources[1].bytes \in Seq(Byte) /\ job.base \in Nat /\ job.base < AddressSpace
    BY <1>1, <1>2, JobFacts
  <1>4. Building(builder) /\ builder.error = 0
    BY DEF DeckloadInv, DeckInv
  <1> QED
    BY <1>1, <1>2, <1>3, <1>4 DEF DeckloadInv, SynthInv, dst

LEMMA ReadBytesStep ==
    ASSUME DeckloadInv, NEW n \in ReadSizes, ReadBytes(n)
    PROVE  DeckloadInv'
  <1> DEFINE bytes == job.sources[1].bytes
             piece == SubSeq(rest, 1, n)
             q == Bin2DeckFeed(builder, piece)
  <1>1. /\ phase = "binary" /\ n <= Len(rest) /\ builder' = q
        /\ rest' = SubSeq(rest, n + 1, Len(rest))
        /\ phase' = IF q.error # 0 THEN "failed" ELSE "binary"
        /\ job' = job /\ source' = source /\ parser' = parser
    BY DEF ReadBytes
  <1>2. /\ job \in Jobs /\ source \in 1 .. Len(job.sources) /\ job.kind = "bin" /\ ~IplJob(job)
        /\ bytes \in Seq(Byte) /\ job.base \in Nat
        /\ Building(builder) /\ builder.error = 0
        /\ NCards(builder.img) > 0 /\ builder.img.loader_card = 0
    BY <1>1, BinaryFacts
  <1>3. PICK k \in 0 .. Len(bytes) :
           /\ rest = SubSeq(bytes, k + 1, Len(bytes))
           /\ Placed(builder, bytes, job.base, k)
    BY <1>1, BinaryFacts
  <1>4. n \in Nat
    BY DeckloadAssumption
  <1>5. /\ k \in Nat /\ k + n <= Len(bytes) /\ piece \in Seq(Byte) /\ Len(piece) = n
        /\ \A i \in 1 .. n : piece[i] = bytes[k + i]
        /\ rest' = SubSeq(bytes, (k + n) + 1, Len(bytes)) /\ k + n \in 0 .. Len(bytes)
    <2> HIDE DEF bytes
    <2>1. Len(bytes) \in Nat /\ k \in Nat /\ k <= Len(bytes)
      BY <1>2, <1>3
    <2>2. /\ rest \in Seq(Byte) /\ Len(rest) = Len(bytes) - k
          /\ \A i \in 1 .. Len(bytes) - k : rest[i] = bytes[k + i]
      BY <1>2, <1>3, <2>1
    <2>3. n <= Len(bytes) - k
      BY <1>1, <2>2
    <2>4. piece \in Seq(Byte) /\ Len(piece) = n /\ \A i \in 1 .. n : piece[i] = rest[i]
      BY <1>4, <2>1, <2>2, <2>3
    <2>5. \A i \in 1 .. n : piece[i] = bytes[k + i]
      BY <1>4, <2>1, <2>2, <2>3, <2>4
    <2>6. SubSeq(rest, n + 1, Len(rest)) = SubSeq(bytes, (k + n) + 1, Len(bytes))
      <3> DEFINE l == Len(bytes)
                 s == SubSeq(rest, n + 1, Len(rest))
                 t == SubSeq(bytes, (k + n) + 1, l)
                 m == l - k - n
      <3>1. m \in Nat /\ n + m = Len(rest) /\ (k + n) + m = l
        BY <1>4, <2>1, <2>2, <2>3
      <3>6. l = Len(bytes)
        OBVIOUS
      <3> HIDE DEF l, m
      <3>2. s \in Seq(Byte) /\ Len(s) = m /\ \A i \in 1 .. m : s[i] = rest[n + i]
        <4> DEFINE r == rest
                   o == n
                   a == o + 1
                   e == o + m
        <4>1. /\ o \in Nat /\ m \in Nat /\ o + m <= Len(r) /\ r \in Seq(Byte)
              /\ a = o + 1 /\ e = o + m
          <5>1. n + m <= Len(rest)
            BY <3>1
          <5> QED
            BY <1>4, <2>2, <3>1, <5>1
        <4>2. s = SubSeq(r, a, e)
          BY <3>1
        <4> HIDE DEF r, o, a, e, s
        <4>3. s \in Seq(Byte) /\ Len(s) = m /\ \A i \in 1 .. m : s[i] = r[o + i]
          BY <4>1, <4>2, SubSeqAt
        <4> QED
          BY <4>3 DEF r, o
      <3>3. t \in Seq(Byte) /\ Len(t) = m /\ \A i \in 1 .. m : t[i] = bytes[(k + n) + i]
        <4> DEFINE o == k + n
                   a == o + 1
                   e == o + m
        <4>1. /\ o \in Nat /\ a = o + 1 /\ e = o + m /\ t = SubSeq(bytes, a, e) /\ o + m <= Len(bytes)
          BY <1>4, <2>1, <3>1, <3>6
        <4> HIDE DEF o, a, e, t
        <4>2. t \in Seq(Byte) /\ Len(t) = m /\ \A i \in 1 .. m : t[i] = bytes[o + i]
          BY <1>2, <3>1, <4>1, SubSeqAt
        <4> QED
          BY <4>2 DEF o
      <3>4. \A i \in 1 .. m : s[i] = t[i]
        <4>1. ASSUME NEW i \in 1 .. m PROVE s[i] = t[i]
          <5>1. n + i \in 1 .. Len(bytes) - k /\ k + (n + i) = (k + n) + i
            BY <1>4, <2>1, <3>1, <3>6
          <5>2. rest[n + i] = bytes[k + (n + i)]
            BY <2>2, <5>1
          <5>3. s[i] = rest[n + i] /\ t[i] = bytes[(k + n) + i]
            BY <3>2, <3>3
          <5> QED
            BY <5>1, <5>2, <5>3
        <4> QED
          BY <4>1
      <3> HIDE DEF s, t
      <3>5. s = t
        BY <3>2, <3>3, <3>4, SeqEqual
      <3> QED
        BY <3>5, <3>6 DEF s, t
    <2> HIDE DEF piece
    <2> QED
      BY <1>1, <1>4, <2>1, <2>3, <2>4, <2>5, <2>6
  <1>6. /\ Building(q) /\ NCards(q.img) > 0 /\ q.img.loader_card = 0
        /\ q.error = 0 => Placed(q, bytes, job.base, k + n)
    <2> DEFINE b == builder
               base == job.base
    <2> HIDE DEF bytes, piece
    <2>1. Building(b) /\ NCards(b.img) > 0 /\ b.img.loader_card = 0 /\ b.error = 0 /\ base \in Nat
      BY <1>2
    <2>2. q = Bin2DeckFeed(b, piece) /\ Placed(b, bytes, base, k)
      BY <1>3
    <2> HIDE DEF b, base, q
    <2>3. /\ Building(q) /\ NCards(q.img) > 0 /\ q.img.loader_card = 0
          /\ q.error = 0 => Placed(q, bytes, base, k + n)
      <3>1. bytes \in Seq(Byte)
        BY <1>2
      <3>2. k \in Nat /\ k + n <= Len(bytes)
        BY <1>5
      <3>3. piece \in Seq(Byte) /\ Len(piece) = n /\ \A i \in 1 .. n : piece[i] = bytes[k + i]
        BY <1>5
      <3> QED
        <4>1. Piece(b, bytes, base, k, piece, n)
          BY <1>4, <2>1, <2>2, <3>1, <3>2, <3>3 DEF Piece
        <4> QED
          BY <2>2, <4>1, FeedFacts
    <2> QED
      BY <2>3 DEF base
  <1> HIDE DEF q, piece
  <1>7. JobInv' /\ ScratchInv'
    BY <1>1, <1>2 DEF DeckloadInv, JobInv, ScratchInv
  <1>8. DeckInv'
    <2>1. NCards(q.img) \in Nat
      BY <1>6, NextOffFacts DEF Building
    <2>2. Sound(q)
      BY <1>6, <2>1 DEF Sound, Building
    <2> QED
      BY <1>1, <1>6, <2>2 DEF DeckInv
  <1>9. ParseInv' /\ KeptInv' /\ MemoryImage'
    BY <1>1, <1>2 DEF ParseInv, KeptInv, MemoryImage, Capturing
  <1>10. SynthInv'
    <2>1. NCards(dst') > 0 /\ dst'.loader_card = 0
      BY <1>1, <1>6 DEF dst
    <2>2. phase' = "binary" => Placed(builder', bytes, job'.base, k + n)
      BY <1>1, <1>6
    <2>3. job'.sources[1].bytes = bytes /\ ~IplJob(job') /\ phase' # "capture"
      BY <1>1, <1>2
    <2> HIDE DEF bytes
    <2> QED
      BY <1>5, <2>1, <2>2, <2>3 DEF SynthInv
  <1> QED
    BY <1>7, <1>8, <1>9, <1>10 DEF DeckloadInv

LEMMA EndOfBinaryStep ==
    ASSUME DeckloadInv, EndOfBinary
    PROVE  DeckloadInv'
  <1> DEFINE bytes == job.sources[1].bytes
             q == Bin2DeckEnd(builder, job.base)
  <1>1. /\ phase = "binary" /\ rest = <<>> /\ builder' = q
        /\ phase' = IF q.error # 0 THEN "failed" ELSE "loaded"
        /\ job' = job /\ source' = source /\ parser' = parser
    BY DEF EndOfBinary
  <1>2. /\ job \in Jobs /\ source \in 1 .. Len(job.sources) /\ job.kind = "bin" /\ ~IplJob(job)
        /\ bytes \in Seq(Byte) /\ job.base \in Nat /\ job.base < AddressSpace
        /\ Building(builder) /\ builder.error = 0
        /\ NCards(builder.img) > 0 /\ builder.img.loader_card = 0
    BY <1>1, BinaryFacts
  <1>3. Placed(builder, bytes, job.base, Len(bytes))
    <2>1. PICK k \in 0 .. Len(bytes) :
             /\ rest = SubSeq(bytes, k + 1, Len(bytes))
             /\ Placed(builder, bytes, job.base, k)
      BY <1>1, BinaryFacts
    <2> HIDE DEF bytes
    <2>2. k = Len(bytes)
      <3>1. k \in Nat /\ Len(bytes) \in Nat /\ k <= Len(bytes)
        BY <1>2
      <3>2. Len(SubSeq(bytes, k + 1, Len(bytes))) = Len(bytes) - k
        BY <1>2, <3>1
      <3>3. SubSeq(bytes, k + 1, Len(bytes)) = <<>>
        BY <1>1, <2>1
      <3>4. Len(SubSeq(bytes, k + 1, Len(bytes))) = 0
        BY <3>3
      <3> QED
        BY <3>1, <3>2, <3>4
    <2> QED
      BY <2>1, <2>2
  <1> DEFINE b == builder
             base == job.base
  <1>4. base < 65536
    BY <1>2, SizeFacts
  <1>5. /\ q \in BuilderSet /\ ImgOK(q.img) /\ AllFilled(q.img) /\ Len(q.buf) <= Chunk
        /\ q.img.loader_card = 0 /\ NCards(q.img) >= NCards(b.img) /\ NCards(q.img) \in Nat
        /\ NCards(b.img) \in Nat
        /\ q.error = 0 => q.buf = <<>>
    <2>1. Building(b) /\ base \in Nat /\ q = Bin2DeckEnd(b, base) /\ b.img.loader_card = 0
      BY <1>2
    <2> HIDE DEF b, base, q
    <2>2. /\ q \in BuilderSet /\ ImgOK(q.img) /\ AllFilled(q.img) /\ Len(q.buf) <= Chunk
          /\ q.img.loader_card = b.img.loader_card /\ NCards(q.img) >= NCards(b.img)
          /\ q.error = 0 => q.buf = <<>>
      BY <1>4, <2>1, EndFacts
    <2> QED
      BY <2>1, <2>2, NextOffFacts DEF Building
  <1>6. q.error = 0 => Memory(q.img) = Image(bytes, base)
    <2>1. /\ Building(b) /\ base \in Nat /\ base < AddressSpace /\ q = Bin2DeckEnd(b, base)
          /\ NCards(b.img) > 0 /\ Placed(b, bytes, base, Len(bytes))
      BY <1>2, <1>3
    <2> HIDE DEF b, base, q, bytes
    <2> QED
      BY <1>2, <2>1, EndPlaced
  <1>7. NCards(q.img) > 0 /\ job' = job /\ builder' = q
    BY <1>1, <1>2, <1>5
  <1>8. phase' = IF q.error # 0 THEN "failed" ELSE "loaded"
    BY <1>1
  <1> HIDE DEF q
  <1>9. JobInv' /\ ScratchInv'
    BY <1>1, <1>2 DEF DeckloadInv, JobInv, ScratchInv
  <1>10. DeckInv'
    <2>1. Sound(q)
      BY <1>5, <1>7 DEF Sound
    <2>2. q.error = 0 => Building(q)
      BY <1>5, SizeFacts DEF Building
    <2> QED
      BY <1>7, <1>8, <2>1, <2>2 DEF DeckInv
  <1>11. ParseInv' /\ KeptInv'
    BY <1>2, <1>7, <1>8 DEF ParseInv, KeptInv, Capturing
  <1>12. SynthInv'
    BY <1>5, <1>7, <1>8 DEF SynthInv, dst
  <1>13. MemoryImage'
    <2>1. phase' = "loaded" => Memory(dst') = Image(job'.sources[1].bytes, job'.base)
      BY <1>6, <1>7, <1>8 DEF dst
    <2>2. ~IplJob(job')
      BY <1>2, <1>7
    <2> QED
      BY <2>1, <2>2 DEF MemoryImage, Image
  <1> QED
    BY <1>9, <1>10, <1>11, <1>12, <1>13 DEF DeckloadInv

----------------------------------------------------------------------------
(* The theorems.                                                           *)

LEMMA NextDeckload == DeckloadInv /\ [Next]_vars => DeckloadInv'
  <1> SUFFICES ASSUME DeckloadInv, [Next]_vars PROVE DeckloadInv'
    OBVIOUS
  <1>1. ASSUME NEW j \in CaptureJobs \cup BatchJobs \cup BinJobs, Load(j) PROVE DeckloadInv'
    BY <1>1, LoadStep DEF Jobs
  <1>2. ASSUME NEW n \in ReadSizes, ReadBytes(n) PROVE DeckloadInv'
    BY <1>2, ReadBytesStep
  <1>3. CASE UNCHANGED vars
    <2>1. /\ phase' = phase /\ job' = job /\ source' = source /\ rest' = rest
          /\ parser' = parser /\ builder' = builder
      BY <1>3 DEF vars
    <2>2. JobInv' /\ ScratchInv' /\ DeckInv' /\ ParseInv'
      BY <2>1 DEF DeckloadInv, JobInv, ScratchInv, DeckInv, ParseInv
    <2>3. KeptInv' /\ SynthInv' /\ MemoryImage'
      BY <2>1 DEF DeckloadInv, KeptInv, SynthInv, MemoryImage, dst
    <2> QED
      BY <2>2, <2>3 DEF DeckloadInv
  <1> QED
    BY <1>1, <1>2, <1>3, OpenCaptureStep, ReadLineStep, EndOfCaptureStep, OpenBinaryStep,
       EndOfBinaryStep, LoadIplStep, ReadFailsStep DEF Next

\* The inductive invariant: through every read, refusal and failure, of any
\* number of loads one after the other.
THEOREM DeckloadInvariant == Spec => []DeckloadInv
  <1>1. Init => DeckloadInv
    BY InitDeckload
  <1>2. DeckloadInv /\ [Next]_vars => DeckloadInv'
    BY NextDeckload
  <1> QED
    BY <1>1, <1>2, PTL DEF Spec

\* The images stay within their arrays, whatever file is read and wherever
\* the reading of it stops.
THEOREM DeckloadTypes == Spec => []TypeOK
  <1>1. DeckloadInv => TypeOK
    <2> SUFFICES ASSUME DeckloadInv PROVE TypeOK
      OBVIOUS
    <2>1. /\ phase \in {"rest", "open", "capture", "binary", "loaded", "failed"}
          /\ source \in 0 .. Len(job.sources)
      BY DEF DeckloadInv, JobInv
    <2>2. \A img \in {dst, parser.img} :
             /\ NCards(img) <= MaxCards /\ NextOff(img) <= MaxCols
             /\ img.cols \in Seq(Columns)
             /\ img.loader_card \in -1 .. NCards(img) - 1
      BY DEF DeckloadInv, DeckInv, Sound, ScratchInv, ImgOK, ImageSet, dst
    <2>3. Len(builder.buf) < Chunk + IF phase = "failed" THEN 1 ELSE 0
      <3> DEFINE m == Len(builder.buf)
      <3>1. m \in Nat /\ m <= Chunk /\ (phase # "failed" => m < Chunk)
        BY DEF DeckloadInv, DeckInv, Sound, Building, BuilderSet
      <3> HIDE DEF m
      <3>2. m < Chunk + IF phase = "failed" THEN 1 ELSE 0
        BY <3>1, SizeFacts
      <3> QED
        BY <3>2 DEF m
    <2>4. parser.error \in -3 .. 0 /\ builder.error \in {-1, 0}
      BY DEF DeckloadInv, DeckInv, Sound, BuilderSet, ScratchInv, ParserSet
    <2> QED
      BY <2>1, <2>2, <2>3, <2>4 DEF TypeOK
  <1> QED
    BY <1>1, DeckloadInvariant, PTL

\* A loaded deck can be fed: it has a card where the feed starts, and no card
\* without columns (cursor_reset, present_next).
THEOREM LoadedDecksFeed == Spec => []FeedableDeck
  <1>1. DeckloadInv => FeedableDeck
    <2> SUFFICES ASSUME DeckloadInv, phase = "loaded" PROVE FeedableDeck
      BY DEF FeedableDeck
    <2>1. job \in Jobs /\ ImgOK(dst) /\ AllFilled(dst)
      BY DEF DeckloadInv, JobInv, DeckInv, Sound, dst
    <2>2. CASE Capturing(job)
      <3>1. NCards(dst) > 0 /\ dst.loader_card = FindLoader(dst)
        BY <2>2 DEF DeckloadInv, KeptInv
      <3>2. dst.loader_card \in 0 .. NCards(dst) - 1
        BY <2>1, <3>1, LoaderFacts
      <3> QED
        BY <2>1, <3>2 DEF FeedableDeck, AllFilled
    <2>3. CASE ~Capturing(job)
      <3>1. job.kind = "bin"
        BY <2>1, <2>3, JobFacts DEF Capturing
      <3>2. NCards(dst) > 0 /\ dst.loader_card = 0 /\ NCards(dst) \in Nat
        BY <2>1, <3>1, NextOffFacts DEF DeckloadInv, SynthInv
      <3>3. dst.loader_card \in 0 .. NCards(dst) - 1
        BY <3>2
      <3> QED
        BY <2>1, <3>3 DEF FeedableDeck, AllFilled
    <2> QED
      BY <2>2, <2>3
  <1> QED
    BY <1>1, DeckloadInvariant, PTL

\* A loaded deck is what the recipes keep of the cards of its captures, in
\* their order (cap_parse_*, surgery_apply): for captures of any length.
THEOREM DecksAreTheCaptures == Spec => []DeckIsTheCaptures
  <1>1. DeckloadInv => DeckIsTheCaptures
    <2> SUFFICES ASSUME DeckloadInv, phase = "loaded", job.kind # "bin" PROVE DeckIsTheCaptures
      BY DEF DeckIsTheCaptures
    <2>1. Capturing(job)
      BY JobFacts DEF DeckloadInv, JobInv, Capturing
    <2> QED
      BY <2>1 DEF DeckloadInv, KeptInv, DeckIsTheCaptures
  <1> QED
    BY <1>1, DeckloadInvariant, PTL

\* What the loader program makes of a synthesized deck is the program, at its
\* address and with the jump to it, and a hex card is the nibbles of its
\* bytes (bin2deck_*): for programs of any length, read in any pieces.
THEOREM DecksLoadTheProgram == Spec => []MemoryImage
  BY DeckloadInvariant, PTL DEF DeckloadInv

LEMMA PunchedType ==
    ASSUME NEW lines \in Seq(Line)
    PROVE  Punched(lines) \in Seq(Seq(Columns))
  <1> DEFINE C == Seq(Columns)
             S == Seq(C)
             parsed == Parsed!Fold(<<>>, lines)
             n == Len(lines)
             m == Len(parsed)
  <1>1. ASSUME NEW cards \in S, NEW line \in Line PROVE ParseLine(cards, line) \in S
    <2>1. <<>> \in C
      OBVIOUS
    <2>2. cards # <<>> => cards[Len(cards)] \in C
      <3> HIDE DEF C
      <3> QED
        OBVIOUS
    <2>3. cards # <<>> => AddLine(cards[Len(cards)], line) \in C
      BY <2>2, AddLineFacts
    <2> HIDE DEF C
    <2> QED
      BY <2>1, <2>3 DEF ParseLine
  <1>2. \A cards \in S, columns \in C : AddCard(cards, columns) \in S
    <2> HIDE DEF C
    <2> QED
      BY DEF AddCard
  <1>3. <<>> \in S /\ n \in Nat /\ DOMAIN lines = 1 .. n /\ \A i \in 1 .. n : lines[i] \in Line
    OBVIOUS
  <1>4. parsed \in S
    <2> DEFINE K == [k \in 0 .. n |-> S]
    <2>1. <<>> \in K[0] /\ K[n] = S
      BY <1>3
    <2>2. \A k \in 1 .. n : \A v \in K[k - 1] : ParseLine(v, lines[k]) \in K[k]
      <3> HIDE DEF S
      <3>1. \A k \in 1 .. n : K[k - 1] = S /\ K[k] = S
        BY <1>3
      <3> QED
        BY <1>1, <1>3, <3>1
    <2> HIDE DEF K, S, n
    <2> QED
      BY <1>3, <2>1, <2>2, Parsed!FoldInvariant
  <1> HIDE DEF parsed
  <1>5. m \in Nat /\ DOMAIN parsed = 1 .. m /\ \A i \in 1 .. m : parsed[i] \in C
    <2> HIDE DEF C
    <2> QED
      BY <1>4
  <1>6. Listed!Fold(<<>>, parsed) \in S
    <2> DEFINE K == [k \in 0 .. m |-> S]
    <2> HIDE DEF n
    <2>1. <<>> \in K[0] /\ K[m] = S
      BY <1>3, <1>5
    <2>2. \A k \in 1 .. m : \A v \in K[k - 1] : AddCard(v, parsed[k]) \in K[k]
      <3> HIDE DEF S, C, m
      <3>1. \A k \in 1 .. m : K[k - 1] = S /\ K[k] = S
        BY <1>5
      <3> QED
        BY <1>2, <1>5, <3>1
    <2> HIDE DEF K, S, m
    <2> QED
      BY <1>5, <2>1, <2>2, Listed!FoldInvariant
  <1>7. Punched(lines) = Listed!Fold(<<>>, parsed)
    BY PunchedFacts, ListedFold DEF parsed
  <1> QED
    BY <1>6, <1>7

\* A deck whose first card is marked leads with its loader.
LEMMA MarkedFirst ==
    ASSUME NEW img, ImgOK(img), NCards(img) > 0, Marked(CardsOf(img)[1])
    PROVE  FindLoader(img) = 0
  <1> DEFINE cards == CardsOf(img)
             marked == {i \in DOMAIN cards : i <= BodyFirst /\ Marked(cards[i])}
  <1>1. /\ FindLoader(img) \in 0 .. NCards(img) - 1 /\ LoaderAt(cards) = FindLoader(img) + 1
        /\ NCards(img) \in Nat /\ DOMAIN cards = 1 .. NCards(img)
    BY LoaderFacts, NextOffFacts DEF CardsOf
  <1>2. BodyFirst \in Nat /\ 1 <= BodyFirst
    BY SizeFacts
  <1>3. 1 \in marked /\ marked \in SUBSET Nat /\ \A i \in marked : 1 <= i
    <2> HIDE DEF cards
    <2>1. Marked(cards[1])
      BY DEF cards
    <2> QED
      BY <1>1, <1>2, <2>1
  <1>4. LoaderAt(cards) = Min(marked)
    <2>1. marked # {}
      BY <1>3
    <2> HIDE DEF cards
    <2> QED
      BY <2>1 DEF LoaderAt
  <1> HIDE DEF marked
  <1>5. Min(marked) \in marked /\ Min(marked) <= 1
    BY <1>3, MinFacts
  <1>6. Min(marked) = 1
    <2>1. Min(marked) \in Nat /\ 1 <= Min(marked)
      BY <1>3, <1>5
    <2> QED
      BY <1>5, <2>1
  <1> HIDE DEF cards
  <1> QED
    BY <1>1, <1>4, <1>6

\* The feed starts at a marked loader card if the capture has one near its
\* front, whichever way it was dealt (deck_find_loader_card).
THEOREM LoadersLead == Spec => []LoaderLeads
  <1>1. DeckloadInv => LoaderLeads
    <2> DEFINE cards == Punched(job.sources[1].lines)
               first == IF dst.loader_card > 0 THEN dst.loader_card ELSE 0
               op == OpOf(job, 1)
    <2> SUFFICES ASSUME DeckloadInv, phase = "loaded", job.kind = "capture",
                        Marked(cards[LoaderAt(cards)])
                 PROVE  Marked(CardOf(dst, first))
      BY DEF LoaderLeads
    <2>1. job \in Jobs /\ ImgOK(dst) /\ Capturing(job)
      BY DEF DeckloadInv, JobInv, DeckInv, Sound, dst, Capturing
    <2>2. Len(job.sources) = 1 /\ job.sources[1].lines \in Seq(Line) /\ op \in {"AS_IS", "SERIAL_LOADER"}
      BY <2>1, JobFacts DEF OpOf, IsBatch
    <2>3. cards \in Seq(Seq(Columns))
      BY <2>2, PunchedType
    <2>4. /\ CardsOf(dst) = DeckOf(job, 1) /\ NCards(dst) > 0 /\ dst.loader_card = FindLoader(dst)
      BY <2>1, <2>2 DEF DeckloadInv, KeptInv
    <2>5. CardsOf(dst) = <<>> \o Kept(cards, op)
      <3>1. DeckOf(job, 0 + 1) = DeckOf(job, 0) \o Kept(Punched(job.sources[0 + 1].lines), OpOf(job, 0 + 1))
        BY DeckOfFacts
      <3>2. DeckOf(job, 0) = <<>> /\ 0 + 1 = 1
        BY DeckOfFacts
      <3> HIDE DEF op
      <3> QED
        BY <2>4, <3>1, <3>2 DEF op
    <2>6. /\ FindLoader(dst) \in 0 .. NCards(dst) - 1 /\ LoaderAt(CardsOf(dst)) = FindLoader(dst) + 1
          /\ NCards(dst) \in Nat
      BY <2>1, <2>4, LoaderFacts, NextOffFacts
    <2>7. first = FindLoader(dst)
      BY <2>4, <2>6
    <2>8. CardOf(dst, first) = CardsOf(dst)[first + 1]
      <3> DEFINE i == first + 1
      <3> HIDE DEF first
      <3>1. i \in 1 .. NCards(dst) /\ i - 1 = first
        BY <2>6, <2>7
      <3>2. \A k \in 1 .. NCards(dst) : CardsOf(dst)[k] = CardOf(dst, k - 1)
        BY <2>1, CardsOfFacts
      <3>3. CardsOf(dst)[i] = CardOf(dst, i - 1)
        BY <3>1, <3>2
      <3> QED
        BY <3>1, <3>3
    <2> HIDE DEF first, cards, op
    <2>9. CASE op = "AS_IS"
      <3>1. Kept(cards, op) = cards
        BY <2>9 DEF Kept
      <3>2. CardsOf(dst) = cards
        BY <2>3, <2>5, <3>1
      <3> QED
        BY <2>6, <2>7, <2>8, <3>2
    <2>10. CASE op = "SERIAL_LOADER"
      <3> DEFINE x == cards[LoaderAt(cards)]
                 t == SubSeq(cards, BodyFirst + 1, Len(cards) - 1)
                 u == <<x>> \o t
      <3>1. Kept(cards, op) = u
        BY <2>10 DEF Kept
      <3>2. t \in Seq(Seq(Columns))
        <4> DEFINE S == Seq(Columns)
        <4>1. BodyFirst + 1 \in Nat /\ BodyFirst + 1 >= 1 /\ cards \in Seq(S)
          <5>1. cards \in Seq(S)
            BY <2>3
          <5> HIDE DEF S, cards
          <5> QED
            BY <5>1, SizeFacts
        <4> HIDE DEF S
        <4>2. Len(cards) \in Nat
          BY <4>1
        <4>3. t \in Seq(S)
          BY <4>1, <4>2
        <4> QED
          BY <4>3 DEF S
      <3>3. u[1] = x /\ CardsOf(dst) = u
        <4> DEFINE S == Seq(Columns) \cup {x}
        <4>1. x \in S /\ t \in Seq(S)
          <5>1. Seq(Columns) \subseteq S
            OBVIOUS
          <5> HIDE DEF S, t, x
          <5>2. \A r \in Seq(Seq(Columns)) : r \in Seq(S)
            BY <5>1
          <5> QED
            BY <3>2, <5>2 DEF S
        <4> HIDE DEF S, x, t
        <4>2. u \in Seq(S) /\ u[1] = x
          BY <4>1, PrependAt
        <4>3. <<>> \o u = u
          BY <4>2
        <4> QED
          BY <2>5, <3>1, <4>2, <4>3
      <3>4. Marked(CardsOf(dst)[1])
        BY <3>3
      <3> HIDE DEF u
      <3>5. FindLoader(dst) = 0
        BY <2>1, <2>4, <3>4, MarkedFirst
      <3> QED
        BY <2>7, <2>8, <3>4, <3>5
    <2> QED
      BY <2>2, <2>9, <2>10
  <1> QED
    BY <1>1, DeckloadInvariant, PTL

----------------------------------------------------------------------------
(* Counting columns.                                                       *)

Counted == INSTANCE Folding WITH Op <- AddLength

LEMMA CountedFold == \A p, s : FoldLeft(AddLength, p, s) = Counted!Fold(p, s)
  BY DEF Counted!Fold, Counted!Greatest, FoldLeft, MapThenFoldSet, Max

LEMMA NoColumns == Columns0(<<>>) = 0
  BY CountedFold, Counted!FoldEmpty DEF Columns0

LEMMA ColumnsType ==
    ASSUME NEW cards \in Seq(Seq(Columns))
    PROVE  Columns0(cards) \in Nat
  <1> DEFINE n == Len(cards)
             K == [k \in 0 .. n |-> Nat]
  <1>1. n \in Nat /\ DOMAIN cards = 1 .. n /\ \A k \in 1 .. n : Len(cards[k]) \in Nat
    OBVIOUS
  <1>2. 0 \in K[0] /\ K[n] = Nat
    BY <1>1
  <1>3. ASSUME NEW k \in 1 .. n, NEW v \in K[k - 1] PROVE AddLength(v, cards[k]) \in K[k]
    <2>1. v \in Nat /\ K[k] = Nat /\ Len(cards[k]) \in Nat
      BY <1>1
    <2> QED
      BY <2>1 DEF AddLength
  <1> HIDE DEF K, n
  <1>4. Counted!Fold(0, cards) \in K[n]
    BY <1>1, <1>2, <1>3, Counted!FoldInvariant
  <1> QED
    BY <1>2, <1>4, CountedFold DEF Columns0

LEMMA OneCardMore ==
    ASSUME NEW cards \in Seq(Seq(Columns)), NEW card \in Seq(Columns)
    PROVE  Columns0(Append(cards, card)) = Columns0(cards) + Len(card)
  <1> DEFINE S == Seq(Columns)
  <1>1. cards \in Seq(S) /\ card \in S
    OBVIOUS
  <1> HIDE DEF S
  <1>2. Counted!Fold(0, Append(cards, card)) = AddLength(Counted!Fold(0, cards), card)
    BY <1>1, Counted!FoldAppend
  <1> QED
    BY <1>2, CountedFold DEF Columns0, AddLength

\* The columns of two decks, and of the first k cards of one.
LEMMA ColumnsOfBoth ==
    ASSUME NEW a \in Seq(Seq(Columns)), NEW b \in Seq(Seq(Columns))
    PROVE  Columns0(a \o b) = Columns0(a) + Columns0(b)
  <1> DEFINE S == Seq(Columns)
             n == Len(b)
             m == Columns0(a)
             First(k) == SubSeq(b, 1, k)
             K == [k \in 0 .. n |-> {m + Columns0(First(k))}]
  <1>1. n \in Nat /\ DOMAIN b = 1 .. n /\ \A k \in 1 .. n : b[k] \in S
    OBVIOUS
  <1>2. m \in Nat
    BY ColumnsType
  <1>3. m \in K[0]
    <2>1. First(0) = <<>>
      OBVIOUS
    <2> HIDE DEF m, First, n
    <2> QED
      BY <1>1, <1>2, <2>1, NoColumns
  <1>4. ASSUME NEW k \in 1 .. n, NEW v \in K[k - 1] PROVE AddLength(v, b[k]) \in K[k]
    <2> DEFINE f == First(k - 1)
               g == First(k)
    <2>1. f \in Seq(S) /\ g = Append(f, b[k])
      OBVIOUS
    <2>2. v = m + Columns0(f) /\ k \in 0 .. n /\ b[k] \in S /\ Len(b[k]) \in Nat
      BY <1>1
    <2>3. K[k] = {m + Columns0(g)}
      BY <2>2
    <2> HIDE DEF f, g, m, K
    <2>4. Columns0(g) = Columns0(f) + Len(b[k]) /\ Columns0(f) \in Nat
      BY <2>1, <2>2, OneCardMore, ColumnsType DEF S
    <2> QED
      BY <1>2, <2>2, <2>3, <2>4 DEF AddLength
  <1>5. Counted!Fold(m, b) \in K[n]
    <2> HIDE DEF K, n, m
    <2> QED
      BY <1>1, <1>3, <1>4, Counted!FoldInvariant
  <1>6. Counted!Fold(m, b) = m + Columns0(b)
    <2>1. First(n) = b
      OBVIOUS
    <2> HIDE DEF First, m
    <2> QED
      BY <1>1, <1>5, <2>1
  <1>7. Counted!Fold(0, a \o b) = Counted!Fold(Counted!Fold(0, a), b)
    <2>1. a \in Seq(S) /\ b \in Seq(S)
      OBVIOUS
    <2> HIDE DEF S
    <2> QED
      BY <2>1, Counted!FoldConcat
  <1> QED
    BY <1>6, <1>7, CountedFold DEF Columns0

\* Cards without columns do not count.
LEMMA EmptyCardsCountNot ==
    ASSUME NEW cards \in Seq(Seq(Columns)), NEW listed, listed = FoldLeft(AddCard, <<>>, cards)
    PROVE  listed \in Seq(Seq(Columns)) /\ Columns0(listed) = Columns0(cards)
  <1> DEFINE S == Seq(Columns)
             n == Len(cards)
             First(k) == SubSeq(cards, 1, k)
             K == [k \in 0 .. n |-> {v \in Seq(S) : Columns0(v) = Columns0(First(k))}]
  <1>1. n \in Nat /\ DOMAIN cards = 1 .. n /\ \A k \in 1 .. n : cards[k] \in S
    OBVIOUS
  <1>2. <<>> \in K[0]
    <2>1. First(0) = <<>> /\ <<>> \in Seq(S)
      OBVIOUS
    <2> HIDE DEF First, S
    <2> QED
      BY <1>1, <2>1
  <1>3. ASSUME NEW k \in 1 .. n, NEW v \in K[k - 1] PROVE AddCard(v, cards[k]) \in K[k]
    <2> DEFINE f == First(k - 1)
               g == First(k)
               c == cards[k]
    <2>1. f \in Seq(S) /\ g = Append(f, c)
      OBVIOUS
    <2>2. /\ v \in Seq(S) /\ Columns0(v) = Columns0(f) /\ k \in 0 .. n
          /\ c \in S /\ Len(c) \in Nat /\ (c = <<>> => Len(c) = 0) /\ Append(v, c) \in Seq(S)
      <3>1. v \in Seq(S) /\ Columns0(v) = Columns0(f) /\ k \in 0 .. n /\ c \in S
        <4> HIDE DEF S
        <4> QED
          BY <1>1
      <3> QED
        BY <3>1
    <2>3. K[k] = {w \in Seq(S) : Columns0(w) = Columns0(g)}
      BY <2>2
    <2> HIDE DEF f, g, c, K
    <2>4. /\ Columns0(g) = Columns0(f) + Len(c) /\ Columns0(f) \in Nat
          /\ Columns0(Append(v, c)) = Columns0(v) + Len(c)
      BY <2>1, <2>2, OneCardMore, ColumnsType DEF S
    <2> HIDE DEF S
    <2>5. AddCard(v, c) \in Seq(S) /\ Columns0(AddCard(v, c)) = Columns0(g)
      <3>1. CASE c = <<>>
        <4>1. AddCard(v, c) = v /\ Len(c) = 0
          BY <2>2, <3>1 DEF AddCard
        <4> QED
          BY <2>2, <2>4, <4>1
      <3>2. CASE c # <<>>
        <4>1. AddCard(v, c) = Append(v, c)
          BY <3>2 DEF AddCard
        <4> QED
          BY <2>2, <2>4, <4>1
      <3> QED
        BY <3>1, <3>2
    <2> QED
      BY <2>3, <2>5 DEF c
  <1>4. Listed!Fold(<<>>, cards) \in K[n]
    <2> HIDE DEF K, n
    <2> QED
      BY <1>1, <1>2, <1>3, Listed!FoldInvariant
  <1>5. First(n) = cards /\ n \in 0 .. n
    OBVIOUS
  <1> HIDE DEF First, S
  <1>6. listed \in Seq(S) /\ Columns0(listed) = Columns0(First(n))
    BY <1>4, <1>5, ListedFold
  <1> QED
    BY <1>5, <1>6 DEF S

----------------------------------------------------------------------------
(* A line and the room there is for it.                                    *)

\* The buffer holds the columns of the cards and nothing between them.
Packed(img) == NextOff(img) = Columns0(CardsOf(img))

\* A line adds columns, and takes none away.
LEMMA LineGrows ==
    ASSUME NEW c \in Seq(Columns), NEW line \in Line
    PROVE  Len(AddLine(c, line)) >= Len(c)
  <1> DEFINE tokens == line.tokens
             n == Len(tokens)
             m == Len(c)
             S == Seq(Columns)
             K == [k \in 0 .. n |-> {v \in S : Len(v) >= m}]
  <1>1. tokens \in Seq(Columns \cup {NoColumn})
    BY DEF Line
  <1> HIDE DEF tokens
  <1>2. /\ n \in Nat /\ m \in Nat /\ DOMAIN tokens = 1 .. n
        /\ \A k \in 1 .. n : tokens[k] \in Columns \cup {NoColumn}
    BY <1>1
  <1>3. c \in K[0]
    BY <1>2
  <1>4. ASSUME NEW k \in 1 .. n, NEW v \in K[k - 1] PROVE AddColumn(v, tokens[k]) \in K[k]
    <2> DEFINE t == tokens[k]
    <2>1. v \in S /\ Len(v) >= m /\ t \in Columns \cup {NoColumn} /\ K[k] = {w \in S : Len(w) >= m}
      BY <1>2
    <2> HIDE DEF K, t, m
    <2>2. CASE t = NoColumn
      BY <2>1, <2>2 DEF AddColumn, t
    <2>3. CASE t # NoColumn
      <3>1. AddColumn(v, t) = Append(v, t) /\ t \in Columns
        BY <2>1, <2>3 DEF AddColumn
      <3>2. Append(v, t) \in S /\ Len(Append(v, t)) = Len(v) + 1 /\ Len(v) \in Nat
        BY <2>1, <3>1
      <3> QED
        BY <1>2, <2>1, <3>1, <3>2 DEF t
    <2> QED
      BY <2>2, <2>3
  <1>5. Picked!Fold(c, tokens) \in K[n]
    <2> HIDE DEF K, n
    <2> QED
      BY <1>2, <1>3, <1>4, Picked!FoldInvariant
  <1> QED
    BY <1>2, <1>5, PickedFold DEF AddLine, tokens

\* Another last card.
LEMMA LastCounts ==
    ASSUME NEW cards \in Seq(Seq(Columns)), NEW n, n = Len(cards), n > 0,
           NEW next \in Seq(Seq(Columns)), Len(next) = n, \A i \in 1 .. n - 1 : next[i] = cards[i]
    PROVE  /\ Columns0(next) = Columns0(cards) + Len(next[n]) - Len(cards[n])
           /\ Len(next[n]) \in Nat /\ Len(cards[n]) \in Nat
  <1> DEFINE S == Seq(Columns)
             front == SubSeq(cards, 1, n - 1)
             c == cards[n]
             d == next[n]
  <1>1. cards \in Seq(S) /\ next \in Seq(S)
    OBVIOUS
  <1> HIDE DEF S
  <1>2. front \in Seq(S) /\ c \in S /\ d \in S /\ cards = Append(front, c)
    BY <1>1
  <1>3. next = Append(front, d)
    <2>1. next = Append(SubSeq(next, 1, n - 1), d)
      BY <1>1
    <2>2. SubSeq(next, 1, n - 1) = front
      BY <1>1
    <2> QED
      BY <2>1, <2>2
  <1> HIDE DEF front, c, d
  <1>4. /\ Columns0(next) = Columns0(front) + Len(d)
        /\ Columns0(cards) = Columns0(front) + Len(c)
        /\ Columns0(front) \in Nat
    BY <1>1, <1>2, <1>3, OneCardMore, ColumnsType DEF S
  <1>5. Len(c) \in Nat /\ Len(d) \in Nat
    BY <1>2 DEF S
  <1>6. Columns0(next) = Columns0(cards) + Len(d) - Len(c)
    BY <1>4, <1>5
  <1> QED
    BY <1>5, <1>6 DEF c, d

\* What a line does to the number of cards and of their columns.
LEMMA LineCounts ==
    ASSUME NEW cards \in Seq(Seq(Columns)), NEW line \in Line
    PROVE  LET n == Len(cards)  next == ParseLine(cards, line) IN
           /\ next \in Seq(Seq(Columns))
           /\ Len(next) = IF line.header THEN n + 1 ELSE n
           /\ Columns0(next) >= Columns0(cards)
           /\ line.header \/ n = 0 => Columns0(next) = Columns0(cards)
           /\ ~line.header /\ n > 0 =>
                 Columns0(next) = Columns0(cards) + Len(AddLine(cards[n], line)) - Len(cards[n])
  <1> DEFINE S == Seq(Columns)
             n == Len(cards)
             next == ParseLine(cards, line)
  <1>0. n = Len(cards) /\ next = ParseLine(cards, line)
    OBVIOUS
  <1> HIDE DEF n, next
  <1>1. n \in Nat /\ Columns0(cards) \in Nat /\ line.header \in BOOLEAN /\ (n = 0 <=> cards = <<>>)
    BY <1>0, ColumnsType, EmptyIff DEF Line
  <1>2. CASE line.header
    <2>1. next = Append(cards, <<>>)
      BY <1>0, <1>2 DEF ParseLine
    <2>2. <<>> \in S /\ Len(<<>>) = 0 /\ cards \in Seq(S)
      OBVIOUS
    <2>3. Columns0(next) = Columns0(cards) + 0
      BY <2>1, <2>2, OneCardMore DEF S
    <2>4. next \in Seq(S) /\ Len(next) = n + 1
      <3> HIDE DEF S
      <3> QED
        BY <1>0, <2>1, <2>2
    <2> QED
      BY <1>1, <1>2, <2>3, <2>4 DEF n, next
  <1>3. CASE ~line.header /\ n = 0
    <2>1. next = cards
      BY <1>0, <1>1, <1>3 DEF ParseLine
    <2> QED
      BY <1>1, <1>3, <2>1 DEF n, next
  <1>4. CASE ~line.header /\ n > 0
    <2> DEFINE d == AddLine(cards[n], line)
               l == Len(cards[n])
               m == Len(d)
    <2>1. cards[n] \in Seq(Columns)
      BY <1>0, <1>1, <1>4
    <2>2. d \in Seq(Columns) /\ m >= l /\ l \in Nat /\ m \in Nat
      <3>1. d \in Seq(Columns)
        BY <2>1, AddLineFacts
      <3>2. m >= l
        BY <2>1, LineGrows
      <3> QED
        BY <2>1, <3>1, <3>2
    <2>3. next = [cards EXCEPT ![n] = d]
      BY <1>0, <1>1, <1>4 DEF ParseLine
    <2>4. /\ next \in Seq(S) /\ Len(next) = n /\ next[n] = d
          /\ \A i \in 1 .. n - 1 : next[i] = cards[i]
      <3>1. cards \in Seq(S) /\ d \in S /\ n \in 1 .. n /\ n = Len(cards)
        BY <1>0, <1>1, <1>4, <2>2
      <3> HIDE DEF d, S
      <3> QED
        BY <2>3, <3>1, ExceptSeq
    <2>8. Columns0(next) = Columns0(cards) + m - l
      <3> HIDE DEF d
      <3> QED
        BY <1>0, <1>4, <2>4, LastCounts
    <2> HIDE DEF d, l, m, n, next
    <2>5. Columns0(next) >= Columns0(cards)
      BY <1>1, <2>2, <2>8
    <2>6. Len(next) = IF line.header THEN n + 1 ELSE n
      BY <1>4, <2>4
    <2>7. ~(line.header \/ n = 0)
      BY <1>1, <1>4
    <2> QED
      BY <2>4, <2>5, <2>6, <2>7, <2>8 DEF d, l, m, n, next
  <1>5. line.header \/ (~line.header /\ n = 0) \/ (~line.header /\ n > 0)
    BY <1>1
  <1> QED
    BY <1>2, <1>3, <1>4, <1>5 DEF n, next

LEMMA TokenRoom ==
    ASSUME NEW p, Parsing(p), p.in_card, p.error = 0, NEW t \in Columns \cup {NoColumn},
           NEW q, q = AddToken(p, t)
    PROVE  /\ q.error = 0 => NextOff(q.img) = NextOff(p.img) + IF t = NoColumn THEN 0 ELSE 1
           /\ q.error # 0 => t # NoColumn /\ NextOff(p.img) >= MaxCols
  <1> DEFINE img == p.img
             n == NCards(img)
             end == NextOff(img)
  <1>1. /\ p \in ParserSet /\ n \in Nat /\ end \in Nat
        /\ MaxCols \in Nat /\ ImgOK(img) /\ n > 0
    BY NextOffFacts, SizeFacts DEF Parsing
  <1>2. CASE t = NoColumn
    <2>1. q = p
      BY <1>2 DEF AddToken
    <2> QED
      BY <1>1, <1>2, <2>1
  <1>3. CASE t # NoColumn /\ end >= MaxCols
    <2>1. q = [p EXCEPT !.error = -2]
      BY <1>3 DEF AddToken
    <2>2. q.error = -2
      BY <1>1, <2>1 DEF ParserSet
    <2> QED
      BY <1>3, <2>2
  <1>4. CASE t # NoColumn /\ ~(end >= MaxCols)
    <2> DEFINE ext == Extended(img, t)
    <2>1. q = [p EXCEPT !.img.cols = SubSeq(@, 1, end) \o <<t>>, !.img.idx[n].ncols = @ + 1]
      BY <1>4 DEF AddToken
    <2>2. q = [p EXCEPT !.img = ext]
      BY <1>1, <2>1 DEF Extended, ParserSet, ImageSet, ImgOK
    <2>3. ImgOK(img) /\ t \in Columns /\ NCards(img) > 0 /\ NextOff(img) < MaxCols
      BY <1>1, <1>4
    <2>4. NextOff(ext) = end + 1
      <3> HIDE DEF img
      <3> QED
        BY <2>3, ExtendedFacts
    <2> HIDE DEF ext
    <2>5. q.img = ext /\ q.error = 0
      BY <1>1, <2>2 DEF ParserSet
    <2> QED
      BY <1>4, <2>4, <2>5
  <1> QED
    BY <1>2, <1>3, <1>4

\* A line that the parser takes leaves the buffer packed, and one it refuses
\* has no card or no column to go into.
LEMMA LineRoom ==
    ASSUME NEW p, Parsing(p), p.error = 0, Packed(p.img), NEW line \in Line,
           NEW q, q = ProcessLine(p, line)
    PROVE  /\ q.error = 0 => Packed(q.img)
           /\ q.error = -1 => line.header /\ NCards(p.img) >= MaxCards
           /\ q.error = -2 => Columns0(ParseLine(CardsOf(p.img), line)) > MaxCols
  <1> DEFINE cards == CardsOf(p.img)
             n == NCards(p.img)
             off == NextOff(p.img)
             next == ParseLine(cards, line)
             tokens == line.tokens
  <1>1. /\ cards \in Seq(Seq(Columns)) /\ Len(cards) = n /\ n \in Nat /\ off \in Nat
        /\ p \in ParserSet /\ ImgOK(p.img) /\ (p.in_card <=> n > 0) /\ off = Columns0(cards)
        /\ MaxCards \in Nat /\ MaxCols \in Nat /\ off <= MaxCols
    BY CardsOfFacts, NextOffFacts, SizeFacts, ImgFacts DEF Parsing, Packed
  <1>2. line.header \in BOOLEAN /\ tokens \in Seq(Columns \cup {NoColumn})
    BY DEF Line
  <1>3. q.error = 0 => CardsOf(q.img) = next
    BY LineFacts DEF ParseLine
  <1> HIDE DEF cards
  <1>4. /\ line.header \/ n = 0 => Columns0(next) = off
        /\ ~line.header /\ n > 0 =>
              Columns0(next) = off + Len(AddLine(cards[n], line)) - Len(cards[n])
    <2>1. n = Len(cards)
      BY <1>1
    <2> HIDE DEF n
    <2>2. /\ line.header \/ n = 0 => Columns0(next) = Columns0(cards)
          /\ ~line.header /\ n > 0 =>
                Columns0(next) = Columns0(cards) + Len(AddLine(cards[n], line)) - Len(cards[n])
      BY <1>1, <2>1, LineCounts
    <2> QED
      BY <1>1, <2>2
  <1> HIDE DEF next
  <1>5. CASE line.header
    <2>1. q = OpenCard(p)
      BY <1>5 DEF ProcessLine
    <2>2. CASE n >= MaxCards
      <3>1. q = [p EXCEPT !.error = -1]
        BY <2>1, <2>2 DEF OpenCard
      <3>2. q.error = -1
        BY <1>1, <3>1 DEF ParserSet
      <3> QED
        BY <1>5, <2>2, <3>2
    <2>3. CASE ~(n >= MaxCards)
      <3> DEFINE put == Put(p.img, <<>>)
      <3>1. q = [p EXCEPT !.in_card = TRUE, !.img = put]
        BY <2>1, <2>3 DEF OpenCard
      <3>2. <<>> \in Seq(Columns) /\ Len(<<>>) = 0
        OBVIOUS
      <3>3. ImgOK(p.img) /\ NCards(p.img) < MaxCards /\ NextOff(p.img) + Len(<<>>) <= MaxCols
        BY <1>1, <2>3, <3>2
      <3>4. NextOff(put) = off + Len(<<>>)
        BY <3>2, <3>3, PutFacts
      <3> HIDE DEF put
      <3>5. q.img = put /\ q.error = 0
        BY <1>1, <3>1 DEF ParserSet
      <3>6. NextOff(q.img) = Columns0(CardsOf(q.img))
        BY <1>1, <1>3, <1>4, <1>5, <3>2, <3>4, <3>5
      <3> QED
        BY <3>5, <3>6 DEF Packed
    <2> QED
      BY <2>2, <2>3
  <1>6. CASE ~line.header /\ n = 0
    <2>1. q = p
      BY <1>1, <1>6 DEF ProcessLine
    <2> QED
      BY <2>1
  <1>7. CASE ~line.header /\ n > 0
    <2> DEFINE m == Len(tokens)
               c == cards[n]
    <2>1. q = FoldLeft(AddToken, p, tokens)
      BY <1>1, <1>7 DEF ProcessLine
    <2>2. m \in Nat /\ DOMAIN tokens = 1 .. m /\ \A k \in 1 .. m : tokens[k] \in Columns \cup {NoColumn}
      BY <1>2
    <2>3. c \in Seq(Columns) /\ Len(c) \in Nat
      <3>1. n \in 1 .. Len(cards)
        BY <1>1, <1>7
      <3> QED
        BY <1>1, <3>1
    <2> HIDE DEF c
    <2>4. PICK g : Picked!Steps(g, c, tokens, m) /\ Picked!Fold(c, tokens) = g[m]
      <3> HIDE DEF m, tokens
      <3> QED
        BY <2>2, Picked!FoldSteps
    <2>5. g[0] = c /\ \A k \in 1 .. m : g[k] = AddColumn(g[k - 1], tokens[k])
      BY <2>4 DEF Picked!Steps
    <2>6. g[m] = AddLine(c, line)
      BY <2>4, PickedFold DEF AddLine
    \* The columns there are behind k tokens, if there is room for them.
    <2> DEFINE size(k) == off + Len(g[k]) - Len(c)
               Has(v, k) ==
                   /\ Parsing(v) /\ v.in_card /\ v.error \in {-2, 0} /\ g[k] \in Seq(Columns)
                   /\ v.error = 0 => NextOff(v.img) = size(k)
                   /\ v.error = -2 => size(k) > MaxCols
               K == [k \in 0 .. m |-> {v \in ParserSet : Has(v, k)}]
    <2>7. p \in K[0]
      <3>1. size(0) = off
        BY <1>1, <2>3, <2>5
      <3>2. Has(p, 0)
        BY <1>1, <1>7, <2>3, <2>5, <3>1
      <3> HIDE DEF Has
      <3> QED
        BY <1>1, <2>2, <3>2
    <2>8. ASSUME NEW k \in 1 .. m, NEW v \in K[k - 1] PROVE AddToken(v, tokens[k]) \in K[k]
      <3> DEFINE w == AddToken(v, tokens[k])
                 t == tokens[k]
                 x == g[k - 1]
                 y == g[k]
      <3>1. v \in ParserSet /\ Has(v, k - 1) /\ k \in 0 .. m
        <4> HIDE DEF Has
        <4> QED
          BY <2>2
      <3>2. t \in Columns \cup {NoColumn} /\ y = AddColumn(x, t) /\ x \in Seq(Columns)
        BY <2>2, <2>5, <3>1
      <3>3. /\ v.error = 0 => NextOff(v.img) = off + Len(x) - Len(c)
            /\ v.error = -2 => off + Len(x) - Len(c) > MaxCols
            /\ Parsing(v) /\ v.in_card /\ v.error \in {-2, 0}
        BY <3>1
      <3> HIDE DEF x, y, t, w, Has, off, n
      <3>4. /\ y \in Seq(Columns) /\ Len(x) \in Nat /\ Len(y) \in Nat
            /\ Len(y) = Len(x) + IF t = NoColumn THEN 0 ELSE 1
        <4>1. CASE t = NoColumn
          BY <3>2, <4>1 DEF AddColumn
        <4>2. CASE t # NoColumn
          <5>1. t \in Columns /\ y = Append(x, t)
            BY <3>2, <4>2 DEF AddColumn
          <5> QED
            BY <3>2, <4>2, <5>1
        <4> QED
          BY <4>1, <4>2
      <3>5. /\ Parsing(w) /\ w.in_card
            /\ v.error # 0 => w = v
            /\ v.error = 0 => w.error \in {-2, 0}
        <4>1. Parsing(v) /\ v.in_card /\ t \in Columns \cup {NoColumn} /\ w = AddToken(v, t)
          BY <3>2, <3>3 DEF w, t
        <4> QED
          BY <4>1, AddTokenFacts
      <3>6. /\ v.error = 0 /\ w.error = 0 => NextOff(w.img) = NextOff(v.img) + IF t = NoColumn THEN 0 ELSE 1
            /\ v.error = 0 /\ w.error # 0 => t # NoColumn /\ NextOff(v.img) >= MaxCols
        BY <3>2, <3>3, TokenRoom DEF w, t
      <3>7. /\ w.error = 0 => NextOff(w.img) = off + Len(y) - Len(c)
            /\ w.error = -2 => off + Len(y) - Len(c) > MaxCols
            /\ w.error \in {-2, 0}
        <4> DEFINE lx == Len(x)
                   ly == Len(y)
                   lc == Len(c)
                   from == NextOff(v.img)
                   to == NextOff(w.img)
        <4>1. /\ lx \in Nat /\ ly \in Nat /\ lc \in Nat /\ off \in Nat /\ MaxCols \in Nat
              /\ ly = lx + IF t = NoColumn THEN 0 ELSE 1
          BY <1>1, <2>3, <3>4
        <4>2. CASE v.error = -2
          <5>1. w = v
            BY <3>5, <4>2
          <5>2. w.error = -2 /\ off + lx - lc > MaxCols
            BY <3>3, <4>2, <5>1
          <5> HIDE DEF lx, ly, lc
          <5>3. off + ly - lc > MaxCols
            BY <4>1, <5>2
          <5> QED
            BY <5>2, <5>3 DEF ly, lc
        <4>3. CASE v.error = 0
          <5>1. /\ from = off + lx - lc /\ w.error \in {-2, 0}
                /\ w.error = 0 => to = from + IF t = NoColumn THEN 0 ELSE 1
                /\ w.error # 0 => t # NoColumn /\ from >= MaxCols
            BY <3>3, <3>5, <3>6, <4>3
          <5> HIDE DEF lx, ly, lc, from, to
          <5>2. w.error = 0 => to = off + ly - lc
            BY <4>1, <5>1
          <5>3. w.error = -2 => off + ly - lc > MaxCols
            BY <4>1, <5>1
          <5> QED
            BY <5>1, <5>2, <5>3 DEF ly, lc, to
        <4> QED
          BY <3>3, <4>2, <4>3
      <3>8. Has(w, k)
        BY <3>4, <3>5, <3>7 DEF Has, y
      <3>9. w \in ParserSet
        BY <3>5 DEF Parsing
      <3> QED
        BY <3>1, <3>8, <3>9 DEF w
    <2>9. q \in K[m]
      <3>1. Tokens!Fold(p, tokens) \in K[m]
        <4> HIDE DEF K, m, tokens
        <4> QED
          BY <2>2, <2>7, <2>8, Tokens!FoldInvariant
      <3> QED
        BY <2>1, <3>1, TokensFold
    <2>10. Has(q, m)
      <3> HIDE DEF Has
      <3> QED
        BY <2>2, <2>9
    <2>11. Columns0(next) = size(m)
      BY <1>4, <1>7, <2>6 DEF c
    <2>12. /\ q.error \in {-2, 0}
           /\ q.error = 0 => NextOff(q.img) = Columns0(next)
           /\ q.error = -2 => Columns0(next) > MaxCols
      BY <2>10, <2>11
    <2> QED
      BY <1>3, <2>12 DEF Packed, next, cards
  <1>8. line.header \/ (~line.header /\ n = 0) \/ (~line.header /\ n > 0)
    BY <1>1
  <1> QED
    BY <1>5, <1>6, <1>7, <1>8

----------------------------------------------------------------------------
(* What a capture, and what a deck, wants room for.                        *)

\* The parser opens a card at every header.
LEMMA ParsedCards ==
    ASSUME NEW lines \in Seq(Line), NEW k \in 0 .. Len(lines),
           NEW cards, cards = Parsed!Fold(<<>>, SubSeq(lines, 1, k))
    PROVE  /\ cards \in Seq(Seq(Columns))
           /\ Len(cards) = Cardinality({i \in 1 .. k : lines[i].header})
           /\ IsFiniteSet({i \in 1 .. k : lines[i].header})
  <1> DEFINE H(j) == {i \in 1 .. j : lines[i].header}
             S == Seq(Seq(Columns))
             s == SubSeq(lines, 1, k)
             K == [j \in 0 .. k |-> {v \in S : Len(v) = Cardinality(H(j))}]
  <1>1. /\ k \in Nat /\ DOMAIN s = 1 .. k /\ \A j \in 1 .. k : s[j] = lines[j] /\ s[j] \in Line
    OBVIOUS
  <1>2. \A j \in 0 .. k : IsFiniteSet(H(j))
    <2> SUFFICES ASSUME NEW j \in 0 .. k PROVE IsFiniteSet(H(j))
      OBVIOUS
    <2>1. H(j) \subseteq 1 .. j /\ j \in Int
      BY <1>1
    <2>2. IsFiniteSet(1 .. j)
      BY <2>1, FS_Interval
    <2> QED
      BY <2>1, <2>2, FS_Subset
  <1>3. <<>> \in K[0]
    <2>1. H(0) = {} /\ <<>> \in S /\ Len(<<>>) = 0
      OBVIOUS
    <2>2. Cardinality(H(0)) = 0
      BY <2>1, FS_EmptySet
    <2> HIDE DEF H, S
    <2> QED
      BY <1>1, <2>1, <2>2
  <1>4. ASSUME NEW j \in 1 .. k, NEW v \in K[j - 1] PROVE ParseLine(v, s[j]) \in K[j]
    <2> DEFINE line == s[j]
               w == ParseLine(v, line)
    <2>1. /\ j - 1 \in 0 .. k /\ j \in 0 .. k /\ j \in Nat /\ line \in Line
          /\ (line.header <=> lines[j].header)
      BY <1>1
    <2>2. v \in S /\ Len(v) = Cardinality(H(j - 1)) /\ IsFiniteSet(H(j - 1))
      <3> HIDE DEF H, S
      <3> QED
        BY <1>2, <2>1
    <2>3. w \in S /\ Len(w) = IF line.header THEN Len(v) + 1 ELSE Len(v)
      <3> HIDE DEF line
      <3> QED
        BY <2>1, <2>2, LineCounts
    <2>4. Cardinality(H(j)) = IF line.header THEN Cardinality(H(j - 1)) + 1 ELSE Cardinality(H(j - 1))
      <3>1. CASE line.header
        <4>1. H(j) = H(j - 1) \cup {j} /\ j \notin H(j - 1)
          BY <2>1, <3>1
        <4> HIDE DEF H
        <4>2. Cardinality(H(j - 1) \cup {j}) = Cardinality(H(j - 1)) + 1
          BY <2>2, <4>1, FS_AddElement
        <4> QED
          BY <3>1, <4>1, <4>2
      <3>2. CASE ~line.header
        <4>1. H(j) = H(j - 1)
          BY <2>1, <3>2
        <4> QED
          BY <3>2, <4>1
      <3> QED
        BY <3>1, <3>2
    <2>5. Len(w) = Cardinality(H(j))
      <3> HIDE DEF H, line, w
      <3> QED
        BY <2>2, <2>3, <2>4
    <2> HIDE DEF w, H, S
    <2> QED
      BY <2>1, <2>3, <2>5 DEF w
  <1>5. Parsed!Fold(<<>>, s) \in K[k]
    <2> HIDE DEF K, s
    <2> QED
      BY <1>1, <1>3, <1>4, Parsed!FoldInvariant
  <1>6. k \in 0 .. k
    BY <1>1
  <1> HIDE DEF H, s, S
  <1>7. cards \in S /\ Len(cards) = Cardinality(H(k)) /\ IsFiniteSet(H(k))
    BY <1>2, <1>5, <1>6 DEF s
  <1> QED
    BY <1>7 DEF H, S

\* No line takes a column away.
LEMMA ParsedGrows ==
    ASSUME NEW lines \in Seq(Line), NEW k \in 0 .. Len(lines),
           NEW cards, cards = Parsed!Fold(<<>>, SubSeq(lines, 1, k))
    PROVE  Columns0(cards) <= Columns0(Parsed!Fold(<<>>, lines))
  <1> DEFINE S == Seq(Seq(Columns))
             s == SubSeq(lines, 1, k)
             t == SubSeq(lines, k + 1, Len(lines))
             n == Len(t)
             K == [j \in 0 .. n |-> {v \in S : Columns0(v) >= Columns0(cards)}]
  <1>1. /\ s \in Seq(Line) /\ t \in Seq(Line) /\ lines = s \o t
    <2> DEFINE last == Len(lines)
    <2>1. /\ s \in Seq(Line) /\ t \in Seq(Line) /\ SubSeq(lines, 1, last) = lines
          /\ 1 \in 1 .. last + 1 /\ k \in 1 - 1 .. last /\ last \in k .. last
      OBVIOUS
    <2>2. SubSeq(lines, 1, k) \o SubSeq(lines, k + 1, last) = SubSeq(lines, 1, last)
      <3> HIDE DEF s, t
      <3> QED
        BY <2>1, ConcatAdjacentSubSeq
    <2> QED
      BY <2>1, <2>2
  <1>2. cards \in S /\ Columns0(cards) \in Nat
    BY ParsedCards, ColumnsType
  <1> HIDE DEF t
  <1>3. n \in Nat /\ DOMAIN t = 1 .. n /\ \A j \in 1 .. n : t[j] \in Line
    BY <1>1
  <1>4. cards \in K[0]
    <2> HIDE DEF S
    <2> QED
      BY <1>2, <1>3
  <1>5. ASSUME NEW j \in 1 .. n, NEW v \in K[j - 1] PROVE ParseLine(v, t[j]) \in K[j]
    <2> DEFINE w == ParseLine(v, t[j])
    <2>1. t[j] \in Line /\ v \in S /\ Columns0(v) >= Columns0(cards) /\ j \in 0 .. n
      <3> HIDE DEF S
      <3> QED
        BY <1>3
    <2>2. w \in S /\ Columns0(w) >= Columns0(v)
      BY <2>1, LineCounts
    <2>3. Columns0(v) \in Nat /\ Columns0(w) \in Nat
      BY <2>1, <2>2, ColumnsType
    <2> HIDE DEF S, w
    <2> QED
      BY <1>2, <2>1, <2>2, <2>3 DEF w
  <1>6. Parsed!Fold(cards, t) \in K[n]
    <2> HIDE DEF K, n
    <2> QED
      BY <1>3, <1>4, <1>5, Parsed!FoldInvariant
  <1>7. Parsed!Fold(<<>>, lines) = Parsed!Fold(cards, t)
    <2> HIDE DEF s
    <2>1. Parsed!Fold(<<>>, s \o t) = Parsed!Fold(Parsed!Fold(<<>>, s), t)
      BY <1>1, Parsed!FoldConcat
    <2> QED
      BY <1>1, <2>1 DEF s
  <1> HIDE DEF S
  <1>8. Columns0(Parsed!Fold(cards, t)) >= Columns0(cards)
    BY <1>3, <1>6
  <1>9. Columns0(Parsed!Fold(cards, t)) \in Nat
    <2>1. Parsed!Fold(cards, t) \in S
      BY <1>3, <1>6
    <2> QED
      BY <2>1, ColumnsType DEF S
  <1> QED
    BY <1>2, <1>7, <1>8, <1>9

\* A line is refused only if the capture has too many headers or columns.
LEMMA LineRefused ==
    ASSUME NEW p, Parsing(p), p.error = 0, Packed(p.img),
           NEW lines \in Seq(Line), NEW k \in 0 .. Len(lines) - 1,
           CardsOf(p.img) = Parsed!Fold(<<>>, SubSeq(lines, 1, k)),
           NEW q, q = ProcessLine(p, lines[k + 1]), q.error # 0
    PROVE  ~(Cardinality(Headers(lines)) <= MaxCards /\ Columns0(Punched(lines)) <= MaxCols)
  <1> DEFINE l == k + 1
             line == lines[l]
             cards == CardsOf(p.img)
             H(j) == {i \in 1 .. j : lines[i].header}
             all == Parsed!Fold(<<>>, lines)
  <1>1. /\ line \in Line /\ k \in Nat /\ l \in Nat /\ k < l /\ l <= Len(lines) /\ Len(lines) \in Nat
        /\ k \in 0 .. Len(lines) /\ l \in 0 .. Len(lines) /\ Len(lines) \in 0 .. Len(lines)
        /\ SubSeq(lines, 1, k) \in Seq(Line)
        /\ SubSeq(lines, 1, l) = Append(SubSeq(lines, 1, k), line)
        /\ SubSeq(lines, 1, Len(lines)) = lines /\ DOMAIN lines = 1 .. Len(lines)
    OBVIOUS
  <1>2. ImgOK(p.img) /\ Len(cards) = NCards(p.img) /\ MaxCards \in Nat /\ MaxCols \in Nat
    BY CardsOfFacts, SizeFacts DEF Parsing
  <1>3. q.error \in {-2, -1}
    <2> HIDE DEF line
    <2>1. q.error \in {-2, -1, 0}
      BY <1>1, LineFacts DEF line, l
    <2> QED
      BY <2>1
  <1>4. CASE q.error = -1
    <2>1. line.header /\ Len(cards) >= MaxCards
      BY <1>1, <1>2, <1>4, LineRoom
    <2>2. Len(cards) = Cardinality(H(k)) /\ IsFiniteSet(H(k))
      BY <1>1, ParsedCards
    <2>3. /\ H(k) \cup {l} \subseteq Headers(lines) /\ l \notin H(k)
          /\ Headers(lines) = H(Len(lines))
      BY <1>1, <2>1 DEF Headers
    <2> HIDE DEF H, cards, line, l
    <2>4. IsFiniteSet(Headers(lines))
      <3> DEFINE n == Len(lines)
      <3>1. n \in 0 .. Len(lines)
        BY <1>1
      <3> HIDE DEF n
      <3>2. IsFiniteSet({i \in 1 .. n : lines[i].header})
        BY <3>1, ParsedCards
      <3> QED
        BY <2>3, <3>2 DEF H, n
    <2>5. Cardinality(H(k) \cup {l}) = Cardinality(H(k)) + 1
      BY <2>2, <2>3, FS_AddElement
    <2>6. Cardinality(H(k) \cup {l}) <= Cardinality(Headers(lines)) /\ Cardinality(Headers(lines)) \in Nat
      BY <2>3, <2>4, FS_Subset, FS_CardinalityType
    <2>7. Cardinality(H(k)) \in Nat
      BY <2>2, FS_CardinalityType
    <2> QED
      BY <1>2, <2>1, <2>2, <2>5, <2>6, <2>7
  <1>5. CASE q.error = -2
    <2> DEFINE next == ParseLine(cards, line)
    <2>1. Columns0(next) > MaxCols
      BY <1>1, <1>5, LineRoom
    <2>2. next = Parsed!Fold(<<>>, SubSeq(lines, 1, l))
      <3> DEFINE s == SubSeq(lines, 1, k)
      <3> HIDE DEF s, line
      <3>1. /\ s \in Seq(Line) /\ line \in Line /\ SubSeq(lines, 1, l) = Append(s, line)
            /\ cards = Parsed!Fold(<<>>, s)
        BY <1>1 DEF s
      <3> HIDE DEF cards
      <3>2. Parsed!Fold(<<>>, Append(s, line)) = ParseLine(Parsed!Fold(<<>>, s), line)
        BY <3>1, Parsed!FoldAppend
      <3> QED
        BY <3>1, <3>2
    <2> HIDE DEF next, l
    <2>3. next \in Seq(Seq(Columns)) /\ Columns0(next) <= Columns0(all)
      BY <1>1, <2>2, ParsedCards, ParsedGrows
    <2>4. all \in Seq(Seq(Columns))
      BY <1>1, ParsedCards
    <2> HIDE DEF all
    <2>5. Columns0(FoldLeft(AddCard, <<>>, all)) = Columns0(all)
      BY <2>4, EmptyCardsCountNot
    <2>6. Columns0(Punched(lines)) = Columns0(all)
      BY <2>5, PunchedFacts DEF all
    <2>7. Columns0(next) \in Nat /\ Columns0(all) \in Nat
      BY <2>3, <2>4, ColumnsType
    <2> QED
      BY <1>2, <2>1, <2>3, <2>6, <2>7
  <1> QED
    BY <1>3, <1>4, <1>5

\* Cards are refused only if the deck would have too many cards or columns.
LEMMA DealtRoom ==
    ASSUME NEW img, ImgOK(img), Packed(img), AllFilled(img),
           NEW cards \in Seq(Seq(Columns)), \A i \in 1 .. Len(cards) : cards[i] # <<>>,
           NEW res, res = FoldLeft(AppendCard, [img |-> img, ok |-> TRUE], cards),
           NEW deck, deck = CardsOf(img) \o cards
    PROVE  /\ res.ok => Packed(res.img)
           /\ ~res.ok => ~(Len(deck) <= MaxCards /\ Columns0(deck) <= MaxCols)
  <1> DEFINE n == Len(cards)
             s == [img |-> img, ok |-> TRUE]
             S == Seq(Columns)
             many == NCards(img)
             off == NextOff(img)
             First(k) == SubSeq(cards, 1, k)
             size(k) == off + Columns0(First(k))
             Has(v, k) ==
                 /\ ImgOK(v.img)
                 /\ v.ok => NCards(v.img) = many + k /\ NextOff(v.img) = size(k)
                 /\ ~v.ok => many + k > MaxCards \/ size(k) > MaxCols
             K == [k \in 0 .. n |-> {v \in [img : ImageSet, ok : BOOLEAN] : Has(v, k)}]
  <1>1. /\ n \in Nat /\ DOMAIN cards = 1 .. n /\ First(0) = <<>> /\ First(n) = cards
        /\ \A k \in 1 .. n : /\ cards[k] \in S /\ First(k) \in Seq(S) /\ First(k - 1) \in Seq(S)
                             /\ First(k) = Append(First(k - 1), cards[k])
    OBVIOUS
  <1>2. /\ many \in Nat /\ off \in Nat /\ MaxCards \in Nat /\ MaxCols \in Nat
        /\ img \in ImageSet /\ CardsOf(img) \in Seq(S) /\ Len(CardsOf(img)) = many
    BY NextOffFacts, SizeFacts, ImgFacts, CardsOfFacts
  <1>3. s \in K[0]
    <2>1. size(0) = off
      <3> HIDE DEF First
      <3> QED
        BY <1>1, <1>2, NoColumns
    <2> HIDE DEF size
    <2>2. s \in [img : ImageSet, ok : BOOLEAN] /\ s.img = img /\ s.ok
      BY <1>2
    <2>3. Has(s, 0)
      BY <1>2, <2>1, <2>2
    <2> HIDE DEF Has, s
    <2> QED
      BY <1>1, <2>2, <2>3
  <1>4. ASSUME NEW k \in 1 .. n, NEW v \in K[k - 1] PROVE AppendCard(v, cards[k]) \in K[k]
    <2> DEFINE w == AppendCard(v, cards[k])
               c == cards[k]
    <2>1. v \in [img : ImageSet, ok : BOOLEAN] /\ Has(v, k - 1) /\ k \in 0 .. n /\ k \in Nat
      <3> HIDE DEF Has
      <3> QED
        BY <1>1
    <2>2. c \in S /\ Len(c) \in Nat
      BY <1>1
    <2>3. size(k) = size(k - 1) + Len(c) /\ size(k - 1) \in Nat
      <3> DEFINE f == First(k - 1)
                 g == First(k)
      <3>1. f \in Seq(S) /\ g = Append(f, c) /\ c \in S
        BY <1>1
      <3> HIDE DEF f, g, c
      <3>2. Columns0(g) = Columns0(f) + Len(c) /\ Columns0(f) \in Nat
        BY <3>1, OneCardMore, ColumnsType
      <3> HIDE DEF off
      <3> QED
        BY <1>2, <2>2, <3>2 DEF f, g
    <2> HIDE DEF size, off, many
    <2>4. NCards(v.img) \in Nat /\ NextOff(v.img) \in Nat
      BY <2>1, NextOffFacts
    <2>5. CASE w = [v EXCEPT !.ok = FALSE]
               /\ (~v.ok \/ NCards(v.img) >= MaxCards \/ NextOff(v.img) + Len(c) > MaxCols)
      <3>1. w = [img |-> v.img, ok |-> FALSE]
        <4> HIDE DEF w, Has
        <4> QED
          BY <2>1, <2>5
      <3>2. w \in [img : ImageSet, ok : BOOLEAN] /\ w.img = v.img /\ ~w.ok
        <4> HIDE DEF w, Has
        <4> QED
          BY <2>1, <3>1
      <3> HIDE DEF w, c
      <3>3. many + k > MaxCards \/ size(k) > MaxCols
        <4> DEFINE x == size(k - 1)
                   y == size(k)
        <4>1. /\ x \in Nat /\ y = x + Len(c) /\ many \in Nat /\ k \in Nat
              /\ Len(c) \in Nat /\ MaxCards \in Nat /\ MaxCols \in Nat
          BY <1>2, <2>1, <2>2, <2>3
        <4>2. /\ v.ok => NCards(v.img) = many + (k - 1) /\ NextOff(v.img) = x
              /\ ~v.ok => many + (k - 1) > MaxCards \/ x > MaxCols
          BY <2>1
        <4>3. ~v.ok \/ NCards(v.img) >= MaxCards \/ NextOff(v.img) + Len(c) > MaxCols
          BY <2>5
        <4> HIDE DEF x, y
        <4>4. many + k > MaxCards \/ y > MaxCols
          BY <4>1, <4>2, <4>3
        <4> QED
          BY <4>4 DEF y
      <3>4. Has(w, k)
        BY <2>1, <3>2, <3>3
      <3> HIDE DEF Has
      <3> QED
        BY <2>1, <3>2, <3>4 DEF w, c
    <2>6. CASE /\ v.ok /\ NCards(v.img) < MaxCards
               /\ NextOff(v.img) + Len(c) <= MaxCols
               /\ w = [v EXCEPT !.img = Put(v.img, c)]
      <3> DEFINE put == Put(v.img, c)
      <3>1. w = [img |-> put, ok |-> v.ok]
        <4> HIDE DEF w, put, Has
        <4> QED
          BY <2>1, <2>6 DEF put
      <3>2. /\ ImgOK(put) /\ NCards(put) = NCards(v.img) + 1
            /\ NextOff(put) = NextOff(v.img) + Len(c)
        <4> HIDE DEF c
        <4> QED
          BY <2>1, <2>2, <2>6, PutFacts
      <3> HIDE DEF put, w, c
      <3>3. w \in [img : ImageSet, ok : BOOLEAN] /\ w.img = put /\ w.ok
        <4>1. put \in ImageSet /\ v.ok /\ v.ok \in BOOLEAN
          BY <2>1, <2>6, <3>2 DEF ImgOK
        <4> QED
          BY <3>1, <4>1
      <3>4. NCards(put) = many + k /\ NextOff(put) = size(k)
        BY <1>2, <2>1, <2>2, <2>3, <2>6, <3>2
      <3>5. Has(w, k)
        BY <3>2, <3>3, <3>4
      <3> HIDE DEF Has
      <3> QED
        BY <2>1, <3>3, <3>5 DEF w, c
    <2>7. \/ /\ w = [v EXCEPT !.ok = FALSE]
             /\ ~v.ok \/ NCards(v.img) >= MaxCards \/ NextOff(v.img) + Len(c) > MaxCols
          \/ /\ v.ok /\ ~(NCards(v.img) >= MaxCards)
             /\ ~(NextOff(v.img) + Len(c) > MaxCols)
             /\ w = [v EXCEPT !.img = Put(v.img, c)]
      BY DEF AppendCard
    <2> HIDE DEF w, K, Has, c
    <2> QED
      BY <1>2, <2>2, <2>4, <2>5, <2>6, <2>7 DEF w, c
  <1>5. res \in K[n]
    <2>1. Dealt!Fold(s, cards) \in K[n]
      <3> HIDE DEF K, s, n
      <3> QED
        BY <1>1, <1>3, <1>4, Dealt!FoldInvariant
    <2> QED
      BY <2>1, DealtFold
  <1>6. Has(res, n) /\ res.ok \in BOOLEAN
    <2> HIDE DEF Has
    <2> QED
      BY <1>1, <1>5
  <1>7. Len(deck) = many + n /\ Columns0(deck) = size(n)
    <2> DEFINE a == CardsOf(img)
    <2>1. a \in Seq(S) /\ cards \in Seq(S) /\ deck = a \o cards /\ many = Len(a)
      BY <1>2
    <2> HIDE DEF a, S, many, First
    <2>2. Len(deck) = many + n
      BY <2>1, ConcatAt
    <2>3. Columns0(deck) = Columns0(a) + Columns0(cards)
      BY <2>1, ColumnsOfBoth DEF S
    <2> QED
      BY <1>1, <2>2, <2>3 DEF a, Packed
  <1>8. res.ok => CardsOf(res.img) = deck
    BY DealtFacts
  <1>9. size(n) \in Nat /\ many + n \in Nat
    <2>1. Columns0(First(n)) \in Nat
      BY <1>1, ColumnsType
    <2> HIDE DEF First, off, many, n
    <2> QED
      BY <1>1, <1>2, <2>1
  <1>10. /\ res.ok => NextOff(res.img) = size(n)
         /\ ~res.ok => many + n > MaxCards \/ size(n) > MaxCols
    BY <1>6
  <1> HIDE DEF size, n, many, Has
  <1>11. res.ok => Packed(res.img)
    BY <1>7, <1>8, <1>10 DEF Packed
  <1>12. ~res.ok => ~(Len(deck) <= MaxCards /\ Columns0(deck) <= MaxCols)
    BY <1>2, <1>7, <1>9, <1>10
  <1> QED
    BY <1>11, <1>12

\* A recipe is refused only if the capture has not the cards it takes out,
\* or the deck no room for those it keeps.
LEMMA SurgeryRoom ==
    ASSUME NEW img, ImgOK(img), AllFilled(img), Packed(img),
           NEW src, ImgOK(src), AllFilled(src), NCards(src) > 0, NEW op \in Ops,
           NEW res, res = SurgeryApply(img, src, op),
           NEW deck, deck = CardsOf(img) \o Kept(CardsOf(src), op)
    PROVE  /\ res.ok => Packed(res.img)
           /\ ~res.ok => ~ /\ Len(CardsOf(src)) >= Fewest(op)
                           /\ Len(deck) <= MaxCards /\ Columns0(deck) <= MaxCols
  <1> DEFINE s == [img |-> img, ok |-> TRUE]
             picks == Picks(src, op)
             taken == [i \in DOMAIN picks |-> CardOf(src, picks[i])]
  <1>1. CASE ~SurgeryAllowed(src, op)
    <2>1. res = [s EXCEPT !.ok = FALSE]
      BY <1>1 DEF SurgeryApply
    <2>2. ~res.ok
      BY <2>1
    <2>3. Len(CardsOf(src)) = NCards(src) /\ NCards(src) \in Nat /\ BodyFirst \in Nat
      BY CardsOfFacts, NextOffFacts, SizeFacts
    <2>4. ~(NCards(src) >= Fewest(op))
      BY <1>1, <2>3 DEF SurgeryAllowed, Fewest, Ops
    <2> QED
      BY <2>2, <2>3, <2>4
  <1>2. CASE SurgeryAllowed(src, op)
    <2>1. res = FoldLeft(AppendCard, s, taken)
      BY <1>2 DEF SurgeryApply
    <2>2. picks \in Seq(0 .. NCards(src) - 1) /\ taken = Kept(CardsOf(src), op)
      BY <1>2, PicksFacts
    <2> HIDE DEF picks
    <2>3. /\ taken \in Seq(Seq(Columns)) /\ Len(taken) = Len(picks)
          /\ \A i \in 1 .. Len(picks) : taken[i] # <<>>
      <3>1. picks \in Seq(0 .. NCards(src) - 1)
        BY <2>2
      <3>2. taken = [i \in DOMAIN picks |-> CardOf(src, picks[i])]
        OBVIOUS
      <3> HIDE DEF taken
      <3> QED
        BY <3>1, <3>2, TakenFacts
    <2> HIDE DEF taken
    <2>4. deck = CardsOf(img) \o taken
      BY <2>2
    <2> QED
      BY <2>1, <2>3, <2>4, DealtRoom
  <1> QED
    BY <1>1, <1>2

----------------------------------------------------------------------------
(* What a program wants room for.                                          *)

LEMMA TimesMonotone ==
    ASSUME NEW a \in Nat, NEW b \in Nat, a <= b, NEW c \in Nat
    PROVE  a * c <= b * c
  OBVIOUS

\* How many cards n bytes fill, the last one maybe not to its end.
Filling(n) == (n + Chunk - 1) \div Chunk

LEMMA FillingFacts ==
    ASSUME NEW n \in Nat, NEW c \in Nat
    PROVE  /\ Filling(n) \in Nat
           /\ c * Chunk <= n => c <= Filling(n)
           /\ c * Chunk < n => c + 1 <= Filling(n)
  <1> DEFINE x == n + Chunk - 1
             f == x \div Chunk
  <1>1. Chunk \in Nat /\ Chunk > 0 /\ x \in Nat
    BY SizeFacts
  <1> HIDE DEF x
  <1>2. f \in Nat /\ x < (f + 1) * Chunk
    BY <1>1
  <1>3. ASSUME NEW a \in Nat, a * Chunk <= x PROVE a <= f
    <2> HIDE DEF f
    <2>1. a * Chunk < (f + 1) * Chunk /\ a * Chunk \in Nat /\ (f + 1) * Chunk \in Nat
      BY <1>1, <1>2, <1>3
    <2>2. ~(f + 1 <= a)
      BY <1>1, <1>2, <2>1, TimesMonotone
    <2> QED
      BY <1>2, <2>2
  <1> HIDE DEF f
  <1>4. c * Chunk <= n => c * Chunk <= x
    BY <1>1 DEF x
  <1>5. c * Chunk < n => (c + 1) * Chunk <= x
    <2>1. (c + 1) * Chunk = c * Chunk + Chunk /\ c * Chunk \in Nat
      BY <1>1
    <2> QED
      BY <1>1, <2>1 DEF x
  <1>6. Filling(n) = f
    BY DEF Filling, x, f
  <1> QED
    BY <1>2, <1>3, <1>4, <1>5, <1>6

\* n bytes from base on are more than there is room for: they end behind the
\* address space, or they fill c cards that leave none for one more.
Overrun(base, n) ==
    \/ base + n > AddressSpace
    \/ \E c \in Nat : c <= Filling(n) + 1 /\ (c >= MaxCards \/ (c + 1) * CardCols > MaxCols)

LEMMA OverrunGrows ==
    ASSUME NEW base \in Nat, NEW n \in Nat, NEW m \in Nat, n <= m, Overrun(base, n)
    PROVE  Overrun(base, m)
  <1>1. Filling(n) <= Filling(m) /\ Filling(n) \in Nat /\ Filling(m) \in Nat
    <2> DEFINE f == Filling(n)
               x == n + Chunk - 1
    <2>1. f \in Nat /\ Filling(m) \in Nat
      BY FillingFacts
    <2>2. Chunk \in Nat /\ Chunk > 0 /\ AddressSpace \in Nat
      BY SizeFacts
    <2>3. f * Chunk <= x /\ f * Chunk \in Nat
      <3>1. x \in Nat
        BY <2>2
      <3> HIDE DEF x
      <3> QED
        BY <2>2, <3>1 DEF Filling, x
    <2>4. f = 0 \/ f - 1 \in Nat
      BY <2>1
    <2>5. CASE f # 0
      <3> DEFINE c == f - 1
      <3> HIDE DEF f
      <3>1. c \in Nat /\ f = c + 1
        BY <2>1, <2>4, <2>5
      <3> HIDE DEF c
      <3>2. f * Chunk = c * Chunk + Chunk /\ c * Chunk \in Nat
        BY <2>2, <3>1
      <3>3. c * Chunk < m
        BY <2>2, <2>3, <3>2
      <3> QED
        BY <2>1, <3>1, <3>3, FillingFacts DEF f
    <2> QED
      BY <2>1, <2>5
  <1>2. AddressSpace \in Nat
    BY SizeFacts
  <1>3. CASE base + n > AddressSpace
    BY <1>2, <1>3 DEF Overrun
  <1>4. CASE \E c \in Nat : c <= Filling(n) + 1 /\ (c >= MaxCards \/ (c + 1) * CardCols > MaxCols)
    <2>1. PICK c \in Nat : c <= Filling(n) + 1 /\ (c >= MaxCards \/ (c + 1) * CardCols > MaxCols)
      BY <1>4
    <2>2. c <= Filling(m) + 1
      BY <1>1, <2>1
    <2> QED
      BY <2>1, <2>2 DEF Overrun
  <1> QED
    BY <1>3, <1>4 DEF Overrun

\* A program there is room for does not overrun it.
LEMMA RoomNoOverrun ==
    ASSUME NEW j, ~IplJob(j), j.base \in Nat, NEW n, n = Len(j.sources[1].bytes), n \in Nat,
           RoomForProgram(j)
    PROVE  ~Overrun(j.base, n)
  <1> DEFINE cards == 2 + Filling(n)
  <1>1. /\ MaxCards \in Nat /\ MaxCols \in Nat /\ CardCols \in Nat /\ AddressSpace \in Nat
        /\ Filling(n) \in Nat
    BY SizeFacts, FillingFacts
  <1>2. j.base + n <= AddressSpace /\ cards <= MaxCards /\ cards * CardCols <= MaxCols
    BY DEF RoomForProgram, Filling
  <1>3. ASSUME NEW c \in Nat, c <= Filling(n) + 1 PROVE ~(c >= MaxCards) /\ ~((c + 1) * CardCols > MaxCols)
    <2>1. c + 1 \in Nat /\ cards \in Nat /\ c + 1 <= cards
      BY <1>1, <1>3
    <2> HIDE DEF cards
    <2>2. (c + 1) * CardCols <= cards * CardCols
      BY <1>1, <2>1, TimesMonotone
    <2>3. (c + 1) * CardCols \in Nat /\ cards * CardCols \in Nat
      BY <1>1, <2>1
    <2> QED
      BY <1>1, <1>2, <2>1, <2>2, <2>3
  <1> HIDE DEF cards
  <1>4. ~(j.base + n > AddressSpace)
    <2> DEFINE end == j.base + n
    <2>1. end \in Nat
      OBVIOUS
    <2>3. AddressSpace \in Nat
      BY <1>1
    <2>4. end <= AddressSpace
      BY <1>2
    <2> HIDE DEF end
    <2>2. ~(end > AddressSpace)
      BY <2>1, <2>3, <2>4
    <2> QED
      BY <2>2 DEF end
  <1> QED
    BY <1>3, <1>4 DEF Overrun

\* The cards of a builder are full ones behind its loader, n bytes of the
\* program are on them or in its buffer.
Evenly(b, base, n) ==
    /\ NCards(b.img) > 0 /\ NextOff(b.img) = NCards(b.img) * CardCols
    /\ b.addr = base + (NCards(b.img) - 1) * Chunk
    /\ base + n = b.addr + Len(b.buf)

LEMMA FlushRoom ==
    ASSUME NEW b \in BuilderSet, ImgOK(b.img), b.error = 0, b.buf # <<>>, NEW q, q = FlushCard(b)
    PROVE  /\ q.error = 0 =>
                 /\ NCards(q.img) = NCards(b.img) + 1 /\ NextOff(q.img) = NextOff(b.img) + CardCols
                 /\ q.addr = b.addr + Len(b.buf) /\ q.buf = <<>>
           /\ q.error # 0 =>
                 \/ b.addr + Len(b.buf) > AddressSpace
                 \/ NCards(b.img) >= MaxCards \/ NextOff(b.img) + CardCols > MaxCols
  <1> DEFINE card == ScatterCard(b.addr, b.buf)
             put == Put(b.img, card)
             full == b.addr + Len(b.buf) > AddressSpace \/ ~CanAppendCols(b.img)
  <1>1. /\ NCards(b.img) \in Nat /\ NextOff(b.img) \in Nat /\ b.buf \in Seq(Byte)
        /\ MaxCards \in Nat /\ MaxCols \in Nat /\ CardCols \in Nat
    BY NextOffFacts, SizeFacts DEF BuilderSet
  <1>2. b = [img |-> b.img, addr |-> b.addr, buf |-> b.buf, error |-> 0]
    BY DEF BuilderSet
  <1>3. CASE full
    <2>1. q = [b EXCEPT !.error = -1]
      BY <1>3 DEF FlushCard
    <2>2. q.error # 0
      <3>1. q.error = -1
        BY <1>2, <2>1
      <3> QED
        BY <3>1
    <2>3. ~CanAppendCols(b.img) => NCards(b.img) >= MaxCards \/ NextOff(b.img) + CardCols > MaxCols
      BY <1>1 DEF CanAppendCols
    <2> QED
      BY <1>3, <2>2, <2>3
  <1>4. CASE ~full
    <2>1. q = [b EXCEPT !.img = put, !.addr = b.addr + Len(b.buf), !.buf = <<>>]
      BY <1>4 DEF FlushCard
    <2>2. card \in Seq(Columns) /\ Len(card) = CardCols
      BY <1>1, ScatterCardType
    <2> HIDE DEF card
    <2>3. NCards(b.img) < MaxCards /\ NextOff(b.img) + Len(card) <= MaxCols
      BY <1>1, <1>4, <2>2 DEF CanAppendCols
    <2>4. NCards(put) = NCards(b.img) + 1 /\ NextOff(put) = NextOff(b.img) + CardCols
      BY <2>2, <2>3, PutFacts
    <2> HIDE DEF put
    <2>5. q = [img |-> put, addr |-> b.addr + Len(b.buf), buf |-> <<>>, error |-> 0]
      BY <1>2, <2>1
    <2> QED
      BY <2>4, <2>5
  <1> QED
    BY <1>3, <1>4

\* A card too many, because the ones before it are full.
LEMMA CardOverruns ==
    ASSUME NEW base \in Nat, NEW n \in Nat, NEW addr, NEW c \in Nat, NEW off, off = c * CardCols,
           c <= Filling(n) + 1, addr = base + n,
           addr > AddressSpace \/ c >= MaxCards \/ off + CardCols > MaxCols
    PROVE  Overrun(base, n)
  <1>1. CardCols \in Nat
    BY SizeFacts
  <1>2. (c + 1) * CardCols = off + CardCols
    BY <1>1
  <1> QED
    BY <1>2 DEF Overrun

LEMMA FeedByteRoom ==
    ASSUME NEW b, Building(b), b.error = 0, NEW base \in Nat, NEW n \in Nat, Evenly(b, base, n),
           NEW byte \in Byte, NEW q, q = FeedByte(b, byte)
    PROVE  /\ q.error = 0 => Evenly(q, base, n + 1)
           /\ q.error # 0 => Overrun(base, n + 1)
  <1> DEFINE buf == Append(b.buf, byte)
             fed == [b EXCEPT !.buf = buf]
             c == NCards(b.img)
             off == NextOff(b.img)
             l == Len(b.buf)
             end == b.addr + l + 1
  <1>1. /\ b \in BuilderSet /\ b.img \in ImageSet /\ ImgOK(b.img) /\ b.addr \in Nat
        /\ b.buf \in Seq(Byte) /\ c \in Nat /\ Chunk \in Nat /\ CardCols \in Nat /\ l \in Nat
    BY NextOffFacts, SizeFacts DEF BuilderSet, Building
  <1>2. fed = [img |-> b.img, addr |-> b.addr, buf |-> buf, error |-> 0]
    <2> HIDE DEF buf
    <2> QED
      BY <1>1 DEF BuilderSet
  <1>3. buf \in Seq(Byte) /\ Len(buf) = l + 1 /\ buf # <<>>
    BY <1>1
  <1>4. c > 0 /\ off = c * CardCols /\ b.addr = base + (c - 1) * Chunk /\ end = base + (n + 1)
    BY <1>1 DEF Evenly
  <1>5. CASE Len(buf) # Chunk
    <2>1. q = fed
      BY <1>5 DEF FeedByte
    <2> HIDE DEF buf, fed
    <2>2. q.img = b.img /\ q.addr = b.addr /\ Len(q.buf) = l + 1 /\ q.error = 0
      BY <1>2, <1>3, <2>1
    <2>3. base + (n + 1) = q.addr + Len(q.buf)
      <3>1. q.addr + Len(q.buf) = b.addr + (l + 1)
        BY <2>2
      <3>2. b.addr + l + 1 = base + (n + 1) /\ b.addr \in Nat /\ l \in Nat
        BY <1>1, <1>4
      <3> HIDE DEF l
      <3>3. b.addr + (l + 1) = b.addr + l + 1
        BY <3>2
      <3> QED
        BY <3>1, <3>2, <3>3
    <2> HIDE DEF l, end
    <2>4. /\ NCards(q.img) > 0 /\ NextOff(q.img) = NCards(q.img) * CardCols
          /\ q.addr = base + (NCards(q.img) - 1) * Chunk
      BY <1>4, <2>2
    <2> QED
      BY <2>2, <2>3, <2>4 DEF Evenly
  <1>6. CASE Len(buf) = Chunk
    <2>1. q = FlushCard(fed)
      BY <1>2, <1>6 DEF FeedByte
    <2> HIDE DEF buf, fed
    <2>2. /\ fed \in BuilderSet /\ fed.img = b.img /\ fed.buf = buf /\ fed.addr = b.addr
          /\ fed.error = 0 /\ fed.buf # <<>> /\ fed.addr + Len(fed.buf) = end
      <3>1. fed \in [img : ImageSet, addr : Nat, buf : Seq(Byte), error : {-1, 0}]
        BY <1>1, <1>2, <1>3
      <3>2. fed.img = b.img /\ fed.buf = buf /\ fed.addr = b.addr /\ fed.error = 0
        BY <1>2
      <3>3. b.addr + Len(buf) = end
        <4>1. l \in Nat /\ b.addr \in Nat /\ Len(buf) = l + 1
          BY <1>1, <1>3
        <4> HIDE DEF l
        <4>2. b.addr + Len(buf) = b.addr + l + 1
          BY <4>1
        <4> QED
          BY <4>2
      <3> HIDE DEF end
      <3> QED
        BY <1>3, <3>1, <3>2, <3>3 DEF BuilderSet
    <2>3. /\ q.error = 0 =>
                /\ NCards(q.img) = c + 1 /\ NextOff(q.img) = off + CardCols
                /\ q.addr = end /\ q.buf = <<>>
          /\ q.error # 0 =>
                end > AddressSpace \/ c >= MaxCards \/ off + CardCols > MaxCols
      <3>1. /\ q.error = 0 =>
                /\ NCards(q.img) = NCards(fed.img) + 1 /\ NextOff(q.img) = NextOff(fed.img) + CardCols
                /\ q.addr = fed.addr + Len(fed.buf) /\ q.buf = <<>>
            /\ q.error # 0 =>
                \/ fed.addr + Len(fed.buf) > AddressSpace
                \/ NCards(fed.img) >= MaxCards \/ NextOff(fed.img) + CardCols > MaxCols
        BY <1>1, <2>1, <2>2, FlushRoom
      <3> QED
        BY <2>2, <3>1
    <2>4. end = base + c * Chunk /\ n + 1 = c * Chunk
      <3>1. (c - 1) * Chunk + Chunk = c * Chunk /\ (c - 1) * Chunk \in Nat
        <4> DEFINE d == c - 1
        <4> HIDE DEF c, off, end
        <4>1. d \in Nat /\ c = d + 1
          BY <1>1, <1>4
        <4> HIDE DEF d
        <4>2. d * Chunk \in Nat /\ (d + 1) * Chunk = d * Chunk + Chunk
          BY <1>1, <4>1
        <4>3. (c - 1) * Chunk = d * Chunk
          BY DEF d
        <4> QED
          BY <4>1, <4>2, <4>3
      <3>2. l + 1 = Chunk
        BY <1>3, <1>6
      <3> DEFINE x == (c - 1) * Chunk
      <3>3. x \in Nat /\ x + Chunk = c * Chunk /\ c * Chunk \in Nat
        BY <1>1, <3>1
      <3>4. b.addr = base + x
        <4> HIDE DEF c, end, off
        <4> QED
          BY <1>4
      <3> DEFINE y == c * Chunk
      <3> HIDE DEF c, l, x, y
      <3>5. x + Chunk = y /\ y \in Nat
        BY <3>3 DEF y
      <3>6. b.addr + l + 1 = base + y
        BY <1>1, <3>2, <3>3, <3>4, <3>5
      <3> QED
        BY <1>4, <3>5, <3>6 DEF y
    <2> HIDE DEF c, off, end, l
    <2>5. CASE q.error = 0
      <3>1. (c + 1) * CardCols = off + CardCols /\ (c + 1) - 1 = c
        BY <1>1, <1>4
      <3>2. Len(q.buf) = 0
        BY <2>3, <2>5
      <3> DEFINE d == c + 1
      <3>4. d > 0 /\ d - 1 = c /\ d * CardCols = off + CardCols /\ NCards(q.img) = d
        BY <1>1, <1>4, <2>3, <2>5, <3>1
      <3> HIDE DEF d
      <3>3. /\ NCards(q.img) > 0 /\ NextOff(q.img) = NCards(q.img) * CardCols
            /\ q.addr = base + (NCards(q.img) - 1) * Chunk
            /\ base + (n + 1) = q.addr + 0
        <4>1. NextOff(q.img) = off + CardCols /\ q.addr = end
          BY <2>3, <2>5
        <4>2. end + 0 = end
          BY <1>4
        <4> QED
          BY <1>4, <2>4, <3>4, <4>1, <4>2
      <3> QED
        BY <2>5, <3>2, <3>3 DEF Evenly
    <2>6. CASE q.error # 0
      <3>1. c <= Filling(n + 1) /\ Filling(n + 1) \in Nat
        BY <1>1, <2>4, FillingFacts
      <3>2. c <= Filling(n + 1) + 1 /\ n + 1 \in Nat
        BY <1>1, <3>1
      <3>3. Overrun(base, n + 1)
        BY <1>1, <1>4, <2>3, <2>6, <3>2, CardOverruns
      <3> QED
        BY <2>6, <3>3
    <2> QED
      BY <2>5, <2>6
  <1> QED
    BY <1>5, <1>6

LEMMA FeedRoom ==
    ASSUME NEW b, Building(b), b.error = 0, NEW base \in Nat, NEW n \in Nat, Evenly(b, base, n),
           NEW bytes \in Seq(Byte), NEW m, m = Len(bytes), NEW q, q = Bin2DeckFeed(b, bytes)
    PROVE  /\ q.error = 0 => Evenly(q, base, n + m)
           /\ q.error # 0 => Overrun(base, n + m)
  <1> DEFINE Has(v, k) ==
                 /\ Building(v)
                 /\ v.error = 0 => Evenly(v, base, n + k)
                 /\ v.error # 0 => Overrun(base, n + k)
             K == [k \in 0 .. m |-> {v \in BuilderSet : Has(v, k)}]
  <1>1. m \in Nat /\ DOMAIN bytes = 1 .. m /\ \A k \in 1 .. m : bytes[k] \in Byte
    OBVIOUS
  <1>2. b \in K[0]
    <2>1. Has(b, 0)
      BY DEF Evenly
    <2> HIDE DEF Has
    <2> QED
      BY <1>1, <2>1 DEF Building
  <1>3. ASSUME NEW k \in 1 .. m, NEW v \in K[k - 1] PROVE FeedByte(v, bytes[k]) \in K[k]
    <2> DEFINE w == FeedByte(v, bytes[k])
               l == n + (k - 1)
    <2>1. /\ v \in BuilderSet /\ Has(v, k - 1) /\ k \in 0 .. m /\ bytes[k] \in Byte
          /\ l \in Nat /\ l + 1 = n + k
      <3> HIDE DEF Has
      <3> QED
        BY <1>1
    <2>2. Building(v) /\ (v.error = 0 => Evenly(v, base, l)) /\ (v.error # 0 => Overrun(base, l))
      BY <2>1
    <2> HIDE DEF l
    <2>3. Building(w)
      BY <2>1, <2>2, FeedByteFacts
    <2>4. CASE v.error = 0
      <3>1. /\ w.error = 0 => Evenly(w, base, l + 1)
            /\ w.error # 0 => Overrun(base, l + 1)
        BY <2>1, <2>2, <2>4, FeedByteRoom
      <3> HIDE DEF w
      <3>2. Has(w, k)
        BY <2>1, <2>3, <3>1
      <3> HIDE DEF Has
      <3> QED
        BY <2>1, <2>3, <3>2 DEF w, Building
    <2>5. CASE v.error # 0
      <3>1. w = v
        BY <2>5 DEF FeedByte
      <3> HIDE DEF w
      <3>2. Overrun(base, l + 1)
        <4>1. l + 1 \in Nat /\ l <= l + 1
          BY <2>1
        <4> QED
          BY <2>1, <2>2, <2>5, <4>1, OverrunGrows
      <3>3. Has(w, k)
        BY <2>1, <2>3, <2>5, <3>1, <3>2
      <3> HIDE DEF Has
      <3> QED
        BY <2>1, <2>3, <3>3 DEF w, Building
    <2> QED
      BY <2>4, <2>5
  <1>4. q \in K[m]
    <2>1. Fed!Fold(b, bytes) \in K[m]
      <3> HIDE DEF K
      <3> QED
        BY <1>1, <1>2, <1>3, Fed!FoldInvariant
    <2> QED
      BY <2>1, FedFold DEF Bin2DeckFeed
  <1>5. Has(q, m)
    <2> HIDE DEF Has
    <2> QED
      BY <1>1, <1>4
  <1> QED
    BY <1>5

LEMMA EndRoom ==
    ASSUME NEW b, Building(b), b.error = 0, NEW base \in Nat, NEW n \in Nat, Evenly(b, base, n),
           NEW entry \in Nat, entry < 65536, NEW q, q = Bin2DeckEnd(b, entry), q.error # 0
    PROVE  Overrun(base, n)
  <1> DEFINE f == FlushCard(b)
             c == NCards(b.img)
             off == NextOff(b.img)
             l == Len(b.buf)
  <1>1. /\ b \in BuilderSet /\ ImgOK(b.img) /\ AllFilled(b.img) /\ Len(b.buf) <= Chunk
        /\ b.addr \in Nat /\ b.buf \in Seq(Byte)
        /\ c \in Nat /\ Chunk \in Nat /\ CardCols \in Nat /\ l \in Nat
        /\ MaxCards \in Nat /\ MaxCols \in Nat /\ off \in Nat
    BY NextOffFacts, SizeFacts DEF BuilderSet, Building
  <1>2. c > 0 /\ off = c * CardCols /\ b.addr = base + (c - 1) * Chunk /\ base + n = b.addr + l
    BY DEF Evenly
  <1>3. Filling(n) \in Nat
    BY FillingFacts
  <1>4. /\ f \in BuilderSet /\ ImgOK(f.img)
    BY <1>1, FlushFacts DEF Building
  <1>5. q = IF f.error # 0 \/ ~CanAppendCols(f.img) THEN [f EXCEPT !.error = -1]
            ELSE [f EXCEPT !.img = Put(f.img, ScatterCard(0, Termination(entry)))]
    BY DEF Bin2DeckEnd
  <1>6. f.error # 0 \/ NCards(f.img) >= MaxCards \/ NextOff(f.img) + CardCols > MaxCols
    <2>1. NCards(f.img) \in Nat /\ NextOff(f.img) \in Nat
      BY <1>4, NextOffFacts
    <2> HIDE DEF f
    <2>2. f.error # 0 \/ ~CanAppendCols(f.img)
      <3> SUFFICES ASSUME f.error = 0, CanAppendCols(f.img) PROVE FALSE
        OBVIOUS
      <3> DEFINE put == Put(f.img, ScatterCard(0, Termination(entry)))
      <3>1. q = [f EXCEPT !.img = put]
        BY <1>5
      <3> HIDE DEF put
      <3>2. q.error = f.error
        BY <1>4, <3>1 DEF BuilderSet
      <3> QED
        BY <3>2
    <2> QED
      BY <1>1, <2>1, <2>2 DEF CanAppendCols
  <1>7. CASE b.buf = <<>>
    <2>1. f = b
      BY <1>7 DEF FlushCard
    <2>2. l = 0
      BY <1>7
    <2> HIDE DEF f, c, off, l
    <2>3. n = (c - 1) * Chunk /\ b.addr = base + n
      <3>1. (c - 1) * Chunk \in Nat
        BY <1>1, <1>2
      <3> QED
        BY <1>1, <1>2, <2>2, <3>1
    <2>4. c - 1 <= Filling(n) /\ c <= Filling(n) + 1
      <3> DEFINE d == c - 1
      <3>1. d \in Nat /\ c = d + 1
        BY <1>1, <1>2
      <3>2. d * Chunk <= n
        BY <2>3
      <3> HIDE DEF d
      <3>3. d <= Filling(n)
        BY <3>1, <3>2, FillingFacts
      <3> QED
        BY <1>3, <3>1, <3>3
    <2>5. c >= MaxCards \/ off + CardCols > MaxCols
      BY <1>6, <2>1 DEF c, off
    <2>6. c \in Nat /\ off = c * CardCols
      BY <1>1, <1>2
    <2> QED
      BY <2>3, <2>4, <2>5, <2>6, CardOverruns
  <1>8. CASE b.buf # <<>>
    <2>1. /\ f.error = 0 => NCards(f.img) = c + 1 /\ NextOff(f.img) = off + CardCols
          /\ f.error # 0 =>
                b.addr + l > AddressSpace \/ c >= MaxCards \/ off + CardCols > MaxCols
      BY <1>1, <1>8, FlushRoom
    <2>2. l > 0
      BY <1>1, <1>8
    <2> HIDE DEF f, c, off, l
    <2>3. c <= Filling(n)
      <3> DEFINE d == c - 1
      <3>1. d \in Nat /\ c = d + 1
        BY <1>1, <1>2
      <3>2. d * Chunk \in Nat /\ n = d * Chunk + l
        <4>1. d * Chunk \in Nat
          BY <1>1, <3>1
        <4> HIDE DEF d
        <4>2. b.addr = base + d * Chunk
          BY <1>2 DEF d
        <4> QED
          BY <1>1, <1>2, <4>1, <4>2
      <3> HIDE DEF d
      <3>3. d * Chunk < n
        BY <1>1, <2>2, <3>2
      <3> QED
        BY <3>1, <3>3, FillingFacts
    <2>4. c <= Filling(n) + 1 /\ c + 1 <= Filling(n) + 1 /\ c + 1 \in Nat
      BY <1>1, <1>3, <2>3
    <2>5. CASE f.error # 0
      <3> DEFINE addr == b.addr + l
      <3>1. addr > AddressSpace \/ c >= MaxCards \/ off + CardCols > MaxCols
        BY <2>1, <2>5
      <3>2. addr = base + n /\ c \in Nat /\ off = c * CardCols
        BY <1>1, <1>2
      <3> HIDE DEF addr
      <3> QED
        BY <2>4, <3>1, <3>2, CardOverruns
    <2>6. CASE f.error = 0
      <3> DEFINE d == c + 1
                 o == off + CardCols
      <3>1. o = d * CardCols /\ d \in Nat /\ d <= Filling(n) + 1 /\ (d >= MaxCards \/ o + CardCols > MaxCols)
        BY <1>1, <1>2, <1>6, <2>1, <2>4, <2>6
      <3> HIDE DEF d, o
      <3>2. base + n = base + n
        OBVIOUS
      <3> QED
        BY <3>1, CardOverruns
    <2> QED
      BY <2>5, <2>6
  <1> QED
    BY <1>7, <1>8

LEMMA BeginEvenly ==
    ASSUME NEW base \in Nat, NEW b, b = Bin2DeckBegin(base)
    PROVE  Evenly(b, base, 0)
  <1> DEFINE put == Put(EmptyDeck, LoaderCols)
             img == [put EXCEPT !.loader_card = 0]
  <1>1. b.buf = <<>> /\ b.addr = base /\ NCards(b.img) = 1
    BY BeginFacts
  <1>2. /\ ImgOK(EmptyDeck) /\ NCards(EmptyDeck) = 0 /\ NextOff(EmptyDeck) = 0
        /\ LoaderCols \in Seq(Columns) /\ Len(LoaderCols) = CardCols
    BY EmptyDeckFacts, DeckAssumption
  <1>3. ImgOK(put) /\ NextOff(put) = CardCols
    <2> DEFINE none == EmptyDeck
               card == LoaderCols
    <2>1. /\ ImgOK(none) /\ card \in Seq(Columns) /\ NCards(none) < MaxCards
          /\ NextOff(none) + Len(card) <= MaxCols /\ NextOff(none) + Len(card) = CardCols
      BY <1>2, SizeFacts
    <2>2. put = Put(none, card)
      OBVIOUS
    <2> HIDE DEF none, card, put
    <2> QED
      BY <2>1, <2>2, PutFacts
  <1> HIDE DEF put
  <1>4. img.idx = put.idx
    BY <1>3 DEF ImgOK, ImageSet
  <1>5. NextOff(img) = CardCols
    BY <1>3, <1>4 DEF NextOff
  <1> HIDE DEF img
  <1>6. b.img = img
    BY DEF Bin2DeckBegin, img, put
  <1>7. /\ CardCols \in Nat /\ Chunk \in Nat /\ 1 * CardCols = CardCols
        /\ (1 - 1) * Chunk = 0 /\ base + 0 = base
    BY SizeFacts
  <1>8. Len(b.buf) = 0
    BY <1>1
  <1> QED
    BY <1>1, <1>5, <1>6, <1>7, <1>8 DEF Evenly

----------------------------------------------------------------------------
(* The steps that can refuse a load.                                       *)

\* The images hold no column that is not on a card, and the cards of a
\* program are full ones: what room is taken, the file takes.
RoomInv ==
    /\ phase = "capture" => Packed(parser.img)
    /\ phase \in {"open", "capture"} /\ IsBatch(job) => Packed(dst)
    /\ phase = "binary" =>
          Evenly(builder, job.base, Len(job.sources[1].bytes) - Len(rest))

\* There is no room for what is loaded.
NoRoom == ~ IF job.kind = "bin" THEN RoomForProgram(job) ELSE RoomForCaptures(job, source)

LEMMA EmptyPacked == Packed(EmptyDeck) /\ ParserInit.img = EmptyDeck
  <1>1. Packed(EmptyDeck)
    BY EmptyDeckFacts, NoColumns DEF Packed
  <1> QED
    BY <1>1 DEF ParserInit

LEMMA CaptureRoom ==
    ASSUME NEW j, NEW k \in Nat, k > 0, RoomForCaptures(j, k)
    PROVE  LET lines == j.sources[k].lines  cards == Punched(lines) IN
           /\ Cardinality(Headers(lines)) <= MaxCards /\ Columns0(cards) <= MaxCols
           /\ Len(cards) >= Fewest(OpOf(j, k))
           /\ Len(DeckOf(j, k)) <= MaxCards /\ Columns0(DeckOf(j, k)) <= MaxCols
  <1>1. k \in 1 .. k
    OBVIOUS
  <1> QED
    BY <1>1 DEF RoomForCaptures

LEMMA LoadRoom ==
    ASSUME NEW j \in Jobs, Load(j)
    PROVE  RoomInv'
  <1>1. /\ phase' = "open" /\ job' = j
        /\ builder' = IdleBuilder(IF IsBatch(j) THEN EmptyDeck ELSE dst)
    BY DEF Load
  <1>2. IsBatch(j) => dst' = EmptyDeck
    BY <1>1 DEF dst, IdleBuilder
  <1> QED
    BY <1>1, <1>2, EmptyPacked DEF RoomInv

LEMMA OpenRoom ==
    ASSUME DeckloadInv, RoomInv, OpenCapture \/ OpenBinary
    PROVE  RoomInv'
  <1>1. CASE OpenCapture
    <2>1. /\ phase = "open" /\ phase' = "capture" /\ parser' = ParserInit
          /\ job' = job /\ builder' = builder
      BY <1>1 DEF OpenCapture
    <2> QED
      BY <2>1, EmptyPacked DEF RoomInv, dst
  <1>2. CASE OpenBinary
    <2> DEFINE bytes == job.sources[1].bytes
    <2>1. /\ phase = "open" /\ phase' = "binary" /\ job.kind = "bin" /\ job' = job
          /\ rest' = job.sources[source].bytes /\ builder' = Bin2DeckBegin(job.base)
      BY <1>2 DEF OpenBinary
    <2>2. job \in Jobs /\ source \in 1 .. Len(job.sources)
      BY <2>1 DEF DeckloadInv, JobInv
    <2>3. Len(job.sources) = 1 /\ bytes \in Seq(Byte) /\ job.base \in Nat
      BY <2>1, <2>2, JobFacts
    <2>4. rest' = bytes /\ Len(bytes) - Len(bytes) = 0
      <3>1. source = 1
        BY <2>2, <2>3
      <3>2. Len(bytes) \in Nat
        BY <2>3
      <3> QED
        BY <2>1, <3>1, <3>2
    <2>5. Evenly(builder', job.base, 0)
      BY <2>1, <2>3, BeginEvenly
    <2>6. job'.sources[1].bytes = bytes
      BY <2>1
    <2> HIDE DEF bytes
    <2> QED
      BY <2>1, <2>4, <2>5, <2>6 DEF RoomInv
  <1> QED
    BY <1>1, <1>2

LEMMA ReadLineRoom ==
    ASSUME DeckloadInv, RoomInv, ReadLine
    PROVE  RoomInv' /\ (phase' = "failed" => NoRoom)
  <1> DEFINE lines == job.sources[source].lines
             q == ProcessLine(parser, Head(rest))
  <1>1. /\ phase = "capture" /\ rest # <<>> /\ parser' = q
        /\ phase' = IF q.error # 0 THEN "failed" ELSE "capture"
        /\ job' = job /\ source' = source /\ builder' = builder
    BY DEF ReadLine
  <1>2. job \in Jobs /\ source \in 1 .. Len(job.sources)
    BY <1>1 DEF DeckloadInv, JobInv
  <1>3. Capturing(job) /\ Parsing(parser) /\ parser.error = 0 /\ Packed(parser.img)
    BY <1>1 DEF DeckloadInv, ParseInv, RoomInv
  <1>4. lines \in Seq(Line) /\ Len(job.sources) \in Nat
    BY <1>2, <1>3, JobFacts
  <1>5. PICK k \in 0 .. Len(lines) :
           /\ rest = SubSeq(lines, k + 1, Len(lines))
           /\ CardsOf(parser.img) = Parsed!Fold(<<>>, SubSeq(lines, 1, k))
    BY <1>1 DEF DeckloadInv, ParseInv
  <1>6. k \in 0 .. Len(lines) - 1 /\ Head(rest) = lines[k + 1] /\ lines[k + 1] \in Line
    <2> HIDE DEF lines
    <2> QED
      BY <1>1, <1>4, <1>5
  <1>7. q = ProcessLine(parser, lines[k + 1])
    BY <1>6
  <1> HIDE DEF q
  <1>8. q.error = 0 => Packed(q.img)
    <2> DEFINE line == lines[k + 1]
    <2>1. line \in Line /\ q = ProcessLine(parser, line)
      BY <1>6, <1>7
    <2> HIDE DEF line
    <2> QED
      BY <1>3, <2>1, LineRoom
  <1>9. RoomInv'
    BY <1>1, <1>8 DEF RoomInv, dst
  <1>10. ASSUME q.error # 0 PROVE NoRoom
    <2>1. ~(Cardinality(Headers(lines)) <= MaxCards /\ Columns0(Punched(lines)) <= MaxCols)
      <3> HIDE DEF lines
      <3> QED
        BY <1>3, <1>4, <1>5, <1>6, <1>7, <1>10, LineRefused
    <2>2. source \in Nat /\ source > 0
      BY <1>2, <1>4
    <2>3. job.kind # "bin"
      BY <1>3 DEF Capturing
    <2>4. ~RoomForCaptures(job, source)
      BY <2>1, <2>2, CaptureRoom
    <2> QED
      BY <2>3, <2>4 DEF NoRoom
  <1> QED
    BY <1>1, <1>9, <1>10

LEMMA EndOfCaptureRoom ==
    ASSUME DeckloadInv, RoomInv, EndOfCapture
    PROVE  RoomInv' /\ (phase' = "failed" => NoRoom)
  <1> DEFINE lines == job.sources[source].lines
             parsed == CapParseFinish(parser)
             tmp == WithLoader(parsed.img)
             op == OpOf(job, source)
             into == IF IsBatch(job) THEN dst ELSE EmptyDeck
             result == SurgeryApply(into, tmp, Recipe(job, source, tmp))
             deck == DeckOf(job, source)
  <1>1. /\ phase = "capture" /\ rest = <<>> /\ job' = job
        /\ \/ parsed.error # 0 /\ phase' = "failed"
           \/ /\ parsed.error = 0
              /\ \/ ~result.ok /\ phase' = "failed"
                 \/ result.ok /\ phase' = "open" /\ builder' = IdleBuilder(result.img)
                 \/ result.ok /\ phase' = "loaded"
    BY DEF EndOfCapture
  <1>2. /\ job \in Jobs /\ source \in 1 .. Len(job.sources) /\ Capturing(job) /\ op \in Ops
        /\ parsed.error # 0 => Punched(lines) = <<>>
        /\ parsed.error = 0 =>
              /\ ImgOK(tmp) /\ AllFilled(tmp) /\ NCards(tmp) > 0
              /\ CardsOf(tmp) = Punched(lines) /\ Recipe(job, source, tmp) = op
        /\ ImgOK(into) /\ AllFilled(into)
        /\ deck = CardsOf(into) \o Kept(Punched(lines), op)
    BY <1>1, CaptureFacts
  <1>3. Packed(into)
    BY <1>1, EmptyPacked DEF RoomInv
  <1>4. Len(job.sources) \in Nat /\ source \in Nat /\ source > 0
    BY <1>2, JobFacts
  <1>5. job.kind # "bin"
    BY <1>2 DEF Capturing
  <1>6. ~RoomForCaptures(job, source) => NoRoom
    BY <1>5 DEF NoRoom
  <1> HIDE DEF lines, parsed, tmp, op, into, deck
  <1>7. parsed.error # 0 => NoRoom
    <2> SUFFICES ASSUME parsed.error # 0, RoomForCaptures(job, source) PROVE FALSE
      BY <1>6
    <2>1. Len(Punched(lines)) = 0
      BY <1>2
    <2>2. Len(Punched(lines)) >= Fewest(op)
      BY <1>4, CaptureRoom DEF lines, op
    <2>3. Fewest(op) \in Nat /\ Fewest(op) > 0
      <3>1. op = "AS_IS" \/ op = "TRIM_TITLE_SUMMARY" \/ op = "SERIAL_LOADER"
        BY <1>2 DEF Ops
      <3>2. BodyFirst \in Nat /\ BodyFirst + 2 \in Nat /\ BodyFirst + 2 > 0
        BY SizeFacts
      <3>3. Fewest(op) \in {1, 3, BodyFirst + 2}
        BY <3>1 DEF Fewest
      <3> QED
        BY <3>2, <3>3
    <2> QED
      BY <2>1, <2>2, <2>3
  <1>8. parsed.error = 0 =>
           /\ result.ok => Packed(result.img)
           /\ ~result.ok => NoRoom
    <2> SUFFICES ASSUME parsed.error = 0
                 PROVE  /\ result.ok => Packed(result.img)
                        /\ ~result.ok => NoRoom
      OBVIOUS
    <2>1. /\ ImgOK(tmp) /\ AllFilled(tmp) /\ NCards(tmp) > 0 /\ CardsOf(tmp) = Punched(lines)
          /\ result = SurgeryApply(into, tmp, op)
      BY <1>2
    <2>2. deck = CardsOf(into) \o Kept(CardsOf(tmp), op)
      BY <1>2, <2>1
    <2> HIDE DEF result
    <2>3. /\ result.ok => Packed(result.img)
          /\ ~result.ok => ~ /\ Len(CardsOf(tmp)) >= Fewest(op)
                             /\ Len(deck) <= MaxCards /\ Columns0(deck) <= MaxCols
      BY <1>2, <1>3, <2>1, <2>2, SurgeryRoom
    <2>4. RoomForCaptures(job, source) =>
             /\ Len(Punched(lines)) >= Fewest(op)
             /\ Len(deck) <= MaxCards /\ Columns0(deck) <= MaxCols
      BY <1>4, CaptureRoom DEF lines, op, deck
    <2> QED
      BY <1>6, <2>1, <2>3, <2>4
  <1> HIDE DEF result
  <1>9. phase' = "open" => Packed(dst')
    <2>1. phase' = "open" => result.ok /\ parsed.error = 0 /\ builder' = IdleBuilder(result.img)
      BY <1>1
    <2> QED
      BY <1>8, <2>1 DEF dst, IdleBuilder
  <1>10. phase' # "capture" /\ phase' # "binary"
    BY <1>1
  <1>11. RoomInv'
    BY <1>9, <1>10 DEF RoomInv
  <1>12. phase' = "failed" => NoRoom
    BY <1>1, <1>7, <1>8
  <1> QED
    BY <1>11, <1>12

LEMMA LoadIplRoom ==
    ASSUME DeckloadInv, LoadIpl
    PROVE  RoomInv' /\ (phase' = "failed" => NoRoom)
  <1> DEFINE bytes == job.sources[1].bytes
  <1>1. /\ phase = "open" /\ IplJob(job) /\ job.kind = "bin"
        /\ \/ phase' = "loaded"
           \/ ~IplOk(job.sources[source].bytes) /\ phase' = "failed"
    BY DEF LoadIpl, IplJob
  <1>2. job \in Jobs /\ source \in 1 .. Len(job.sources)
    BY <1>1 DEF DeckloadInv, JobInv
  <1>3. bytes \in Seq(Byte) /\ source = 1
    <2>1. bytes \in Seq(Byte) /\ Len(job.sources) = 1
      BY <1>1, <1>2, JobFacts
    <2> QED
      BY <1>2, <2>1
  <1>4. RoomInv'
    BY <1>1 DEF RoomInv
  <1>5. ASSUME ~IplOk(bytes) PROVE NoRoom
    <2> HIDE DEF bytes
    <2>1. Len(bytes) \notin 1 .. IplMax
      <3> DEFINE n == Len(bytes)
      <3>1. n \in Nat /\ IplMax \in Nat
        BY <1>3, SizeFacts
      <3>2. bytes = <<>> => n = 0
        OBVIOUS
      <3>3. bytes = <<>> \/ ~(n <= IplMax)
        BY <1>5 DEF IplOk
      <3> HIDE DEF n
      <3> QED
        BY <3>1, <3>2, <3>3 DEF n
    <2>2. ~RoomForProgram(job)
      BY <1>1, <2>1 DEF RoomForProgram, bytes
    <2> QED
      BY <1>1, <2>2 DEF NoRoom
  <1> QED
    BY <1>1, <1>3, <1>4, <1>5

LEMMA ReadBytesRoom ==
    ASSUME DeckloadInv, RoomInv, NEW n \in ReadSizes, ReadBytes(n)
    PROVE  RoomInv' /\ (phase' = "failed" => NoRoom)
  <1> DEFINE bytes == job.sources[1].bytes
             base == job.base
             piece == SubSeq(rest, 1, n)
             q == Bin2DeckFeed(builder, piece)
             size == Len(bytes)
             left == Len(rest)
             fed == size - left
  <1>1. /\ phase = "binary" /\ n <= Len(rest) /\ builder' = q
        /\ rest' = SubSeq(rest, n + 1, Len(rest))
        /\ phase' = IF q.error # 0 THEN "failed" ELSE "binary"
        /\ job' = job
    BY DEF ReadBytes
  <1>2. /\ job.kind = "bin" /\ ~IplJob(job) /\ bytes \in Seq(Byte) /\ base \in Nat
        /\ Building(builder) /\ builder.error = 0
        /\ \E k \in 0 .. Len(bytes) : rest = SubSeq(bytes, k + 1, Len(bytes))
    BY <1>1, BinaryFacts
  <1>3. rest \in Seq(Byte) /\ left \in Nat /\ size \in Nat /\ left <= size /\ n \in Nat
    <2> HIDE DEF bytes
    <2>1. PICK k \in 0 .. Len(bytes) : rest = SubSeq(bytes, k + 1, Len(bytes))
      BY <1>2
    <2>2. Len(bytes) \in Nat /\ k \in Nat /\ k <= Len(bytes)
      BY <1>2
    <2>3. rest \in Seq(Byte) /\ Len(rest) = Len(bytes) - k
      <3> DEFINE t == SubSeq(bytes, k + 1, Len(bytes))
      <3>1. t \in Seq(Byte) /\ Len(t) = Len(bytes) - k
        BY <1>2, <2>2
      <3>2. rest = t
        BY <2>1
      <3> HIDE DEF t
      <3> QED
        BY <3>1, <3>2
    <2> QED
      BY <2>2, <2>3, DeckloadAssumption
  <1>4. piece \in Seq(Byte) /\ Len(piece) = n /\ Len(rest') = left - n
    <2>1. piece \in Seq(Byte) /\ Len(piece) = n
      BY <1>1, <1>3
    <2>2. Len(SubSeq(rest, n + 1, Len(rest))) = Len(rest) - n
      BY <1>1, <1>3
    <2> QED
      BY <1>1, <2>1, <2>2
  <1>5. fed \in Nat /\ fed + n = size - (left - n) /\ fed + n <= size
    <2> HIDE DEF size, left
    <2> QED
      BY <1>1, <1>3 DEF left
  <1>6. Evenly(builder, base, fed)
    BY <1>1 DEF RoomInv
  <1>7. /\ q.error = 0 => Evenly(q, base, fed + n)
        /\ q.error # 0 => Overrun(base, fed + n)
    <2> DEFINE b == builder
    <2>1. Building(b) /\ b.error = 0 /\ Evenly(b, base, fed) /\ q = Bin2DeckFeed(b, piece) /\ n = Len(piece)
      BY <1>2, <1>4, <1>6
    <2> HIDE DEF b, base, fed, q, piece
    <2> QED
      BY <1>2, <1>4, <1>5, <2>1, FeedRoom
  <1>8. RoomInv'
    <2>1. job'.sources[1].bytes = bytes /\ job'.base = base
      BY <1>1
    <2>2. q.error = 0 => Evenly(builder', job'.base, Len(job'.sources[1].bytes) - Len(rest'))
      <3>1. Len(job'.sources[1].bytes) - Len(rest') = fed + n
        BY <1>4, <1>5, <2>1
      <3> HIDE DEF q, fed
      <3> QED
        BY <1>1, <1>7, <2>1, <3>1
    <2> HIDE DEF q
    <2> QED
      BY <1>1, <2>2 DEF RoomInv
  <1>9. ASSUME q.error # 0 PROVE NoRoom
    <2>1. Overrun(base, fed + n)
      BY <1>7, <1>9
    <2>2. fed + n \in Nat
      BY <1>3, <1>5
    <2> HIDE DEF q, fed
    <2>3. Overrun(base, size)
      BY <1>2, <1>3, <1>5, <2>1, <2>2, OverrunGrows
    <2>4. ~RoomForProgram(job)
      <3>1. RoomForProgram(job) => ~Overrun(job.base, size)
        BY <1>2, <1>3, RoomNoOverrun
      <3> QED
        BY <2>3, <3>1
    <2> QED
      BY <1>2, <2>4 DEF NoRoom
  <1> HIDE DEF q
  <1> QED
    BY <1>1, <1>8, <1>9

LEMMA EndOfBinaryRoom ==
    ASSUME DeckloadInv, RoomInv, EndOfBinary
    PROVE  RoomInv' /\ (phase' = "failed" => NoRoom)
  <1> DEFINE bytes == job.sources[1].bytes
             base == job.base
             q == Bin2DeckEnd(builder, base)
             size == Len(bytes)
  <1>1. /\ phase = "binary" /\ rest = <<>>
        /\ phase' = IF q.error # 0 THEN "failed" ELSE "loaded"
    BY DEF EndOfBinary
  <1>2. /\ job.kind = "bin" /\ ~IplJob(job) /\ bytes \in Seq(Byte)
        /\ base \in Nat /\ base < AddressSpace
        /\ Building(builder) /\ builder.error = 0
    BY <1>1, BinaryFacts
  <1>3. size \in Nat /\ size - Len(rest) = size /\ base < 65536
    <2>1. size \in Nat /\ base < 65536
      BY <1>2, SizeFacts
    <2>2. Len(rest) = 0
      BY <1>1
    <2> HIDE DEF size
    <2> QED
      BY <2>1, <2>2
  <1>4. Evenly(builder, base, size)
    BY <1>1, <1>3 DEF RoomInv
  <1>5. RoomInv'
    BY <1>1 DEF RoomInv
  <1>6. ASSUME q.error # 0 PROVE NoRoom
    <2>1. Overrun(base, size)
      <3> DEFINE b == builder
      <3>1. Building(b) /\ b.error = 0 /\ Evenly(b, base, size) /\ q = Bin2DeckEnd(b, base)
        BY <1>2, <1>4
      <3> HIDE DEF b, base, q, size
      <3> QED
        BY <1>2, <1>3, <1>6, <3>1, EndRoom
    <2>2. RoomForProgram(job) => ~Overrun(job.base, size)
      BY <1>2, <1>3, RoomNoOverrun
    <2> QED
      BY <1>2, <2>1, <2>2 DEF NoRoom
  <1> HIDE DEF q
  <1> QED
    BY <1>1, <1>5, <1>6

LEMMA NextRoom ==
    ASSUME DeckloadInv, RoomInv, [Next]_vars
    PROVE  RoomInv' /\ (Next /\ phase' = "failed" /\ ~ReadFails => NoRoom)
  <1>1. ASSUME NEW j \in CaptureJobs \cup BatchJobs \cup BinJobs, Load(j)
        PROVE  RoomInv' /\ phase' # "failed"
    <2>1. phase' = "open"
      BY <1>1 DEF Load
    <2> QED
      BY <1>1, <2>1, LoadRoom DEF Jobs
  <1>2. ASSUME OpenCapture \/ OpenBinary PROVE RoomInv' /\ phase' # "failed"
    <2>1. phase' # "failed"
      BY <1>2 DEF OpenCapture, OpenBinary
    <2> QED
      BY <1>2, <2>1, OpenRoom
  <1>3. ASSUME NEW n \in ReadSizes, ReadBytes(n)
        PROVE  RoomInv' /\ (phase' = "failed" => NoRoom)
    BY <1>3, ReadBytesRoom
  <1>4. ASSUME ReadFails PROVE RoomInv'
    <2>1. phase' = "failed"
      BY <1>4 DEF ReadFails
    <2> QED
      BY <2>1 DEF RoomInv
  <1>5. CASE UNCHANGED vars
    <2>1. /\ phase' = phase /\ job' = job /\ rest' = rest
          /\ parser' = parser /\ builder' = builder
      BY <1>5 DEF vars
    <2>2. RoomInv'
      BY <2>1 DEF RoomInv, dst
    <2>3. Next /\ phase' = "failed" /\ ~ReadFails => NoRoom
      BY <1>1, <1>2, <1>3, ReadLineRoom, EndOfCaptureRoom, LoadIplRoom,
         EndOfBinaryRoom DEF Next
    <2> QED
      BY <2>2, <2>3
  <1>6. CASE Next
    BY <1>1, <1>2, <1>3, <1>4, <1>6, ReadLineRoom, EndOfCaptureRoom, LoadIplRoom,
       EndOfBinaryRoom DEF Next
  <1> QED
    BY <1>5, <1>6

\* A load that is not stopped by a read is refused only if there is no room
\* for what it describes, whatever was loaded, refused or left half read
\* before it and however its file comes in pieces.
THEOREM RefusedOnlyForCause == Spec => RefusedForCause
  <1>1. Init => RoomInv
    BY DEF Init, RoomInv
  <1>2. DeckloadInv /\ RoomInv /\ [Next]_vars => RoomInv'
    BY NextRoom
  <1>3. DeckloadInv /\ RoomInv /\ [Next]_vars =>
           [phase' = "failed" /\ ~ReadFails =>
               ~ IF job.kind = "bin" THEN RoomForProgram(job)
                                     ELSE RoomForCaptures(job, source)]_vars
    BY NextRoom DEF NoRoom
  <1> QED
    BY <1>1, <1>2, <1>3, DeckloadInvariant, PTL DEF Spec, RefusedForCause

=============================================================================
