------------------------------- MODULE Cards -------------------------------
(***************************************************************************)
(* Decks as the feeder sees them, and what a card is presented as.  A deck *)
(* is a record: its number of cards, the index of its loader card (-1 when *)
(* there is none) and the number of columns of each card.  What is punched *)
(* in a column is left out: a character names the column it comes from and *)
(* the part of that column's byte it carries.                              *)
(***************************************************************************)
EXTENDS Integers, Sequences

CONSTANTS Decks, NoDeck

ASSUME DecksAssumption ==
    /\ NoDeck \notin Decks
    /\ \A d \in Decks :
          /\ d.n_cards \in Nat \ {0}
          /\ d.loader_card \in -1 .. d.n_cards - 1
          /\ d.ncols \in [0 .. d.n_cards - 1 -> Nat \ {0}]

Modes == {"NORMAL", "BINARY", "HEX", "COLBIN"}

CharSet == [card : Nat, col : Nat, part : {"hi", "lo", "whole"}]

\* The packed modes present a column as two characters, high nibble first.
Packed(m) == m \in {"COLBIN", "BINARY"}

CharAt(c, m, k, h) ==
    [card |-> c, col |-> k,
     part |-> IF ~Packed(m) THEN "whole" ELSE IF h = 0 THEN "hi" ELSE "lo"]

LastCol(d, c, k) == k + 1 >= d.ncols[c]

\* How many characters come before column k, half h.
Position(m, k, h) == IF Packed(m) THEN 2 * k + h ELSE k

\* Every character of card c of deck d in mode m, in the order of the columns.
Image(d, c, m) ==
    [i \in 1 .. Position(m, d.ncols[c], 0) |->
        IF Packed(m) THEN CharAt(c, m, (i - 1) \div 2, (i - 1) % 2)
                     ELSE CharAt(c, m, i - 1, 0)]

\* Where the feed starts: at the loader card, or at the first card.
FirstCard(d) == IF d # NoDeck /\ d.loader_card > 0 THEN d.loader_card ELSE 0

=============================================================================
