----------------------------- MODULE Transcode -----------------------------
(***************************************************************************)
(* What is punched in a card column and what it stands for: the decoders   *)
(* of src/src/transcode.c, which the feeder applies to every column it     *)
(* presents, and the encoders of src/src/bin2deck.c, which have to be      *)
(* their inverses.  A column is the set of its punched rows, a byte a      *)
(* number.                                                                 *)
(***************************************************************************)
EXTENDS Integers, Sequences, FiniteSetsExt

Columns == SUBSET (0 .. 12)

\* Rows in the order of the bits they stand for in column-binary cards.
B2R == <<9, 8, 7, 6, 3, 2, 1, 0>>

Bit(n, i) == (n \div 2^i) % 2 = 1

ByteOf(bits) == MapThenSumSet(LAMBDA i : 2^i, bits)

TranscodeColumn(column, mode) ==
    CASE mode = "BINARY" -> ByteOf(column \cap 0 .. 7)
      [] mode = "HEX"    -> MapThenSumSet(LAMBDA row : row, column \cap 0 .. 9) % 16
      [] mode = "COLBIN" -> ByteOf({i \in 0 .. 7 : B2R[i + 1] \in column})
      [] mode = "NORMAL" -> 32

\* Mutant: bits and rows in the same order.
ByteToCol_Unmapped(byte) == {i \in 0 .. 7 : Bit(byte, i)}

ByteToCol(byte) == {B2R[i + 1] : i \in {i \in 0 .. 7 : Bit(byte, i)}}

\* The nibble is the sum of the punched rows: above 9 it takes two of them.
NibbleToHexCol(n) ==
    IF n = 0 THEN {} ELSE IF n <= 9 THEN {n} ELSE {9, n - 9}

=============================================================================
