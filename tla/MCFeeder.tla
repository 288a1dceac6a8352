------------------------------ MODULE MCFeeder ------------------------------
(* Small decks and timings for TLC.                                        *)
EXTENDS FeederRefinement

Deck(n, loader, cols) ==
    [n_cards |-> n, loader_card |-> loader, ncols |-> [c \in 0 .. n - 1 |-> cols]]

\* A loader with a title card in front, longer than the FIFO, and one that the
\* prefill holds whole.
MCTitled == {Deck(3, 1, 3)}
MCShort == {Deck(3, 1, 2)}
\* With one where the loader comes first.
MCDecks == {Deck(2, 0, 3), Deck(3, 1, 3)}

\* Parameter values, in ticks.
MCZero == {0}
MCTwo == {2}
MCZeroTwo == {0, 2}
MCSix == {6}
=============================================================================
