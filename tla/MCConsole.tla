----------------------------- MODULE MCConsole -----------------------------
(***************************************************************************)
(* Decks for module Console: a name too long for last_deck is cut to one   *)
(* that another deck has, and the others are kept whole.                   *)
(***************************************************************************)
EXTENDS Console

CONSTANTS Long, Stub

MCCut == [n \in Names |-> IF n = Long THEN Stub ELSE n]

=============================================================================
