--------------------------------- MODULE Ge ---------------------------------
(***************************************************************************)
(* The GE-120 on the other end of the cable, which the repository does not *)
(* contain: what its channel-1 input hears, and when it sends commands     *)
(* (TU00N + RE bus) and card feeds (TU03N).                                *)
(*                                                                         *)
(* The firmware has to survive any sequence of commands, so WildGe lets    *)
(* them come at any time.  What it promises about cards it promises to a   *)
(* machine that behaves as docs/ARCHITECTURE.md 4-6 describes it: one      *)
(* command at a time, the next one only after the transfer that the last   *)
(* one started is over; the card feed comes after the read command and     *)
(* before the first character, or between transfers.                       *)
(***************************************************************************)
EXTENDS Integers, Sequences

CONSTANT WildGe

ASSUME WildGeAssumption == WildGe \in BOOLEAN

VARIABLES
    ge,     \* "idle", "armed" (read sent, nothing heard yet), "xfer"
    got     \* the characters heard since the last read command

geVars == <<ge, got>>

GeInit == ge = "idle" /\ got = <<>>

\* When the machine may put a command, resp. a feed, on the wire.
GeMayCommand == WildGe \/ ge = "idle"
GeMayFeed    == WildGe \/ ge \in {"idle", "armed"}

\* A read command arms the input transfer.  (A wild machine is not tracked.)
GeReads == ge' = (IF WildGe THEN "idle" ELSE "armed") /\ got' = <<>>

\* The leading edge of LU08N: the transfer takes the character, if there is
\* one to take it.
GeHears(char) ==
    IF ge = "idle" THEN UNCHANGED geVars
                   ELSE ge' = "xfer" /\ got' = Append(got, char)

\* A character that nothing is to be said about.
GeHearsNoise ==
    IF ge = "idle" THEN UNCHANGED geVars ELSE ge' = "xfer" /\ got' = <<>>

\* The trailing edge of a strobe that carried FININ ends the transfer.
GeStrobeEnds(fini) ==
    /\ ge' = IF ge = "xfer" /\ fini THEN "idle" ELSE ge
    /\ UNCHANGED got

\* The operator clears a machine that waits for characters in vain.
GeClear == ge # "idle" /\ ge' = "idle" /\ got' = <<>>

=============================================================================
