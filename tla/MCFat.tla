------------------------------- MODULE MCFat -------------------------------
(***************************************************************************)
(* Blocks of eight bytes: two directory entries, or five and a third FAT12 *)
(* entries, so that cluster 5's straddles blocks.  Long names come in      *)
(* parts of two characters, two of which fit the buffer.                   *)
(***************************************************************************)
EXTENDS FatProps

A == 97
B == 98

\* Letters stand for the suffixes.
MCCap == <<99>>
MCHex == <<104>>

Bytes(id, n) == [i \in 1 .. n |-> <<id, i>>]

File(long, base, ext, chain, bytes) ==
    [kind |-> "file", long |-> long, base |-> base, ext |-> ext,
     chain |-> chain, bytes |-> bytes]

Fat12(dir) == [by |-> "host", fat_type |-> 12, spc |-> 1, fatsz |-> 2, tot |-> 14, dir |-> dir]

\* a.hex.cap, before and after it is written anew.
Scattered == File(<<A, 104, 99>>, <<A>>, MCCap, <<2, 5, 3>>, Bytes("a", 20))
Rewritten == [Scattered EXCEPT !.chain = <<2, 3, 5>>,
                !.bytes = [i \in 1 .. 19 |-> IF i <= 8 THEN <<"a", i>> ELSE <<"new", i>>]]

\* A name that fills its part.
Exact == File(<<B, 99>>, <<B>>, MCCap, <<6>>, Bytes("b", 8))

\* A directory with a name of two parts.
SubDir == [File(<<A, A, A>>, <<A>>, <<>>, <<4>>, <<>>) EXCEPT !.kind = "dir"]
Deleted == [File(<<A, A, A>>, <<65>>, MCCap, <<>>, Bytes("d", 3)) EXCEPT !.kind = "deleted"]

\* Longer than the buffer, and without a long name.
TooLong == File(<<B, B, B, A, B>>, <<B>>, <<A>>, <<>>, <<>>)
Short == File(<<>>, <<66>>, <<65>>, <<4, 7>>, Bytes("s", 9))

Vol1 == Fat12(<<SubDir, Scattered>>)
Vol2 == Fat12(<<Deleted, Rewritten, Exact>>)
Vol3 == [Fat12(<<SubDir, Exact, Short>>) EXCEPT !.tot = 15]

\* Two blocks to a cluster.
Vol4 == [by |-> "host", fat_type |-> 16, spc |-> 2, fatsz |-> 3, tot |-> 28,
         dir |-> <<File(<<B, 104, 99>>, <<B>>, MCCap, <<4, 3>>, Bytes("w", 21)),
                   TooLong, Deleted>>]

\* mkfatimg's, with a name that fills its part.
Vol5 == [by |-> "tool", tot |-> 24,
         dir |-> <<File(<<A, 99>>, <<A>>, MCCap, <<>>, Bytes("t", 12)),
                   File(<<A, 104, 99>>, <<A>>, <<>>, <<>>, Bytes("u", 17))>>]

NoVolume == [by |-> "none", tot |-> 13, dir |-> <<>>]

MCVolumes == [v1 |-> Vol1, v2 |-> Vol2, v3 |-> Vol3, v4 |-> Vol4, v5 |-> Vol5,
              none |-> NoVolume]

MCLoads == {[want |-> <<65, 99>>, len |-> 5], [want |-> <<B, 99>>, len |-> 8],
            [want |-> <<B, 46, A>>, len |-> 8]}
=============================================================================
