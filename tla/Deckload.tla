------------------------------ MODULE Deckload ------------------------------
(***************************************************************************)
(* Loading a deck: src/src/deckload.c, which reads a file of the drive     *)
(* piece by piece and builds a deck image from it.  A capture is read into *)
(* the scratch image (g_deck[1]) and copied by a surgery recipe into the   *)
(* destination (g_deck[0]); a batch does so for several captures; a raw    *)
(* binary becomes a scatter-loader deck, or one hex card.                  *)
(*                                                                         *)
(* A job is what the console asks for.  Its sources are the contents of    *)
(* the files; a read may fail at any point (a broken cluster chain), and a *)
(* file may not be there at all.                                           *)
(***************************************************************************)
EXTENDS Deck

CONSTANTS
    Captures,   \* contents of .cap files: sequences of lines
    Batches,    \* sequences of [lines, op]
    Programs,   \* contents of .bin files: sequences of bytes
    Bases,      \* load addresses, 0 for a program that is its own loader
    ReadSizes,  \* how many bytes a read may return
    MaxLoads    \* bound on the number of loads

Line == [header : BOOLEAN, tokens : Seq(Columns \cup {NoColumn})]

Ops == {"AS_IS", "TRIM_TITLE_SUMMARY", "SERIAL_LOADER"}

ASSUME DeckloadAssumption ==
    /\ Captures \subseteq Seq(Line)
    /\ Batches \subseteq Seq([lines : Seq(Line), op : Ops]) \ {<<>>}
    /\ Programs \subseteq Seq(0 .. 255) /\ Bases \subseteq 0 .. AddressSpace - 1
    /\ ReadSizes \subseteq Nat \ {0} /\ MaxLoads \in Nat

VARIABLES
    phase,      \* "rest", "open", "capture", "binary", "loaded", "failed"
    job,        \* what is being, or was, loaded
    source,     \* the source being read
    rest,       \* what of it is still to be read
    parser,     \* the .cap parser, over the scratch image
    builder,    \* the destination image, as bin2deck's builder
    loads       \* how many loads there were

vars == <<phase, job, source, rest, parser, builder, loads>>

dst == builder.img

NoJob == [kind |-> "none", sources |-> <<>>]

CaptureJobs ==
    {[kind |-> "capture", raw |-> raw, sources |-> <<[lines |-> lines]>>] :
        raw \in BOOLEAN, lines \in Captures}

BatchJobs == {[kind |-> "batch", sources |-> b] : b \in Batches}

BinJobs ==
    {[kind |-> "bin", base |-> base, sources |-> <<[bytes |-> bytes]>>] :
        base \in Bases, bytes \in Programs}

IplJob(j) == j.kind = "bin" /\ j.base = 0

IsBatch(j) == j.kind = "batch"

IdleBuilder(img) == [img |-> img, addr |-> 0, buf |-> <<>>, error |-> 0]

----------------------------------------------------------------------------
Init ==
    /\ phase = "rest" /\ job = NoJob /\ source = 0 /\ rest = <<>>
    /\ parser = ParserInit /\ builder = IdleBuilder(EmptyDeck) /\ loads = 0

\* A batch clears the destination before it opens its first file, a capture
\* only when it has been parsed, a binary when it has been opened.
Load(j) ==
    /\ phase \in {"rest", "loaded", "failed"} /\ loads < MaxLoads
    /\ loads' = loads + 1 /\ phase' = "open" /\ job' = j /\ source' = 1
    /\ builder' = IdleBuilder(IF IsBatch(j) THEN EmptyDeck ELSE dst)
    /\ UNCHANGED <<rest, parser>>

OpenCapture ==
    /\ phase = "open" /\ job.kind \in {"capture", "batch"}
    /\ phase' = "capture" /\ rest' = job.sources[source].lines
    /\ parser' = ParserInit
    /\ UNCHANGED <<job, source, builder, loads>>

OpenBinary ==
    /\ phase = "open" /\ job.kind = "bin" /\ ~IplJob(job)
    /\ phase' = "binary" /\ rest' = job.sources[source].bytes
    /\ builder' = Bin2DeckBegin(job.base)
    /\ UNCHANGED <<job, source, parser, loads>>

\* The whole file in one read.
LoadIpl ==
    /\ phase = "open" /\ IplJob(job)
    /\ LET bytes == job.sources[source].bytes IN
       IF IplOk(bytes)
       THEN phase' = "loaded" /\ builder' = IdleBuilder(Bin2DeckIpl(bytes))
       ELSE phase' = "failed" /\ UNCHANGED builder
    /\ UNCHANGED <<job, source, rest, parser, loads>>

\* No such file, or one that cannot be read to its end.
ReadFails ==
    /\ phase \in {"open", "capture", "binary"}
    /\ phase' = "failed"
    /\ UNCHANGED <<job, source, rest, parser, builder, loads>>

ReadLine ==
    /\ phase = "capture" /\ rest # <<>>
    /\ parser' = ProcessLine(parser, Head(rest))
    /\ rest' = Tail(rest)
    /\ phase' = IF parser'.error # 0 THEN "failed" ELSE phase
    /\ UNCHANGED <<job, source, builder, loads>>

\* How the k-th source of a job goes into the destination.
Recipe(j, k, tmp) ==
    IF IsBatch(j) THEN j.sources[k].op
    ELSE IF ~j.raw /\ tmp.loader_card > 0 /\ NCards(tmp) >= BodyFirst + 2
         THEN "SERIAL_LOADER"
    ELSE "AS_IS"

\* The capture is parsed: surgery, and the next source if there is one.
EndOfCapture ==
    /\ phase = "capture" /\ rest = <<>>
    /\ LET parsed == CapParseFinish(parser)
           tmp == WithLoader(parsed.img)
           result == SurgeryApply(IF IsBatch(job) THEN dst ELSE EmptyDeck,
                                  tmp, Recipe(job, source, tmp))
       IN  IF parsed.error # 0
           THEN phase' = "failed" /\ parser' = parsed /\ UNCHANGED <<source, builder>>
           ELSE /\ parser' = [parsed EXCEPT !.img = tmp]
                /\ IF ~result.ok
                   THEN /\ phase' = "failed" /\ UNCHANGED source
                        /\ builder' = IdleBuilder(result.img)
                   ELSE IF source < Len(job.sources)
                   THEN /\ phase' = "open" /\ source' = source + 1
                        /\ builder' = IdleBuilder(result.img)
                   ELSE /\ phase' = "loaded" /\ UNCHANGED source
                        /\ builder' = IdleBuilder(WithLoader(result.img))
    /\ UNCHANGED <<job, rest, loads>>

ReadBytes(n) ==
    /\ phase = "binary" /\ rest # <<>> /\ n <= Len(rest)
    /\ builder' = Bin2DeckFeed(builder, SubSeq(rest, 1, n))
    /\ rest' = SubSeq(rest, n + 1, Len(rest))
    /\ phase' = IF builder'.error # 0 THEN "failed" ELSE phase
    /\ UNCHANGED <<job, source, parser, loads>>

\* The program is entered where it is loaded.
EndOfBinary ==
    /\ phase = "binary" /\ rest = <<>>
    /\ builder' = Bin2DeckEnd(builder, job.base)
    /\ phase' = IF builder'.error # 0 THEN "failed" ELSE "loaded"
    /\ UNCHANGED <<job, source, rest, parser, loads>>

Next ==
    \/ \E j \in CaptureJobs \cup BatchJobs \cup BinJobs : Load(j)
    \/ OpenCapture \/ ReadLine \/ EndOfCapture
    \/ OpenBinary \/ EndOfBinary \/ LoadIpl \/ ReadFails
    \/ \E n \in ReadSizes : ReadBytes(n)

Spec == Init /\ [][Next]_vars

=============================================================================
