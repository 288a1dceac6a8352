------------------------------ MODULE FatProps ------------------------------
(***************************************************************************)
(* What the console's user expects of the FAT reader: the files are those  *)
(* that the host, or mkfatimg, has put into the volume.                    *)
(***************************************************************************)
EXTENDS Fat

Files == SelectSeq(Volumes[image].dir, LAMBDA d : d.kind = "file")

\* What a file is called by, as far as the walker's buffer goes: 4 parts.
CalledBy(d) ==
    IF d.long # <<>>
    THEN SubSeq(d.long, 1, Least(Len(d.long), LfnLen * (NameMax \div LfnLen)))
    ELSE d.base \o (IF d.ext = <<>> THEN <<>> ELSE <<46>> \o d.ext)

\* The first file of that name, or of the fallback's.
Finds(want) == {i \in DOMAIN Files : SameName(CalledBy(Files[i]), want)}

Nominated(want) ==
    LET found == IF Finds(want) # {} THEN Finds(want)
                 ELSE IF HasFallback(want) THEN Finds(Fallback(want)) ELSE {}
    IN  {Files[i] : i \in {i \in found : \A j \in found : i <= j}}

\* What the command under way was asked for.
Asked == CHOOSE n \in {l.want : l \in Loads} : n = cmd.want \/ (~cmd.first /\ Fallback(n) = cmd.want)

\* A load that ends well hands the parser the bytes of the file that was
\* asked for, all of them and in order, whatever its clusters and wherever
\* their entries lie in the FAT; one that does not find a file, has none to
\* find (fat_ro.h:50-56).  But not if it followed a FAT sector cached before
\* the host wrote it, or put a name together over what another had left.
LoadsTheFile ==
    cmd.op = "load" /\ Over /\ calm /\ ~stale /\ ~leftover
        => CASE cmd.pc = "loaded"  -> \E d \in Nominated(Asked) : out = d.bytes
             [] cmd.pc = "missing" -> Nominated(Asked) = {}
             [] OTHER -> FALSE

\* `ls' lists the files of the directory, each once and by its name: no
\* subdirectory, label or deleted file, and no name of theirs for another
\* (fat_ro.h:43-45).  But not if the host wrote the directory meanwhile, or if
\* a name was put together over what another had left.
ListsTheFiles ==
    cmd.pc = "listed" /\ calm /\ ~leftover
        => listed = [i \in DOMAIN Files |-> CalledBy(Files[i])]

\* However the host leaves the FAT, or is caught while it writes it, a load
\* ends: the size in the directory bounds a chain that never does.  And so does
\* `ls', if the host takes all that is printed in the end, or disconnects
\* (console.c:49-58).
CommandsEnd ==
    /\ cmd.op = "load" ~> cmd.op # "load"
    /\ (Printing ~> ~Printing) => (cmd.pc # "idle" ~> cmd.pc = "idle")

----------------------------------------------------------------------------

\* fat_ro.h:6-7: "the PC writes through raw MSC blocks; this driver re-reads
\* the result".  So a load that begins when the host has written all of it
\* ends with the bytes that the host wrote.
RereadsTheResult ==
    cmd.pc = "loaded" /\ calm /\ ~leftover
        => \E d \in Nominated(Asked) : out = d.bytes
=============================================================================
