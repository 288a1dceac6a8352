-------------------------------- MODULE Fat --------------------------------
(***************************************************************************)
(* The FAT reader, src/src/fat_ro.c, as the console and src/src/deckload.c *)
(* use it: `ls' lists the root directory, a load opens a file by its name  *)
(* and streams it to the parser.  The host writes the drive under it,      *)
(* block by block and in any order, between commands and, while `ls' waits *)
(* for room in the CDC buffer, inside one.  It waits until the host reads  *)
(* what has been printed, or disconnects, which it need not ever do.       *)
(*                                                                         *)
(* A block is a boot record, a row of directory entries, or a row of       *)
(* bytes.  A name is a sequence of characters, without its final 0; the    *)
(* walker's buffer has the 0s.                                             *)
(***************************************************************************)
EXTENDS FatImage

CONSTANTS
    NameMax,        \* FAT_NAME_MAX
    Cap, Hex,       \* ".cap" and ".hex"
    Volumes,        \* what the host puts on the drive, by name
    Loads,          \* names asked for, and the size of the caller's buffer
    NoLba           \* UINT32_MAX

ASSUME FatAssumption == NameMax > LfnLen /\ NoLba \notin Nat

VARIABLES
    image,          \* the volume that the host writes, or has written
    old, written,   \* the one that was there before; the blocks replaced
    fsec_lba, fsec, \* the cached sector of the FAT, across mounts
    v,              \* struct fat_vol
    cmd,            \* the command: where it is, what it wants, its buffer
    w,              \* walk_root: the sector, the next entry, struct dirwalk
    listed,         \* the names called back with
    f, call, out,   \* struct fat_file; len and done of the fat_read call under
                    \* way; the bytes handed to the parser
    calm, stale, leftover   \* history, see below

walk == <<v, w, listed>>
file == <<f, call, out>>
fcache == <<fsec_lba, fsec>>
history == <<calm, stale, leftover>>
drive == <<image, old, written>>
vars == <<drive, fcache, walk, cmd, file, history>>

Least(a, b) == IF a < b THEN a ELSE b

Images == [u \in DOMAIN Volumes |-> ImageOf(Volumes[u])]

\* What storage_read_blocks reads.  A block beyond the drive is an error.
Disk(lba) == Images[IF lba \in written THEN image ELSE old][lba]

OnDrive(lba) == lba \in DOMAIN Images[old]

----------------------------------------------------------------------------
(* fat_mount.                                                              *)

Geometry(b) ==
    LET root == b.reserved + b.nfats * b.fatsz
        secs == (b.rootent * EntSize + BS - 1) \div BS
        tot  == IF b.tot16 # 0 THEN b.tot16 ELSE b.tot32
        clusters == (tot - root - secs) \div b.spc
    IN  [spc |-> b.spc, fat |-> b.reserved, root |-> root, root_secs |-> secs,
         data |-> root + secs, total |-> tot,
         fat_type |-> IF clusters < Fat16From THEN 12 ELSE 16]

Mountable(b) ==
    /\ b.sig /\ b.bps = BS
    /\ 0 \notin {b.spc, b.nfats, b.fatsz, b.rootent}
    /\ b.tot16 # 0 \/ b.tot32 # 0
    /\ Geometry(b).data < Geometry(b).total

----------------------------------------------------------------------------
(* next_cluster, through the cached sector: what it returns, and what is   *)
(* cached then.  A read that fails leaves the cache alone and returns 1.   *)

FatOffset(clus) == IF v.fat_type = 16 THEN clus * 2 ELSE clus + (clus \div 2)

FatLba(clus) == v.fat + (FatOffset(clus) \div BS)

NextCluster(clus) ==
    LET lba == FatLba(clus)
        idx == FatOffset(clus) % BS
        hit == lba = fsec_lba
        sec == IF hit THEN fsec ELSE Disk(lba)
        two(lo, hi) == lo + 256 * hi
        entry(e) == IF v.fat_type = 16 THEN e
                    ELSE IF clus % 2 = 1 THEN e \div 16 ELSE e % 4096
    IN  IF ~hit /\ ~OnDrive(lba)
        THEN [nx |-> 1, lba |-> fsec_lba, sec |-> fsec]
        ELSE IF idx + 1 < BS
        THEN [nx |-> entry(two(sec[idx + 1], sec[idx + 2])), lba |-> lba, sec |-> sec]
        ELSE IF ~OnDrive(lba + 1)
        THEN [nx |-> 1, lba |-> lba, sec |-> sec]
        ELSE [nx |-> entry(two(sec[idx + 1], Disk(lba + 1)[1])),
              lba |-> lba + 1, sec |-> Disk(lba + 1)]

EndOfChain(clus) == clus >= (IF v.fat_type = 16 THEN 65528 ELSE 4088)

----------------------------------------------------------------------------
(* Names.                                                                  *)

Ascii(c) == IF c < 128 THEN c ELSE 63

Lower(c) == IF c \in 65 .. 90 THEN c + 32 ELSE c

\* lfn_collect: the part's characters go to its slot of the name, up to the
\* terminator and to the end of the buffer.  A slot beyond it is ignored.
LfnCollect(u, e) ==
    IF e.ord \notin 1 .. NameMax \div LfnLen THEN u
    ELSE LET base == (e.ord - 1) * LfnLen
             ends == {i \in 1 .. LfnLen : e.chars[i] \in {0, 65535}}
             stop == IF ends = {} THEN LfnLen + 1
                     ELSE CHOOSE i \in ends : \A j \in ends : i <= j
             put(i) == CASE i <= base \/ i >= NameMax -> u.name[i]
                         [] i < base + stop /\ i <= base + LfnLen -> Ascii(e.chars[i - base])
                         [] i = base + stop /\ ends # {} -> 0
                         [] OTHER -> u.name[i]
         IN  [u EXCEPT !.have_lfn = TRUE, !.name = [i \in 1 .. NameMax |-> put(i)]]

ShortName(e) == e.base \o (IF e.ext = <<>> THEN <<>> ELSE <<46>> \o e.ext)

\* The C string in a buffer.
CString(b) == LET zeros == {i \in DOMAIN b : b[i] = 0}
                  len == (CHOOSE i \in zeros : \A j \in zeros : i <= j) - 1
              IN  SubSeq(b, 1, len)

\* ieq.
SameName(a, b) == Len(a) = Len(b) /\ \A i \in DOMAIN a : Lower(a[i]) = Lower(b[i])

EndsInCap(n) == Len(n) > Len(Cap) /\ SubSeq(n, Len(n) - Len(Cap) + 1, Len(n)) = Cap

\* open_with_fallback: "x.cap" may be found as "x.hex.cap".
HasFallback(n) == EndsInCap(n) /\ Len(n) < NameMax - Len(Cap)
Fallback(n) == SubSeq(n, 1, Len(n) - Len(Cap)) \o Hex \o Cap

\* Entries of a sector.
PerSec == BS \div EntSize

NoName == [i \in 1 .. NameMax |-> 0]
NoWalk == [sec |-> <<>>, at |-> 0, name |-> NoName, have_lfn |-> FALSE]
NoCall == [len |-> 0, done |-> 0]
NoFile == [size |-> 0, pos |-> 0, cur_clus |-> 0, clus_pos |-> 0]
Idle == [pc |-> "idle", op |-> "", want |-> <<>>, first |-> TRUE, len |-> 0]

----------------------------------------------------------------------------
(* The host.                                                               *)

Settled == image = old

\* Where con_printf may have to wait: a name, or how many there are.
Printing == cmd.pc \in {"name", "listed"}

\* Between commands, or in con_printf.
HostRuns == cmd.pc = "idle" \/ Printing

\* The host formats the drive anew.
Format ==
    /\ cmd.pc = "idle" /\ Settled
    /\ image' \in DOMAIN Volumes \ {image} /\ old' = image'
    /\ UNCHANGED <<written, fcache, walk, cmd, file, history>>

Differing(a, b) == {lba \in DOMAIN Images[a] : Images[a][lba] # Images[b][lba]}

\* It starts to change the files on it.
Rewrite ==
    /\ HostRuns /\ Settled
    /\ \E u \in DOMAIN Volumes \ {image} :
          Images[u][0] = Images[image][0] /\ image' = u
    /\ calm' = (cmd.pc = "idle")
    /\ UNCHANGED <<old, written, fcache, walk, cmd, file, stale, leftover>>

\* A block of that comes in, the last one perhaps.
HostWrites ==
    /\ HostRuns
    /\ \E lba \in Differing(old, image) \ written :
          IF Differing(old, image) = written \cup {lba}
          THEN old' = image /\ written' = {}
          ELSE written' = written \cup {lba} /\ UNCHANGED old
    /\ UNCHANGED <<image, fcache, walk, cmd, file, history>>

----------------------------------------------------------------------------
(* Commands mount afresh.  Without a volume there is an error message, and *)
(* nothing else.                                                           *)

Begin(c) ==
    /\ cmd.pc = "idle" /\ Mountable(Disk(0))
    /\ v' = Geometry(Disk(0))
    /\ w' = NoWalk /\ cmd' = c
    /\ calm' = Settled /\ stale' = FALSE /\ leftover' = FALSE
    /\ UNCHANGED <<drive, fcache, listed, file>>

Ls == Begin([Idle EXCEPT !.pc = "walk", !.op = "ls"])

Load ==
    \E l \in Loads : Begin([pc |-> "walk", op |-> "load", want |-> l.want,
                            first |-> TRUE, len |-> l.len])

----------------------------------------------------------------------------
(* walk_root: one entry at a time, a sector being copied when its first is *)
(* looked at.                                                              *)

WalkLba == v.root + (w.at \div PerSec)

\* Every sector walked, or one cannot be read.
Walked == w.at >= v.root_secs * PerSec \/ (w.at % PerSec = 0 /\ ~OnDrive(WalkLba))

Sec == IF w.at % PerSec = 0 THEN Disk(WalkLba) ELSE w.sec

Ent == Sec[(w.at % PerSec) + 1]

Looked == [w EXCEPT !.sec = Sec, !.at = @ + 1]

AtEntry(kinds) == cmd.pc = "walk" /\ ~Walked /\ Ent.kind \in kinds

\* Mutant: only a deleted entry ends a long name.
WalkSkips_Keeps ==
    /\ AtEntry({"deleted", "label", "dir"})
    /\ w' = [Looked EXCEPT !.have_lfn = @ /\ Ent.kind # "deleted"]
    /\ UNCHANGED <<drive, fcache, v, listed, cmd, file, history>>

WalkSkips ==
    /\ AtEntry({"deleted", "label", "dir"})
    /\ w' = [Looked EXCEPT !.have_lfn = FALSE]
    /\ UNCHANGED <<drive, fcache, v, listed, cmd, file, history>>

WalkCollects ==
    /\ AtEntry({"lfn"})
    /\ w' = LfnCollect(Looked, Ent)
    /\ leftover' = (leftover \/ (~w.have_lfn /\ w.name # NoName))
    /\ UNCHANGED <<drive, fcache, v, listed, cmd, file, calm, stale>>

Name == IF w.have_lfn THEN CString(w.name) ELSE ShortName(Ent)

Visited == [Looked EXCEPT !.have_lfn = FALSE, !.name = NoName]

WalkLists ==
    /\ AtEntry({"file"}) /\ cmd.op = "ls"
    /\ listed' = Append(listed, Name)
    /\ w' = Visited
    /\ cmd' = [cmd EXCEPT !.pc = "name"]
    /\ UNCHANGED <<drive, fcache, v, file, history>>

\* con_printf returns: the host has read on, or is not there.
NamePrinted ==
    /\ cmd.pc = "name"
    /\ cmd' = [cmd EXCEPT !.pc = "walk"]
    /\ UNCHANGED <<drive, fcache, walk, file, history>>

\* open_cb of a load.
WalkPasses ==
    /\ AtEntry({"file"}) /\ cmd.op = "load" /\ ~SameName(Name, cmd.want)
    /\ w' = Visited
    /\ UNCHANGED <<drive, fcache, v, listed, cmd, file, history>>

WalkOpens ==
    /\ AtEntry({"file"}) /\ cmd.op = "load" /\ SameName(Name, cmd.want)
    /\ f' = [size |-> Ent.size, pos |-> 0, cur_clus |-> Ent.first, clus_pos |-> 0]
    /\ cmd' = [cmd EXCEPT !.pc = "call"]
    /\ w' = NoWalk
    /\ UNCHANGED <<drive, fcache, v, listed, call, out, history>>

WalkOver == AtEntry({"end"}) \/ (cmd.pc = "walk" /\ Walked)

\* Not found, and open_with_fallback tries again.
TriesFallback ==
    /\ WalkOver /\ cmd.op = "load" /\ cmd.first /\ HasFallback(cmd.want)
    /\ cmd' = [cmd EXCEPT !.first = FALSE, !.want = Fallback(@)]
    /\ w' = NoWalk
    /\ UNCHANGED <<drive, fcache, v, listed, file, history>>

WalkEnds ==
    /\ WalkOver /\ (cmd.op = "load" => ~(cmd.first /\ HasFallback(cmd.want)))
    /\ cmd' = [cmd EXCEPT !.pc = IF cmd.op = "ls" THEN "listed" ELSE "missing"]
    /\ w' = NoWalk
    /\ UNCHANGED <<drive, fcache, v, listed, file, history>>

----------------------------------------------------------------------------
(* The loop of fat_read calls that feeds the parser.  A call that returns  *)
(* 0 is taken for the end of the file, and one that returns less than it   *)
(* was asked is followed by another.                                       *)

\* Mutant: a cluster is a sector.
ClusBytes_Sector == BS

ClusBytes == v.spc * BS

NextCall ==
    /\ cmd.pc = "call" /\ f.pos < f.size
    /\ call' = [len |-> Least(cmd.len, f.size - f.pos), done |-> 0]
    /\ cmd' = [cmd EXCEPT !.pc = "read"]
    /\ UNCHANGED <<drive, fcache, walk, f, out, history>>

EndOfFile ==
    /\ cmd.pc = "call" /\ f.pos >= f.size
    /\ cmd' = [cmd EXCEPT !.pc = "loaded"]
    /\ UNCHANGED <<drive, fcache, walk, file, history>>

Behind == f.pos - f.clus_pos >= ClusBytes

\* Mutant: the caller goes on until it has the size the directory gives.
AfterCut_Insists == "call"

\* Where the chain ends too early a call returns what it has, and the next,
\* having nothing, is taken for the end.
AfterCut == IF call.done > 0 THEN "call" ELSE "loaded"

\* A pass of the inner loop: on to the next cluster of the chain.
Advance ==
    /\ cmd.pc = "read" /\ Behind
    /\ LET n == NextCluster(f.cur_clus)
           cut == n.nx < 2 \/ EndOfChain(n.nx)
       IN  /\ fsec_lba' = n.lba /\ fsec' = n.sec
           /\ f' = IF cut THEN f
                   ELSE [f EXCEPT !.cur_clus = n.nx, !.clus_pos = @ + ClusBytes]
           /\ cmd' = IF ~cut THEN cmd
                     ELSE [cmd EXCEPT !.pc = AfterCut]
    /\ stale' = (stale \/ (FatLba(f.cur_clus) = fsec_lba /\ fsec # Disk(fsec_lba)))
    /\ UNCHANGED <<drive, walk, call, out, calm, leftover>>

DataLba == v.data + (f.cur_clus - 2) * v.spc + ((f.pos - f.clus_pos) \div BS)

ReadSector ==
    /\ cmd.pc = "read" /\ ~Behind /\ OnDrive(DataLba)
    /\ LET in_sec == (f.pos - f.clus_pos) % BS
           n == Least(BS - in_sec, call.len - call.done)
       IN  /\ out' = out \o SubSeq(Disk(DataLba), in_sec + 1, in_sec + n)
           /\ f' = [f EXCEPT !.pos = @ + n]
           /\ call' = [call EXCEPT !.done = @ + n]
           /\ cmd' = [cmd EXCEPT !.pc = IF call.done + n = call.len THEN "call" ELSE "read"]
    /\ UNCHANGED <<drive, fcache, walk, history>>

ReadFails ==
    /\ cmd.pc = "read" /\ ~Behind /\ ~OnDrive(DataLba)
    /\ cmd' = [cmd EXCEPT !.pc = "failed"]
    /\ UNCHANGED <<drive, fcache, walk, file, history>>

----------------------------------------------------------------------------

Over == cmd.pc \in {"listed", "missing", "loaded", "failed"}

Ends ==
    /\ cmd' = Idle /\ v' = <<>> /\ listed' = <<>>
    /\ f' = NoFile /\ call' = NoCall /\ out' = <<>>
    /\ calm' = TRUE /\ stale' = FALSE /\ leftover' = FALSE
    /\ UNCHANGED <<drive, fcache, w>>

\* What the command printed last.
ListPrinted == cmd.pc = "listed" /\ Ends

Finish == Over /\ ~Printing /\ Ends

Init ==
    /\ image \in DOMAIN Volumes /\ old = image /\ written = {}
    /\ fsec_lba = NoLba /\ fsec = <<>>
    /\ v = <<>> /\ w = NoWalk /\ listed = <<>>
    /\ cmd = Idle /\ f = NoFile /\ call = NoCall /\ out = <<>>
    /\ calm = TRUE /\ stale = FALSE /\ leftover = FALSE

Host == Format \/ Rewrite \/ HostWrites

Walk == WalkSkips \/ WalkCollects \/ WalkLists \/ WalkPasses \/ WalkOpens
        \/ TriesFallback \/ WalkEnds

Read == NextCall \/ EndOfFile \/ Advance \/ ReadSector \/ ReadFails

Printed == NamePrinted \/ ListPrinted

Next == Host \/ Ls \/ Load \/ Walk \/ Read \/ Printed \/ Finish

\* core0 goes on with a command it has begun, except where it waits for the
\* host, of which nothing is assumed.
Spec == Init /\ [][Next]_vars /\ WF_vars(Walk \/ Read \/ Finish)
=============================================================================
