------------------------------ MODULE FatImage ------------------------------
(***************************************************************************)
(* FAT volumes as they get onto the drive: laid out by                     *)
(* src/tools/mkfatimg.py, or written by a host's file system, which the    *)
(* source does not show (external).                                        *)
(*                                                                         *)
(* A volume is described by what is in its root directory, in order:       *)
(*   kind   "file", "dir" or "deleted"                                     *)
(*   long   its long name, a sequence of character codes, or <<>>          *)
(*   base, ext   its short name                                            *)
(*   chain  its clusters, where the host has put them                      *)
(*   bytes  its contents                                                   *)
(* Besides, it has a size in blocks, tot; one of a host's, its parameters; *)
(* and one that was never formatted has no directory.  A block is the boot *)
(* record, a row of entries or a row of bytes.                             *)
(***************************************************************************)
EXTENDS Integers, Sequences, SequencesExt

CONSTANTS
    BS,             \* bytes of a block
    EntSize,        \* bytes of a directory entry
    RootEntries,    \* entries of the root directory
    LfnLen,         \* characters of a long-name entry (13)
    Fat16From       \* from how many clusters on a volume is FAT16 (4085)

ASSUME FatImageAssumption ==
    /\ {BS, EntSize, RootEntries, LfnLen, Fat16From} \subseteq Nat \ {0}
    /\ BS % EntSize = 0

PadByte == <<"", 0>>

CeilDiv(a, b) == (a + b - 1) \div b

RootSecs == CeilDiv(RootEntries * EntSize, BS)

----------------------------------------------------------------------------
(* The directory.                                                          *)

Entry == [kind |-> "end", ord |-> 0, chars |-> <<>>,
          base |-> <<>>, ext |-> <<>>, first |-> 0, size |-> 0]

\* The parts of a long name, the last one first.
LfnParts(codes) ==
    LET n == Len(codes) \div LfnLen
    IN  [i \in 1 .. n |->
           [Entry EXCEPT !.kind = "lfn", !.ord = n + 1 - i,
              !.chars = SubSeq(codes, (n - i) * LfnLen + 1, (n + 1 - i) * LfnLen)]]

Padded(codes) ==
    codes \o [i \in 1 .. LfnLen * CeilDiv(Len(codes), LfnLen) - Len(codes) |-> 65535]

\* lfn_entries: always with a terminator, be it in a part of its own.
ToolParts(name) == LfnParts(Padded(Append(name, 0)))

\* VFAT: no terminator after a name that fills its last part.
HostParts(name) ==
    LfnParts(IF Len(name) % LfnLen = 0 THEN name ELSE Padded(Append(name, 0)))

ShortEntry(d, first) ==
    [Entry EXCEPT !.kind = d.kind, !.base = d.base, !.ext = d.ext,
                  !.first = first, !.size = Len(d.bytes)]

\* A host marks all the entries of what it deletes.
HostEntries(d) ==
    LET es == Append(HostParts(d.long), ShortEntry(d, IF d.chain = <<>> THEN 0
                                                     ELSE Head(d.chain)))
    IN  IF d.kind = "deleted"
        THEN [i \in DOMAIN es |-> [es[i] EXCEPT !.kind = "deleted"]] ELSE es

----------------------------------------------------------------------------
(* The FAT and the data.                                                   *)

\* Cluster c's entry: its successor in its chain, or the end mark.
FatEntry(chains, eoc, c) ==
    IF \E ch \in chains : \E i \in 1 .. Len(ch) : ch[i] = c
    THEN LET ch == CHOOSE ch \in chains : \E i \in 1 .. Len(ch) : ch[i] = c
             i  == CHOOSE i \in 1 .. Len(ch) : ch[i] = c
         IN  IF i = Len(ch) THEN eoc ELSE ch[i + 1]
    ELSE IF c < 2 THEN eoc ELSE 0

\* Byte b of a FAT whose entries are e[c]: two bytes each, or three for two.
FatByte(fat_type, e, b) ==
    IF fat_type = 16
    THEN IF b % 2 = 0 THEN e[b \div 2] % 256 ELSE e[b \div 2] \div 256
    ELSE LET c == 2 * (b \div 3)
         IN  CASE b % 3 = 0 -> e[c] % 256
               [] b % 3 = 1 -> e[c] \div 256 + 16 * (e[c + 1] % 16)
               [] b % 3 = 2 -> e[c + 1] \div 16

\* Block s of cluster c.
DataBlock(dir, spc, c, s) ==
    [i \in 1 .. BS |->
       LET held == {d \in {dir[j] : j \in DOMAIN dir} : \E k \in DOMAIN d.chain : d.chain[k] = c}
           d    == CHOOSE d \in held : TRUE
           at   == ((CHOOSE k \in 1 .. Len(d.chain) : d.chain[k] = c) - 1) * spc * BS
                   + s * BS + i
       IN  IF held # {} /\ at <= Len(d.bytes) THEN d.bytes[at] ELSE PadByte]

Boot(spc, nfats, fatsz, tot) ==
    [sig |-> TRUE, bps |-> BS, spc |-> spc, reserved |-> 1, nfats |-> nfats,
     rootent |-> RootEntries, tot16 |-> tot, tot32 |-> 0, fatsz |-> fatsz]

\* The blocks of a volume: boot record, FATs, root directory, data.
LayOut(dir, entries, fat_type, spc, nfats, fatsz, eoc, tot) ==
    LET chains == {dir[i].chain : i \in DOMAIN dir}
        e    == [c \in 0 .. fatsz * BS |-> FatEntry(chains, eoc, c)]
        root == 1 + nfats * fatsz
        data == root + RootSecs
        per  == BS \div EntSize
        block(lba) ==
            CASE lba = 0 -> Boot(spc, nfats, fatsz, tot)
              [] lba \in 1 .. root - 1 ->
                   [i \in 1 .. BS |->
                      FatByte(fat_type, e, ((lba - 1) % fatsz) * BS + i - 1)]
              [] lba \in root .. data - 1 ->
                   [i \in 1 .. per |->
                      LET k == (lba - root) * per + i
                      IN  IF k <= Len(entries) THEN entries[k] ELSE Entry]
              [] OTHER ->
                   DataBlock(dir, spc, 2 + (lba - data) \div spc, (lba - data) % spc)
    IN  [lba \in 0 .. tot - 1 |-> block(lba)]

----------------------------------------------------------------------------
(* mkfatimg.py's build: one block to a cluster, two FATs just as large as  *)
(* the clusters left need, a label, and every file behind the one before.  *)

\* The size of the FAT is settled in eight rounds.
ToolFatSize(tot) ==
    LET size[r \in 0 .. 8] ==
          IF r = 0 THEN CeilDiv(tot * 2, BS)
          ELSE CeilDiv((tot - 1 - 2 * size[r - 1] - RootSecs + 2) * 2, BS)
    IN  size[8]

Clusters(d) == IF d.bytes = <<>> THEN 1 ELSE CeilDiv(Len(d.bytes), BS)

ToolDir(files) ==
    LET first[i \in DOMAIN files] ==
          IF i = 1 THEN 2 ELSE first[i - 1] + Clusters(files[i - 1])
    IN  [i \in DOMAIN files |->
           [files[i] EXCEPT !.chain =
              [k \in 1 .. Clusters(files[i]) |-> first[i] + k - 1]]]

ToolImage(files, tot) ==
    LET dir == ToolDir(files)
        entries == <<[Entry EXCEPT !.kind = "label"]>> \o
            FlattenSeq([i \in DOMAIN dir |->
                          Append(ToolParts(dir[i].long),
                                 ShortEntry(dir[i], Head(dir[i].chain)))])
    IN  LayOut(dir, entries, 16, 1, 2, ToolFatSize(tot), 65535, tot)

\* The host's formatter and file system.
HostImage(dir, fat_type, spc, fatsz, tot) ==
    LayOut(dir, FlattenSeq([i \in DOMAIN dir |-> HostEntries(dir[i])]),
           fat_type, spc, 1, fatsz, IF fat_type = 16 THEN 65535 ELSE 4095, tot)

\* The blocks of volume u.
ImageOf(u) ==
    CASE u.by = "tool" -> ToolImage(u.dir, u.tot)
      [] u.by = "host" -> HostImage(u.dir, u.fat_type, u.spc, u.fatsz, u.tot)
      [] u.by = "none" -> [lba \in 0 .. u.tot - 1 |-> [sig |-> FALSE]]
=============================================================================
