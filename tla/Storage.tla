------------------------------ MODULE Storage ------------------------------
(***************************************************************************)
(* The card-deck drive: src/src/storage.c behind the MSC callbacks of      *)
(* src/src/usb_composite.c.  The host writes blocks; flash is erased by    *)
(* sectors; between them is a cache of one sector, written back when       *)
(* another sector is written to, when the host synchronizes or ejects, and *)
(* when no write has come for a while.                                     *)
(*                                                                         *)
(* A call of storage_write_blocks is taken block by block; while it runs   *)
(* core0 does nothing else.  Writing back is two steps, erasing and        *)
(* programming, with nothing between them but a loss of power.             *)
(***************************************************************************)
EXTENDS Integers, Sequences, SequencesExt

CONSTANTS
    NSectors, PerSector,    \* sectors of the drive, blocks of a sector
    Data,                   \* what the host writes into a block
    Erased,                 \* what a block reads as when it was erased or half
                            \* programmed
    NoSector,               \* UINT32_MAX
    MaxCount                \* the most blocks of a call

ASSUME StorageAssumption ==
    /\ {NSectors, PerSector, MaxCount} \subseteq Nat \ {0}
    /\ Erased \notin Data /\ NoSector \notin 0 .. NSectors - 1

Blocks == 0 .. NSectors * PerSector - 1
Offsets == 0 .. PerSector - 1
Contents == Data \cup {Erased}
SectorOf(b) == b \div PerSector

VARIABLES
    flash,      \* what is programmed
    cache,      \* cache.data and cache.sector
    dirty,      \* cache.dirty
    quiet,      \* no write for FLUSH_IDLE_US
    erased,     \* a write-back has erased and has yet to program
    call,       \* the first block and the data still to be written of the
                \* storage_write_blocks call under way
    writable    \* the feeder is DISARMED (tud_msc_write10_cb)

vars == <<flash, cache, dirty, quiet, erased, call, writable>>

NoCall == [lba |-> 0, data |-> <<>>]
ColdCache == [sector |-> NoSector, data |-> [i \in Offsets |-> Erased]]

Init ==
    /\ flash = [b \in Blocks |-> Erased] /\ cache = ColdCache
    /\ dirty = FALSE /\ quiet = TRUE /\ erased = FALSE
    /\ call = NoCall /\ writable = TRUE

InCall == call.data # <<>>

\* storage_read_blocks: the cached sector lies over the flash while dirty.
ReadBlock(b) ==
    IF dirty /\ SectorOf(b) = cache.sector THEN cache.data[b % PerSector] ELSE flash[b]

----------------------------------------------------------------------------
(* The feeder is armed and disarmed.                                       *)
FeederChanges == writable' = ~writable /\ UNCHANGED <<flash, cache, dirty, quiet, erased, call>>

\* A WRITE(10) of the host, or the part of it that fits the endpoint buffer.
MscWrite(lba, data) ==
    /\ writable /\ ~InCall /\ ~erased
    /\ lba + Len(data) <= NSectors * PerSector
    /\ call' = [lba |-> lba, data |-> data]
    /\ UNCHANGED <<flash, cache, dirty, quiet, erased, writable>>

\* One pass of the loop of storage_write_blocks, the sector being cached.
WriteBlock ==
    /\ InCall /\ SectorOf(call.lba) = cache.sector
    /\ cache' = [cache EXCEPT !.data[call.lba % PerSector] = Head(call.data)]
    /\ dirty' = TRUE /\ quiet' = FALSE
    /\ call' = IF Len(call.data) = 1 THEN NoCall
               ELSE [lba |-> call.lba + 1, data |-> Tail(call.data)]
    /\ UNCHANGED <<flash, erased, writable>>

\* Another sector is wanted than the one cached.
WrongSector == InCall /\ SectorOf(call.lba) # cache.sector

\* Mutant: the old sector is not written back first.
CacheLoad_NoFlush ==
    /\ WrongSector /\ ~erased
    /\ LET s == SectorOf(call.lba) IN
       cache' = [sector |-> s, data |-> [i \in Offsets |-> flash[s * PerSector + i]]]
    /\ UNCHANGED <<flash, dirty, quiet, erased, call, writable>>

\* Mutant: what the sector holds is not read.
CacheLoad_SectorOnly ==
    /\ WrongSector /\ ~dirty
    /\ cache' = [cache EXCEPT !.sector = SectorOf(call.lba)]
    /\ UNCHANGED <<flash, dirty, quiet, erased, call, writable>>

\* cache_load, when there is nothing, or nothing any more, to write back.
CacheLoad ==
    /\ WrongSector /\ ~dirty
    /\ LET s == SectorOf(call.lba) IN
       cache' = [sector |-> s, data |-> [i \in Offsets |-> flash[s * PerSector + i]]]
    /\ UNCHANGED <<flash, dirty, quiet, erased, call, writable>>

----------------------------------------------------------------------------
(* storage_flush.                                                          *)

Erase ==
    /\ dirty /\ ~erased
    /\ flash' = [b \in Blocks |-> IF SectorOf(b) = cache.sector THEN Erased ELSE flash[b]]
    /\ erased' = TRUE
    /\ UNCHANGED <<cache, dirty, quiet, call, writable>>

\* Called by cache_load.
FlushForLoad == WrongSector /\ Erase

\* Called by SYNCHRONIZE CACHE and eject.
Synchronize == ~InCall /\ Erase

\* Called by storage_poll.
Poll == quiet /\ ~InCall /\ Erase

\* Mutant: the cache stays dirty when written back.
Program_StaysDirty ==
    /\ erased
    /\ flash' = [b \in Blocks |-> IF SectorOf(b) = cache.sector
                                  THEN cache.data[b % PerSector] ELSE flash[b]]
    /\ erased' = FALSE
    /\ UNCHANGED <<cache, dirty, quiet, call, writable>>

Program ==
    /\ erased
    /\ flash' = [b \in Blocks |-> IF SectorOf(b) = cache.sector
                                  THEN cache.data[b % PerSector] ELSE flash[b]]
    /\ erased' = FALSE /\ dirty' = FALSE
    /\ UNCHANGED <<cache, quiet, call, writable>>

\* flash_safe_execute cannot stop core1.  The write is given up with what it
\* has written so far in the cache; elsewhere nobody looks at the result.
FlushFails ==
    /\ WrongSector /\ dirty /\ ~erased
    /\ call' = NoCall
    /\ UNCHANGED <<flash, cache, dirty, quiet, erased, writable>>

TimePasses ==
    /\ ~quiet /\ ~InCall /\ ~erased /\ quiet' = TRUE
    /\ UNCHANGED <<flash, cache, dirty, erased, call, writable>>

\* Power goes, and comes again.  A write-back under way has programmed some
\* of the blocks.
PowerLoss ==
    /\ IF erased
       THEN \E done \in SUBSET {b \in Blocks : SectorOf(b) = cache.sector} :
               flash' = [b \in Blocks |-> IF b \in done THEN cache.data[b % PerSector]
                                                        ELSE flash[b]]
       ELSE UNCHANGED flash
    /\ cache' = ColdCache /\ dirty' = FALSE /\ quiet' = TRUE /\ erased' = FALSE
    /\ call' = NoCall /\ writable' = TRUE

Next ==
    \/ FeederChanges
    \/ \E lba \in Blocks : \E data \in BoundedSeq(Data, MaxCount) \ {<<>>} : MscWrite(lba, data)
    \/ WriteBlock \/ CacheLoad \/ FlushForLoad \/ Synchronize \/ Poll
    \/ Program \/ FlushFails \/ TimePasses \/ PowerLoss

Spec == Init /\ [][Next]_vars

\* core0's main loop comes round, calls return and time passes.
Fairness ==
    /\ WF_vars(WriteBlock) /\ WF_vars(CacheLoad) /\ WF_vars(FlushForLoad)
    /\ WF_vars(Poll) /\ WF_vars(Program) /\ WF_vars(TimePasses)

FairSpec == Spec /\ Fairness
=============================================================================
