---------------------------- MODULE StorageProps ----------------------------
(***************************************************************************)
(* Properties of the drive, and the drive as a block device.               *)
(***************************************************************************)
EXTENDS Storage

\* Types; a dirty sector is cached, and only a dirty one is ever half written.
TypeOK ==
    /\ flash \in [Blocks -> Contents]
    /\ cache \in [sector : 0 .. NSectors - 1 \cup {NoSector}, data : [Offsets -> Contents]]
    /\ dirty \in BOOLEAN /\ quiet \in BOOLEAN /\ erased \in BOOLEAN
    /\ writable \in BOOLEAN
    /\ call \in [lba : Blocks, data : Seq(Data)]
    /\ call.lba + Len(call.data) <= NSectors * PerSector
    /\ dirty => cache.sector # NoSector
    /\ erased => dirty

\* A cache that is not dirty holds what is in the flash: cache_load returns
\* at once when the sector is already cached, also long after it was written
\* back, and writes one block over the others.
CleanCacheIsFlash ==
    ~dirty /\ cache.sector # NoSector =>
        \A i \in Offsets : cache.data[i] = flash[cache.sector * PerSector + i]

\* The invariant: the two together are inductive.
StorageInv == TypeOK /\ CleanCacheIsFlash

\* The drive is a block device: every block reads as written last, whatever
\* is cached, written back, given up half way or in flight, and a loss of
\* power harms one sector at most (storage_read_blocks, storage_write_blocks,
\* storage_flush).
Device == INSTANCE BlockDevice WITH
    Values <- Contents, Blank <- Erased,
    disk <- [b \in Blocks |-> ReadBlock(b)],
    risk <- IF dirty THEN cache.sector ELSE NoSector

ImplementsBlockDevice == Device!DeviceSpec

\* What the host has written gets into the flash without its asking, armed
\* or not (storage_poll), once it stops writing: every write restarts the
\* delay.
HostStops == <>[][\A lba \in Blocks : \A n \in 1 .. MaxCount : \A d \in [1 .. n -> Data] :
                     ~MscWrite(lba, d)]_vars

LazyFlush == HostStops => (dirty ~> ~dirty)
=============================================================================
