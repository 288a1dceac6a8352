--------------------------- MODULE StorageProofs ---------------------------
(***************************************************************************)
(* The drive is a block device, for every number of sectors, every sector  *)
(* size, all contents and calls of every length.  What a step does to the  *)
(* flash is hidden by the cache while the sector is dirty; when it is not, *)
(* cache and flash agree (CleanCacheIsFlash), so that a block written over *)
(* the cached sector changes that block and no other.                      *)
(***************************************************************************)
EXTENDS StorageProps, SequenceTheorems, TLAPS

----------------------------------------------------------------------------
(* Blocks and sectors.                                                     *)

\* Factors of a product that stays below another's.
LEMMA Quotients ==
    ASSUME NEW P \in Nat \ {0}, NEW N \in Nat, NEW q \in Int, NEW r \in 0 .. P - 1,
           q * P + r \in 0 .. N * P - 1
    PROVE  q \in 0 .. N - 1
  <1>1. q >= 0
    <2> SUFFICES ASSUME q <= -1 PROVE FALSE
      OBVIOUS
    <2>1. q * P <= (-1) * P
      BY Z3
    <2> QED
      BY <2>1
  <1>2. q < N
    <2> SUFFICES ASSUME q >= N PROVE FALSE
      OBVIOUS
    <2>1. q * P >= N * P
      BY Z3
    <2> QED
      BY <2>1
  <1> QED
    BY <1>1, <1>2

\* A block is its sector's first plus its own offset.
LEMMA BlockParts ==
    ASSUME NEW b \in Blocks
    PROVE  /\ b \in Nat /\ SectorOf(b) \in 0 .. NSectors - 1
           /\ b % PerSector \in Offsets
           /\ b = SectorOf(b) * PerSector + (b % PerSector)
  <1>1. b \in Nat /\ PerSector \in Nat \ {0} /\ NSectors \in Nat
    BY StorageAssumption DEF Blocks
  <1>2. b % PerSector \in Offsets
    BY <1>1 DEF Offsets
  <1>3. SectorOf(b) \in Int /\ b = SectorOf(b) * PerSector + (b % PerSector)
    BY <1>1, Z3 DEF SectorOf
  <1>4. SectorOf(b) \in 0 .. NSectors - 1
    BY <1>1, <1>2, <1>3, Quotients DEF Blocks, Offsets
  <1> QED
    BY <1>1, <1>2, <1>3, <1>4

\* A sector's offsets are blocks, in that sector.
LEMMA SectorParts ==
    ASSUME NEW s \in 0 .. NSectors - 1, NEW i \in Offsets
    PROVE  /\ s * PerSector + i \in Blocks
           /\ SectorOf(s * PerSector + i) = s
           /\ (s * PerSector + i) % PerSector = i
  BY StorageAssumption, SMTT(30) DEF Blocks, Offsets, SectorOf

----------------------------------------------------------------------------
(* The invariant.                                                          *)

LEMMA Assumptions ==
    /\ NSectors \in Nat \ {0} /\ PerSector \in Nat \ {0} /\ MaxCount \in Nat \ {0}
    /\ Erased \notin Data /\ NoSector \notin 0 .. NSectors - 1
  BY StorageAssumption

LEMMA InitInv == Init => StorageInv
  <1> SUFFICES ASSUME Init PROVE StorageInv
    OBVIOUS
  <1>1. 0 \in Blocks /\ 0 + 0 <= NSectors * PerSector
    <2>1. NSectors * PerSector >= 1
      BY Assumptions, Z3
    <2> QED
      BY <2>1, Assumptions DEF Blocks
  <1>2. TypeOK
    <2>1. /\ flash \in [Blocks -> Contents]
          /\ cache \in [sector : 0 .. NSectors - 1 \cup {NoSector}, data : [Offsets -> Contents]]
      BY DEF Init, ColdCache, Contents
    <2>2. /\ call \in [lba : Blocks, data : Seq(Data)]
          /\ call.lba + Len(call.data) <= NSectors * PerSector
      BY <1>1 DEF Init, NoCall
    <2> QED
      BY <2>1, <2>2 DEF Init, TypeOK
  <1>3. CleanCacheIsFlash
    BY DEF Init, CleanCacheIsFlash, ColdCache
  <1> QED
    BY <1>2, <1>3 DEF StorageInv

\* The flash's blocks of one sector are a sector's contents.
LEMMA SectorContents ==
    ASSUME TypeOK, NEW s \in 0 .. NSectors - 1
    PROVE  [i \in Offsets |-> flash[s * PerSector + i]] \in [Offsets -> Contents]
  BY SectorParts DEF TypeOK

LEMMA MscWriteType ==
    ASSUME TypeOK, NEW lba \in Blocks,
           NEW data \in BoundedSeq(Data, MaxCount) \ {<<>>}, MscWrite(lba, data)
    PROVE  TypeOK'
  <1>1. data \in Seq(Data)
    BY DEF BoundedSeq, SeqOf
  <1> QED
    BY <1>1 DEF TypeOK, MscWrite

LEMMA WriteBlockType ==
    ASSUME TypeOK, WriteBlock
    PROVE  TypeOK'
  <1> USE DEF TypeOK
  <1>1. call.data \in Seq(Data) /\ call.data # <<>> /\ call.lba \in Blocks
    BY DEF WriteBlock, InCall
  <1>2. Head(call.data) \in Contents
    BY <1>1 DEF Contents
  <1>3. call.lba % PerSector \in Offsets /\ SectorOf(call.lba) \in 0 .. NSectors - 1
    BY <1>1, BlockParts
  <1>4. cache' \in [sector : 0 .. NSectors - 1 \cup {NoSector}, data : [Offsets -> Contents]]
        /\ cache'.sector = cache.sector
    BY <1>2, <1>3 DEF WriteBlock
  <1>5. /\ call' \in [lba : Blocks, data : Seq(Data)]
        /\ call'.lba + Len(call'.data) <= NSectors * PerSector
    <2>1. CASE Len(call.data) = 1
      <3>1. 0 \in Blocks /\ 0 + 0 <= NSectors * PerSector
        BY <1>1, Assumptions DEF Blocks
      <3> QED
        BY <2>1, <3>1 DEF WriteBlock, NoCall
    <2>2. CASE Len(call.data) # 1
      <3>1. Tail(call.data) \in Seq(Data) /\ Len(Tail(call.data)) = Len(call.data) - 1
            /\ Len(call.data) \in Nat /\ Len(call.data) > 1
        <4>1. Len(call.data) \in Nat /\ Len(call.data) # 0
          BY <1>1, LenProperties
        <4>2. /\ Tail(call.data) \in Seq(Data)
              /\ Len(Tail(call.data)) = Len(call.data) - 1
          BY <1>1, HeadTailProperties
        <4>3. \A n \in Nat : n # 0 /\ n # 1 => n > 1
          OBVIOUS
        <4> QED
          BY <2>2, <4>1, <4>2, <4>3, Zenon
      <3>2. call' = [lba |-> call.lba + 1, data |-> Tail(call.data)]
        BY <2>2 DEF WriteBlock
      <3>3. call.lba + 1 \in Blocks
        BY <1>1, <3>1, Assumptions DEF Blocks
      <3>4. call.lba \in Nat
        BY <1>1, Assumptions DEF Blocks
      <3>5. NSectors * PerSector \in Nat
        BY Assumptions
      <3> QED
        BY <3>1, <3>2, <3>3, <3>4, <3>5
    <2> QED
      BY <2>1, <2>2
  <1> QED
    BY <1>3, <1>4, <1>5, Assumptions DEF WriteBlock

LEMMA CacheLoadType ==
    ASSUME TypeOK, CacheLoad
    PROVE  TypeOK'
  <1>1. SectorOf(call.lba) \in 0 .. NSectors - 1
    BY BlockParts DEF TypeOK
  <1>2. cache' \in [sector : 0 .. NSectors - 1 \cup {NoSector}, data : [Offsets -> Contents]]
    BY <1>1, SectorContents DEF CacheLoad
  <1> QED
    BY <1>2 DEF TypeOK, CacheLoad

LEMMA EraseType ==
    ASSUME TypeOK, Erase
    PROVE  TypeOK'
  BY DEF TypeOK, Erase, Contents

LEMMA ProgramType ==
    ASSUME TypeOK, Program
    PROVE  TypeOK'
  <1>1. \A b \in Blocks : cache.data[b % PerSector] \in Contents
    BY BlockParts DEF TypeOK
  <1> QED
    BY <1>1 DEF TypeOK, Program

LEMMA PowerLossType ==
    ASSUME TypeOK, PowerLoss
    PROVE  TypeOK'
  <1>1. \A b \in Blocks : cache.data[b % PerSector] \in Contents
    BY BlockParts DEF TypeOK
  <1>2. flash' \in [Blocks -> Contents]
    BY <1>1 DEF TypeOK, PowerLoss
  <1>3. 0 \in Blocks /\ 0 + 0 <= NSectors * PerSector
    BY Assumptions DEF TypeOK, Blocks
  <1>4. cache' \in [sector : 0 .. NSectors - 1 \cup {NoSector}, data : [Offsets -> Contents]]
    BY DEF PowerLoss, ColdCache, Contents
  <1>5. /\ call' \in [lba : Blocks, data : Seq(Data)]
        /\ call'.lba + Len(call'.data) <= NSectors * PerSector
    BY <1>3 DEF PowerLoss, NoCall
  <1> QED
    BY <1>2, <1>4, <1>5 DEF TypeOK, PowerLoss


\* What CleanCacheIsFlash needs of every step: a cache that has just been read
\* or written back is the flash's sector, and a write makes it dirty.
LEMMA CleanCacheStep ==
    ASSUME StorageInv, [Next]_vars
    PROVE  CleanCacheIsFlash'
  <1> USE DEF StorageInv
  <1>1. CASE CacheLoad
    <2>1. SectorOf(call.lba) \in 0 .. NSectors - 1
      BY BlockParts DEF TypeOK
    <2> QED
      BY <1>1, <2>1 DEF CacheLoad, CleanCacheIsFlash
  <1>2. CASE Program
    <2> SUFFICES ASSUME NEW i \in Offsets
                 PROVE  cache.data[i] = flash'[cache.sector * PerSector + i]
      BY <1>2 DEF Program, CleanCacheIsFlash
    <2>1. cache.sector \in 0 .. NSectors - 1
      BY <1>2 DEF Program, TypeOK
    <2> QED
      BY <1>2, <2>1, SectorParts DEF Program
  <1>3. CASE PowerLoss
    BY <1>3 DEF PowerLoss, ColdCache, CleanCacheIsFlash
  <1>4. CASE Erase
    BY <1>4 DEF Erase, CleanCacheIsFlash
  <1>5. CASE WriteBlock
    BY <1>5 DEF WriteBlock, CleanCacheIsFlash
  <1>6. ASSUME UNCHANGED <<flash, cache, dirty>>
        PROVE  CleanCacheIsFlash'
    BY <1>6 DEF CleanCacheIsFlash
  <1> QED
    BY <1>1, <1>2, <1>3, <1>4, <1>5, <1>6
       DEF Next, vars, FeederChanges, MscWrite, FlushForLoad, Synchronize, Poll,
           FlushFails, TimePasses

LEMMA TypeStep ==
    ASSUME TypeOK, [Next]_vars
    PROVE  TypeOK'
  <1>1. CASE FeederChanges
    BY <1>1 DEF FeederChanges, TypeOK
  <1>2. CASE \E lba \in Blocks : \E data \in BoundedSeq(Data, MaxCount) \ {<<>>} :
                MscWrite(lba, data)
    BY <1>2, MscWriteType
  <1>3. CASE WriteBlock
    BY <1>3, WriteBlockType
  <1>4. CASE CacheLoad
    BY <1>4, CacheLoadType
  <1>5. CASE Erase
    BY <1>5, EraseType
  <1>6. CASE Program
    BY <1>6, ProgramType
  <1>7. CASE FlushFails
    <2>1. 0 \in Blocks /\ 0 + 0 <= NSectors * PerSector
      BY Assumptions DEF TypeOK, Blocks
    <2> QED
      BY <1>7, <2>1 DEF FlushFails, TypeOK, NoCall
  <1>8. CASE TimePasses
    BY <1>8 DEF TimePasses, TypeOK
  <1>9. CASE PowerLoss
    BY <1>9, PowerLossType
  <1>10. CASE UNCHANGED vars
    BY <1>10 DEF vars, TypeOK
  <1> QED
    BY <1>1, <1>2, <1>3, <1>4, <1>5, <1>6, <1>7, <1>8, <1>9, <1>10
       DEF Next, FlushForLoad, Synchronize, Poll

\* Whatever the host, the power and core0 do, the flash, the cache and the
\* call under way are well formed, and a clean cache is a copy of its sector.
THEOREM StorageInvHolds == Spec => []StorageInv
  <1>1. StorageInv /\ [Next]_vars => StorageInv'
    BY TypeStep, CleanCacheStep DEF StorageInv
  <1> QED
    BY <1>1, InitInv, PTL DEF Spec

\* A cached sector that is not dirty is the flash's.
THEOREM CleanCacheHolds == Spec => []CleanCacheIsFlash
  <1>1. StorageInv => CleanCacheIsFlash
    BY DEF StorageInv
  <1> QED
    BY <1>1, StorageInvHolds, PTL

----------------------------------------------------------------------------
(* The refinement.                                                         *)

diskNow == [b \in Blocks |-> ReadBlock(b)]
riskNow == IF dirty THEN cache.sector ELSE NoSector

\* A pass of storage_write_blocks writes one block, of a sector that may be
\* at risk already.
LEMMA WriteBlockWrites ==
    ASSUME StorageInv, WriteBlock
    PROVE  \E b \in Blocks, v \in Contents : Device!Write(b, v)
  <1> USE DEF StorageInv
  <1> DEFINE lba == call.lba  v == Head(call.data)
  <1>1. lba \in Blocks /\ v \in Contents
    BY HeadTailProperties DEF TypeOK, WriteBlock, InCall, Contents
  <1>2. riskNow \in {NoSector, SectorOf(lba)}
    BY DEF riskNow, WriteBlock
  <1>3. riskNow' = SectorOf(lba)
    BY DEF riskNow, WriteBlock, TypeOK
  <1>4. ASSUME NEW b \in Blocks
        PROVE  ReadBlock(b)' = IF b = lba THEN v ELSE ReadBlock(b)
    <2>1. /\ SectorOf(b) \in 0 .. NSectors - 1 /\ b % PerSector \in Offsets
          /\ b = SectorOf(b) * PerSector + (b % PerSector)
      BY BlockParts
    <2>2. /\ lba % PerSector \in Offsets
          /\ lba = SectorOf(lba) * PerSector + (lba % PerSector)
      BY <1>1, BlockParts
    <2>3. CASE SectorOf(b) # cache.sector
      <3>1. b # lba
        BY <2>3 DEF WriteBlock
      <3> QED
        BY <2>3, <3>1 DEF ReadBlock, WriteBlock, TypeOK
    <2>4. CASE SectorOf(b) = cache.sector
      <3>1. ReadBlock(b) = cache.data[b % PerSector]
        <4>1. CASE dirty
          BY <2>4, <4>1 DEF ReadBlock
        <4>2. CASE ~dirty
          <5>1. cache.sector # NoSector
            BY <2>1, <2>4, Assumptions
          <5>2. cache.data[b % PerSector] = flash[b]
            BY <2>1, <2>4, <4>2, <5>1 DEF CleanCacheIsFlash
          <5> QED
            BY <4>2, <5>2 DEF ReadBlock
        <4> QED
          BY <4>1, <4>2
      <3>2. ReadBlock(b)' = cache'.data[b % PerSector]
        BY <2>4 DEF ReadBlock, WriteBlock, TypeOK
      <3>3. cache'.data[b % PerSector] =
              IF b % PerSector = lba % PerSector THEN v ELSE cache.data[b % PerSector]
        BY <2>1, <2>2 DEF WriteBlock, TypeOK
      <3>4. b % PerSector = lba % PerSector <=> b = lba
        <4>1. SectorOf(b) = SectorOf(lba)
          BY <2>4 DEF WriteBlock
        <4> QED
          BY <2>1, <2>2, <4>1
      <3> QED
        BY <3>1, <3>2, <3>3, <3>4
    <2> QED
      BY <2>3, <2>4
  <1>5. diskNow' = [diskNow EXCEPT ![lba] = v]
    BY <1>1, <1>4 DEF diskNow
  <1> QED
    BY <1>1, <1>2, <1>3, <1>5 DEF Device!Write, diskNow, riskNow

\* Loading another sector is not seen.
LEMMA CacheLoadIsHidden ==
    ASSUME StorageInv, CacheLoad
    PROVE  diskNow' = diskNow /\ riskNow' = riskNow
  BY DEF CacheLoad, diskNow, riskNow, ReadBlock

\* Nor is erasing: the cache lies over what is erased.
LEMMA EraseIsHidden ==
    ASSUME StorageInv, Erase
    PROVE  diskNow' = diskNow /\ riskNow' = riskNow
  <1>1. \A b \in Blocks : ReadBlock(b)' = ReadBlock(b)
    BY DEF Erase, ReadBlock
  <1> QED
    BY <1>1 DEF Erase, diskNow, riskNow

\* Programming makes what is at risk durable.
LEMMA ProgramSettles ==
    ASSUME StorageInv, Program
    PROVE  Device!Settle
  <1> USE DEF StorageInv
  <1>1. dirty /\ cache.sector # NoSector
    BY DEF TypeOK, Program
  <1>2. \A b \in Blocks : ReadBlock(b)' = ReadBlock(b)
    BY <1>1 DEF Program, ReadBlock
  <1>3. riskNow # NoSector /\ riskNow' = NoSector
    BY <1>1 DEF riskNow, Program
  <1> QED
    BY <1>2, <1>3 DEF Device!Settle, diskNow, riskNow

\* A loss of power harms the sector at risk, and no other.
LEMMA PowerLossHarms ==
    ASSUME StorageInv, PowerLoss
    PROVE  Device!PowerFails
  <1> USE DEF StorageInv
  <1>1. \A b \in Blocks : ReadBlock(b)' = flash'[b]
    BY DEF PowerLoss, ReadBlock
  <1>2. flash' \in [Blocks -> Contents]
    BY PowerLossType DEF TypeOK
  <1>3. diskNow' \in [Blocks -> Contents]
    BY <1>1, <1>2 DEF diskNow
  <1>4. ASSUME NEW b \in Blocks, SectorOf(b) # riskNow
        PROVE  ReadBlock(b)' = ReadBlock(b)
    <2>1. flash'[b] = flash[b]
      <3>1. CASE erased
        <4>1. dirty /\ SectorOf(b) # cache.sector
          BY <1>4, <3>1 DEF riskNow, TypeOK
        <4>2. PICK done \in SUBSET {c \in Blocks : SectorOf(c) = cache.sector} :
                flash' = [c \in Blocks |-> IF c \in done THEN cache.data[c % PerSector]
                                                         ELSE flash[c]]
          BY <3>1 DEF PowerLoss
        <4> QED
          BY <4>1, <4>2
      <3>2. CASE ~erased
        BY <3>2 DEF PowerLoss
      <3> QED
        BY <3>1, <3>2
    <2>2. ReadBlock(b) = flash[b]
      BY <1>4 DEF ReadBlock, riskNow
    <2> QED
      BY <1>1, <2>1, <2>2
  <1>5. riskNow' = NoSector
    BY DEF riskNow, PowerLoss
  <1> QED
    BY <1>3, <1>4, <1>5 DEF Device!PowerFails, diskNow, riskNow

LEMMA StepRefines ==
    ASSUME StorageInv, [Next]_vars
    PROVE  [Device!DeviceNext]_(Device!dvars)
  <1>1. CASE WriteBlock
    BY <1>1, WriteBlockWrites DEF Device!DeviceNext
  <1>2. CASE CacheLoad
    BY <1>2, CacheLoadIsHidden DEF Device!dvars, diskNow, riskNow
  <1>3. CASE Erase
    BY <1>3, EraseIsHidden DEF Device!dvars, diskNow, riskNow
  <1>4. CASE Program
    BY <1>4, ProgramSettles DEF Device!DeviceNext
  <1>5. CASE PowerLoss
    BY <1>5, PowerLossHarms DEF Device!DeviceNext
  <1>6. ASSUME UNCHANGED <<flash, cache, dirty>>
        PROVE  UNCHANGED Device!dvars
    BY <1>6 DEF Device!dvars, ReadBlock
  <1> QED
    BY <1>1, <1>2, <1>3, <1>4, <1>5, <1>6
       DEF Next, vars, FeederChanges, MscWrite, FlushForLoad, Synchronize, Poll,
           FlushFails, TimePasses

LEMMA InitRefines == Init => Device!DeviceInit
  <1> SUFFICES ASSUME Init PROVE Device!DeviceInit
    OBVIOUS
  <1>1. \A b \in Blocks : ReadBlock(b) = Erased
    BY DEF Init, ReadBlock
  <1> QED
    BY <1>1 DEF Init, Device!DeviceInit

\* The drive implements the block device: no interleaving of calls, sector
\* changes, write-backs, failures and losses of power shows the host anything
\* but the blocks it wrote last, one sector excepted.
THEOREM DriveIsBlockDevice == Spec => ImplementsBlockDevice
  BY StepRefines, InitRefines, StorageInvHolds, PTL
     DEF Spec, ImplementsBlockDevice, Device!DeviceSpec

=============================================================================
