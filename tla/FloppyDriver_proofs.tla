------------------------- MODULE FloppyDriver_proofs -------------------------
(***************************************************************************)
(* The floppy driver over its controller, for every geometry of the disk,  *)
(* every delay of the controller shorter than the driver's patience, any   *)
(* blocks, payloads and number of calls.                                   *)
(***************************************************************************)
EXTENDS FloppyDriver, TLAPS

Ops        == {"none", "restore", "seek", "read", "write"}
BlockRange == 0 .. (DiskBlocks - 1)

\* The registers, as a record of known fields.
Registers ==
  [status : SUBSET Status, track : Byte, sector : 1 .. Sectors, data : Byte,
   drive : Drives, side : 0 .. 1, motor : BOOLEAN, buf : Sector,
   pos : 0 .. SectorSize, writing : BOOLEAN, op : Ops, delay : Nat]

FdcType == fdc \in Registers

MediaType ==
  /\ images \in [Drives -> [BlockRange -> Sector]]
  /\ readOnly \subseteq mounted /\ mounted \subseteq Drives

CallType ==
  /\ driveNum \in Drives \cup {-1} /\ opened \subseteq Drives
  /\ curTrack \in -1 .. (ByteSize - 1) /\ n \in 0 .. MaxRetries /\ i \in 0 .. SectorSize
  /\ call \in [op : {"none", "read", "write"}, block : Blocks \cup {0}, driver : Drives]
  /\ buf \in Sector /\ res \in -7 .. 0
  /\ pc \in {"idle", "seek", "seekCommand", "seekWait", "address", "command",
             "waitDRQ", "transfer", "finish", "check"}
  /\ (opened # {} \/ pc # "idle") => driveNum \in Drives
  /\ pc # "idle" => call.op \in {"read", "write"} /\ call.block \in Blocks

Quiet == fdc.op = "none" /\ fdc.status \cap {"busy", "drq"} = {}

\* A command has been accepted and will complete after the rest of its delay.
Pending(op, delay) ==
  /\ fdc.op = op /\ fdc.status = {"busy"}
  /\ fdc.delay \in Nat \ {0} /\ n + fdc.delay = delay

Transferring ==
  /\ fdc.op = "none" /\ fdc.status = {"busy", "drq"}
  /\ fdc.pos = i /\ i < SectorSize /\ fdc.writing = (call.op = "write")

\* Where the controller is at each point of a call.
Progress ==
  /\ pc \in {"idle", "seek", "address", "command", "finish", "check"} => Quiet
  /\ pc = "seekCommand" => Quiet /\ fdc.data = track(call.block)
  /\ pc = "seekWait" =>
       \/ fdc.drive \notin mounted /\ Quiet /\ n = 0
       \/ /\ fdc.drive \in mounted
          /\ \/ Pending("restore", StepDelay) /\ track(call.block) = 0
             \/ Pending("seek", StepDelay) /\ fdc.data = track(call.block)
  /\ pc = "waitDRQ" =>
       \/ Quiet /\ n = 0
       \/ Pending(call.op, TransferDelay) /\ fdc.drive \in mounted /\ OnDisk(fdc)
  /\ pc \in {"waitDRQ", "transfer"} => i \in 0 .. (SectorSize - 1)
  /\ pc = "waitDRQ" => i = 0
  /\ pc = "transfer" => Transferring
  /\ pc = "finish" => n = 0

\* A call is to the drive of the latest Init, with its motor on.
OnDrive == pc # "idle" => fdc.drive = driveNum /\ fdc.motor

DriverInv ==
  FdcType /\ MediaType /\ CallType /\ Progress /\ OnDrive /\ HeadIsOnCurTrack

-----------------------------------------------------------------------------
(* Arithmetic of the disk's geometry. *)

LEMMA Geometry ==
  /\ Tracks \in Nat \ {0} /\ Sectors \in Nat \ {0} /\ SectorSize \in Nat \ {0}
  /\ ByteSize \in Nat \ {0} /\ StepDelay \in Nat \ {0} /\ TransferDelay \in Nat \ {0}
  /\ SectorsPerCyl \in Nat \ {0} /\ DiskBlocks \in Nat
  /\ Tracks < ByteSize /\ Sectors < ByteSize
  /\ MaxRetries \in Nat /\ MaxRetries > StepDelay /\ MaxRetries > TransferDelay
<1>1. /\ Tracks \in Nat \ {0} /\ Sectors \in Nat \ {0} /\ SectorSize \in Nat \ {0}
      /\ ByteSize \in Nat \ {0} /\ StepDelay \in Nat \ {0} /\ TransferDelay \in Nat \ {0}
  BY ControllerConstants
<1>2. SectorsPerCyl \in Nat \ {0}
  BY <1>1 DEF SectorsPerCyl, Sides
<1>3. DiskBlocks \in Nat
  BY <1>1 DEF DiskBlocks, Sides
<1>4. QED
  BY <1>1, <1>2, <1>3, ControllerConstants, DriverConstants

LEMMA DivBelow ==
  ASSUME NEW b \in Nat, NEW m \in Nat \ {0}, NEW k \in Nat
  PROVE  b \div m \in Nat /\ (b \div m < k <=> b < k * m)
  OBVIOUS

LEMMA DivMod ==
  ASSUME NEW b \in Nat, NEW m \in Nat \ {0}
  PROVE  b \div m \in Nat /\ b % m \in 0 .. (m - 1) /\ (b \div m) * m + (b % m) = b
  OBVIOUS

LEMMA DivDiv ==
  ASSUME NEW b \in Nat, NEW s \in Nat \ {0}
  PROVE  b \div (s * 2) = (b \div s) \div 2
  OBVIOUS

\* A block's track, side and sector are registers' values.
LEMMA Addressing ==
  ASSUME NEW b \in Blocks \cup {0}
  PROVE  /\ b \in Nat
         /\ track(b) \in Byte /\ side(b) \in 0 .. 1 /\ sector(b) \in 1 .. Sectors
         /\ track(b) % ByteSize = track(b)
         /\ track(b) < Tracks <=> b < DiskBlocks
<1>1. b \in Nat /\ b < ByteSize * SectorsPerCyl
  BY Geometry, DriverConstants
<1>2. track(b) \in Nat /\ track(b) < ByteSize
  BY <1>1, Geometry, DivBelow DEF track
<1>3. side(b) \in 0 .. 1
  <2>1. b \div Sectors \in Nat
    BY <1>1, Geometry, DivMod
  <2>2. QED
    BY <2>1 DEF side, Sides
<1>4. sector(b) \in 1 .. Sectors
  <2>1. b % Sectors \in 0 .. (Sectors - 1)
    BY <1>1, Geometry, DivMod
  <2>2. QED
    BY <2>1, Geometry DEF sector
<1>5. track(b) % ByteSize = track(b)
  BY <1>2, Geometry
<1>6. track(b) < Tracks <=> b < Tracks * SectorsPerCyl
  BY <1>1, Geometry, DivBelow DEF track
<1>7. Tracks * SectorsPerCyl = DiskBlocks
  BY Geometry DEF SectorsPerCyl, DiskBlocks, Sides
<1>8. QED
  BY <1>1, <1>2, <1>3, <1>4, <1>5, <1>6, <1>7, Geometry DEF Byte

\* The sector of the image that a block's track, side and sector lead to is the block's.
LEMMA OffsetOfBlock ==
  ASSUME NEW b \in Blocks \cup {0},
         NEW f, f.track = track(b), f.side = side(b), f.sector = sector(b)
  PROVE  sectorOffset(f) = b
<1> DEFINE q == b \div Sectors
<1>1. b \in Nat
  BY Addressing
<1>2. q \in Nat /\ q * Sectors + (b % Sectors) = b
  BY <1>1, Geometry, DivMod
<1>3. track(b) = q \div 2
  BY <1>1, Geometry, DivDiv DEF track, SectorsPerCyl, Sides
<1>4. track(b) * 2 + side(b) = q
  BY <1>2, <1>3, DivMod DEF side, Sides
<1>5. sectorOffset(f) = (track(b) * 2 + side(b)) * Sectors + sector(b) - 1
  BY DEF sectorOffset, Sides
<1>6. sector(b) - 1 = b % Sectors
  <2>1. b % Sectors \in 0 .. (Sectors - 1)
    BY <1>1, Geometry, DivMod
  <2>2. QED
    BY <2>1, Geometry DEF sector
<1>7. sectorOffset(f) = q * Sectors + (sector(b) - 1)
  BY <1>2, <1>4, <1>5, <1>6, Geometry, Addressing
<1>8. QED
  BY <1>2, <1>6, <1>7

LEMMA OffsetInRange ==
  ASSUME NEW f, OnDisk(f), f.track \in Byte, f.side \in 0 .. 1
  PROVE  sectorOffset(f) \in BlockRange
<1>1. /\ f.track \in Nat /\ f.track < Tracks
      /\ f.sector - 1 \in Nat /\ f.sector - 1 < Sectors
  BY Geometry DEF OnDisk, Byte
<1>2. ASSUME NEW t \in Nat, t < Tracks, NEW d \in 0 .. 1, NEW s \in Nat, s < Sectors
      PROVE  (t * 2 + d) * Sectors + s \in Nat /\ (t * 2 + d) * Sectors + s < Tracks * 2 * Sectors
  BY <1>2, Geometry
<1>3. (f.track * 2 + f.side) * Sectors + (f.sector - 1) \in BlockRange
  BY <1>1, <1>2, Geometry DEF BlockRange, DiskBlocks, Sides
<1>4. sectorOffset(f) = (f.track * 2 + f.side) * Sectors + (f.sector - 1)
  BY <1>1, Geometry DEF sectorOffset, Sides, OnDisk
<1>5. QED
  BY <1>3, <1>4

LEMMA ZeroIsSector == ZeroSector \in Sector
  BY Geometry DEF ZeroSector, Sector, Byte

-----------------------------------------------------------------------------
(* What the register accesses do. *)

LEMMA CommandEffect ==
  ASSUME FdcType, NEW c \in Ops \ {"none"}, Command(c)
  PROVE  /\ FdcType' /\ UNCHANGED <<images, mounted, readOnly>>
         /\ fdc'.drive = fdc.drive /\ fdc'.motor = fdc.motor /\ fdc'.track = fdc.track
         /\ fdc'.data = fdc.data /\ fdc'.sector = fdc.sector /\ fdc'.side = fdc.side
         /\ \/ /\ fdc'.op = "none" /\ fdc'.status \cap {"busy", "drq"} = {}
               /\ NotReady(fdc) \/ (c \in {"read", "write"} /\ ~OnDisk(fdc))
            \/ /\ fdc'.op = c /\ fdc'.status = {"busy"} /\ ~NotReady(fdc)
               /\ c \in {"restore", "seek"} => fdc'.delay = StepDelay
               /\ c \in {"read", "write"} => fdc'.delay = TransferDelay /\ OnDisk(fdc)
<1>0. UNCHANGED <<images, mounted, readOnly>>
  BY DEF Command
<1>1. CASE NotReady(fdc)
  <2>1. fdc' = Refuse(fdc, "notReady")
    BY <1>1 DEF Command
  <2>2. QED
    BY <1>0, <1>1, <2>1 DEF Refuse, FdcType, Registers, Ops, Status
<1>2. CASE ~NotReady(fdc) /\ c \in {"restore", "seek"}
  <2>1. fdc' = Start(fdc, c, StepDelay)
    BY <1>2 DEF Command
  <2>2. QED
    BY <1>0, <1>2, <2>1, Geometry DEF Start, FdcType, Registers, Ops, Status
<1>3. CASE ~NotReady(fdc) /\ c \in {"read", "write"} /\ ~OnDisk(fdc)
  <2>1. fdc' = Refuse(fdc, "rnf")
    BY <1>3 DEF Command
  <2>2. QED
    BY <1>0, <1>3, <2>1 DEF Refuse, FdcType, Registers, Ops, Status
<1>4. CASE ~NotReady(fdc) /\ c \in {"read", "write"} /\ OnDisk(fdc)
  <2>1. fdc' = Start(fdc, c, TransferDelay)
    BY <1>4 DEF Command
  <2>2. QED
    BY <1>0, <1>4, <2>1, Geometry DEF Start, FdcType, Registers, Ops, Status
<1>5. QED
  BY <1>1, <1>2, <1>3, <1>4 DEF Ops

\* With nothing pending a read of the status changes nothing.
LEMMA StatusIdle ==
  ASSUME ReadStatus, fdc.op = "none"
  PROVE  UNCHANGED <<fdc, images, mounted, readOnly>>
  BY DEF ReadStatus

Ticked == [fdc EXCEPT !.delay = fdc.delay - 1]

LEMMA StatusTicks ==
  ASSUME FdcType, ReadStatus, fdc.op # "none", fdc.delay \in Nat \ {0}
  PROVE  /\ UNCHANGED <<images, mounted, readOnly>>
         /\ Ticked.delay = fdc.delay - 1
         /\ fdc.delay > 1 => fdc' = Ticked
         /\ fdc.delay = 1 => fdc' = completePendingOp(Ticked)
<1>1. Ticked.delay = fdc.delay - 1
  BY DEF Ticked, FdcType, Registers
<1>2. fdc' = IF Ticked.delay = 0 THEN completePendingOp(Ticked) ELSE Ticked
  BY DEF ReadStatus, Ticked
<1>3. QED
  BY <1>1, <1>2 DEF ReadStatus

LEMMA TickedType ==
  ASSUME FdcType, fdc.delay \in Nat \ {0}
  PROVE  Ticked \in Registers
  BY DEF FdcType, Registers, Ticked

\* Restore and Seek: busy to the end of the delay, then on the track.
LEMMA StatusSteps ==
  ASSUME FdcType, ReadStatus, fdc.op \in {"restore", "seek"}, fdc.status = {"busy"},
         fdc.delay \in Nat \ {0}
  PROVE  /\ FdcType' /\ UNCHANGED <<images, mounted, readOnly>>
         /\ fdc'.drive = fdc.drive /\ fdc'.motor = fdc.motor /\ fdc'.data = fdc.data
         /\ fdc'.sector = fdc.sector /\ fdc'.side = fdc.side
         /\ fdc.delay > 1 =>
              /\ fdc'.delay = fdc.delay - 1 /\ fdc'.op = fdc.op
              /\ fdc'.status = {"busy"} /\ fdc'.track = fdc.track
         /\ fdc.delay = 1 =>
              /\ fdc'.op = "none" /\ fdc'.status \cap {"busy", "drq"} = {}
              /\ fdc'.track = IF fdc.op = "restore" THEN 0 ELSE fdc.data
<1>1. CASE fdc.delay > 1
  BY <1>1, StatusTicks, TickedType DEF Ticked, FdcType, Registers
<1>2. CASE fdc.delay = 1
  <2> DEFINE t == IF fdc.op = "restore" THEN 0 ELSE fdc.data
  <2>1. fdc' = Stepped(Ticked, t)
    BY <1>2, StatusTicks DEF completePendingOp, Ticked, FdcType, Registers
  <2>2. t \in Byte
    BY Geometry DEF FdcType, Registers, Byte
  <2>3. QED
    BY <1>2, <2>1, <2>2, StatusTicks, TickedType DEF Stepped, Ticked, FdcType, Registers, Ops, Status
<1>3. QED
  BY <1>1, <1>2 DEF FdcType, Registers

\* Read and Write: busy to the end of the delay, then asking for the transfer,
\* a read with the sector of the image in the buffer.
LEMMA StatusReadies ==
  ASSUME FdcType, MediaType, ReadStatus, fdc.op \in {"read", "write"}, fdc.status = {"busy"},
         fdc.delay \in Nat \ {0}, OnDisk(fdc)
  PROVE  /\ FdcType' /\ UNCHANGED <<images, mounted, readOnly>>
         /\ fdc'.drive = fdc.drive /\ fdc'.motor = fdc.motor /\ fdc'.data = fdc.data
         /\ fdc'.sector = fdc.sector /\ fdc'.side = fdc.side /\ fdc'.track = fdc.track
         /\ fdc.delay > 1 =>
              fdc'.delay = fdc.delay - 1 /\ fdc'.op = fdc.op /\ fdc'.status = {"busy"}
         /\ fdc.delay = 1 =>
              /\ fdc'.op = "none" /\ fdc'.status = {"busy", "drq"} /\ fdc'.pos = 0
              /\ fdc'.writing = (fdc.op = "write")
              /\ fdc.op = "read" => fdc'.buf = images[fdc.drive][sectorOffset(fdc)]
<1>1. CASE fdc.delay > 1
  BY <1>1, StatusTicks, TickedType DEF Ticked, FdcType, Registers
<1>2. CASE fdc.delay = 1
  <2> DEFINE contents == IF fdc.op = "read" THEN images[fdc.drive][sectorOffset(fdc)] ELSE ZeroSector
  <2>1. OnDisk(Ticked) /\ sectorOffset(Ticked) = sectorOffset(fdc)
        /\ Ticked.op = fdc.op /\ Ticked.drive = fdc.drive
    BY DEF OnDisk, sectorOffset, Ticked, FdcType, Registers
  <2>2. fdc' = Ready(Ticked, contents)
    BY <1>2, <2>1, StatusTicks DEF completePendingOp
  <2>3. contents \in Sector
    BY OffsetInRange, ZeroIsSector DEF FdcType, Registers, MediaType
  <2>4. UNCHANGED <<images, mounted, readOnly>>
    BY <1>2, StatusTicks
  <2>5. FdcType'
    <3>1. 0 \in 0 .. SectorSize /\ (Ticked.op = "write") \in BOOLEAN
      BY Geometry
    <3>2. {"busy", "drq"} \in SUBSET Status /\ "none" \in Ops
      BY DEF Ops, Status
    <3>3. QED
      BY <2>2, <2>3, <3>1, <3>2, TickedType DEF Ready, FdcType, Registers
  <2>6. /\ fdc'.drive = fdc.drive /\ fdc'.motor = fdc.motor /\ fdc'.data = fdc.data
        /\ fdc'.sector = fdc.sector /\ fdc'.side = fdc.side /\ fdc'.track = fdc.track
    BY <2>2 DEF Ready, Ticked, FdcType, Registers
  <2>7. /\ fdc'.op = "none" /\ fdc'.status = {"busy", "drq"} /\ fdc'.pos = 0
        /\ fdc'.writing = (fdc.op = "write") /\ fdc'.buf = contents
    BY <2>1, <2>2, TickedType DEF Ready
  <2>8. QED
    BY <1>2, <2>4, <2>5, <2>6, <2>7
<1>3. QED
  BY <1>1, <1>2 DEF FdcType, Registers

\* Outside a transfer the data register takes any byte.
LEMMA DataTaken ==
  ASSUME FdcType, Quiet, NEW b \in Byte, WriteData(b)
  PROVE  /\ FdcType' /\ UNCHANGED <<images, mounted, readOnly>>
         /\ fdc'.drive = fdc.drive /\ fdc'.motor = fdc.motor /\ fdc'.track = fdc.track
         /\ fdc'.status = fdc.status /\ fdc'.op = fdc.op /\ fdc'.data = b
<1>1. fdc' = [fdc EXCEPT !.data = b] /\ UNCHANGED <<images, mounted, readOnly>>
  BY DEF WriteData, Quiet
<1>2. QED
  BY <1>1 DEF FdcType, Registers

\* One byte of a read.
LEMMA ByteRead ==
  ASSUME FdcType, Transferring, call.op = "read", i \in Nat, ReadData
  PROVE  /\ FdcType' /\ UNCHANGED <<images, mounted, readOnly>>
         /\ fdc'.drive = fdc.drive /\ fdc'.motor = fdc.motor /\ fdc'.track = fdc.track
         /\ fdc'.op = "none" /\ fdc'.pos = i + 1 /\ fdc'.writing = FALSE
         /\ fdc'.buf = fdc.buf /\ fdc'.data = fdc.buf[i]
         /\ fdc'.status = IF i + 1 < SectorSize THEN {"busy", "drq"} ELSE {}
<1>1. fdc' = [fdc EXCEPT !.data = fdc.buf[fdc.pos], !.pos = fdc.pos + 1,
                         !.status = TransferStatus(fdc)]
  BY DEF ReadData, Transferring
<1>2. TransferStatus(fdc) = IF i + 1 < SectorSize THEN {"busy", "drq"} ELSE {}
  BY Geometry DEF TransferStatus, LastByte, Transferring
<1>3. fdc.buf[fdc.pos] \in Byte /\ fdc.pos + 1 \in 0 .. SectorSize
  BY Geometry DEF FdcType, Registers, Sector, Transferring
<1>4. TransferStatus(fdc) \in SUBSET Status
  BY <1>2 DEF Status
<1>5. FdcType'
  BY <1>1, <1>3, <1>4 DEF FdcType, Registers
<1>6. /\ fdc'.drive = fdc.drive /\ fdc'.motor = fdc.motor /\ fdc'.track = fdc.track
      /\ fdc'.op = fdc.op /\ fdc'.pos = fdc.pos + 1 /\ fdc'.writing = fdc.writing
      /\ fdc'.buf = fdc.buf /\ fdc'.data = fdc.buf[fdc.pos] /\ fdc'.status = TransferStatus(fdc)
  BY <1>1 DEF FdcType, Registers
<1>7. QED
  BY <1>2, <1>5, <1>6 DEF ReadData, Transferring

\* A write to the image that is mounted leaves sectors in it.
LEMMA FlushedType ==
  ASSUME MediaType, NEW f \in Registers
  PROVE  Flushed(f) \in [Drives -> [BlockRange -> Sector]]
<1>1. f.drive \in Drives /\ f.buf \in Sector
  BY DEF Registers
<1>2. CASE f.drive \in mounted \ readOnly /\ OnDisk(f)
  <2>1. sectorOffset(f) \in BlockRange
    BY <1>2, OffsetInRange DEF Registers
  <2>2. QED
    BY <1>1, <1>2, <2>1 DEF Flushed, MediaType
<1>3. CASE ~(f.drive \in mounted \ readOnly /\ OnDisk(f))
  BY <1>3 DEF Flushed, MediaType
<1>4. QED
  BY <1>2, <1>3

\* One byte of a write.
LEMMA ByteWritten ==
  ASSUME FdcType, MediaType, Transferring, call.op = "write", i \in Nat,
         NEW b \in Byte, WriteData(b)
  PROVE  /\ FdcType' /\ MediaType' /\ UNCHANGED <<mounted, readOnly>>
         /\ fdc'.drive = fdc.drive /\ fdc'.motor = fdc.motor /\ fdc'.track = fdc.track
         /\ fdc'.op = "none" /\ fdc'.pos = i + 1 /\ (fdc'.writing <=> i + 1 < SectorSize)
         /\ fdc'.status = IF i + 1 < SectorSize THEN {"busy", "drq"} ELSE {}
         /\ fdc'.side = fdc.side /\ fdc'.sector = fdc.sector
         /\ fdc'.buf = [fdc.buf EXCEPT ![i] = b]
         /\ images' = IF i + 1 < SectorSize THEN images ELSE Flushed(fdc')
<1> DEFINE stored == [fdc EXCEPT !.data = b, !.buf = [fdc.buf EXCEPT ![fdc.pos] = b],
                                 !.pos = fdc.pos + 1]
<1>0. fdc.writing /\ "drq" \in fdc.status
  BY DEF Transferring
<1>1. /\ fdc' = [stored EXCEPT !.status = TransferStatus(fdc), !.writing = ~LastByte(fdc)]
      /\ images' = IF LastByte(fdc) THEN Flushed(stored) ELSE images
      /\ UNCHANGED <<mounted, readOnly>>
  BY <1>0, Zenon DEF WriteData
<1>2. /\ TransferStatus(fdc) = IF i + 1 < SectorSize THEN {"busy", "drq"} ELSE {}
      /\ ~LastByte(fdc) <=> i + 1 < SectorSize
  BY Geometry DEF TransferStatus, LastByte, Transferring
<1>3. fdc.pos + 1 \in 0 .. SectorSize /\ [fdc.buf EXCEPT ![fdc.pos] = b] \in Sector
  BY Geometry DEF FdcType, Registers, Sector, Transferring
<1>4. stored \in Registers
  BY <1>3 DEF FdcType, Registers
<1>5. TransferStatus(fdc) \in SUBSET Status
  BY <1>2 DEF Status
<1>6. FdcType'
  BY <1>1, <1>2, <1>4, <1>5 DEF FdcType, Registers
<1>7. MediaType'
  BY <1>1, <1>4, FlushedType DEF MediaType
<1>8. /\ fdc'.drive = fdc.drive /\ fdc'.motor = fdc.motor /\ fdc'.track = fdc.track
      /\ fdc'.op = fdc.op /\ fdc'.pos = fdc.pos + 1 /\ (fdc'.writing <=> ~LastByte(fdc))
      /\ fdc'.status = TransferStatus(fdc) /\ fdc'.side = fdc.side /\ fdc'.sector = fdc.sector
      /\ fdc'.buf = [fdc.buf EXCEPT ![fdc.pos] = b]
  BY <1>1 DEF FdcType, Registers
<1>9. Flushed(stored) = Flushed(fdc')
  <2>1. /\ stored.drive = fdc'.drive /\ stored.track = fdc'.track /\ stored.side = fdc'.side
        /\ stored.sector = fdc'.sector /\ stored.buf = fdc'.buf
    BY <1>1, <1>4 DEF Registers
  <2> HIDE DEF stored
  <2>2. (OnDisk(stored) <=> OnDisk(fdc')) /\ sectorOffset(stored) = sectorOffset(fdc')
    BY <2>1 DEF OnDisk, sectorOffset
  <2>3. QED
    BY <2>1, <2>2, Zenon DEF Flushed
<1>10. images' = IF i + 1 < SectorSize THEN images ELSE Flushed(fdc')
  BY <1>1, <1>2, <1>9
<1>11. QED
  BY <1>1, <1>2, <1>6, <1>7, <1>8, <1>10 DEF Transferring

-----------------------------------------------------------------------------
(* Every step of a call keeps the invariant. *)

LEMMA InitDriverKeeps ==
  ASSUME DriverInv, NEW d \in Drives, InitDriver(d)
  PROVE  DriverInv'
<1>1. FdcType' /\ MediaType' /\ Quiet'
  BY DEF DriverInv, InitDriver, fdcVars, FdcType, MediaType, Progress, Quiet
<1>2. CallType'
  BY Geometry DEF DriverInv, InitDriver, CallType
<1>3. Progress' /\ OnDrive' /\ HeadIsOnCurTrack'
  BY <1>1 DEF InitDriver, Progress, OnDrive, HeadIsOnCurTrack
<1>4. QED
  BY <1>1, <1>2, <1>3 DEF DriverInv

LEMMA BeginKeeps ==
  ASSUME DriverInv, NEW op \in {"read", "write"}, NEW d \in Drives, NEW b \in Blocks,
         NEW contents \in Sector, Begin(op, d, b, contents)
  PROVE  DriverInv'
<1>1. driveNum \in Drives /\ side(b) \in 0 .. 1
  BY Addressing DEF DriverInv, CallType, Begin
<1>2. /\ fdc' = [fdc EXCEPT !.drive = driveNum, !.side = side(b), !.motor = TRUE]
      /\ UNCHANGED <<images, mounted, readOnly>>
  BY DEF Begin, WriteControl
<1>3. /\ FdcType' /\ fdc'.drive = driveNum /\ fdc'.motor /\ fdc'.track = fdc.track
      /\ fdc'.status = fdc.status /\ fdc'.op = fdc.op
  BY <1>1, <1>2 DEF DriverInv, FdcType, Registers
<1>4. MediaType'
  BY <1>2 DEF DriverInv, MediaType
<1>5. CallType'
  BY <1>1 DEF DriverInv, Begin, CallType
<1>6. Progress' /\ OnDrive' /\ HeadIsOnCurTrack'
  BY <1>2, <1>3 DEF DriverInv, Begin, Progress, Quiet, OnDrive, HeadIsOnCurTrack
<1>7. QED
  BY <1>3, <1>4, <1>5, <1>6 DEF DriverInv

\* Restore or Seek is taken, or refused by a drive without a medium.
LEMMA StepCommand ==
  ASSUME DriverInv, pc \in {"seek", "seekCommand"}, NEW c \in {"restore", "seek"}, Command(c),
         n' = 0, pc' = "seekWait",
         UNCHANGED <<driveNum, curTrack, opened, i, call, buf, res, calls>>,
         c = "restore" => track(call.block) = 0,
         c = "seek" => fdc.data = track(call.block)
  PROVE  DriverInv'
<1>1. /\ FdcType' /\ UNCHANGED <<images, mounted, readOnly>>
      /\ fdc'.drive = fdc.drive /\ fdc'.motor = fdc.motor /\ fdc'.data = fdc.data
      /\ \/ Quiet' /\ NotReady(fdc)
         \/ /\ ~NotReady(fdc) /\ fdc'.op = c /\ fdc'.status = {"busy"}
            /\ fdc'.delay = StepDelay
  BY CommandEffect DEF DriverInv, Ops, Quiet
<1>2. fdc.motor /\ fdc.drive = driveNum
  BY DEF DriverInv, OnDrive
<1>3. MediaType' /\ CallType' /\ OnDrive' /\ HeadIsOnCurTrack'
  BY <1>1, <1>2, Geometry DEF DriverInv, MediaType, CallType, OnDrive, HeadIsOnCurTrack
<1>4. Progress'
  BY <1>1, <1>2, Geometry DEF Progress, NotReady, Pending
<1>5. QED
  BY <1>1, <1>3, <1>4 DEF DriverInv

LEMMA SeekKeeps ==
  ASSUME DriverInv, Seek
  PROVE  DriverInv'
<1>0. pc = "seek" /\ Quiet /\ call.block \in Blocks
  BY DEF DriverInv, Seek, Progress, CallType
<1>1. CASE /\ track(call.block) = curTrack
           /\ pc' = "address"
           /\ UNCHANGED <<fdcVars, n>>
  <2>1. /\ UNCHANGED <<fdc, images, mounted, readOnly, n>> /\ pc' = "address"
        /\ UNCHANGED <<driveNum, curTrack, opened, i, call, buf, res, calls>>
    BY <1>1 DEF Seek, fdcVars
  <2>2. FdcType' /\ MediaType' /\ CallType'
    BY <1>0, <2>1 DEF DriverInv, FdcType, MediaType, CallType
  <2>3. Progress' /\ OnDrive' /\ HeadIsOnCurTrack'
    BY <1>0, <2>1 DEF DriverInv, Progress, Quiet, OnDrive, HeadIsOnCurTrack
  <2>4. QED
    BY <2>2, <2>3 DEF DriverInv
<1>2. CASE /\ track(call.block) = 0 /\ curTrack # 0
           /\ Command("restore")
           /\ pc' = "seekWait" /\ n' = 0
  BY <1>0, <1>2, StepCommand DEF Seek
<1>3. CASE /\ track(call.block) \notin {0, curTrack}
           /\ WriteData(track(call.block) % ByteSize)
           /\ pc' = "seekCommand" /\ UNCHANGED n
  <2>1. track(call.block) \in Byte /\ WriteData(track(call.block))
    BY <1>0, <1>3, Addressing
  <2>2. /\ FdcType' /\ UNCHANGED <<images, mounted, readOnly>>
        /\ fdc'.drive = fdc.drive /\ fdc'.motor = fdc.motor
        /\ fdc'.status = fdc.status /\ fdc'.op = fdc.op /\ fdc'.data = track(call.block)
    BY <1>0, <2>1, DataTaken DEF DriverInv
  <2>3. UNCHANGED <<driveNum, curTrack, opened, i, call, buf, res, calls>>
    BY DEF Seek
  <2>4. MediaType' /\ CallType' /\ OnDrive' /\ HeadIsOnCurTrack'
    BY <1>0, <1>3, <2>2, <2>3 DEF DriverInv, MediaType, CallType, OnDrive, HeadIsOnCurTrack
  <2>5. Progress'
    BY <1>0, <1>3, <2>2, <2>3 DEF Progress, Quiet
  <2>6. QED
    BY <2>2, <2>4, <2>5 DEF DriverInv
<1>4. QED
  BY <1>1, <1>2, <1>3 DEF Seek

LEMMA SeekCommandKeeps ==
  ASSUME DriverInv, SeekCommand
  PROVE  DriverInv'
<1>1. fdc.data = track(call.block)
  BY DEF DriverInv, SeekCommand, Progress
<1>2. QED
  BY <1>1, StepCommand DEF SeekCommand

\* The last turn of WaitNotBusy: the head is on the call's track, if the drive is ready.
LEMMA SeekWaitKeeps ==
  ASSUME DriverInv, SeekWait
  PROVE  /\ DriverInv' /\ UNCHANGED <<images, mounted, readOnly, res>> /\ fdc'.side = fdc.side
         /\ \/ pc' = "seekWait" /\ curTrack' = curTrack
            \/ pc' = "address" /\ curTrack' = track(call.block)
<1>0. /\ pc = "seekWait" /\ ReadStatus /\ n' = n + 1
      /\ UNCHANGED <<driveNum, opened, i, call, buf, calls>>
      /\ pc' = IF ~Busy THEN "address" ELSE IF n + 1 >= MaxRetries THEN "idle" ELSE pc
      /\ res' = IF pc' = "idle" THEN -1 ELSE res
      /\ curTrack' = IF Busy THEN curTrack ELSE track(call.block)
  BY DEF SeekWait, Wait
<1>1. call.block \in Blocks /\ track(call.block) \in Byte /\ fdc.drive = driveNum /\ fdc.motor
  BY <1>0, Addressing DEF DriverInv, CallType, OnDrive
<1>2. CASE fdc.drive \notin mounted /\ Quiet /\ n = 0
  <2>1. UNCHANGED <<fdc, images, mounted, readOnly>>
    BY <1>0, <1>2, StatusIdle DEF Quiet
  <2>2. pc' = "address" /\ n' = 1 /\ res' = res /\ curTrack' = track(call.block)
    BY <1>0, <1>2, <2>1 DEF Quiet, Busy
  <2>3. FdcType' /\ MediaType' /\ CallType'
    BY <1>0, <1>1, <2>1, <2>2, Geometry DEF DriverInv, FdcType, MediaType, CallType, Byte
  <2>4. Progress' /\ OnDrive' /\ HeadIsOnCurTrack'
    BY <1>0, <1>1, <1>2, <2>1, <2>2 DEF Progress, Quiet, OnDrive, HeadIsOnCurTrack
  <2>5. QED
    BY <2>1, <2>2, <2>3, <2>4 DEF DriverInv
<1>3. CASE /\ fdc.drive \in mounted
           /\ \/ Pending("restore", StepDelay) /\ track(call.block) = 0
              \/ Pending("seek", StepDelay) /\ fdc.data = track(call.block)
  <2>1. /\ fdc.op \in {"restore", "seek"} /\ fdc.status = {"busy"}
        /\ fdc.delay \in Nat \ {0} /\ n + fdc.delay = StepDelay /\ n \in Nat
    BY <1>3 DEF Pending, DriverInv, CallType
  <2>2. /\ FdcType' /\ UNCHANGED <<images, mounted, readOnly>>
        /\ fdc'.drive = fdc.drive /\ fdc'.motor = fdc.motor /\ fdc'.data = fdc.data
        /\ fdc'.side = fdc.side
        /\ fdc.delay > 1 =>
             /\ fdc'.delay = fdc.delay - 1 /\ fdc'.op = fdc.op
             /\ fdc'.status = {"busy"} /\ fdc'.track = fdc.track
        /\ fdc.delay = 1 =>
             /\ fdc'.op = "none" /\ fdc'.status \cap {"busy", "drq"} = {}
             /\ fdc'.track = IF fdc.op = "restore" THEN 0 ELSE fdc.data
    BY <1>0, <2>1, StatusSteps DEF DriverInv
  <2>3. MediaType'
    BY <2>2 DEF DriverInv, MediaType
  <2>4. CASE fdc.delay > 1
    <3>1. Busy /\ n + 1 < MaxRetries
      BY <2>1, <2>2, <2>4, Geometry DEF Busy
    <3>2. pc' = "seekWait" /\ n' = n + 1 /\ n' <= MaxRetries /\ res' = res /\ curTrack' = curTrack
      BY <1>0, <2>1, <3>1, Geometry
    <3>3. CallType' /\ OnDrive' /\ HeadIsOnCurTrack'
      BY <1>0, <1>1, <2>1, <2>2, <3>2 DEF DriverInv, CallType, OnDrive, HeadIsOnCurTrack
    <3>4. Progress'
      BY <1>0, <1>3, <2>1, <2>2, <2>4, <3>2 DEF Progress, Pending
    <3>5. QED
      BY <2>2, <2>3, <3>2, <3>3, <3>4 DEF DriverInv
  <2>5. CASE fdc.delay = 1
    <3>1. ~Busy /\ Quiet' /\ fdc'.track = track(call.block)
      BY <1>3, <2>2, <2>5 DEF Busy, Quiet, Pending
    <3>2. pc' = "address" /\ n' = n + 1 /\ n' <= MaxRetries /\ res' = res
          /\ curTrack' = track(call.block)
      BY <1>0, <2>1, <3>1, Geometry
    <3>3. CallType' /\ OnDrive' /\ HeadIsOnCurTrack'
      BY <1>0, <1>1, <2>1, <2>2, <3>1, <3>2, Geometry
      DEF DriverInv, CallType, OnDrive, HeadIsOnCurTrack, Byte
    <3>4. Progress'
      BY <3>1, <3>2 DEF Progress
    <3>5. QED
      BY <2>2, <2>3, <3>2, <3>3, <3>4 DEF DriverInv
  <2>6. QED
    BY <2>1, <2>4, <2>5
<1>4. QED
  BY <1>0, <1>2, <1>3 DEF DriverInv, Progress

LEMMA AddressKeeps ==
  ASSUME DriverInv, Address
  PROVE  DriverInv'
<1>1. sector(call.block) \in 1 .. Sectors
  BY Addressing DEF DriverInv, CallType
<1>2. /\ fdc' = [fdc EXCEPT !.sector = sector(call.block)]
      /\ UNCHANGED <<images, mounted, readOnly>>
  BY DEF Address, WriteSector
<1>3. /\ FdcType' /\ fdc'.drive = fdc.drive /\ fdc'.motor = fdc.motor /\ fdc'.track = fdc.track
      /\ fdc'.status = fdc.status /\ fdc'.op = fdc.op
  BY <1>1, <1>2 DEF DriverInv, FdcType, Registers
<1>4. MediaType' /\ CallType'
  BY <1>2 DEF DriverInv, Address, MediaType, CallType
<1>5. Progress' /\ OnDrive' /\ HeadIsOnCurTrack'
  BY <1>2, <1>3 DEF DriverInv, Address, Progress, Quiet, OnDrive, HeadIsOnCurTrack
<1>6. QED
  BY <1>3, <1>4, <1>5 DEF DriverInv

LEMMA SectorCommandKeeps ==
  ASSUME DriverInv, SectorCommand
  PROVE  DriverInv'
<1>0. /\ pc = "command" /\ Command(call.op) /\ pc' = "waitDRQ" /\ n' = 0 /\ i' = 0
      /\ UNCHANGED <<driveNum, curTrack, opened, call, buf, res, calls>>
  BY DEF SectorCommand
<1>1. call.op \in {"read", "write"} /\ fdc.motor
  BY <1>0 DEF DriverInv, CallType, OnDrive
<1>2. /\ FdcType' /\ UNCHANGED <<images, mounted, readOnly>>
      /\ fdc'.drive = fdc.drive /\ fdc'.motor = fdc.motor /\ fdc'.track = fdc.track
      /\ fdc'.sector = fdc.sector
      /\ \/ Quiet'
         \/ /\ fdc'.op = call.op /\ fdc'.status = {"busy"} /\ ~NotReady(fdc)
            /\ fdc'.delay = TransferDelay /\ OnDisk(fdc)
  BY <1>0, <1>1, CommandEffect DEF DriverInv, Ops, Quiet
<1>3. MediaType' /\ CallType' /\ OnDrive' /\ HeadIsOnCurTrack'
  BY <1>0, <1>2, Geometry DEF DriverInv, MediaType, CallType, OnDrive, HeadIsOnCurTrack
<1>4. \/ Quiet'
      \/ Pending(call.op, TransferDelay)' /\ fdc'.drive \in mounted' /\ OnDisk(fdc')
  BY <1>0, <1>2, Geometry DEF Pending, NotReady, OnDisk
<1>5. Progress'
  BY <1>0, <1>4, Geometry DEF Progress
<1>6. QED
  BY <1>2, <1>3, <1>5 DEF DriverInv

\* WaitDRQ: the command was refused, is still pending, or asks for the transfer.
LEMMA WaitDRQKeeps ==
  ASSUME DriverInv, WaitDRQ
  PROVE  /\ DriverInv' /\ UNCHANGED <<images, mounted, readOnly>>
         /\ fdc'.track = fdc.track /\ fdc'.side = fdc.side /\ fdc'.sector = fdc.sector
         /\ \/ pc' = "idle" /\ res' = -2 /\ Quiet
            \/ pc' = "waitDRQ" /\ res' = res /\ ~Quiet'
            \/ /\ pc' = "transfer" /\ res' = res /\ OnDisk(fdc) /\ fdc.drive \in mounted
               /\ call.op = "read" => fdc'.buf = images[fdc.drive][sectorOffset(fdc)]
<1>0. /\ pc = "waitDRQ" /\ ReadStatus /\ n' = n + 1
      /\ UNCHANGED <<driveNum, curTrack, opened, i, call, buf, calls>>
      /\ pc' = IF "drq" \in fdc'.status THEN "transfer"
               ELSE IF ~Busy \/ n + 1 >= MaxRetries THEN "idle" ELSE pc
      /\ res' = IF pc' = "idle" THEN -2 ELSE res
  BY DEF WaitDRQ, Wait
<1>1. i = 0 /\ call.op \in {"read", "write"}
  BY <1>0 DEF DriverInv, Progress, CallType
<1>2. CASE Quiet /\ n = 0
  <2>1. UNCHANGED <<fdc, images, mounted, readOnly>>
    BY <1>0, <1>2, StatusIdle DEF Quiet
  <2>2. pc' = "idle" /\ n' = 1 /\ res' = -2
    BY <1>0, <1>2, <2>1 DEF Quiet, Busy
  <2>3. FdcType' /\ MediaType' /\ CallType'
    BY <1>0, <2>1, <2>2, Geometry DEF DriverInv, FdcType, MediaType, CallType
  <2>4. Progress' /\ OnDrive' /\ HeadIsOnCurTrack'
    BY <1>0, <1>2, <2>1, <2>2 DEF DriverInv, Progress, Quiet, OnDrive, HeadIsOnCurTrack
  <2>5. QED
    BY <1>2, <2>1, <2>2, <2>3, <2>4 DEF DriverInv
<1>3. CASE Pending(call.op, TransferDelay) /\ fdc.drive \in mounted /\ OnDisk(fdc)
  <2>1. /\ fdc.op \in {"read", "write"} /\ fdc.op = call.op /\ fdc.status = {"busy"}
        /\ fdc.delay \in Nat \ {0} /\ n + fdc.delay = TransferDelay /\ n \in Nat
    BY <1>1, <1>3 DEF Pending, DriverInv, CallType
  <2>2. /\ FdcType' /\ UNCHANGED <<images, mounted, readOnly>>
        /\ fdc'.drive = fdc.drive /\ fdc'.motor = fdc.motor
        /\ fdc'.sector = fdc.sector /\ fdc'.track = fdc.track /\ fdc'.side = fdc.side
        /\ fdc.delay > 1 =>
             fdc'.delay = fdc.delay - 1 /\ fdc'.op = fdc.op /\ fdc'.status = {"busy"}
        /\ fdc.delay = 1 =>
             /\ fdc'.op = "none" /\ fdc'.status = {"busy", "drq"} /\ fdc'.pos = 0
             /\ fdc'.writing = (fdc.op = "write")
             /\ fdc.op = "read" => fdc'.buf = images[fdc.drive][sectorOffset(fdc)]
    BY <1>0, <1>3, <2>1, StatusReadies DEF DriverInv
  <2>3. MediaType'
    BY <2>2 DEF DriverInv, MediaType
  <2>4. CASE fdc.delay > 1
    <3>1. "drq" \notin fdc'.status /\ Busy /\ n + 1 < MaxRetries
      BY <2>1, <2>2, <2>4, Geometry DEF Busy
    <3>2. pc' = "waitDRQ" /\ n' = n + 1 /\ n' <= MaxRetries /\ res' = res
      BY <1>0, <2>1, <3>1, Geometry
    <3>3. CallType' /\ OnDrive' /\ HeadIsOnCurTrack'
      BY <1>0, <1>1, <2>1, <2>2, <3>2 DEF DriverInv, CallType, OnDrive, HeadIsOnCurTrack
    <3>4. Pending(call.op, TransferDelay)' /\ fdc'.drive \in mounted' /\ OnDisk(fdc')
      BY <1>0, <1>3, <2>1, <2>2, <2>4, <3>2 DEF Pending, OnDisk
    <3>5. Progress'
      BY <1>0, <1>1, <3>2, <3>4, Geometry DEF Progress
    <3>6. ~Quiet'
      BY <1>1, <3>4 DEF Pending, Quiet
    <3>7. QED
      BY <2>2, <2>3, <3>2, <3>3, <3>5, <3>6 DEF DriverInv
  <2>5. CASE fdc.delay = 1
    <3>1. "drq" \in fdc'.status /\ pc' = "transfer"
      BY <1>0, <2>2, <2>5
    <3>2. n' = n + 1 /\ n' <= MaxRetries /\ res' = res
      BY <1>0, <2>1, <3>1, Geometry
    <3>3. CallType' /\ OnDrive' /\ HeadIsOnCurTrack'
      BY <1>0, <1>1, <2>1, <2>2, <3>1, <3>2 DEF DriverInv, CallType, OnDrive, HeadIsOnCurTrack
    <3>4. Transferring'
      BY <1>0, <1>1, <2>1, <2>2, <2>5, Geometry DEF Transferring
    <3>5. Progress'
      BY <1>0, <1>1, <3>1, <3>4, Geometry DEF Progress
    <3>6. QED
      BY <1>3, <2>1, <2>2, <2>3, <2>5, <3>1, <3>2, <3>3, <3>5 DEF DriverInv
  <2>6. QED
    BY <2>1, <2>4, <2>5
<1>4. QED
  BY <1>0, <1>2, <1>3 DEF DriverInv, Progress

LEMMA TransferKeeps ==
  ASSUME DriverInv, Transfer
  PROVE  DriverInv'
<1>0. /\ pc = "transfer" /\ i' = i + 1
      /\ IF i' < SectorSize THEN UNCHANGED <<pc, n>> ELSE pc' = "finish" /\ n' = 0
      /\ UNCHANGED <<driveNum, curTrack, opened, call, res, calls>>
  BY DEF Transfer
<1>1. /\ Transferring /\ i \in 0 .. (SectorSize - 1) /\ i \in Nat
      /\ call.op \in {"read", "write"} /\ buf \in Sector
  BY <1>0, Geometry DEF DriverInv, Progress, CallType
<1>2. /\ FdcType' /\ MediaType' /\ buf' \in Sector /\ UNCHANGED mounted
      /\ fdc'.drive = fdc.drive /\ fdc'.motor = fdc.motor /\ fdc'.track = fdc.track
      /\ fdc'.op = "none" /\ fdc'.pos = i + 1
      /\ fdc'.status = IF i + 1 < SectorSize THEN {"busy", "drq"} ELSE {}
      /\ i + 1 < SectorSize => (fdc'.writing <=> call.op = "write")
  <2>1. CASE call.op = "read" /\ ReadData /\ buf' = [buf EXCEPT ![i] = fdc'.data]
    <3>1. /\ FdcType' /\ UNCHANGED <<images, mounted, readOnly>>
          /\ fdc'.drive = fdc.drive /\ fdc'.motor = fdc.motor /\ fdc'.track = fdc.track
          /\ fdc'.op = "none" /\ fdc'.pos = i + 1 /\ fdc'.writing = FALSE
          /\ fdc'.status = IF i + 1 < SectorSize THEN {"busy", "drq"} ELSE {}
      BY <1>1, <2>1, ByteRead DEF DriverInv
    <3>2. MediaType'
      BY <3>1 DEF DriverInv, MediaType
    <3>3. fdc'.data \in Byte
      BY <3>1 DEF FdcType, Registers
    <3>4. buf' \in Sector
      BY <1>1, <2>1, <3>3 DEF Sector
    <3>5. QED
      BY <2>1, <3>1, <3>2, <3>4
  <2>2. CASE call.op = "write" /\ WriteData(buf[i]) /\ UNCHANGED buf
    <3>1. buf[i] \in Byte
      BY <1>1 DEF Sector
    <3>2. QED
      BY <1>1, <2>2, <3>1, ByteWritten DEF DriverInv
  <2>3. QED
    BY <2>1, <2>2 DEF Transfer
<1>3. CASE i + 1 < SectorSize
  <2>1. pc' = "transfer" /\ n' = n /\ i' \in 0 .. (SectorSize - 1) /\ i' \in 0 .. SectorSize
    BY <1>0, <1>1, <1>3, Geometry
  <2>2. CallType' /\ OnDrive' /\ HeadIsOnCurTrack'
    BY <1>0, <1>2, <2>1 DEF DriverInv, CallType, OnDrive, HeadIsOnCurTrack
  <2>3. fdc'.writing \in BOOLEAN
    BY <1>2 DEF FdcType, Registers
  <2>4. Transferring'
    BY <1>0, <1>2, <1>3, <2>3 DEF Transferring
  <2>5. Progress'
    BY <2>1, <2>4 DEF Progress
  <2>6. QED
    BY <1>2, <2>2, <2>5 DEF DriverInv
<1>4. CASE ~(i + 1 < SectorSize)
  <2>1. pc' = "finish" /\ n' = 0 /\ i' \in 0 .. SectorSize
    BY <1>0, <1>1, <1>4, Geometry
  <2>2. CallType' /\ OnDrive' /\ HeadIsOnCurTrack'
    BY <1>0, <1>2, <2>1, Geometry DEF DriverInv, CallType, OnDrive, HeadIsOnCurTrack
  <2>3. Quiet'
    BY <1>2, <1>4 DEF Quiet
  <2>4. Progress'
    BY <2>1, <2>3 DEF Progress
  <2>5. QED
    BY <1>2, <2>2, <2>4 DEF DriverInv
<1>5. QED
  BY <1>3, <1>4

\* After the transfer the controller is quiet: Finish and Check read the status once.
LEMMA FinishKeeps ==
  ASSUME DriverInv, Finish
  PROVE  DriverInv' /\ UNCHANGED <<fdc, images, mounted, readOnly, res>> /\ pc' = "check"
<1>0. /\ pc = "finish" /\ ReadStatus /\ n' = n + 1
      /\ UNCHANGED <<driveNum, curTrack, opened, i, call, buf, calls>>
      /\ pc' = IF ~Busy THEN "check" ELSE IF n + 1 >= MaxRetries THEN "idle" ELSE pc
      /\ res' = IF pc' = "idle" THEN -4 ELSE res
  BY DEF Finish, Wait
<1>1. Quiet /\ n = 0
  BY <1>0 DEF DriverInv, Progress
<1>2. UNCHANGED <<fdc, images, mounted, readOnly>>
  BY <1>0, <1>1, StatusIdle DEF Quiet
<1>3. pc' = "check" /\ n' = 1 /\ res' = res
  BY <1>0, <1>1, <1>2 DEF Quiet, Busy
<1>4. FdcType' /\ MediaType' /\ CallType'
  BY <1>0, <1>2, <1>3, Geometry DEF DriverInv, FdcType, MediaType, CallType
<1>5. Progress' /\ OnDrive' /\ HeadIsOnCurTrack'
  BY <1>0, <1>1, <1>2, <1>3 DEF DriverInv, Progress, Quiet, OnDrive, HeadIsOnCurTrack
<1>6. QED
  BY <1>2, <1>3, <1>4, <1>5 DEF DriverInv

LEMMA CheckKeeps ==
  ASSUME DriverInv, Check
  PROVE  DriverInv' /\ UNCHANGED <<fdc, images, mounted, readOnly>>
<1>0. /\ pc = "check" /\ pc' = "idle" /\ ReadStatus /\ res' \in -7 .. 0
      /\ UNCHANGED <<driveNum, curTrack, opened, n, i, call, buf, calls>>
  BY DEF Check
<1>1. Quiet
  BY <1>0 DEF DriverInv, Progress
<1>2. UNCHANGED <<fdc, images, mounted, readOnly>>
  BY <1>0, <1>1, StatusIdle DEF Quiet
<1>3. FdcType' /\ MediaType' /\ CallType'
  BY <1>0, <1>2 DEF DriverInv, FdcType, MediaType, CallType
<1>4. Progress' /\ OnDrive' /\ HeadIsOnCurTrack'
  BY <1>0, <1>1, <1>2 DEF DriverInv, Progress, Quiet, OnDrive, HeadIsOnCurTrack
<1>5. QED
  BY <1>2, <1>3, <1>4 DEF DriverInv

-----------------------------------------------------------------------------
(* The theorems. *)

LEMMA InitEstablishes ==
  DriverInit => DriverInv
<1> SUFFICES ASSUME DriverInit PROVE DriverInv
  OBVIOUS
<1>1. FdcType
  BY Geometry, ZeroIsSector DEF DriverInit, FdcInit, FdcType, Registers, Ops, Status, Drives, Byte
<1>2. MediaType
  BY ControllerConstants DEF DriverInit, FdcInit, MediaType, BlockRange
<1>3. CallType
  BY Geometry, ZeroIsSector DEF DriverInit, CallType, NoCall, Drives
<1>4. Progress /\ OnDrive /\ HeadIsOnCurTrack
  BY DEF DriverInit, FdcInit, Progress, Quiet, OnDrive, HeadIsOnCurTrack
<1>5. QED
  BY <1>1, <1>2, <1>3, <1>4 DEF DriverInv

LEMMA NextKeeps ==
  ASSUME DriverInv, [Next]_vars
  PROVE  DriverInv'
<1>1. ASSUME NEW d \in Drives, InitDriver(d) PROVE DriverInv'
  BY <1>1, InitDriverKeeps
<1>2. ASSUME NEW d \in Drives, NEW b \in Blocks, Begin("read", d, b, ZeroSector)
      PROVE  DriverInv'
  BY <1>2, BeginKeeps, ZeroIsSector
<1>3. ASSUME NEW d \in Drives, NEW b \in Blocks, NEW p \in Payloads, Begin("write", d, b, p)
      PROVE  DriverInv'
  BY <1>3, BeginKeeps, DriverConstants
<1>4. CASE Seek
  BY <1>4, SeekKeeps
<1>5. CASE SeekCommand
  BY <1>5, SeekCommandKeeps
<1>6. CASE SeekWait
  BY <1>6, SeekWaitKeeps
<1>7. CASE Address
  BY <1>7, AddressKeeps
<1>8. CASE SectorCommand
  BY <1>8, SectorCommandKeeps
<1>9. CASE WaitDRQ
  BY <1>9, WaitDRQKeeps
<1>10. CASE Transfer
  BY <1>10, TransferKeeps
<1>11. CASE Finish
  BY <1>11, FinishKeeps
<1>12. CASE Check
  BY <1>12, CheckKeeps
<1>13. CASE UNCHANGED vars
  BY <1>13 DEF vars, fdcVars, drvVars, DriverInv, FdcType, MediaType, CallType, Progress,
               Quiet, Pending, Transferring, OnDrive, HeadIsOnCurTrack
<1>14. QED
  BY <1>1, <1>2, <1>3, <1>4, <1>5, <1>6, <1>7, <1>8, <1>9, <1>10, <1>11, <1>12, <1>13 DEF Next

\* The invariant that relates the driver's place in a call to the controller's state.
THEOREM DriverInvariance == Spec => []DriverInv
<1>1. DriverInit => DriverInv
  BY InitEstablishes
<1>2. DriverInv /\ [Next]_vars => DriverInv'
  BY NextKeeps
<1>3. QED
  BY <1>1, <1>2, PTL DEF Spec

\* Registers, images and the driver's globals keep their ranges, the retries among them.
THEOREM TypeCorrectness == Spec => []TypeOK
<1>1. DriverInv => TypeOK
  <2> SUFFICES ASSUME DriverInv PROVE TypeOK
    OBVIOUS
  <2>1. /\ fdc.status \subseteq Status /\ {fdc.track, fdc.data} \subseteq Byte
        /\ fdc.sector \in 1 .. Sectors
        /\ fdc.drive \in Drives /\ fdc.side \in 0 .. 1 /\ fdc.motor \in BOOLEAN
        /\ fdc.buf \in Sector /\ fdc.pos \in 0 .. SectorSize /\ fdc.writing \in BOOLEAN
        /\ fdc.op \in {"none", "restore", "seek", "read", "write"}
        /\ fdc.delay \in Nat
    BY DEF DriverInv, FdcType, Registers, Ops
  <2>2. QED
    BY <2>1 DEF DriverInv, MediaType, CallType, BlockRange, TypeOK
<1>2. QED
  BY <1>1, DriverInvariance, PTL

\* Seek's shortcut is safe: between seeks curTrack is unknown or where the head of a
\* ready drive is, with one track register for both drives and seeks that fail unseen.
THEOREM CurTrackIsTheHead == Spec => []HeadIsOnCurTrack
<1>1. DriverInv => HeadIsOnCurTrack
  BY DEF DriverInv
<1>2. QED
  BY <1>1, DriverInvariance, PTL

\* However a call ends, it leaves no command and no transfer behind in the controller.
THEOREM CallsEndQuiet == Spec => []QuietBetweenCalls
<1>1. DriverInv => QuietBetweenCalls
  BY DEF DriverInv, Progress, Quiet, QuietBetweenCalls
<1>2. QED
  BY <1>1, DriverInvariance, PTL

\* completePendingOp finds a mounted image and a sector of it.
THEOREM AcceptedCommandsComplete == Spec => []AcceptedHasMedium
<1>1. DriverInv => AcceptedHasMedium
  BY DEF DriverInv, CallType, Progress, Quiet, Pending, Transferring, AcceptedHasMedium
<1>2. QED
  BY <1>1, DriverInvariance, PTL

-----------------------------------------------------------------------------
(* The driver implements the atomic block device: where the controller's    *)
(* registers point and what its buffer holds during a call.                 *)

AfterSeek    == {"address", "command", "waitDRQ", "transfer", "finish", "check"}
AfterAddress == AfterSeek \ {"address"}
Accepted     == {"transfer", "finish", "check"}

\* The open drive has the block of the call.
Reachable == driveNum \in mounted /\ call.block < DiskBlocks

\* The registers are those of the call's block, from the point where they are set.
Addressed ==
  /\ pc # "idle" => fdc.side = side(call.block)
  /\ pc \in AfterSeek => curTrack = track(call.block)
  /\ pc \in AfterAddress => fdc.sector = sector(call.block)

\* The controller refuses exactly the calls that the device must fail.
Judged ==
  /\ pc = "waitDRQ" /\ Quiet => ~Reachable
  /\ pc \in Accepted => Reachable
  /\ pc \in {"finish", "check"} => fdc.status = {}

\* The bytes moved so far are the block's, or the caller's.
Moved ==
  /\ pc = "transfer" => \A j \in 0 .. (i - 1) : fdc.buf[j] = buf[j]
  /\ call.op = "read" =>
       /\ pc = "transfer" => fdc.buf = images[driveNum][call.block]
       /\ pc \in {"finish", "check"} => buf = images[driveNum][call.block]

CallInv == Addressed /\ Judged /\ Moved

DeviceStep == Device!Next \/ UNCHANGED Device!vars

-----------------------------------------------------------------------------
(* The registers and the block. *)

LEMMA PointsAtBlock ==
  ASSUME DriverInv, Addressed, pc \in AfterAddress, driveNum \in mounted
  PROVE  /\ sectorOffset(fdc) = call.block
         /\ OnDisk(fdc) <=> call.block < DiskBlocks
         /\ fdc.drive = driveNum
<1>1. call.block \in Blocks /\ pc \notin {"idle", "seekCommand", "seekWait"} /\ pc \in AfterSeek
  BY DEF DriverInv, CallType, AfterAddress, AfterSeek
<1>2. /\ fdc.side = side(call.block) /\ curTrack = track(call.block)
      /\ fdc.sector = sector(call.block)
  BY <1>1 DEF Addressed
<1>3. track(call.block) \in Nat /\ fdc.sector \in 1 .. Sectors
  BY <1>1, <1>2, Addressing, Geometry DEF Byte
<1>4. fdc.track = track(call.block)
  BY <1>1, <1>2, <1>3 DEF DriverInv, HeadIsOnCurTrack
<1>5. sectorOffset(fdc) = call.block
  BY <1>1, <1>2, <1>4, OffsetOfBlock
<1>6. OnDisk(fdc) <=> call.block < DiskBlocks
  BY <1>1, <1>3, <1>4, Addressing DEF OnDisk
<1>7. QED
  BY <1>1, <1>5, <1>6 DEF DriverInv, OnDrive

\* Steps inside a call that the device does not see.
LEMMA Stutters ==
  ASSUME pc # "idle", pc' # "idle", UNCHANGED <<driveNum, images, mounted, readOnly, call>>,
         call.op # "read" => buf' = buf,
         call.op = "write" => (pc \in {"finish", "check"} <=> pc' \in {"finish", "check"})
  PROVE  UNCHANGED Device!vars
<1>1. DeviceCall' = DeviceCall
  BY DEF DeviceCall
<1>2. DeviceResult' = DeviceResult
  BY DEF DeviceResult
<1>3. DeviceStored' = DeviceStored
  BY DEF DeviceStored
<1>4. QED
  BY <1>1, <1>2, <1>3 DEF Device!vars

-----------------------------------------------------------------------------
(* Every step of the driver is a step of the device, or none. *)

LEMMA InitDriverDevice ==
  ASSUME DriverInv, CallInv, NEW d \in Drives, InitDriver(d)
  PROVE  CallInv' /\ DeviceStep
<1>1. CallInv'
  BY DEF InitDriver, CallInv, Addressed, Judged, Moved, AfterSeek, AfterAddress, Accepted
<1>2. /\ DeviceCall = [op |-> "none"] /\ DeviceCall' = DeviceCall
      /\ DeviceStored' = DeviceStored /\ DeviceResult' = DeviceResult
  BY DEF InitDriver, DeviceCall, DeviceStored, DeviceResult
<1>3. Device!Open(d)
  BY <1>2 DEF Device!Open, Device!NoCall, InitDriver, fdcVars
<1>4. QED
  BY <1>1, <1>3 DEF DeviceStep, Device!Next

LEMMA BeginDevice ==
  ASSUME DriverInv, CallInv, NEW op \in {"read", "write"}, NEW d \in Drives, NEW b \in Blocks,
         NEW contents \in Sector, Begin(op, d, b, contents)
  PROVE  CallInv' /\ DeviceStep
<1>1. /\ pc = "idle" /\ pc' = "seek" /\ call' = [op |-> op, block |-> b, driver |-> d]
      /\ buf' = contents /\ driveNum' = driveNum /\ driveNum \in Drives
      /\ fdc' = [fdc EXCEPT !.drive = driveNum, !.side = side(b), !.motor = TRUE]
      /\ UNCHANGED <<images, mounted, readOnly>>
  BY DEF DriverInv, CallType, Begin, WriteControl
<1>2. fdc'.side = side(b)
  BY <1>1 DEF DriverInv, FdcType, Registers
<1>3. CallInv'
  BY <1>1, <1>2 DEF CallInv, Addressed, Judged, Moved, AfterSeek, AfterAddress, Accepted
<1>4. /\ DeviceCall = [op |-> "none"] /\ DeviceStored' = FALSE
      /\ DeviceResult' = [ok |-> FALSE, op |-> "none"]
  BY <1>1 DEF DeviceCall, DeviceStored, DeviceResult
<1>5. DeviceCall'.op = op /\ DeviceCall'.block = b
  BY <1>1 DEF DeviceCall
<1>6. b \in Nat
  BY Addressing
<1>7. Device!Begin
  BY <1>1, <1>4, <1>5, <1>6 DEF Device!Begin, Device!NoCall, Device!NoResult
<1>8. QED
  BY <1>3, <1>7 DEF DeviceStep, Device!Next

LEMMA SeekDevice ==
  ASSUME DriverInv, DriverInv', CallInv, Seek \/ SeekCommand
  PROVE  CallInv' /\ DeviceStep
<1>1. /\ pc \in {"seek", "seekCommand"} /\ pc' \in {"seekCommand", "seekWait", "address"}
      /\ UNCHANGED <<driveNum, curTrack, call, buf>>
      /\ pc' = "address" => track(call.block) = curTrack
  BY DEF Seek, SeekCommand
<1>2. fdc'.side = fdc.side /\ UNCHANGED <<images, mounted, readOnly>>
  <2>1. ASSUME NEW c \in {"restore", "seek"}, Command(c)
        PROVE  fdc'.side = fdc.side /\ UNCHANGED <<images, mounted, readOnly>>
    BY <2>1, CommandEffect DEF DriverInv, Ops
  <2>2. ASSUME NEW b, WriteData(b), Quiet
        PROVE  fdc'.side = fdc.side /\ UNCHANGED <<images, mounted, readOnly>>
    <3>1. fdc' = [fdc EXCEPT !.data = b] /\ UNCHANGED <<images, mounted, readOnly>>
      BY <2>2 DEF WriteData, Quiet
    <3>2. QED
      BY <3>1 DEF DriverInv, FdcType, Registers
  <2>3. Quiet
    BY <1>1 DEF DriverInv, Progress
  <2>4. QED
    BY <2>1, <2>2, <2>3 DEF Seek, SeekCommand, fdcVars
<1>3. CallInv'
  BY <1>1, <1>2 DEF CallInv, Addressed, Judged, Moved, AfterSeek, AfterAddress, Accepted
<1>4. UNCHANGED Device!vars
  BY <1>1, <1>2, Stutters
<1>5. QED
  BY <1>3, <1>4 DEF DeviceStep

LEMMA SeekWaitDevice ==
  ASSUME DriverInv, CallInv, SeekWait
  PROVE  CallInv' /\ DeviceStep
<1>1. /\ UNCHANGED <<images, mounted, readOnly>> /\ fdc'.side = fdc.side
      /\ \/ pc' = "seekWait" /\ curTrack' = curTrack
         \/ pc' = "address" /\ curTrack' = track(call.block)
  BY SeekWaitKeeps
<1>2. pc = "seekWait" /\ UNCHANGED <<driveNum, call, buf>>
  BY DEF SeekWait
<1>3. CallInv'
  BY <1>1, <1>2 DEF CallInv, Addressed, Judged, Moved, AfterSeek, AfterAddress, Accepted
<1>4. UNCHANGED Device!vars
  BY <1>1, <1>2, Stutters
<1>5. QED
  BY <1>3, <1>4 DEF DeviceStep

LEMMA AddressDevice ==
  ASSUME DriverInv, CallInv, Address
  PROVE  CallInv' /\ DeviceStep
<1>1. /\ pc = "address" /\ pc' = "command" /\ UNCHANGED <<driveNum, curTrack, call, buf>>
      /\ fdc' = [fdc EXCEPT !.sector = sector(call.block)]
      /\ UNCHANGED <<images, mounted, readOnly>>
  BY DEF Address, WriteSector
<1>2. fdc'.side = fdc.side /\ fdc'.sector = sector(call.block)
  BY <1>1 DEF DriverInv, FdcType, Registers
<1>3. CallInv'
  BY <1>1, <1>2 DEF CallInv, Addressed, Judged, Moved, AfterSeek, AfterAddress, Accepted
<1>4. UNCHANGED Device!vars
  BY <1>1, Stutters
<1>5. QED
  BY <1>3, <1>4 DEF DeviceStep

\* A refused command is one for a block the drive does not have.
LEMMA SectorCommandDevice ==
  ASSUME DriverInv, CallInv, SectorCommand
  PROVE  CallInv' /\ DeviceStep
<1>1. /\ pc = "command" /\ pc' = "waitDRQ" /\ Command(call.op)
      /\ UNCHANGED <<driveNum, curTrack, call, buf>>
  BY DEF SectorCommand
<1>2. call.op \in {"read", "write"} /\ fdc.motor /\ fdc.drive = driveNum
  BY <1>1 DEF DriverInv, CallType, OnDrive
<1>3. /\ UNCHANGED <<images, mounted, readOnly>>
      /\ fdc'.side = fdc.side /\ fdc'.sector = fdc.sector
      /\ \/ NotReady(fdc) \/ ~OnDisk(fdc)
         \/ fdc'.op = call.op
  BY <1>1, <1>2, CommandEffect DEF DriverInv, Ops
<1>4. NotReady(fdc) \/ ~OnDisk(fdc) => ~Reachable
  <2>1. CASE NotReady(fdc)
    BY <1>2, <2>1 DEF NotReady, Reachable
  <2>2. CASE ~OnDisk(fdc)
    BY <1>1, <2>2, PointsAtBlock DEF CallInv, Reachable, AfterAddress, AfterSeek
  <2>3. QED
    BY <2>1, <2>2
<1>5. Addressed' /\ Moved'
  BY <1>1, <1>3 DEF CallInv, Addressed, Moved, AfterSeek, AfterAddress
<1>6. Judged'
  BY <1>1, <1>2, <1>3, <1>4 DEF Judged, Quiet, Reachable, Accepted
<1>7. UNCHANGED Device!vars
  BY <1>1, <1>3, Stutters
<1>8. QED
  BY <1>5, <1>6, <1>7 DEF CallInv, DeviceStep

LEMMA WaitDRQDevice ==
  ASSUME DriverInv, CallInv, WaitDRQ
  PROVE  CallInv' /\ DeviceStep
<1>1. pc = "waitDRQ" /\ UNCHANGED <<driveNum, curTrack, i, call, buf>>
  BY DEF WaitDRQ
<1>2. /\ UNCHANGED <<images, mounted, readOnly>>
      /\ fdc'.side = fdc.side /\ fdc'.sector = fdc.sector
      /\ \/ pc' = "idle" /\ res' = -2 /\ Quiet
         \/ pc' = "waitDRQ" /\ ~Quiet'
         \/ /\ pc' = "transfer" /\ OnDisk(fdc) /\ fdc.drive \in mounted
            /\ call.op = "read" => fdc'.buf = images[fdc.drive][sectorOffset(fdc)]
  BY WaitDRQKeeps
<1>3. i = 0 /\ call.op \in {"read", "write"} /\ fdc.drive = driveNum
  BY <1>1 DEF DriverInv, Progress, CallType, OnDrive
<1>4. Addressed'
  BY <1>1, <1>2 DEF CallInv, Addressed, AfterSeek, AfterAddress
<1>5. CASE pc' = "idle" /\ res' = -2 /\ Quiet
  <2>1. CallInv'
    BY <1>4, <1>5 DEF CallInv, Judged, Moved, Accepted
  <2>2. ~Reachable
    BY <1>1, <1>5 DEF CallInv, Judged
  <2>3. /\ DeviceCall # [op |-> "none"] /\ DeviceCall.op = call.op
        /\ DeviceCall.block = call.block /\ DeviceCall' = [op |-> "none"]
        /\ DeviceStored' = FALSE
    BY <1>1, <1>3, <1>5 DEF DeviceCall, DeviceStored
  <2>4. DeviceResult' = [ok |-> FALSE, op |-> call.op]
    BY <1>1, <1>3, <1>5 DEF DeviceResult
  <2>5. Device!Fail
    BY <1>1, <1>2, <2>2, <2>3, <2>4
    DEF Device!Fail, Device!Return, Device!NoCall, Device!Accessible, Reachable
  <2>6. QED
    BY <2>1, <2>5 DEF DeviceStep, Device!Next
<1>6. CASE pc' = "waitDRQ" /\ ~Quiet'
  <2>1. CallInv'
    BY <1>4, <1>6 DEF CallInv, Judged, Moved, Accepted
  <2>2. UNCHANGED Device!vars
    BY <1>1, <1>2, <1>6, Stutters
  <2>3. QED
    BY <2>1, <2>2 DEF DeviceStep
<1>7. CASE /\ pc' = "transfer" /\ OnDisk(fdc) /\ fdc.drive \in mounted
           /\ call.op = "read" => fdc'.buf = images[fdc.drive][sectorOffset(fdc)]
  <2>1. sectorOffset(fdc) = call.block /\ Reachable
    BY <1>1, <1>3, <1>7, PointsAtBlock DEF CallInv, Reachable, AfterAddress, AfterSeek
  <2>2. Judged'
    BY <1>1, <1>2, <1>7, <2>1 DEF Judged, Accepted, Reachable
  <2>3. Moved'
    BY <1>1, <1>2, <1>3, <1>7, <2>1 DEF Moved
  <2>4. UNCHANGED Device!vars
    BY <1>1, <1>2, <1>7, Stutters
  <2>5. QED
    BY <1>4, <2>2, <2>3, <2>4 DEF CallInv, DeviceStep
<1>8. QED
  BY <1>2, <1>5, <1>6, <1>7

LEMMA ReadByteDevice ==
  ASSUME DriverInv, CallInv, Transfer, call.op = "read"
  PROVE  CallInv' /\ DeviceStep
<1>1. /\ pc = "transfer" /\ ReadData /\ buf' = [buf EXCEPT ![i] = fdc'.data] /\ i' = i + 1
      /\ UNCHANGED <<driveNum, curTrack, call>>
      /\ IF i' < SectorSize THEN pc' = pc ELSE pc' = "finish"
  BY DEF Transfer
<1>2. /\ Transferring /\ i \in 0 .. (SectorSize - 1) /\ i \in Nat
      /\ buf \in Sector /\ fdc.buf \in Sector /\ Reachable
      /\ fdc.buf = images[driveNum][call.block] /\ \A j \in 0 .. (i - 1) : fdc.buf[j] = buf[j]
  BY <1>1, Geometry
  DEF DriverInv, Progress, CallType, FdcType, Registers, CallInv, Judged, Moved, Accepted
<1>3. /\ fdc' = [fdc EXCEPT !.data = fdc.buf[fdc.pos], !.pos = fdc.pos + 1,
                           !.status = TransferStatus(fdc)]
      /\ UNCHANGED <<images, mounted, readOnly>>
  BY <1>1, <1>2 DEF ReadData, Transferring
<1>4. /\ fdc'.buf = fdc.buf /\ fdc'.data = fdc.buf[i]
      /\ fdc'.side = fdc.side /\ fdc'.sector = fdc.sector
  BY <1>2, <1>3 DEF DriverInv, FdcType, Registers, Transferring
<1>5. fdc'.status = IF i + 1 < SectorSize THEN {"busy", "drq"} ELSE {}
  BY <1>1, <1>2, ByteRead DEF DriverInv
<1>6. \A j \in 0 .. i : fdc'.buf[j] = buf'[j]
  <2> TAKE j \in 0 .. i
  <2>1. CASE j = i
    BY <1>1, <1>2, <1>4, <2>1 DEF Sector
  <2>2. CASE j # i
    BY <1>1, <1>2, <1>4, <2>2 DEF Sector
  <2>3. QED
    BY <2>1, <2>2
<1>7. Addressed' /\ Judged'
  BY <1>1, <1>2, <1>3, <1>4, <1>5
  DEF CallInv, Addressed, Judged, Reachable, AfterSeek, AfterAddress, Accepted
<1>8. CASE i + 1 < SectorSize
  <2>1. pc' = "transfer" /\ i' - 1 = i
    BY <1>1, <1>2, <1>8
  <2>2. Moved'
    BY <1>1, <1>2, <1>3, <1>4, <1>6, <2>1 DEF Moved
  <2>3. UNCHANGED Device!vars
    BY <1>1, <1>3, <2>1, Stutters
  <2>4. QED
    BY <1>7, <2>2, <2>3 DEF CallInv, DeviceStep
<1>9. CASE ~(i + 1 < SectorSize)
  <2>1. pc' = "finish" /\ i = SectorSize - 1
    BY <1>1, <1>2, <1>9, Geometry
  <2>2. fdc'.data \in Byte
    BY <1>2, <1>4 DEF Sector
  <2>3. buf' \in Sector
    BY <1>1, <1>2, <2>2 DEF Sector
  <2>4. buf' = fdc.buf
    BY <1>2, <1>4, <1>6, <2>1, <2>3 DEF Sector
  <2>5. Moved'
    BY <1>1, <1>2, <1>3, <2>1, <2>4 DEF Moved
  <2>6. UNCHANGED Device!vars
    <3>1. DeviceCall' = DeviceCall /\ DeviceResult' = DeviceResult /\ DeviceStored' = DeviceStored
      BY <1>1, <2>1 DEF DeviceCall, DeviceResult, DeviceStored
    <3>2. QED
      BY <1>1, <1>3, <3>1 DEF Device!vars
  <2>7. QED
    BY <1>7, <2>5, <2>6 DEF CallInv, DeviceStep
<1>10. QED
  BY <1>8, <1>9

\* The byte that fills the buffer is the one step of a write that the device sees.
LEMMA WriteByteDevice ==
  ASSUME DriverInv, CallInv, Transfer, call.op = "write"
  PROVE  CallInv' /\ DeviceStep
<1>1. /\ pc = "transfer" /\ WriteData(buf[i]) /\ buf' = buf /\ i' = i + 1
      /\ UNCHANGED <<driveNum, curTrack, call>>
      /\ IF i' < SectorSize THEN pc' = pc ELSE pc' = "finish"
  BY DEF Transfer
<1>2. /\ Transferring /\ i \in 0 .. (SectorSize - 1) /\ i \in Nat
      /\ buf \in Sector /\ fdc.buf \in Sector /\ Reachable
      /\ \A j \in 0 .. (i - 1) : fdc.buf[j] = buf[j]
  BY <1>1, Geometry
  DEF DriverInv, Progress, CallType, FdcType, Registers, CallInv, Judged, Moved, Accepted
<1>3. buf[i] \in Byte
  BY <1>2 DEF Sector
<1>4. /\ UNCHANGED <<mounted, readOnly>>
      /\ fdc'.drive = fdc.drive /\ fdc'.track = fdc.track
      /\ fdc'.side = fdc.side /\ fdc'.sector = fdc.sector
      /\ fdc'.status = IF i + 1 < SectorSize THEN {"busy", "drq"} ELSE {}
      /\ fdc'.buf = [fdc.buf EXCEPT ![i] = buf[i]]
      /\ images' = IF i + 1 < SectorSize THEN images ELSE Flushed(fdc')
  BY <1>1, <1>2, <1>3, ByteWritten DEF DriverInv
<1>5. \A j \in 0 .. i : fdc'.buf[j] = buf'[j]
  <2> TAKE j \in 0 .. i
  <2>1. CASE j = i
    BY <1>1, <1>2, <1>4, <2>1 DEF Sector
  <2>2. CASE j # i
    <3>1. j \in 0 .. (i - 1) /\ j \in 0 .. (SectorSize - 1)
      BY <1>2, <2>2, Geometry
    <3>2. fdc'.buf[j] = fdc.buf[j]
      BY <1>2, <1>4, <2>2, <3>1 DEF Sector
    <3>3. QED
      BY <1>1, <1>2, <3>1, <3>2
  <2>3. QED
    BY <2>1, <2>2
<1>6. Addressed' /\ Judged'
  BY <1>1, <1>2, <1>4
  DEF CallInv, Addressed, Judged, Reachable, AfterSeek, AfterAddress, Accepted
<1>7. CASE i + 1 < SectorSize
  <2>1. pc' = "transfer" /\ i' - 1 = i
    BY <1>1, <1>2, <1>7
  <2>2. Moved'
    BY <1>1, <1>5, <2>1 DEF Moved
  <2>3. UNCHANGED Device!vars
    BY <1>1, <1>4, <1>7, <2>1, Stutters
  <2>4. QED
    BY <1>6, <2>2, <2>3 DEF CallInv, DeviceStep
<1>8. CASE ~(i + 1 < SectorSize)
  <2>1. pc' = "finish" /\ i = SectorSize - 1
    BY <1>1, <1>2, <1>8, Geometry
  <2>2. fdc'.buf \in Sector
    BY <1>2, <1>3, <1>4 DEF Sector
  <2>3. fdc'.buf = buf
    BY <1>1, <1>2, <1>5, <2>1, <2>2 DEF Sector
  <2>4. /\ fdc'.drive = driveNum /\ OnDisk(fdc') /\ sectorOffset(fdc') = call.block
    <3>1. fdc.drive = driveNum /\ OnDisk(fdc) /\ sectorOffset(fdc) = call.block
      BY <1>1, <1>2, PointsAtBlock DEF CallInv, Reachable, AfterAddress, AfterSeek
    <3>2. QED
      BY <1>4, <3>1 DEF OnDisk, sectorOffset
  <2>5. images' = IF driveNum \in readOnly THEN images
                  ELSE [images EXCEPT ![driveNum] = [images[driveNum] EXCEPT ![call.block] = buf]]
    <3>1. images' = Flushed(fdc') /\ driveNum \in mounted
      BY <1>2, <1>4, <1>8 DEF Reachable
    <3>2. QED
      BY <2>3, <2>4, <3>1, Zenon DEF Flushed
  <2>6. Moved'
    BY <1>1, <2>1 DEF Moved
  <2>7. /\ DeviceCall = [op |-> "write", block |-> call.block, data |-> buf]
        /\ DeviceCall' = DeviceCall /\ DeviceResult' = DeviceResult
        /\ ~DeviceStored /\ DeviceStored' = TRUE
    BY <1>1, <2>1 DEF DeviceCall, DeviceResult, DeviceStored
  <2>8. DeviceCall.op = "write" /\ DeviceCall.block = call.block /\ DeviceCall.data = buf
    BY <2>7
  <2>9. Device!Accessible(DeviceCall.block)
    BY <1>2, <2>8 DEF Device!Accessible, Reachable
  <2>10. images' = IF driveNum \in readOnly THEN images
                   ELSE [images EXCEPT ![driveNum][DeviceCall.block] = DeviceCall.data]
    BY <2>5, <2>8, Zenon
  <2>11. Device!Store
    BY <1>1, <1>4, <2>7, <2>8, <2>9, <2>10, Zenon DEF Device!Store
  <2>12. QED
    BY <1>6, <2>6, <2>11 DEF CallInv, DeviceStep, Device!Next
<1>9. QED
  BY <1>7, <1>8

LEMMA FinishDevice ==
  ASSUME DriverInv, CallInv, Finish
  PROVE  CallInv' /\ DeviceStep
<1>1. /\ pc = "finish" /\ pc' = "check" /\ UNCHANGED <<fdc, images, mounted, readOnly>>
      /\ UNCHANGED <<driveNum, curTrack, call, buf>>
  BY FinishKeeps DEF Finish
<1>2. CallInv'
  BY <1>1 DEF CallInv, Addressed, Judged, Moved, Reachable, Quiet, AfterSeek, AfterAddress, Accepted
<1>3. UNCHANGED Device!vars
  BY <1>1, Stutters
<1>4. QED
  BY <1>2, <1>3 DEF DeviceStep

LEMMA CheckDevice ==
  ASSUME DriverInv, CallInv, Check
  PROVE  CallInv' /\ DeviceStep
<1>1. /\ pc = "check" /\ pc' = "idle" /\ UNCHANGED <<fdc, images, mounted, readOnly>>
      /\ UNCHANGED <<driveNum, curTrack, call, buf>>
  BY CheckKeeps DEF Check
<1>2. fdc.status = {} /\ Reachable /\ call.op \in {"read", "write"}
  BY <1>1 DEF DriverInv, CallType, CallInv, Judged, Accepted
<1>3. res' = 0
  BY <1>1, <1>2 DEF Check
<1>4. CallInv'
  BY <1>1 DEF CallInv, Addressed, Judged, Moved, AfterSeek, AfterAddress, Accepted
<1>5. /\ DeviceCall # [op |-> "none"] /\ DeviceCall.op = call.op
      /\ DeviceCall.block = call.block /\ DeviceCall' = [op |-> "none"]
      /\ DeviceStored' = FALSE
  BY <1>1, <1>2 DEF DeviceCall, DeviceStored
<1>6. Device!Accessible(DeviceCall.block)
  BY <1>2, <1>5 DEF Device!Accessible, Reachable
<1>7. CASE call.op = "read"
  <2>1. DeviceResult' = [ok |-> TRUE, op |-> "read", data |-> images[driveNum][call.block]]
    BY <1>1, <1>3, <1>7 DEF DeviceResult, CallInv, Moved
  <2>2. QED
    BY <1>1, <1>4, <1>5, <1>6, <1>7, <2>1
    DEF DeviceStep, Device!Next, Device!Succeed, Device!Return, Device!NoCall
<1>8. CASE call.op = "write"
  <2>1. DeviceStored /\ DeviceResult' = [ok |-> TRUE, op |-> "write"]
    BY <1>1, <1>3, <1>8 DEF DeviceResult, DeviceStored
  <2>2. QED
    BY <1>1, <1>4, <1>5, <1>6, <1>8, <2>1
    DEF DeviceStep, Device!Next, Device!Succeed, Device!Return, Device!NoCall
<1>9. QED
  BY <1>2, <1>7, <1>8

-----------------------------------------------------------------------------
LEMMA StartsAsDevice == DriverInit => CallInv /\ Device!Init
<1> SUFFICES ASSUME DriverInit PROVE CallInv /\ Device!Init
  OBVIOUS
<1>1. CallInv
  BY DEF DriverInit, NoCall, CallInv, Addressed, Judged, Moved, AfterSeek, AfterAddress, Accepted
<1>2. /\ DeviceCall = [op |-> "none"] /\ DeviceStored = FALSE
      /\ DeviceResult = [ok |-> FALSE, op |-> "none"]
  BY DEF DriverInit, NoCall, DeviceCall, DeviceStored, DeviceResult
<1>3. driveNum \notin Drives /\ readOnly \subseteq mounted /\ mounted \subseteq Drives
  BY DEF DriverInit, FdcInit, Drives
<1>4. QED
  BY <1>1, <1>2, <1>3 DEF Device!Init, Device!NoCall, Device!NoResult

LEMMA StepsAsDevice ==
  ASSUME DriverInv, DriverInv', CallInv, [Next]_vars
  PROVE  CallInv' /\ DeviceStep
<1>1. ASSUME NEW d \in Drives, InitDriver(d) PROVE CallInv' /\ DeviceStep
  BY <1>1, InitDriverDevice
<1>2. ASSUME NEW d \in Drives, NEW b \in Blocks, Begin("read", d, b, ZeroSector)
      PROVE  CallInv' /\ DeviceStep
  BY <1>2, BeginDevice, ZeroIsSector
<1>3. ASSUME NEW d \in Drives, NEW b \in Blocks, NEW p \in Payloads, Begin("write", d, b, p)
      PROVE  CallInv' /\ DeviceStep
  BY <1>3, BeginDevice, DriverConstants
<1>4. CASE Seek \/ SeekCommand
  BY <1>4, SeekDevice
<1>5. CASE SeekWait
  BY <1>5, SeekWaitDevice
<1>6. CASE Address
  BY <1>6, AddressDevice
<1>7. CASE SectorCommand
  BY <1>7, SectorCommandDevice
<1>8. CASE WaitDRQ
  BY <1>8, WaitDRQDevice
<1>9. CASE Transfer
  <2>1. call.op \in {"read", "write"}
    BY <1>9 DEF Transfer
  <2>2. QED
    BY <1>9, <2>1, ReadByteDevice, WriteByteDevice
<1>10. CASE Finish
  BY <1>10, FinishDevice
<1>11. CASE Check
  BY <1>11, CheckDevice
<1>12. CASE UNCHANGED vars
  <2>1. CallInv'
    BY <1>12 DEF vars, fdcVars, drvVars, CallInv, Addressed, Judged, Moved, Reachable, Quiet
  <2>2. UNCHANGED Device!vars
    BY <1>12 DEF vars, fdcVars, drvVars, Device!vars, DeviceCall, DeviceStored, DeviceResult
  <2>3. QED
    BY <2>1, <2>2 DEF DeviceStep
<1>13. QED
  BY <1>1, <1>2, <1>3, <1>4, <1>5, <1>6, <1>7, <1>8, <1>9, <1>10, <1>11, <1>12 DEF Next

\* The driver and the controller implement the atomic block device, for every geometry,
\* any images and media, whatever calls fail and however drives are changed between them.
THEOREM DriverIsBlockDevice == Spec => IsBlockDevice
<1>1. DriverInit => Device!Init /\ CallInv
  BY StartsAsDevice
<1>2. DriverInv /\ DriverInv' /\ CallInv /\ [Next]_vars =>
        CallInv' /\ [Device!Next]_(Device!vars)
  BY StepsAsDevice DEF DeviceStep
<1>3. QED
  BY <1>1, <1>2, DriverInvariance, PTL DEF Spec, IsBlockDevice, Device!Spec
=============================================================================
