-------------------------------- MODULE WD1793 --------------------------------
(***************************************************************************)
(* em16's floppy disk controller (em16/src/WD1793.cpp): the registers, the *)
(* sector buffer, the commands that stay busy for a few reads of the status *)
(* register, and the two disk images behind it.                            *)
(*                                                                         *)
(* One action per register access that OS16's driver makes.  Left out:     *)
(* Force Interrupt, writes to the track register, reads of the track,      *)
(* sector and drive status registers, and switching the motor off, which   *)
(* the driver never does.  Images are mounted when the emulator starts     *)
(* (main.cpp) and stay mounted.                                            *)
(***************************************************************************)
EXTENDS Integers

CONSTANTS
  Tracks,         \* WD_TRACKS, 80
  Sectors,        \* WD_SECTORS, 9
  SectorSize,     \* WD_SECTOR_SIZE, 512
  ByteSize,       \* 256: registers and data are bytes
  StepDelay,      \* status reads before Restore and Seek complete, 3
  TransferDelay,  \* status reads before a sector command asks for data, 2
  Images          \* what the two image files hold at first

Drives    == {0, 1}
Sides     == 2
DiskBlocks == Tracks * Sides * Sectors
Byte      == 0 .. (ByteSize - 1)
Sector    == [0 .. (SectorSize - 1) -> Byte]

ASSUME ControllerConstants ==
  /\ {Tracks, Sectors, SectorSize, ByteSize, StepDelay, TransferDelay} \subseteq Nat \ {0}
  /\ Tracks < ByteSize /\ Sectors < ByteSize
  /\ Images \in [Drives -> [0 .. (DiskBlocks - 1) -> Sector]]

VARIABLES
  fdc,       \* the registers and fields of the controller
  images,    \* the contents of the image files
  mounted,   \* the drives with an image
  readOnly   \* those whose image file could only be opened for reading

fdcVars == <<fdc, images, mounted, readOnly>>

ZeroSector == [j \in 0 .. (SectorSize - 1) |-> 0]

\* Power-on, after main has mounted the images the command line names.
FdcInit ==
  /\ fdc = [status |-> {}, track |-> 0, sector |-> 1, data |-> 0,
            drive |-> 0, side |-> 0, motor |-> FALSE,
            buf |-> ZeroSector, pos |-> 0, writing |-> FALSE,
            op |-> "none", delay |-> 0]
  /\ images = Images
  /\ mounted \in SUBSET Drives
  /\ readOnly \in SUBSET mounted

-----------------------------------------------------------------------------
OnDisk(f)       == f.track < Tracks /\ f.sector \in 1 .. Sectors
sectorOffset(f) == (f.track * Sides + f.side) * Sectors + f.sector - 1

NotReadyMotorOnly(f) == ~f.motor

NotReady(f) == ~f.motor \/ f.drive \notin mounted

Refuse(f, why)      == [f EXCEPT !.status = {why}, !.op = "none"]
Start(f, op, delay) == [f EXCEPT !.status = {"busy"}, !.op = op, !.delay = delay]

\* A write to the command register.
Command(c) ==
  /\ fdc' = IF NotReady(fdc) THEN Refuse(fdc, "notReady")
            ELSE IF c \in {"restore", "seek"} THEN Start(fdc, c, StepDelay)
            ELSE IF OnDisk(fdc) THEN Start(fdc, c, TransferDelay)
            ELSE Refuse(fdc, "rnf")
  /\ UNCHANGED <<images, mounted, readOnly>>

\* Type I commands leave the head on track t.
Stepped(f, t) ==
  [f EXCEPT !.track = t, !.status = IF t = 0 THEN {"track0"} ELSE {}, !.op = "none"]

\* A sector command has its buffer ready and asks for the transfer.
Ready(f, contents) ==
  [f EXCEPT !.buf = contents, !.pos = 0, !.writing = (f.op = "write"),
            !.status = {"busy", "drq"}, !.op = "none"]

completePendingOp(f) ==
  CASE f.op = "restore" -> Stepped(f, 0)
    [] f.op = "seek"    -> Stepped(f, f.data)
    [] f.op = "read"    -> Ready(f, IF OnDisk(f) THEN images[f.drive][sectorOffset(f)] ELSE f.buf)
    [] f.op = "write"   -> Ready(f, ZeroSector)

\* A read of the status register: what it returns is fdc'.status.
ReadStatus ==
  /\ fdc' = IF fdc.op = "none" \/ fdc.delay = 0 THEN fdc
            ELSE LET ticked == [fdc EXCEPT !.delay = @ - 1]
                 IN  IF ticked.delay = 0 THEN completePendingOp(ticked) ELSE ticked
  /\ UNCHANGED <<images, mounted, readOnly>>

LastByte(f) == f.pos + 1 >= SectorSize

LeavesStatus(f) == f.status

TransferStatus(f) == IF LastByte(f) THEN f.status \ {"drq", "busy"} ELSE f.status

\* A read of the data register: what it returns is fdc'.data.
ReadData ==
  /\ fdc' = IF ~fdc.writing /\ "drq" \in fdc.status
            THEN [fdc EXCEPT !.data = fdc.buf[fdc.pos], !.pos = @ + 1,
                             !.status = TransferStatus(fdc)]
            ELSE fdc
  /\ UNCHANGED <<images, mounted, readOnly>>

\* fwrite to the image under the head; on a read-only file it changes nothing,
\* and its result is not looked at.
Flushed(f) ==
  IF f.drive \in mounted \ readOnly /\ OnDisk(f)
  THEN [images EXCEPT ![f.drive][sectorOffset(f)] = f.buf]
  ELSE images

\* A write to the data register; the last byte of a sector flushes the buffer.
WriteData(b) ==
  /\ IF fdc.writing /\ "drq" \in fdc.status
     THEN LET stored == [fdc EXCEPT !.data = b, !.buf[fdc.pos] = b, !.pos = @ + 1]
          IN  /\ fdc' = [stored EXCEPT !.status = TransferStatus(fdc),
                                       !.writing = ~LastByte(fdc)]
              /\ images' = IF LastByte(fdc) THEN Flushed(stored) ELSE images
     ELSE fdc' = [fdc EXCEPT !.data = b] /\ UNCHANGED images
  /\ UNCHANGED <<mounted, readOnly>>

WriteSector(s) ==
  fdc' = [fdc EXCEPT !.sector = s] /\ UNCHANGED <<images, mounted, readOnly>>

\* A write to the drive control register, with the motor bit set.
WriteControl(drive, side) ==
  /\ fdc' = [fdc EXCEPT !.drive = drive, !.side = side, !.motor = TRUE]
  /\ UNCHANGED <<images, mounted, readOnly>>
=============================================================================
