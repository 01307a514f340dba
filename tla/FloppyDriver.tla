----------------------------- MODULE FloppyDriver -----------------------------
(***************************************************************************)
(* OS16's floppy driver (OS16/src/FloppyDriver.Mod) over the controller it *)
(* drives (WD1793), one register access to a step.  The driver's state is  *)
(* global to the module, whichever BlockDriver record a call comes through. *)
(* error repeats the result of the last call and is left out.              *)
(***************************************************************************)
EXTENDS WD1793

CONSTANTS
  MaxRetries,  \* status reads before a wait gives up (10000)
  Blocks,      \* the blocks callers ask for
  Payloads,    \* the sectors callers write
  MaxCalls     \* bound on the calls of a run

SectorsPerCyl == Sectors * Sides

\* The delays are shorter than the waits, and the track number is put into a byte.
ASSUME DriverConstants ==
  /\ MaxRetries \in Nat /\ MaxRetries > StepDelay /\ MaxRetries > TransferDelay
  /\ Blocks \subseteq 0 .. (ByteSize * SectorsPerCyl - 1)
  /\ Payloads \subseteq Sector
  /\ MaxCalls \in Nat

VARIABLES
  driveNum, curTrack,  \* the module's globals
  opened,              \* the drives Init has made a BlockDriver for
  pc, n, i,            \* where a call is, and its counters
  call, buf, res,      \* its operation and block, its buffer, and the last result
  calls
drvVars == <<driveNum, curTrack, opened, pc, n, i, call, buf, res, calls>>
vars == <<fdcVars, drvVars>>

NoCall == [op |-> "none", block |-> 0, driver |-> 0]

DriverInit ==
  /\ FdcInit
  /\ driveNum = -1 /\ curTrack = -1 /\ opened = {}
  /\ pc = "idle" /\ n = 0 /\ i = 0
  /\ call = NoCall /\ buf = ZeroSector /\ res = 0
  /\ calls = 0

-----------------------------------------------------------------------------
InitKeepsTrack(d) ==
  /\ pc = "idle"
  /\ driveNum' = d
  /\ opened' = opened \cup {d}
  /\ UNCHANGED <<fdcVars, curTrack, pc, n, i, call, buf, res, calls>>

\* Init(drive, drv).
InitDriver(d) ==
  /\ pc = "idle"
  /\ driveNum' = d /\ curTrack' = -1
  /\ opened' = opened \cup {d}
  /\ UNCHANGED <<fdcVars, pc, n, i, call, buf, res, calls>>

track(b)    == b \div SectorsPerCyl
SideByBlock(b) == b % Sides
side(b)     == (b \div Sectors) % Sides
sector(b)   == (b % Sectors) + 1

\* ReadBlock or WriteBlock through the record of driver d, up to SelectDrive.
Begin(op, d, b, contents) ==
  /\ pc = "idle" /\ calls < MaxCalls /\ d \in opened
  /\ calls' = calls + 1
  /\ call' = [op |-> op, block |-> b, driver |-> d]
  /\ buf' = contents
  /\ WriteControl(driveNum, side(b))
  /\ pc' = "seek"
  /\ UNCHANGED <<driveNum, curTrack, opened, n, i, res>>

\* Seek: nothing to do on the track the head is known to be on.
Seek ==
  /\ pc = "seek"
  /\ \/ /\ track(call.block) = curTrack
        /\ pc' = "address"
        /\ UNCHANGED <<fdcVars, n>>
     \/ /\ track(call.block) = 0 /\ curTrack # 0
        /\ Command("restore")
        /\ pc' = "seekWait" /\ n' = 0
     \/ /\ track(call.block) \notin {0, curTrack}
        /\ WriteData(track(call.block) % ByteSize)
        /\ pc' = "seekCommand" /\ UNCHANGED n
  /\ UNCHANGED <<driveNum, curTrack, opened, i, call, buf, res, calls>>

SeekCommand ==
  /\ pc = "seekCommand"
  /\ Command("seek")
  /\ pc' = "seekWait" /\ n' = 0
  /\ UNCHANGED <<driveNum, curTrack, opened, i, call, buf, res, calls>>

\* One turn of WaitNotBusy or WaitDRQ: the call goes on at next, fails with code
\* when it is to give up, or reads the status again.
Wait(done, givesUp, next, code) ==
  /\ ReadStatus
  /\ n' = n + 1
  /\ pc' = IF done THEN next
           ELSE IF givesUp \/ n + 1 >= MaxRetries THEN "idle"
           ELSE pc
  /\ res' = IF pc' = "idle" THEN code ELSE res

Busy == "busy" \in fdc'.status

\* A drive that is not ready is not busy either: the seek counts as done.
SeekWait ==
  /\ pc = "seekWait"
  /\ Wait(~Busy, FALSE, "address", -1)
  /\ curTrack' = IF Busy THEN curTrack ELSE track(call.block)
  /\ UNCHANGED <<driveNum, opened, i, call, buf, calls>>

Address ==
  /\ pc = "address"
  /\ WriteSector(sector(call.block))
  /\ pc' = "command"
  /\ UNCHANGED <<driveNum, curTrack, opened, n, i, call, buf, res, calls>>

SectorCommand ==
  /\ pc = "command"
  /\ Command(call.op)
  /\ pc' = "waitDRQ" /\ n' = 0 /\ i' = 0
  /\ UNCHANGED <<driveNum, curTrack, opened, call, buf, res, calls>>

WaitDRQ ==
  /\ pc = "waitDRQ"
  /\ Wait("drq" \in fdc'.status, ~Busy, "transfer", -2)
  /\ UNCHANGED <<driveNum, curTrack, opened, i, call, buf, calls>>

Transfer ==
  /\ pc = "transfer"
  /\ \/ call.op = "read" /\ ReadData /\ buf' = [buf EXCEPT ![i] = fdc'.data]
     \/ call.op = "write" /\ WriteData(buf[i]) /\ UNCHANGED buf
  /\ i' = i + 1
  /\ IF i' < SectorSize THEN UNCHANGED <<pc, n>> ELSE pc' = "finish" /\ n' = 0
  /\ UNCHANGED <<driveNum, curTrack, opened, call, res, calls>>

Finish ==
  /\ pc = "finish"
  /\ Wait(~Busy, FALSE, "check", -4)
  /\ UNCHANGED <<driveNum, curTrack, opened, i, call, buf, calls>>

\* The error bits of the last status.
Check ==
  /\ pc = "check" /\ pc' = "idle"
  /\ ReadStatus
  /\ res' = IF "crc" \in fdc'.status THEN -5
            ELSE IF call.op = "read" /\ "rnf" \in fdc'.status THEN -6
            ELSE IF call.op = "write" /\ "writeProt" \in fdc'.status THEN -7
            ELSE 0
  /\ UNCHANGED <<driveNum, curTrack, opened, n, i, call, buf, calls>>

Next ==
  \/ \E d \in Drives : InitDriver(d)
  \/ \E d \in Drives, b \in Blocks : Begin("read", d, b, ZeroSector)
  \/ \E d \in Drives, b \in Blocks, p \in Payloads : Begin("write", d, b, p)
  \/ Seek \/ SeekCommand \/ SeekWait \/ Address \/ SectorCommand
  \/ WaitDRQ \/ Transfer \/ Finish \/ Check

Spec == DriverInit /\ [][Next]_vars

-----------------------------------------------------------------------------
(* What must hold. *)

Status == {"busy", "drq", "track0", "notReady", "rnf"}

\* Registers and buffer keep their ranges.
TypeOK ==
  /\ fdc.status \subseteq Status /\ {fdc.track, fdc.data} \subseteq Byte
  /\ fdc.sector \in 1 .. Sectors
  /\ fdc.drive \in Drives /\ fdc.side \in 0 .. 1 /\ fdc.motor \in BOOLEAN
  /\ fdc.buf \in Sector /\ fdc.pos \in 0 .. SectorSize /\ fdc.writing \in BOOLEAN
  /\ fdc.op \in {"none", "restore", "seek", "read", "write"}
  /\ fdc.delay \in Nat
  /\ images \in [Drives -> [0 .. (DiskBlocks - 1) -> Sector]]
  /\ readOnly \subseteq mounted /\ mounted \subseteq Drives
  /\ driveNum \in Drives \cup {-1} /\ opened \subseteq Drives
  /\ curTrack \in -1 .. (ByteSize - 1) /\ n \in 0 .. MaxRetries /\ i \in 0 .. SectorSize
  /\ call.block \in Blocks \cup {0} /\ buf \in Sector /\ res \in -7 .. 0

\* Seek trusts curTrack and skips the seek.  Between seeks it is where the head
\* of a drive that is ready really is, although a seek on a drive that is not
\* ready is taken for done, and both drives share one track register.
HeadIsOnCurTrack ==
  (driveNum \in mounted /\ pc \notin {"seekCommand", "seekWait"})
    => curTrack \in {-1, fdc.track}

\* A call leaves the controller idle, whatever went wrong: the next call's Seek
\* puts its track into the data register, which a transfer still open would
\* take for data.
QuietBetweenCalls ==
  pc \in {"idle", "seek"} => fdc.op = "none" /\ fdc.status \cap {"busy", "drq"} = {}

\* A read or write that the controller has accepted still has its medium and its
\* sector when the delay has passed: completing it uses the image without looking.
AcceptedHasMedium ==
  fdc.op \in {"read", "write"} => fdc.drive \in mounted /\ OnDisk(fdc)

\* The drive a call through Init's record of drive d reaches is drive d, since
\* driveNum is the "drive number for this instance".
InstanceKeepsDrive == pc # "idle" => fdc.drive = call.driver

(* The abstract device.  Calls go to the drive of the latest Init. *)
DeviceCall ==
  IF pc = "idle" THEN [op |-> "none"]
  ELSE IF call.op = "read" THEN [op |-> "read", block |-> call.block]
  ELSE [op |-> "write", block |-> call.block, data |-> buf]

DeviceStored == call.op = "write" /\ pc \in {"finish", "check"}

DeviceResult ==
  IF pc # "idle" \/ call.op = "none" THEN [ok |-> FALSE, op |-> "none"]
  ELSE IF res # 0 THEN [ok |-> FALSE, op |-> call.op]
  ELSE IF call.op = "read" THEN [ok |-> TRUE, op |-> "read", data |-> buf]
  ELSE [ok |-> TRUE, op |-> "write"]

Device == INSTANCE BlockDevice WITH
  Size    <- DiskBlocks,
  Drives  <- Drives,
  Ops     <- {"read", "write"},
  drive   <- driveNum,
  disk    <- images,
  present <- mounted,
  fixed   <- readOnly,
  call    <- DeviceCall,
  stored  <- DeviceStored,
  result  <- DeviceResult

\* The driver's register accesses add up to an atomic block device: a call
\* succeeds exactly when the drive has the block, reads what was last written
\* there, and changes no other block, on whichever drive and after any failures.
IsBlockDevice == Device!Spec
=============================================================================
