# 65Tools: verification project

65Tools is a set of tools for the 6502 family (assemblers, an Oberon compiler, ELF
utilities, converters), an emulator (`em16`) of two machines built on those processors,
and `OS16`, an operating system in Oberon that runs on the emulated 65816 machine. This
directory holds TLA+ models of its memory, heap, files, devices, events, processors, loader,
assembler and compiler, checked with TLC, and theorems about eight of them proved with TLAPS.

Line numbers below refer to the repository's files; `OS16/src/Files.Mod:1288` is
`src/OS16/src/Files.Mod` where `src/` is the root of the checkout.

## 1. Inventory

| Component | State it keeps | Operations | Talks to |
|---|---|---|---|
| MemoryManager (`OS16/src/MemoryManager.Mod`) | a table of at most 128 segments, ordered by base | Init, Alloc, AllocFixed, Release, FreeOwner | called by HeapManager and the loader |
| HeapManager (`HeapManager.Mod`) | base and limit of the active heap; block headers inside it | Create, Init, Alloc (`NEW`), Free | takes its region from MemoryManager |
| ADB controller (`em16/src/ADB_Controller.cpp`) | keyboard ring, mouse deltas and button, answer buffer | keyDown, keyUp, mouseMove, mouseButton (main thread); Talk, SendReset (CPU thread) | fed by `Video.mm`; reached by the CPU through `VIA_6522.cpp` |
| ADBManager, EventManager, Terminal (`OS16/src`, `OS16/app/terminal`) | modifier flags, previous button, ring of events | Init, Poll, PostEvent, NextEvent, the event loop | sends ADB commands through the VIA |
| WD1793 (`em16/src/WD1793.cpp`) | registers, sector buffer, pending operation with a delay, two image files | register reads and writes | image files of the host |
| FloppyDriver, Driver (`OS16/src`) | driveNum, curTrack, error | Init, ReadBlock, WriteBlock | the WD1793's registers |
| Files (`Files.Mod`) | FAT in memory, dirty flag; File objects with a sector buffer; riders | Init, Format, Old, New, Register, Close, Delete, Rename, Set, Read, Write, directories, long names | a `Driver.BlockDriver` |
| Modules loader (`Modules.Mod`), MakeImage, Boot | the table of loaded modules, the code and data watermarks | Load, Link, WriteImage, ReadManifest; boot | Files, MemoryManager |
| em16 loader and heap (`main.cpp`) | list of loaded modules, load addresses, entries, heap top | loadMod (which calls itself for imports), the boot manifest, NEW and the other traps | the .816 files; the processor |
| 65816, R65C02, R65C19 (`emu816.h`, `emu816.cpp`) | registers, flags, widths, memory | one instruction or interrupt at a time | the memory map |
| L28 handheld (`L28_MCU.cpp`, `mem816.h`, `LCD_ST7586S.mm`, VIA, UARTs) | key ring and matrix, display controller and its dirty flag, flash chips and bank registers, timer, serial receivers | key strokes and drawing (main thread); loads, stores and the poll after each instruction (CPU thread) | firmware that is not in the repository |
| as-c, the assembler (`as-c/src`, `shared/src/codegen.c`, `gen_*.c`) | operations parsed, heap of values, sections, pass, output | parse, one operation of the interpreter after another, one pass after another | the emulator executes what it writes |
| oc, the Oberon compiler in C (`oc/src`) | items, branch chains, register stack, widths, code | translate a statement; disassemble | the emulator executes what it writes |
| InterruptManager | at most MaxHandlers handlers | Register, Dispatch, Init | nothing unmasks interrupts |
| UI, fonts, graphics, ELF tools, converters | bitmaps, files | draw, translate one input | - |

How they interact. A call in OS16 runs to its end: there is one processor, and it
starts with interrupts masked and never unmasks them, so neither a timer tick nor
a device cuts into a procedure. Four things break this sequential picture:

* the emulated CPU runs on a thread of its own (`main.cpp:1284`, `1310`) while the
  Cocoa handlers run on the main thread; both touch the ADB controller's fields on the
  one machine, and the key ring and the display on the other, without a lock;
* the floppy controller answers each command late, after some reads of its status,
  and may not answer at all, so a driver call is a sequence of register accesses
  with state left over in the controller and in `curTrack`;
* the machine may be reset between any two block writes of a file operation;
* on the L28, interrupts are on and come after any instruction.

The tools have no concurrency, but state that lives from one step to the next: loadMod calls
itself in the middle of reading a file, the assembler runs passes until the addresses
settle, the compiler believes it knows what the registers and flags hold, and assembler,
compiler, disassembler and emulator each have opcode tables of their own.

What is hard, and what makes each part right, is in PROJECT.json under `hazards`,
each at its line with the properties that would catch it. In short:

* MemoryManager: callers' blocks never overlap; coalescing neither loses nor merges
  too much; a full table is the limit case.
* HeapManager: the chain of headers tiles the heap through lazy merging and
  splitting; objects never overlap one another or a header.
* ADB: the lock-free ring keeps keys in order; clearing what was read does not clear
  what was not; motion is conserved through the seven-bit encoding; modifiers are
  those of the moment; nothing is dropped on the way and keys get through.
* Floppy: the driver's idea of the head is right after failures and drive changes;
  a failed call leaves the controller quiet; all in all, it is a block device.
* Files: no cluster has two owners; the one buffer of a file is coherent; riders are
  where they think; what was saved is on disk after a reset anywhere.
* Loader: areas are disjoint whatever nests or fails; references bind to the module
  they name; bodies run after those they import.
* Processors: the stack stays in its page and pulls match pushes through widths and
  interrupts; no eight-bit operation reaches a half it should keep; sums, differences and
  decimal adjustment are right.
* L28: keys and bytes arrive once and in order; the screen is never stale for good; the
  timer keeps its pace; flash changes only after its unlock sequence.
* Assembler and compiler: passes end and agree; what is emitted decodes as written; a
  compiled program computes what the language says.

## 2. Modules

| Module | Models | Its variables and the code's |
|---|---|---|
| `MemoryManager` | MemoryManager.Mod, all of its mutating procedures | `seg` is the four parallel arrays and `nseg`; `held`, `truncated` are history |
| `BlockOwnership` | the abstract promise: blocks clear of each other, taken back by name or by owner | refined by `MemoryManager` |
| `HeapManager` | HeapManager.Mod | `base`, `limit`; `hdr` the headers by address; `live`, `given` are history |
| `ADBController` | ADB_Controller.cpp and the handlers of Video.mm, both threads | the fields of `kbd` and `mouse`, `responseBuf`; `host`, `cpu` the two program counters |
| `ADBManager` | EXTENDS `ADBController` with ADBManager.Poll, EventManager and Terminal's loop | `mods`, `prevButton`, `queue`, `phase` |
| `WD1793` | WD1793.cpp, one action per register access | `fdc` the registers and fields; `images`, `mounted`, `readOnly` |
| `FloppyDriver` | EXTENDS `WD1793` with FloppyDriver.Mod | `driveNum`, `curTrack`; `pc`, `n`, `i` the place in a call |
| `BlockDevice` | the abstract atomic block device | refined by `FloppyDriver`, assumed by `Files` |
| `Files` | Files.Mod on such a device | `disk`; `fat`, `fatDirty`; `file`, `rider`; the rest are ghosts |
| `HostLoader` | loadMod, the command line, running and `NEW` of main.cpp | `loaded`, the load addresses, the stack of loadMod's calls, the entries, the heap |
| `ALU65816` | the arithmetic of emu816.h: sums, decimal adjustment, comparisons, shifts, the L28's signed operations | none: operators |
| `Arithmetic` | what the processor's manual says of `ALU65816` | the operands, any two words, a carry and a mode |
| `Instructions65816` | every operation and addressing mode of emu816.h | none: functions of the machine |
| `CPU65816` | the step functions, interrupts and traps, on arbitrary programs | `cpu` the registers and memory; `ir` the last instruction |
| `StackDiscipline` | EXTENDS `CPU65816` with a program that pulls what it pushed | `items`, the stack as that program sees it |
| `Decoders` | the three opcode switches of emu816.cpp | none: tables |
| `L28Devices`, `LCD_ST7586S` | keyboard matrix, flash chips, timer 1; the display controller | none: operators on records |
| `L28Handheld` | the two threads of the handheld and its memory map | `cpu`, `kbd`, the display and the window's picture, the chips, the timer, the receivers; some history |
| `GenTables`, `Codegen` | the opcode tables of the assembler and the compiler; the choice of mode and the bytes | none: tables and operators |
| `Parser`, `Assembler` | as-c: the values and the parser from tokens to operations, the passes | `heap`, `frames`, `exec`, `stack`, `addr`, `pass`, `data`, the widths and the processor |
| `ORG`, `ORGArithmetic`, `ORP` | oc: the code generator, its operators and REAL subroutines, the order in which the parser calls it | none: functions of the generator's record |
| `Disassembler`, `CompiledCode` | oc's disassembler; compiled programs run on the processor | `cpu`, `task`, `module` what was compiled, `left` |
| `*_proofs` | the theorems about the module of that name | |
| `MC*` | small instances | |

Conventions. One action is one exported procedure where nothing can cut in
(MemoryManager, HeapManager, Files), one access to shared state or one register
access where something can (ADB, floppy, L28), one instruction (processor), one
operation of the interpreter (assembler), one step between two calls (loader). A definition
keeps the name of the procedure it models. Ghost or history variables are named in each
module's header and no action's other assignments read them, except to keep the rules for
callers that `Files` and `StackDiscipline` state. An operator that stands right above one of
the model's own and has a name like `insertUnbounded`, `SyncFlat` or `FitsAnyKind` is that
operator with a plausible mistake in it; PROJECT.json says under `mutants` which property
catches it. No specification uses it.

### What is abstracted

* Addresses, sizes, keys, names, bytes and sectors are small sets; in OS16's memory
  addresses stay mathematical integers because the managed zone is far below 2^31.
* ADB: `dy` is treated exactly like `dx` and left out; steps interleave as if the
  memory were sequentially consistent and the compiler kept the source's order,
  which is what the code intends and x86 gives for these accesses in practice; the
  fields are no atomics, so C++ itself promises less. The code 7FH of a key that
  does not exist is not struck.
* WD1793: the commands and registers OS16's driver does not use.
* Files: names are atoms; one directory with one entry to a block; FAT2, which
  nothing reads, and attributes, subdirectories, long names and the packing of the
  FAT are left out; the device does not fail. `BlockDevice`, which the floppy driver is proved
  to implement, justifies the last for blocks on a mounted image. `rider.eof` and
  `rider.res` are left out: they only report.
* Callers of `Files` keep four rules that the code does not check (one File to an
  entry, no Delete or Rename of an open file, no use of a rider that another rider
  has overtaken by making the file longer, no use of an entry a reset left half
  written); callers of the heap free an object once. Each is a hazard with a note.
* Processor: in `CPU65816` a program's text is not in memory, each step executes any of a set of
  instructions; interrupt vectors are constants; cycle counts only feed the timer. A BRK that
  reaches main's trap handler pushes nothing. In `StackDiscipline` a 65C816 program keeps
  interrupts off in emulation mode, where the frame pushed is a byte longer than the one RTI pulls.
* Loader: a file is named as the module in it, and is what loadMod takes from it: imports,
  sizes, exports, references, and how much of it can be read. loadMod has room for 15 imports
  (`MAX_IMPORTS`) and 63 exports (`MAX_EXPORTS`) of a module; both are constants. It counts further
  imports without looking them up and drops further exports. A reference to such an import reads
  past the end of an array, and its field gets any value of `Wild`; one to such an export stays unbound.
  The properties about references except both (`HasRoom`).
* L28: the firmware is external. It runs pieces of a session's program in any order and answers
  the keyboard's interrupt by scanning the matrix; sessions bound keys, bytes and pieces.
  The ports, timer B, the VIA's own interrupt handler and the transmitters are left out, and the
  scroll area is taken to fit the panel.
* Assembler: programs are tokens. The scanner's characters, real numbers, listings,
  `-D`, `__FILE__` and `__LINE__`, symbol output and the ELF container are left out.
  `MaxPasses` stops a program that never settles.
* Compiler: programs are parse trees, constants of the run. Arithmetic, relations, conditions,
  jumps and the simple statements over local and module variables and constants; no pointers,
  arrays, records, strings, calls or parameters, no type rules, no scanner or symbol files. The
  frame starts at 0, and a task may take a bounded number of instructions.

## 3. Runs

`cd` to this directory and run `tlc -config X.cfg M`; each finishes within five minutes.

| Run | Module, cfg | Shows | Distinct states |
|---|---|---|---|
| `mm` | `MemoryManager`, `MCMemoryManager.cfg` | the table's order, its agreement with the callers, refinement of `BlockOwnership` | 384,667 |
| `mm_full` | `MemoryManager`, `MCMemoryManagerFull.cfg` | **violated**: after a full table dropped a segment, a byte is handed out twice | |
| `heap` | `MCHeapManager` | chain and objects | 179,768 |
| `adb` | `MCADBManager` | ring, Shift, motion, keys get through | 807,533 |
| `adb_release` | `MCADBManagerRelease.cfg` | **violated**: a button release can stay unreported until the mouse moves | |
| `floppy` | `MCFloppyDriver` | the driver over the controller is a block device | 374,667 |
| `files` | `MCFiles` | ownership of clusters, coherence, durability, riders | 452,646 |
| `cpu` | `MCCPU65816` | stack, widths, calls and interrupts of the three processors | 349,959 |
| `arith` | `MCArithmetic` | the processor's arithmetic; compiled programs compute what they say; the disassembler keeps in step | 318,206 |
| `loader` | `MCHostLoader` | areas, references, order of bodies | 142,411 |
| `l28` | `MCL28Handheld` | keys and bytes, screen, timer, flash | 778,966 |
| `asm` | `MCAssembler` | what is emitted decodes as written, labels settle, passes end | 198,354 |

The two violated properties say what a comment of the repository says; PROJECT.json
quotes it under `findings`. The findings there without a run are disagreements met while
modelling: three had runs of their own in earlier states of this project (Caps Lock, the drive
number of an instance, a name registered twice; the properties `CapsAtEvent`,
`InstanceKeepsDrive` and `RegisteredIsFound` are still in the modules), the others are what
`ResultsAreRight`, `LabelsSettle`, `InputArrives` and `ReferencesBind` have to except. Also kept in the modules but not
checked by a standing run, because a property that is checked implies or exceeds them or a proof does: the
types `TypeOK`, `TableCovers`, `NoFalseRefusal` (proved for the heap), `SlackBounded`,
`ChangeRaisesSRQ`, `NoEventDropped` (proved).

Programs that go wrong are excepted by name, never by weakening the property:
`Misled` in `MCArithmetic` lists what the compiler gets wrong, and `ResultsAreRight` says that
these and only these tasks end wrong; `Miscoded`, `Moving` and `Endless` in `MCAssembler`
list rows of the tables and programs in the same way. So some hazards of PROJECT.json are recorded and not
caught: a handler that overlaps the reading of the mouse, and the motion a clamped report loses
(`MotionConserved` excuses both); writes to a read-only image, which `BlockDevice` forgets as the code does;
a rider another has overtaken; NEW of 65535 bytes; local labels before the first global one;
a latch changed in the middle of a timer's period. Their notes say so.

Bounds, and why they are enough:

* `mm`: seven units of memory, pages of two and banks of four, four table slots.
  A carve adds up to two segments, so four slots are reached from every shape of
  table, with alignment gaps on both sides; three block sizes straddle pages and banks.
* `heap`: 58 bytes hold up to four blocks of the 12-byte headers, the sizes 0, 1 and 5
  make odd payloads, exact fits and splinters; a second region of 20 bytes arrives at any time.
* `adb`: a ring with two usable slots fills and wraps with three inputs; a report
  of three bits clamps. Three inputs of any kind (two plain keys, both Shifts, Caps
  Lock, two motions, button) cover each pair of handlers around every access of
  the CPU thread. `MaxInputs` bounds the host only; the CPU thread never stops by a bound.
* `floppy`: three cylinders of two sides of two sectors; blocks on both sides, on two
  tracks, the last one and the first past the end; every subset of drives mounted and
  read-only; three calls with any Inits between, so a skipped seek after a
  failed call after a drive change occurs.
* `files`: two files of up to two clusters of two sectors on three clusters, so that the disk
  fills; each FAT entry in a block of its own, so that a reset can cut a chain update
  anywhere; two riders; ten calls and one reset. `MaxCalls` stops a run. Handles, riders and
  names are interchangeable, hence symmetry; the run checks invariants only.
* `cpu`: every instruction of the three processors after two that set mode, widths and flags;
  programs of six steps that push and pull; sixteen bytes of memory; operands 10 and 255, so that
  pages and words wrap; two sets of flags for REP and SEP.
* `arith`: for the processor's arithmetic all pairs of 256 words, those whose bytes are at the edges of signed,
  unsigned and decimal numbers and of their digits, with and without a carry, in binary and decimal; the
  theorems of section 4 are for all words of every width. For the compiled programs 32 programs and their tasks
  at the edges of each type, 800 instructions a task. Bytes have eight bits.
* `loader`: command lines of up to three names out of eight: a chain, a diamond, a file cut short,
  one with a bad relocation table, one whose import is missing, and a missing one; a bank of 64 bytes. There is
  room for two imports and two exports, of three that a module has and refers to.
* `l28`: seven sessions (typing, drawing, a reset while drawing, flash, timer, two receivers), each with
  the pieces in every order; a ring of three, a panel of one byte by three rows and a hidden column.
* `asm`: for every processor and mnemonic a program with every way to write an operand, and written
  programs for passes, sections, macros, conditions, scopes, includes and errors; eight passes.
* Deadlock is checked in `mm`, `mm_full` and `heap`, which never stop. Everywhere else the system
  may stop: Terminal on Escape, the processor on STP, the assembler and a task at their end, and the
  inputs, calls and sessions of the other runs are bounded.

Fairness. `KeysGetThrough` assumes weak fairness of the CPU thread, which loops and never blocks
(`main.cpp` runs it on its own thread), and of a handler that has begun, which is a few assignments
long; none of the user. The property excuses a Terminal that has quit. `Terminates` assumes weak
fairness of the assembler's one process, which runs as long as it has an operation to take.

## 4. Proofs

`tlapm M.tla` checks each of the modules below. A theorem assumes the named assumptions on
the constants, which TLC evaluates in the runs, and where the table says so a hypothesis of its own.

| Theorem | Says |
|---|---|
| **`MemoryManager_proofs`** | |
| `Invariance`, `TypeCorrect` | the inductive invariant; the table never outgrows its arrays |
| `TableStaysOrdered` | segments stay in order, disjoint and inside the zone, also after a full table dropped one |
| `TableStaysHeld` | until then, the used segments are exactly the callers' blocks |
| `HeldStayDisjoint` | until then, no two callers' blocks share a byte |
| `PromiseKept` | until then, every step is a step of `BlockOwnership` or leaves the callers alone |
| **`HeapManager_proofs`** | |
| `HeapInvariance`, `HeapTypes` | the inductive invariant; headers are well-formed at every address |
| `ChainAlwaysTiles` | block by block the chain reaches the limit exactly |
| `ObjectsStayApart` | live objects are disjoint, inside their heap and keep their size |
| `NeverRefusesWrongly` | Alloc returns 0 only when no run of free blocks has room |
| **`ADBManager_proofs`** | |
| `RingInvariance`, `TypesHold` | the inductive invariant of the ring; types |
| `RingKeepsOrder` | without a reset cutting in, the ring holds the unread keys in order, whatever the interleaving |
| `QueueNeverFills` | with `QueueSize > 4` (the code has 32) no event is dropped |
| `ShiftFlagIsOfTheKey` | unless a key was dropped, a key event carries the Shift flag of the stroke |
| `MotionNeverLost` | unless a handler overlapped the reading or a report was clamped, no motion is lost |
| **`FloppyDriver_proofs`** | |
| `DriverInvariance`, `TypeCorrectness` | the inductive invariant of the driver over its controller; types |
| `CurTrackIsTheHead` | between seeks `curTrack` is unknown or where the head of a ready drive is |
| `CallsEndQuiet` | no call leaves a command or a transfer open |
| `AcceptedCommandsComplete` | an accepted command still has its medium when it completes |
| `DriverIsBlockDevice` | the driver over the controller implements `BlockDevice` |
| **`Files_proofs`** | |
| `FilesInvariance`, `FilesTypes` | the inductive invariant of the file system; types |
| `FilesAlwaysOwnTheirClusters` | every file has clusters for its length in a chain that ends, and shares none |
| `OpenFilesAlwaysHoldTheirText` | an open file holds what was written to it, in its buffer and its blocks |
| `SavedFilesAreAlwaysOnDisk` | a saved file is whole on the disk alone, after any call and a reset anywhere in one |
| `AlwaysReadsWhatWasWritten` | Read returns the byte last written there |
| `AlwaysWritesInsideTheBuffer` | the index that Write computes stays inside the sector buffer |
| **`HostLoader_proofs`** | |
| `LoaderInvariance`, `AreasStayApart` | the inductive invariant; code, variables and heap blocks share no byte (hypothesis `RoundsUp`) |
| `ImportsResolve`, `ReferencesAreBound` | each call under way has resolved a prefix of its first 15 imports; every reference to one of these and of their first 63 exports leads to what it names (hypothesis `Compiled`) |
| `ListKeepsOrder`, `ImportsRunFirst` | every entry has all it imports before it; bodies run in that order (hypothesis `Readable`) |
| **`L28Handheld_proofs`** | |
| `TypesStay` | types, whatever the firmware stores where |
| `TimerStaysInPace` | the free-running timer loses no cycle and counts none twice |
| `ScreenStaysFresh` | when the window has nothing left to do, the screen shows the display |
| `FlashStaysLocked` | a byte of flash changes only as the last step of an unlock sequence on its chip |
| `InputAlwaysArrives` | keys and bytes arrive once and in order (hypotheses `LeavesKeysToHandler`, `WaitsForBytes`) |
| **`CPU65816_proofs`** | |
| `Invariance`, `TypeCorrectness` | the inductive invariant of the processor; no register, flag or cell gets a value too wide for it |
| `StackStaysInPage` | in emulation mode the stack pointer never leaves its page |
| `HalvesSurvive` | while A is a byte its upper half is kept; zero upper halves of narrow indexes stay zero |
| `ProgramInvariance`, `ProgramsRun` | the inductive invariant of a program under the rules of `StackDiscipline`; its behaviours are the processor's |
| `PointerIsWhereExpected` | the stack pointer is where the items pushed and not yet pulled put it |
| `SumsAreRight` | sums, differences and comparisons are the signed and unsigned numbers, with the V and C they should have |
| `SignedResultsAreRight` | products, rounding, negation, magnitude and shift of the L28 give the number or the nearest there is |
| `DecimalSumsAreRight` | decimal sums are the sums of the numbers, as long as no column reaches sixteen |
| `WordsAreTwoBytes` | an operation on a word is two on its bytes with the carry handed on |

**Memory manager**: for every table size, zone, page and bank size, set of kinds, owners
and request sizes. (`MemoryConstants`: the bounds are positive, the zone is not empty and
does not start at 0, every request is for at least one byte.) `TableIsHeld` alone is not
inductive: that a carved block equals no other held block needs the order of the table, and
that a free only removes what it should needs distinct bases. `IInv` is `TypeOK`,
`TableOrdered` and `TableIsHeld`. The work is in three lemmas: `CarveEffect`, what a carve
does to order and to the set of used segments whichever of its two inserts the full table
drops; `CoalesceEffect`, by induction along the loop, that merging keeps order and every used
segment and never makes the table longer; `ReclaimEffect`, for freeing followed by
coalescing. `coalesce` is a recursive function over an interval;
`RecursionOnInterval` shows from well-foundedness that it exists, and
`LeastElement` replaces induction in the rest. `PromiseKept` uses the invariant to show that
a granted block is clear of all others.

**Heap**: for every header size, set of regions that do not overlap, sizes and tags. `IInv` says
that the blocks that lie in a region tile it: every block ends where a block begins or at the
limit, and the used ones are the objects the program holds. `FreeRun`, the loop that merges free
blocks, is shown to end at the first used block or the limit, by naming that block as the least
address behind the first and proving the recursion to agree with it; `Predecessor` says that what lies before the limit has
a block that ends there, from which follows that a split or a merge leaves no address between two blocks.
`NeverRefusesWrongly` follows because Alloc has then looked at every maximal run.

**ADB**: for every ring of two slots or more, any keys and any number of inputs.
`KeysInOrder` is not inductive: it says nothing of the key the main thread has stored and not
yet published. `RingInv` adds that there is still room for that key, however many keys the CPU
thread has taken since the full check; that the value about to be published is the slot after
`tail`; and that `SendReset` comes before any key is taken. The lemmas `SlotMod`, `SlotDistance`,
`SlotApart` and `SlotNext` are the arithmetic modulo the size of the ring. On top of it: what an
answer and the stored bytes can be (`TypesHold`); that each poll of the event loop adds at most two key
events and two of the mouse, so that the room left and the polls still to come fit the queue
(`QueueNeverFills`); a chain through the host's flag, the keys on their way and the OS's flag, in
which each link repeats the Shift strokes behind it (`ShiftFlagIsOfTheKey`); and a balance between what
the mouse has moved and what is accumulated, answered and decoded, with the seven-bit encoding
inverted by `Decode7` (`MotionNeverLost`).

**Floppy driver**: for every geometry, all delays of the controller shorter than the
driver's retries, any images, media, payloads and number of calls, and all blocks whose track fits a byte.
`DriverInv` ties `pc` to the controller: while a command is pending, the status reads made
and the delay left add up to the delay of the command, so a wait never gives up on a drive
that would have answered; a drive without a medium refuses at once, is not busy and lets the seek count as
done, which is harmless because `curTrack` then only speaks of a drive that is not mounted.
`CommandEffect`, `StatusSteps`, `StatusReadies`, `ByteRead` and `ByteWritten` say what each
register access does; one lemma per action follows. The refinement adds where the
registers point (`Addressed`), that the controller refuses exactly what the device must fail (`Judged`), and that the bytes
moved so far are the block's or the caller's (`Moved`); `OffsetOfBlock` is the arithmetic
that track, side and sector lead back to the block. All steps then stutter except Init (`Open`),
the start of a call (`Begin`), the last byte of a write (`Store`), and the end of a call
(`Succeed` at `Check`, `Fail` in `WaitDRQ`).

**Files**: for every size of disk, cluster, sector and FAT, any number of names, files and riders, and
any number of calls and resets, under the four rules for callers of section 2. None of the five properties
is inductive. That a chain ends in `EOC` within the clusters there are, that no two chains meet, that the
one buffer is the block it was loaded from or ahead of it, and that the FAT on disk agrees with the one in
memory about what is saved hold each other up, and `IInv` says them together: every open file,
and every whole entry that nobody holds, starts a chain that ends and holds its text in the blocks seen
through its buffer (`Good`, `Seen`); the chains are pairwise apart (`NoSharing`); an unmodified file and an
entry agree with the disk (`Linked`, `Agree`); a rider stands on the cluster of its index unless another
has overtaken it (`RidersInStep`). The proof has four parts. *Chains*: `FollowChain` is a recursion that
`ChainFunction` shows to exist; from `ChainStep` follow that a chain that ends repeats no cluster, has
`Hops` of them, does not change when others do, and grows by one at its end. *Resets*: a call's writes
change nothing that DiskOK reads but one file's blocks, entry and FAT, in an order that leaves
the disk whole wherever they are cut (`Whole`; `WholeEntry` for Register and Close, where the data comes
first, `WholeDelete` and `WholeRename`, where the old entry goes first), and mounting a whole disk
gives the invariant (`Remount`). *Calls*: `FilesStep` carries the invariant over for all files but the one a
call changes, so that each action is left with its own file. *Riders*: `PlaceOfByte`
and `ByteAtRider` are the arithmetic from a position to cluster, sector and byte; `AddedPlace` says where a
file that grows by a byte has it. The branch of Write for an index past the buffer
is thereby shown to be dead code. `After` and the blocks of a reset are a recursive function over the
writes, `Done`, for which `RecursionOnInterval` gives existence.

**Loader**: for any files and command lines, also with cycles of imports, for which loading never ends.
Three invariants, one on top of the other. `IInv`: what was read to the end is stacked in
the order of the list, the areas a call of loadMod has taken lie above it, and the heap's blocks
lie in order behind the variables; `RoundsUp` excludes the request that rounds to less than it
asked (65535), which the code does not check. `Bindings`: every call under way has resolved a prefix of
its imports to modules of the list with those names and awaits the one the next call is loading, and
no module of the list imports itself among them; with `Compiled` (the references are those the compiler
writes) the low words bound are those of the exports, for every reference there is room for, whatever
`MaxImports` and `MaxExports` are. `UptoFacts`, `LookedUpFacts` and `KeptFacts` say what the limits keep. `Ordered`: each module's entry comes behind those of
the whole list before it, and bases differ; `Readable` (no empty code, no unreadable relocation table)
is what keeps a module from being overlaid by the next.

**L28**: for any firmware, ring, panel and number of inputs. *Timer*: `tick` by cases of how far an
instruction overshoots. *Screen*: an access that does not tell the window changes nothing that
is seen, except in a reset and in the scroll area; then the pending flags and the rows drawn so far account for every difference
between picture and display. *Flash*: the chip's state bounds how much of the recent writes is the
beginning of an unlock sequence (`Steps`); the history `recent` is the longest such tail, taken with
`LeastElement`. *Input*: `RingHolds` (the ring holds, in order, the keys of the characters not yet taken,
with the step between store and publication), `KeysHeld` (the matrix holds the last character
taken until it is released, and what was scanned is a beginning of what was accepted), `Handled` and
`Under` (the handler has made j of its fifteen accesses and seen the keys of the rows read so
far, the rest of the program is the firmware's own), and `SerialInv` (sent is received, held and still to come,
unless a programmed reset lost a byte). The two hypotheses are about the firmware, which is not in the
repository: it leaves the matrix's rows and the clearing of their interrupt to the handler, and takes a
byte right after it has awaited one. TLC evaluates them for the sessions of the run.

**Processor**: for every width of a byte and of a digit, size of memory, stack page (on a page boundary),
vectors, addressing modes, operands, and any programs. `EmulationStackInPage` alone is not inductive: that a
push stays in the page supposes that the registers have their widths, what an instruction does supposes that
the processor has it, and the frames of the L28, which has no XCE, suppose its emulation mode. `IInv` adds
those (`Machine`, `IrOK`, the L28's mode). There are some two hundred operations, each with up to nine
addressing modes, and the invariants see little of them. So a first layer sorts them: an operation leaves
the machine `Untouched`, `Slides` it (the pointer moves, nothing else that matters), or `Moves` it
(registers change within their widths as well); pushes, pulls, loads, arithmetic, modifications and branches
each get one lemma for all of them. A second layer says with `Result` what the instruction of a mnemonic
does: by how many bytes the pointer goes down (`Grown`), which of those set it outright, whose halves are
kept. A third says that every step of `Next` is an instruction `Done` with that `Result`, perhaps with an
interrupt behind it that slides by the size of its frame, or halts (`NextCases`). The theorems follow from
the third layer. That the invariants can be stated over a table of mnemonics is why `Programs` is typed by
one.

For `PointerFollowsItems` the items need their sizes: that RTI pulls what an interrupt pushed holds only
while the mode is the one it was pushed in, and that is why the rules keep XCE for an empty stack and
interrupts off in emulation mode on the 65C816. `SInv` is `IInv` with `Follows`: every item has the size its
kind has in this mode, ends where the next begins, and the last ends at the pointer. An interrupt right
after XCE is the one case where the mode of the frame is not the mode before the instruction.

**Arithmetic**: for every width of a byte and digits that fill it and hold a nine (`DigitAssumption`), so
for the code's eight and four bits. `SumsAreRight` and `SignedResultsAreRight` are about remainders,
quotients and signs, which the provers only take with `ByteSize` and `WordSize` as opaque numbers: lemmas
state `%` and `\div` one step away from a range, products of signed bytes stay inside a word, and bits are
read off a value one at a time. The decimal adjustment is a recursive function over the columns of the sum
that has been made in binary. Its invariant, shown by a least counterexample, is that after k columns the
value is made of k digits below ten, which are those a sum on paper has there, and the binary sum of the
columns above with the carry on paper (`ColumnSums`, `DigitsStay`, `HigherColumns`); the last carry is the
code's C. That fails as soon as one column reaches sixteen, where the binary sum has carried already; hence
the hypothesis of `DecimalSums`, and no other. `BytesChain` in decimal says that the adjustment of a word
goes on, from the middle, as that of its high byte (`AdjustmentChains`, `SumsAbove`).

Model-checked only, and why:

* `KeysGetThrough` and `Terminates`, liveness properties, which are out of the prover's reach.
* `ResultsAreRight`, `DisassemblyInStep`, `EmissionsDecode` and `LabelsSettle`: compiler, disassembler and
  assembler are recursive operators over trees, tokens and bytes, and what those give for every input needs an
  induction over data.
* `ReturnsWhereItCame` and `PullsWhatWasPushed`: unlike where the pointer is, what lies there is not an
  invariant of every program. A program may store over its own stack, and the stack wraps over itself when it is
  deeper than its page; the run has programs that do neither. `Depth` bounds the stack, but nothing in the code
  or the rules bounds the stores.
* `TableCovers` and `NoFalseRefusal` of the memory manager, which no theorem needs.

## 5. Plan

Done, in this order: MemoryManager, HeapManager, the ADB pair, the floppy pair, Files; then the
processors, loader, handheld, assembler and compiler; then the proofs of section 4. Next:

1. The compiler: pointers, arrays, records, calls and parameters.
2. `Files`: writes that fail, long names and the aliases `ToFATName` makes, subdirectories; the FAT12
   packing against a function.
3. The loader inside OS16 (`Modules`), with the image that `WriteImage` writes and `Boot` reads back.

## 6. Not modelled

The ELF tools and converters read and write one file once; `objdump/src/dis.c` does not compile in this
commit, and there is no linker yet. Drawing and fonts have no state worth a property.
InterruptManager never runs a handler. OS16's own loader and the boot path repeat, over `Files`, what
`HostLoader` models over the host's files. The compiler and the assembler written in Oberon
(`oc/oberon`, `as`) are the originals of the programs in C that are modelled. `R6501.cpp` is
built by nothing. PROJECT.json lists each with its reason.
