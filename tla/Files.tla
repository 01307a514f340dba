-------------------------------- MODULE Files --------------------------------
(***************************************************************************)
(* OS16's file system (OS16/src/Files.Mod) on a block device that does     *)
(* what BlockDevice says: the FAT and its copy in memory, the directory,   *)
(* the File objects with their one-sector buffer, and the riders that walk *)
(* cluster chains.                                                         *)
(*                                                                         *)
(* One action per exported procedure.  A procedure changes memory at once  *)
(* and writes its blocks in order; the machine may be reset between any    *)
(* two of them, and then Init mounts what the disk has.  One directory, an *)
(* entry to a name and a block to an entry; FAT2, which nothing reads, is  *)
(* left out, as are subdirectories, long names and attributes.             *)
(*                                                                         *)
(* Callers keep four rules that the module does not check: one File to a   *)
(* directory entry, no Delete or Rename of an open file, no use of a rider *)
(* after another rider has made its file longer, and no use of an entry    *)
(* that a reset left half written.                                         *)
(*                                                                         *)
(* Ghosts, which no step reads but for those rules: text, what each open   *)
(* file should hold; saved, what each entry's file should hold on disk;    *)
(* torn, the entries a reset left half written; stale, the riders another  *)
(* one has overtaken; misread and wild, that a read returned the wrong     *)
(* byte, that a write fell outside the buffer.                             *)
(***************************************************************************)
EXTENDS Integers, Sequences, FiniteSets, FiniteSetsExt, Functions

CONSTANTS
  Names, Handles, Riders,
  maxCluster,        \* clusters are numbered from 2
  secsPerCluster,
  SectorSize,
  fatSectors,        \* blocks of the FAT
  FatPerSector,      \* clusters to a block of it
  Slots,             \* directory entries, 1 .. Slots
  Bytes,             \* what callers write
  MaxLen, MaxCalls, MaxResets   \* bounds on a run

Clusters     == 2 .. maxCluster
Secs         == 0 .. (secsPerCluster - 1)
ClusterBytes == secsPerCluster * SectorSize

ASSUME FilesConstants ==
  /\ {secsPerCluster, SectorSize, fatSectors, FatPerSector, Slots} \subseteq Nat \ {0}
  /\ maxCluster \in Nat /\ maxCluster >= 2
  /\ 0 \notin Bytes /\ "" \notin Names
  /\ fatSectors * FatPerSector >= maxCluster - 1
  /\ {MaxLen, MaxCalls, MaxResets} \subseteq Nat

FATFree == 0
EOC     == maxCluster + 1   \* 0FFFH: no cluster number, but not below 2 either

VARIABLES
  disk,            \* the blocks: fat, dir and data
  fat, fatDirty,   \* the FAT in memory
  file,            \* the File objects callers hold
  rider,           \* and their riders
  text, saved, torn, stale, misread, wild,
  calls, resets

memVars == <<fat, fatDirty, file, rider, text, stale>>
vars == <<disk, memVars, saved, torn, misread, wild, calls, resets>>

NoEntry    == [name |-> "", cluster |-> 0, len |-> 0]
ZeroSector == [j \in 0 .. (SectorSize - 1) |-> 0]
With(f, k, v)  == [x \in DOMAIN f \cup {k} |-> IF x = k THEN v ELSE f[x]]
Without(f, ks) == Restrict(f, DOMAIN f \ ks)

\* What Format leaves, mounted.
Init ==
  /\ disk = [fat  |-> [c \in Clusters |-> FATFree],
             dir  |-> [s \in 1 .. Slots |-> NoEntry],
             data |-> [at \in Clusters \X Secs |-> ZeroSector]]
  /\ fat = disk.fat /\ fatDirty = FALSE
  /\ file = <<>> /\ rider = <<>>
  /\ text = <<>> /\ saved = [s \in 1 .. Slots |-> <<>>]
  /\ torn = {} /\ stale = {} /\ misread = FALSE /\ wild = FALSE
  /\ calls = 0 /\ resets = 0

-----------------------------------------------------------------------------
(* Cluster chains. *)

FollowChain(F, start, hops) ==
  LET to[n \in 0 .. hops] ==
        IF n = 0 THEN start
        ELSE IF to[n - 1] \in Clusters THEN F[to[n - 1]] ELSE to[n - 1]
  IN  to[hops]

\* Links from the first cluster of a chain to its last.
Hops(F, start) ==
  Min({n \in 0 .. (maxCluster - 2) : FollowChain(F, start, n + 1) \notin Clusters} \cup {maxCluster})

Chain(F, start) ==
  IF start \in Clusters THEN {FollowChain(F, start, n) : n \in 0 .. Hops(F, start)} ELSE {}

FreeClusters(F) == {c \in Clusters : F[c] = FATFree}
AllocCluster(F) == Min(FreeClusters(F))

FreeChain(F, start) == [c \in Clusters |-> IF c \in Chain(F, start) THEN FATFree ELSE F[c]]

-----------------------------------------------------------------------------
(* Blocks.  A procedure's writes are a sequence; a reset cuts it short. *)

DataWrite(c, s, sector) == [to |-> "data", at |-> <<c, s>>, is |-> sector]
DirWrite(slot, entry)   == [to |-> "dir", at |-> slot, is |-> entry]
FatWrite(i, F)          == [to |-> "fat", at |-> i, is |-> F]

FatSector(c) == (c - 2) \div FatPerSector + 1

Put(d, w) ==
  IF w.to = "data" THEN [d EXCEPT !.data[w.at] = w.is]
  ELSE IF w.to = "dir" THEN [d EXCEPT !.dir[w.at] = w.is]
  ELSE [d EXCEPT !.fat = [c \in Clusters |-> IF FatSector(c) = w.at THEN w.is[c] ELSE d.fat[c]]]

\* The disk when the first k writes are done, and when all are.
Done(writes, k) ==
  LET d[n \in 0 .. k] == IF n = 0 THEN disk ELSE Put(d[n - 1], writes[n])
  IN  d[k]
After(writes) == Done(writes, Len(writes))

FlushFirst(F, dirty) == IF dirty THEN <<FatWrite(1, F)>> ELSE <<>>

FlushFAT(F, dirty) ==
  IF dirty THEN [i \in 1 .. fatSectors |-> FatWrite(i, F)] ELSE <<>>

FlushFile(f) ==
  IF f.bufDirty /\ f.bufCluster >= 2
  THEN <<DataWrite(f.bufCluster, f.bufSecOfs, f.buf)>> ELSE <<>>
Flushed(f) == [f EXCEPT !.bufDirty = f.bufDirty /\ f.bufCluster < 2]

\* Entries of open files that have been written to since they were saved.
Unsaved == {file[h].dirEntry : h \in {g \in DOMAIN file :
              file[g].registered /\ (file[g].bufDirty \/ text[g] # saved[file[g].dirEntry])}}

Memory(F, dirty, files, riders, texts) ==
  /\ fat' = F /\ fatDirty' = dirty /\ file' = files /\ rider' = riders /\ text' = texts

\* A call that writes these blocks: it returns, or the machine is reset on the
\* way and Init mounts the disk again.  own is the entry the call is saving.
Writes(writes, own, nowSaved, returns) ==
  /\ ~wild /\ calls < MaxCalls /\ calls' = calls + 1
  /\ UNCHANGED <<misread, wild>>
  /\ \/ /\ disk' = After(writes)
        /\ saved' = nowSaved
        /\ torn' = {s \in torn : disk'.dir[s] # NoEntry}
        /\ returns
        /\ UNCHANGED resets
     \/ /\ resets < MaxResets /\ resets' = resets + 1
        /\ \E k \in 0 .. Len(writes) :
             /\ disk' = Done(writes, k)
             /\ torn' = {s \in torn \cup Unsaved \cup (IF k < Len(writes) THEN own ELSE {}) :
                           disk'.dir[s] # NoEntry}
        /\ saved' = [s \in 1 .. Slots |->
                       IF disk'.dir[s] = After(writes).dir[s] THEN nowSaved[s] ELSE saved[s]]
        /\ Memory(disk'.fat, FALSE, <<>>, <<>>, <<>>) /\ stale' = {}

-----------------------------------------------------------------------------
(* The directory. *)

Find(d, name) == {s \in 1 .. Slots : d.dir[s].name = name}
FreeEntries(d) == {s \in 1 .. Slots : d.dir[s] = NoEntry}

InUse(slot) == \E h \in DOMAIN file : file[h].dirEntry = slot

NewFile(name, slot, start, len) ==
  [name |-> name, len |-> len, startCluster |-> start, dirEntry |-> slot,
   registered |-> slot # 0, modified |-> FALSE,
   buf |-> ZeroSector, bufCluster |-> -1, bufSecOfs |-> 0, bufDirty |-> FALSE]

\* Old(name): the first entry of that name.
Old(h, name) ==
  /\ h \notin DOMAIN file /\ Find(disk, name) # {}
  /\ LET slot == Min(Find(disk, name))
         e    == disk.dir[slot]
     IN  /\ slot \notin torn /\ ~InUse(slot)
         /\ Writes(<<>>, {}, saved,
              /\ Memory(fat, fatDirty, With(file, h, NewFile(name, slot, e.cluster, e.len)),
                        rider, With(text, h, saved[slot]))
              /\ UNCHANGED stale)

New(h, name) ==
  /\ h \notin DOMAIN file
  /\ Writes(<<>>, {}, saved,
       /\ Memory(fat, fatDirty, With(file, h, NewFile(name, 0, 0, 0)), rider, With(text, h, <<>>))
       /\ UNCHANGED stale)

EntryOf(f) == [name |-> f.name, cluster |-> f.startCluster, len |-> f.len]

\* Register: an entry of its own, whether or not the name has one already, and
\* then the FAT; nothing but the flush when the directory is full.
Register(h) ==
  /\ h \in DOMAIN file /\ ~file[h].registered
  /\ LET f == file[h]
     IN  \/ /\ FreeEntries(disk) # {}
            /\ LET slot == Min(FreeEntries(disk))
               IN  Writes(FlushFile(f) \o <<DirWrite(slot, EntryOf(f))>> \o FlushFAT(fat, fatDirty),
                     {slot}, [saved EXCEPT ![slot] = text[h]],
                     /\ Memory(fat, FALSE,
                               [file EXCEPT ![h] = [Flushed(f) EXCEPT !.dirEntry = slot,
                                                      !.registered = TRUE, !.modified = FALSE]],
                               rider, text)
                     /\ UNCHANGED stale)
         \/ /\ FreeEntries(disk) = {}
            /\ Writes(FlushFile(f), {}, saved,
                 /\ Memory(fat, fatDirty, [file EXCEPT ![h] = Flushed(f)], rider, text)
                 /\ UNCHANGED stale)

\* Close, the last call for a file: the buffer, and when the file has grown its
\* entry and the FAT.  A file that was never registered keeps its clusters.
Close(h) ==
  /\ h \in DOMAIN file
  /\ LET f     == file[h]
         grown == f.registered /\ f.modified
         gone  == {r \in DOMAIN rider : rider[r].file = h}
     IN  Writes(FlushFile(f) \o (IF grown THEN <<DirWrite(f.dirEntry, EntryOf(f))>> \o FlushFAT(fat, fatDirty)
                                 ELSE <<>>),
           IF grown THEN {f.dirEntry} ELSE {},
           IF f.registered THEN [saved EXCEPT ![f.dirEntry] = text[h]] ELSE saved,
           /\ Memory(fat, fatDirty /\ ~grown, Without(file, {h}), Without(rider, gone),
                     Without(text, {h}))
           /\ stale' = stale \ gone)

\* Delete(name): the entry first, then the chain.
Delete(name) ==
  /\ Find(disk, name) # {}
  /\ LET slot == Min(Find(disk, name))
         c    == disk.dir[slot].cluster
         F    == FreeChain(fat, c)
     IN  /\ slot \notin torn /\ ~InUse(slot)
         /\ Writes(<<DirWrite(slot, NoEntry)>> \o (IF c >= 2 THEN FlushFAT(F, TRUE) ELSE <<>>),
              {}, [saved EXCEPT ![slot] = <<>>],
              Memory(F, fatDirty /\ c < 2, file, rider, text) /\ UNCHANGED stale)

\* Rename(old, new): the old entry goes before the new one, in the first free
\* slot, is there.
Rename(old, new) ==
  /\ Find(disk, old) # {} /\ Find(disk, new) = {}
  /\ LET slot == Min(Find(disk, old))
         to   == Min(FreeEntries(disk) \cup {slot})
     IN  /\ slot \notin torn /\ ~InUse(slot)
         /\ Writes(<<DirWrite(slot, NoEntry), DirWrite(to, [disk.dir[slot] EXCEPT !.name = new])>>,
              {}, [[saved EXCEPT ![slot] = <<>>] EXCEPT ![to] = saved[slot]],
              Memory(fat, fatDirty, file, rider, text) /\ UNCHANGED stale)

-----------------------------------------------------------------------------
(* Riders. *)

SyncInPlace(F, f, r) ==
  [r EXCEPT !.clusterIdx = r.pos \div ClusterBytes,
            !.secOfs     = (r.pos % ClusterBytes) \div SectorSize]

\* SyncRider: on from where the rider is, or from the start when that is behind.
SyncRider(F, f, r) ==
  LET target == r.pos \div ClusterBytes
      behind == target < r.clusterIdx
      from   == IF behind THEN f.startCluster ELSE r.cluster
      hops   == IF behind THEN target ELSE target - r.clusterIdx
  IN  [r EXCEPT !.cluster    = FollowChain(F, from, hops),
                !.clusterIdx = target,
                !.secOfs     = (r.pos % ClusterBytes) \div SectorSize]

\* Set(r, f, pos).
Set(r, h, pos) ==
  /\ h \in DOMAIN file /\ pos <= file[h].len
  /\ Writes(<<>>, {}, saved,
       /\ Memory(fat, fatDirty, file,
            With(rider, r, SyncRider(fat, file[h],
              [file |-> h, pos |-> pos, cluster |-> file[h].startCluster,
               clusterIdx |-> 0, secOfs |-> 0])), text)
       /\ stale' = stale \ {r})

EnsureNoFlush(f, c, s) ==
  IF c = f.bufCluster /\ s = f.bufSecOfs THEN [ok |-> TRUE, f |-> f, writes |-> <<>>]
  ELSE [ok |-> c <= maxCluster, writes |-> <<>>,
        f |-> IF c \in Clusters
              THEN [f EXCEPT !.buf = disk.data[<<c, s>>], !.bufCluster = c, !.bufSecOfs = s]
              ELSE f]

\* EnsureSector: flush, then load.  Below the first cluster nothing is loaded
\* and all is well; past the last one the device has no such block.
EnsureSector(f, c, s) ==
  IF c = f.bufCluster /\ s = f.bufSecOfs THEN [ok |-> TRUE, f |-> f, writes |-> <<>>]
  ELSE [ok |-> c <= maxCluster, writes |-> FlushFile(f),
        f |-> IF c \in Clusters
              THEN [Flushed(f) EXCEPT !.buf = disk.data[<<c, s>>],
                                      !.bufCluster = c, !.bufSecOfs = s]
              ELSE Flushed(f)]

BufIdx(r) == r.pos - r.clusterIdx * ClusterBytes - r.secOfs * SectorSize
InBuffer(r) == BufIdx(r) \in 0 .. (SectorSize - 1)

\* Read(r, x).
Read(r) ==
  /\ r \in DOMAIN rider \ stale /\ rider[r].pos < file[rider[r].file].len
  /\ ~wild /\ calls < MaxCalls /\ calls' = calls + 1
  /\ LET h == rider[r].file
         at == SyncRider(fat, file[h], rider[r])
         e  == EnsureSector(file[h], at.cluster, at.secOfs)
     IN  /\ disk' = After(e.writes)
         /\ file' = [file EXCEPT ![h] = e.f]
         /\ rider' = [rider EXCEPT ![r] = IF e.ok THEN [at EXCEPT !.pos = @ + 1] ELSE at]
         /\ misread' = (misread \/ ~e.ok \/ ~InBuffer(at) \/ e.f.buf[BufIdx(at)] # text[h][at.pos + 1])
  /\ UNCHANGED <<fat, fatDirty, text, stale, saved, torn, wild, resets>>

ExtendUnmarked(f, r) ==
  LET c    == AllocCluster(fat)
      hops == Hops(fat, f.startCluster)
      at   == IF f.startCluster < 2 THEN 0 ELSE hops + 1
  IN  [f |-> IF f.startCluster < 2 THEN [f EXCEPT !.startCluster = c] ELSE f,
       F |-> IF f.startCluster < 2 THEN fat
             ELSE [fat EXCEPT ![FollowChain(fat, f.startCluster, hops)] = c],
       r |-> [r EXCEPT !.cluster = c, !.clusterIdx = at, !.secOfs = 0]]

ExtendOneShort(f, r) ==
  LET c    == AllocCluster(fat)
      hops == Hops(fat, f.startCluster)
  IN  [f |-> IF f.startCluster < 2 THEN [f EXCEPT !.startCluster = c] ELSE f,
       F |-> IF f.startCluster < 2 THEN [fat EXCEPT ![c] = EOC]
             ELSE [fat EXCEPT ![c] = EOC, ![FollowChain(fat, f.startCluster, hops)] = c],
       r |-> [r EXCEPT !.cluster = c, !.clusterIdx = hops, !.secOfs = 0]]

\* ExtendFile: one more cluster at the end of the chain, and the rider on it.
Extend(f, r) ==
  LET c    == AllocCluster(fat)
      hops == Hops(fat, f.startCluster)
      at   == IF f.startCluster < 2 THEN 0 ELSE hops + 1
  IN  [f |-> IF f.startCluster < 2 THEN [f EXCEPT !.startCluster = c] ELSE f,
       F |-> IF f.startCluster < 2 THEN [fat EXCEPT ![c] = EOC]
             ELSE [fat EXCEPT ![c] = EOC, ![FollowChain(fat, f.startCluster, hops)] = c],
       r |-> [r EXCEPT !.cluster = c, !.clusterIdx = at, !.secOfs = 0]]

Overwrite(t, pos, x) == IF pos < Len(t) THEN [t EXCEPT ![pos + 1] = x] ELSE Append(t, x)

\* The riders of file h that stand past its last cluster.
PastTheEnd(h) == {q \in DOMAIN rider : rider[q].file = h /\ rider[q].cluster \notin Clusters}

\* Write(r, x): the cluster is there or is added, unless the disk is full; its
\* sector is brought into the buffer; and the byte goes there.  (The code's
\* branch for an index past the buffer is for a case that wild rules out.)
Write(r, x) ==
  /\ r \in DOMAIN rider \ stale /\ rider[r].pos < MaxLen
  /\ LET h      == rider[r].file
         f      == file[h]
         at     == IF f.startCluster < 2 THEN rider[r] ELSE SyncRider(fat, f, rider[r])
         extend == f.startCluster < 2 \/ at.cluster \notin Clusters
         to     == IF extend THEN Extend(f, at) ELSE [f |-> f, F |-> fat, r |-> at]
         e      == EnsureSector(to.f, to.r.cluster, to.r.secOfs)
         end    == to.r.pos + 1
     IN  \/ /\ extend /\ FreeClusters(fat) = {}
            /\ Writes(<<>>, {}, saved,
                 /\ Memory(fat, fatDirty, file, [rider EXCEPT ![r] = at], text)
                 /\ UNCHANGED stale)
         \/ /\ ~extend \/ FreeClusters(fat) # {}
            /\ InBuffer(to.r)
            /\ Writes(e.writes, {}, saved,
                 /\ Memory(to.F, fatDirty \/ extend,
                      [file EXCEPT ![h] =
                         [e.f EXCEPT !.buf[BufIdx(to.r)] = x, !.bufDirty = TRUE,
                                     !.len = IF end > f.len THEN end ELSE f.len,
                                     !.modified = @ \/ end > f.len]],
                      [rider EXCEPT ![r] = [to.r EXCEPT !.pos = end]],
                      [text EXCEPT ![h] = Overwrite(@, to.r.pos, x)])
                 /\ stale' = IF extend THEN stale \cup (PastTheEnd(h) \ {r}) ELSE stale)
         \/ /\ ~extend \/ FreeClusters(fat) # {}
            /\ ~InBuffer(to.r) /\ ~wild
            /\ wild' = TRUE
            /\ UNCHANGED <<disk, memVars, saved, torn, misread, calls, resets>>

-----------------------------------------------------------------------------
Next ==
  \/ \E h \in Handles, name \in Names : Old(h, name) \/ New(h, name)
  \/ \E h \in Handles : Register(h) \/ Close(h)
  \/ \E name \in Names : Delete(name)
  \/ \E old, new \in Names : Rename(old, new)
  \/ \E r \in Riders, h \in Handles, pos \in 0 .. MaxLen : Set(r, h, pos)
  \/ \E r \in Riders : Read(r)
  \/ \E r \in Riders, x \in Bytes : Write(r, x)

Spec == Init /\ [][Next]_vars

-----------------------------------------------------------------------------
(* What must hold. *)

ClusterRef == Clusters \cup {FATFree, EOC}

\* Entries of the FAT name clusters, and the buffers and riders their sectors.
TypeOK ==
  /\ fat \in [Clusters -> ClusterRef] /\ disk.fat \in [Clusters -> ClusterRef]
  /\ fatDirty \in BOOLEAN
  /\ DOMAIN file \subseteq Handles /\ DOMAIN text = DOMAIN file
  /\ \A h \in DOMAIN file :
       /\ file[h].startCluster \in Clusters \cup {0}
       /\ file[h].dirEntry \in 0 .. Slots /\ (file[h].registered <=> file[h].dirEntry # 0)
       /\ file[h].bufCluster \in Clusters \cup {-1} /\ file[h].bufSecOfs \in Secs
       /\ DOMAIN file[h].buf = 0 .. (SectorSize - 1)
  /\ \A r \in DOMAIN rider :
       /\ rider[r].file \in DOMAIN file /\ rider[r].pos <= file[rider[r].file].len
       /\ rider[r].cluster \in ClusterRef /\ rider[r].secOfs \in Secs

\* The files there are: those held open, and the whole entries nobody holds.
AllFiles ==
  {[who |-> h, start |-> file[h].startCluster, len |-> file[h].len] : h \in DOMAIN file}
  \cup {[who |-> s, start |-> disk.dir[s].cluster, len |-> disk.dir[s].len] :
          s \in {t \in 1 .. Slots \ torn : disk.dir[t] # NoEntry /\ ~InUse(t)}}

\* Every file has clusters for its length in a chain that ends, and no cluster
\* belongs to two files, through growing, deleting, a full disk and resets.
FilesOwnTheirClusters ==
  \A a \in AllFiles :
    LET chain == Chain(fat, a.start)
    IN  /\ a.len <= Cardinality(chain) * ClusterBytes
        /\ chain # {} => \E c \in chain : fat[c] = EOC
        /\ \A b \in AllFiles : a # b => chain \cap Chain(fat, b.start) = {}

SectorAt(F, start, pos) ==
  <<FollowChain(F, start, pos \div ClusterBytes), (pos % ClusterBytes) \div SectorSize>>

\* What the blocks hold at pos of the file that starts there, and what an open
\* file holds, whose buffer may be ahead of its block.
OnDisk(F, start, pos) == disk.data[SectorAt(F, start, pos)][pos % SectorSize]
InFile(f, pos) ==
  IF SectorAt(fat, f.startCluster, pos) = <<f.bufCluster, f.bufSecOfs>>
  THEN f.buf[pos % SectorSize] ELSE OnDisk(fat, f.startCluster, pos)

\* An open file holds exactly what was written to it, whichever of its sectors
\* is in the buffer.
OpenFilesHoldTheirText ==
  \A h \in DOMAIN file :
    /\ file[h].len = Len(text[h])
    /\ \A pos \in 0 .. (file[h].len - 1) : InFile(file[h], pos) = text[h][pos + 1]

\* A saved file that is not being written can be read from the disk alone, by
\* the FAT that is there, in which its clusters are taken, between any two calls
\* and after a reset in any call.
SavedFilesAreOnDisk ==
  \A s \in (1 .. Slots) \ (torn \cup Unsaved) :
    disk.dir[s] # NoEntry =>
      /\ disk.dir[s].len = Len(saved[s])
      /\ \A pos \in 0 .. (disk.dir[s].len - 1) :
           /\ LET c == SectorAt(disk.fat, disk.dir[s].cluster, pos)[1]
              IN  c \in Clusters /\ disk.fat[c] # FATFree
           /\ OnDisk(disk.fat, disk.dir[s].cluster, pos) = saved[s][pos + 1]

\* Read returns the byte last written at its position.
ReadsWhatWasWritten == ~misread

\* Write's index stays inside the sector buffer, which it does not check.
WritesInsideTheBuffer == ~wild

\* MakeImage has "a single linked image" at its path: opening a name finds the
\* file last registered under it.
RegisteredIsFound ==
  \A h \in DOMAIN file :
    file[h].registered => file[h].dirEntry = Min(Find(disk, file[h].name))
=============================================================================
