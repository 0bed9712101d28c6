---------------------------- MODULE StoreProofs ----------------------------
(* Theorems about the image store of module Store, for every number of     *)
(* keys, names, processes and files: the types of its state, and that the  *)
(* lock of a key is enough, so that no file ever has two writers and a     *)
(* blob is always the complete image of its key.  The invariants they rest *)
(* on are those of module StoreInvariant.  Then what the catalog shows and *)
(* what the users of the store find, and that the store implements the     *)
(* cache of module ImageCache.                                             *)
EXTENDS StoreInvariant, StoreImplementsCache, TLAPS

USE ConstantsAssumption DEF Procs

-----------------------------------------------------------------------------
(* Names, files and inodes.                                                *)

\* The names are names, and no two of them are one.
LEMMA NameFacts ==
  /\ \A k \in Keys : Blob(k) \in Names /\ Tmp(k) \in Names
  /\ \A d \in Dests : Cat(d) \in Names /\ Part(d) \in Names
  /\ \A v \in Disks : Disk(v) \in Names
  /\ \A k, l \in Keys : /\ Blob(k) # Tmp(l)
                        /\ Blob(k) = Blob(l) => k = l
                        /\ Tmp(k) = Tmp(l) => k = l
  /\ \A k \in Keys, d \in Dests :
       {Blob(k), Tmp(k)} \cap {Cat(d), Part(d)} = {}
  /\ \A k \in Keys, v \in Disks : Disk(v) \notin {Blob(k), Tmp(k)}
  /\ \A d \in Dests, v \in Disks : Disk(v) \notin {Cat(d), Part(d)}
  /\ \A d, e \in Dests : Cat(d) # Part(e)
BY DEF Names, Blob, Tmp, Cat, Part, Disk

\* A file just created, one that is changed, and what a copy holds are well
\* formed.
LEMMA OpenedType ==
  ASSUME NEW c \in Keys \cup {None} PROVE Opened(c) \in Files
BY DEF Opened, Files

\* A file that is changed stays well formed.
LEMMA ChangedType ==
  ASSUME NEW f \in Files
  PROVE  /\ [f EXCEPT !.ro = TRUE] \in Files
         /\ [f EXCEPT !.synced = TRUE] \in Files
         /\ [f EXCEPT !.whole = FALSE] \in Files
         /\ [f EXCEPT !.content = None, !.synced = FALSE] \in Files
BY DEF Files

\* What a copy holds is well formed.
LEMMA CopiedType ==
  ASSUME FilesOK, NEW i \in Inodes PROVE Copied(i) \in Keys \cup {None}
BY DEF FilesOK, Files, Copied

\* Reclaiming unreachable files keeps the others as they are.
LEMMA ReclaimType ==
  ASSUME NEW f \in [Inodes -> Files], NEW d, NEW o
  PROVE  /\ Reclaim(f, d, o) \in [Inodes -> Files]
         /\ \A i \in Live(d, o) \cap Inodes : Reclaim(f, d, o)[i] = f[i]
BY DEF Reclaim, Unused, Files

\* What has a name or a descriptor is live.
LEMMA LiveFacts ==
  ASSUME NEW d, NEW o
  PROVE  /\ \A n \in Names : d[n] \in Live(d, o)
         /\ \A p \in Procs : o[p] \in Live(d, o)
BY DEF Live

\* A new file is one that no name and no descriptor reaches.
LEMMA NewInodeFacts ==
  ASSUME NEW n \in Names, Free(n) # {}
  PROVE  /\ NewInode(n) \in Inodes
         /\ NewInode(n) # None
         /\ \A m \in Names : dir[m] # NewInode(n)
         /\ \A p \in Procs : out[p] # NewInode(n)
<1>1. NewInode(n) \in Free(n)
  BY DEF NewInode
<1>2. Free(n) \subseteq Inodes /\ Free(n) \cap Live(dir, out) = {}
  BY DEF Free
<1>. QED BY <1>1, <1>2, LiveFacts

\* What the last write and the close do to the file that is closed, and that
\* they keep every file well formed.
LEMMA CloseWrittenFacts ==
  ASSUME FilesOK, JobsOK, NEW p \in Procs, NEW durable \in BOOLEAN,
         out[p] # None, CloseWritten(p, durable)
  PROVE  /\ inode' \in [Inodes -> Files]
         /\ out' = [out EXCEPT ![p] = None]
         /\ \A i \in Live(dir', out') \cap Inodes :
              /\ i # out[p] => inode'[i] = inode[i]
              /\ i = out[p] => /\ inode'[i].content = inode[i].content
                               /\ inode'[i].ro = inode[i].ro
                               /\ inode'[i].whole = TRUE
                               /\ durable => inode'[i].synced
<1> DEFINE i == out[p]
           g == [inode[i] EXCEPT !.whole = TRUE, !.synced = durable]
           f == [inode EXCEPT ![i].whole = TRUE, ![i].synced = durable]
<1>1. i \in Inodes /\ inode[i] \in Files
  BY DEF FilesOK, JobsOK
<1>2. g \in Files
  BY <1>1 DEF Files
<1>3. f = [inode EXCEPT ![i] = g]
  BY <1>1 DEF FilesOK, Files
<1>4. f \in [Inodes -> Files]
  BY <1>2, <1>3 DEF FilesOK
<1>5. inode' = Reclaim(f, dir', out') /\ out' = [out EXCEPT ![p] = None]
  BY DEF CloseWritten
<1>6. \A j \in Inodes : f[j] = IF j = i THEN g ELSE inode[j]
  BY <1>1, <1>3 DEF FilesOK
<1>7. /\ g.content = inode[i].content /\ g.ro = inode[i].ro
      /\ g.whole = TRUE /\ g.synced = durable
  BY <1>1 DEF Files
<1> HIDE DEF f, g
<1>. QED BY <1>4, <1>5, <1>6, <1>7, ReclaimType

\* Creating, removing and renaming keep every name and every file well formed.
LEMMA CreateNewType ==
  ASSUME FilesOK, NEW p \in Procs, NEW n \in Names,
         NEW c \in Keys \cup {None}, CreateNew(p, n, c)
  PROVE  dir' \in [Names -> Inodes \cup {None}] /\ inode' \in [Inodes -> Files]
BY NewInodeFacts, OpenedType DEF CreateNew, FilesOK

\* The same for removing a name.
LEMMA RemoveType ==
  ASSUME FilesOK, NEW n \in Names, RemoveFile(n)
  PROVE  dir' \in [Names -> Inodes \cup {None}] /\ inode' \in [Inodes -> Files]
BY ReclaimType DEF RemoveFile, Unlinked, FilesOK

\* The same for renaming.
LEMMA RenamedType ==
  ASSUME FilesOK, NEW m \in Names, NEW n \in Names
  PROVE  Renamed(m, n) \in [Names -> Inodes \cup {None}]
BY DEF Renamed, FilesOK

-----------------------------------------------------------------------------
(* Types.                                                                  *)

\* The types hold when the store is opened.
LEMMA InitTypes == Init => TypeOK
BY DEF Init, TypeOK, FilesOK, JobsOK, Files, Unused, PcOf, BuilderPc, CopierPc,
       CollectorPc, InstallPc, Writing

\* Builders keep the state of the processes well formed.
LEMMA BuilderJobs ==
  ASSUME TypeOK, NEW b \in Builders,
         Solve(b) \/ Lock(b) \/ BuilderStep(b) \/ Abort(b)
  PROVE  JobsOK'
<1> USE NameFacts, NewInodeFacts
    DEF Goto, Try, TypeOK, JobsOK, PcOf, BuilderPc, CopierPc, CollectorPc,
        InstallPc, Writing, jobVars, fileVars
<1>1. CASE Solve(b)
  BY <1>1 DEF Solve, StartJob
<1>2. CASE Lock(b)
  BY <1>2 DEF Lock
<1>3. CASE Get(b) \/ ReadEntry(b) \/ Touch(b)
  BY <1>3 DEF Get, ReadEntry, Touch, AfterGet
<1>4. CASE Export(b)
  BY <1>4 DEF Export, Exists, FilesOK
<1>5. CASE Format(b) \/ PutCopied(b) \/ CopiedPart(b)
  <2>1. out' = [out EXCEPT ![b] = None]
    BY <1>5 DEF Format, PutCopied, CopiedPart, CloseWritten
  <2>2. CASE Format(b)
    BY <2>1, <2>2 DEF Format
  <2>3. CASE PutCopied(b)
    BY <2>1, <2>3 DEF PutCopied
  <2>4. CASE CopiedPart(b)
    BY <2>1, <2>4 DEF CopiedPart
  <2>. QED BY <1>5, <2>2, <2>3, <2>4
<1>6. CASE PutRename(b) \/ Seal(b) \/ Sync(b) \/ WriteMeta(b)
  BY <1>6 DEF PutRename, Seal, Sync, WriteMeta
<1>7. CASE PutCopy(b)
  BY <1>7 DEF PutCopy, CreateNew
<1>8. CASE Stat(b) \/ CheckInstall(b) \/ ClearPart(b)
  BY <1>8 DEF Stat, CheckInstall, ClearPart
<1>9. CASE LinkPart(b)
  BY <1>9 DEF LinkPart, CreateNew
<1>10. CASE Publish(b) \/ Tidy(b)
  BY <1>10 DEF Publish, Tidy
<1>11. CASE Unlock(b)
  BY <1>11 DEF Unlock, EndJob
<1>12. CASE Abort(b)
  BY <1>12 DEF Abort, Fallible
<1>. QED
  BY <1>1, <1>2, <1>3, <1>4, <1>5, <1>6, <1>7, <1>8, <1>9, <1>10, <1>11, <1>12
     DEF BuilderStep

\* So do copiers.
LEMMA CopierJobs ==
  ASSUME TypeOK, NEW m \in Copiers,
         Materialize(m) \/ CopierStep(m) \/ AbortCopy(m)
  PROVE  JobsOK'
<1> USE NameFacts, NewInodeFacts
    DEF Goto, Try, TypeOK, JobsOK, PcOf, BuilderPc, CopierPc, CollectorPc,
        InstallPc, Writing, jobVars, fileVars
<1>1. CASE Materialize(m)
  BY <1>1 DEF Materialize, StartJob
<1>2. CASE ClearDisk(m)
  BY <1>2 DEF ClearDisk
<1>3. CASE OpenClone(m) \/ OpenCopy(m)
  <2>1. \/ OpenDisk(m, "open", "clone")
        \/ OpenDisk(m, "copy", "copying")
    BY <1>3 DEF OpenClone, OpenCopy
  <2>2. CASE OpenDisk(m, "open", "clone")
    BY <2>2 DEF OpenDisk, CreateNew
  <2>3. CASE OpenDisk(m, "copy", "copying")
    BY <2>3 DEF OpenDisk, CreateNew
  <2>. QED BY <2>1, <2>2, <2>3
<1>4. CASE Clone(m)
  BY <1>4 DEF Clone, CloseWritten
<1>5. CASE CopiedDisk(m)
  BY <1>5 DEF CopiedDisk, CloseWritten
<1>6. CASE CloneDeclined(m) \/ AbortCopy(m)
  BY <1>6 DEF CloneDeclined, AbortCopy
<1>7. CASE MaterializeReturns(m)
  BY <1>7 DEF MaterializeReturns, EndJob
<1>. QED BY <1>1, <1>2, <1>3, <1>4, <1>5, <1>6, <1>7 DEF CopierStep

\* So do collectors.
LEMMA CollectorJobs ==
  ASSUME TypeOK, NEW c \in Collectors, List(c) \/ CollectorStep(c)
  PROVE  JobsOK'
<1> USE DEF Goto, TypeOK, JobsOK, PcOf, BuilderPc, CopierPc, CollectorPc,
        InstallPc, Writing, jobVars, fileVars
<1>1. CASE List(c)
  BY <1>1 DEF List, FilesOK
<1>2. CASE Keep(c) \/ KeptBusy(c)
  BY <1>2 DEF Keep, KeptBusy, Done
<1>3. CASE Claim(c) \/ EvictBlob(c)
  BY <1>3 DEF Claim, EvictBlob
<1>4. CASE Forget(c)
  BY <1>4 DEF Forget, Done
<1>. QED BY <1>1, <1>2, <1>3, <1>4 DEF CollectorStep

\* So do kills, losses of power and the users of the images.
LEMMA EnvironmentJobs ==
  ASSUME TypeOK, Environment
  PROVE  JobsOK'
<1> USE DEF TypeOK, JobsOK, PcOf, BuilderPc, CopierPc, CollectorPc,
        InstallPc, Writing, jobVars, fileVars
<1>1. ASSUME NEW p \in Procs, Crash(p) PROVE JobsOK'
  BY <1>1 DEF Crash, EndJob
<1>2. CASE PowerLoss
  BY <1>2 DEF PowerLoss
<1>3. ASSUME NEW d \in Disks, VmWrite(d) \/ Release(d) PROVE JobsOK'
  BY <1>3 DEF VmWrite, Release
<1>4. ASSUME NEW d \in Dests, Withdraw(d) PROVE JobsOK'
  BY <1>4 DEF Withdraw
<1>. QED BY <1>1, <1>2, <1>3, <1>4 DEF Environment

\* Builders keep names, files and metadata well formed.
LEMMA BuilderFiles ==
  ASSUME TypeOK, NEW b \in Builders,
         Solve(b) \/ Lock(b) \/ BuilderStep(b) \/ Abort(b)
  PROVE  FilesOK'
<1> DEFINE k == want[b]
<1>1. CASE Solve(b) \/ Lock(b) \/ Get(b) \/ ReadEntry(b) \/ Stat(b)
             \/ CheckInstall(b) \/ Unlock(b)
  BY <1>1 DEF TypeOK, FilesOK, fileVars, Solve, Lock, Get, ReadEntry, Stat,
              CheckInstall, Unlock
<1>2. ASSUME pc[b] \notin {"idle", "scan"}
      PROVE  k \in Keys
  BY <1>2 DEF TypeOK, JobsOK
<1>3. ASSUME pc[b] \in InstallPc
      PROVE  dest[b] \in Dests
  BY <1>3 DEF TypeOK, JobsOK
<1>4. ASSUME pc[b] \in Writing
      PROVE  out[b] \in Inodes /\ out[b] # None
  BY <1>4 DEF TypeOK, JobsOK
<1>5. CASE Touch(b) \/ WriteMeta(b)
  BY <1>2, <1>5 DEF TypeOK, FilesOK, fileVars, Touch, WriteMeta, Goto
<1>6. CASE Export(b)
  <2> DEFINE i == IF Exists(Tmp(k)) THEN dir[Tmp(k)] ELSE NewInode(Tmp(k))
  <2>1. k \in Keys /\ Tmp(k) \in Names
    BY <1>2, <1>6, NameFacts DEF Export, Goto
  <2>2. i \in Inodes
    BY <1>6, <2>1, NewInodeFacts DEF Export, Exists, TypeOK, FilesOK
  <2>3. PICK c \in Exports(k) : inode' = [inode EXCEPT ![i] = Opened(c)]
    BY <1>6 DEF Export
  <2>4. Opened(c) \in Files
    BY <2>1, <2>3, OpenedType DEF Exports
  <2>. QED BY <1>6, <2>1, <2>2, <2>3, <2>4 DEF Export, TypeOK, FilesOK
<1>7. CASE Format(b) \/ PutCopied(b) \/ CopiedPart(b)
  <2>1. /\ CloseWritten(b, Journal) \/ CloseWritten(b, TRUE)
        /\ pc[b] \in Writing
        /\ dir' = dir \/ dir' = Unlinked(Tmp(k))
        /\ meta' = meta
    BY <1>7 DEF Format, PutCopied, CopiedPart, Goto, Writing
  <2>2. inode' \in [Inodes -> Files]
    <3>1. FilesOK /\ JobsOK
      BY DEF TypeOK
    <3>2. b \in Procs /\ out[b] # None
      BY <1>4, <2>1
    <3>3. PICK durable \in BOOLEAN : CloseWritten(b, durable)
      BY <2>1, ConstantsAssumption
    <3> HIDE ConstantsAssumption DEF Procs
    <3>. QED BY <3>1, <3>2, <3>3, CloseWrittenFacts
  <2>3. dir' \in [Names -> Inodes \cup {None}]
    BY <2>1 DEF TypeOK, FilesOK, Unlinked
  <2>4. meta' \in SUBSET Keys
    BY <2>1 DEF TypeOK, FilesOK
  <2>. QED BY <2>2, <2>3, <2>4 DEF FilesOK
<1>8. CASE PutRename(b)
  <2>1. Tmp(k) \in Names /\ Blob(k) \in Names
    BY <1>2, <1>8, NameFacts DEF PutRename, Try, Goto
  <2>2. /\ dir' = Renamed(Tmp(k), Blob(k)) \/ dir' = dir
        /\ inode' = Reclaim(inode, dir', out)
        /\ meta' = meta
    BY <1>8 DEF PutRename
  <2>3. dir' \in [Names -> Inodes \cup {None}]
    BY <2>1, <2>2, RenamedType DEF TypeOK, FilesOK
  <2>4. inode' \in [Inodes -> Files]
    BY <2>2, ReclaimType DEF TypeOK, FilesOK
  <2>. QED BY <2>2, <2>3, <2>4 DEF TypeOK, FilesOK
<1>9. CASE PutCopy(b)
  <2>1. Tmp(k) \in Names /\ Blob(k) \in Names
    BY <1>2, <1>9, NameFacts DEF PutCopy, Try, Goto
  <2>2. CASE Exists(Tmp(k)) /\ ~Exists(Blob(k))
    <3>1. Copied(dir[Tmp(k)]) \in Keys \cup {None}
      BY <2>1, <2>2, CopiedType DEF Exists, TypeOK, FilesOK
    <3>2. CreateNew(b, Blob(k), Copied(dir[Tmp(k)])) /\ meta' = meta
      BY <1>9, <2>2 DEF PutCopy
    <3>. QED BY <2>1, <3>1, <3>2, CreateNewType DEF TypeOK, FilesOK
  <2>3. CASE ~(Exists(Tmp(k)) /\ ~Exists(Blob(k)))
    BY <1>9, <2>3 DEF PutCopy, TypeOK, FilesOK, fileVars
  <2>. QED BY <2>2, <2>3
<1>10. CASE Seal(b) \/ Sync(b)
  <2> DEFINE i == dir[Blob(k)]
  <2>1. Blob(k) \in Names
    BY <1>2, <1>10, NameFacts DEF Seal, Sync, Try, Goto
  <2>2. i # None => /\ [inode[i] EXCEPT !.ro = TRUE] \in Files
                    /\ [inode[i] EXCEPT !.synced = TRUE] \in Files
    BY <2>1, ChangedType DEF TypeOK, FilesOK
  <2>3. /\ dir' = dir /\ meta' = meta
        /\ \/ inode' = inode
           \/ i # None /\ inode' = [inode EXCEPT ![i].ro = TRUE]
           \/ i # None /\ inode' = [inode EXCEPT ![i].synced = TRUE]
    BY <1>10 DEF Seal, Sync
  <2>. QED BY <2>1, <2>2, <2>3 DEF TypeOK, FilesOK
<1>11. CASE ClearPart(b) \/ Tidy(b)
  <2>1. RemoveFile(Part(dest[b])) /\ meta' = meta
    BY <1>11 DEF ClearPart, Tidy
  <2>2. Part(dest[b]) \in Names
    BY <1>3, <1>11, NameFacts DEF ClearPart, Tidy, Goto, InstallPc
  <2>. QED BY <2>1, <2>2, RemoveType DEF TypeOK, FilesOK
<1>12. CASE LinkPart(b)
  <2> DEFINE i == dir[Blob(k)]
             part == Part(dest[b])
             ok == i # None /\ ~Exists(part)
  <2>1. Blob(k) \in Names /\ part \in Names
    BY <1>2, <1>3, <1>12, NameFacts DEF LinkPart, Try, Goto, InstallPc
  <2>2. meta' = meta
    BY <1>12 DEF LinkPart
  <2>3. \/ ok /\ dir' = [dir EXCEPT ![part] = i] /\ inode' = inode
        \/ ok /\ CreateNew(b, part, Copied(i))
        \/ UNCHANGED fileVars
    BY <1>12 DEF LinkPart
  <2>4. CASE ok /\ dir' = [dir EXCEPT ![part] = i] /\ inode' = inode
    BY <2>1, <2>2, <2>4 DEF TypeOK, FilesOK
  <2>5. CASE ok /\ CreateNew(b, part, Copied(i))
    <3>1. Copied(i) \in Keys \cup {None}
      BY <2>1, <2>5, CopiedType DEF TypeOK, FilesOK
    <3>. QED BY <2>1, <2>2, <2>5, <3>1, CreateNewType DEF TypeOK, FilesOK
  <2>6. CASE UNCHANGED fileVars
    BY <2>2, <2>6 DEF TypeOK, FilesOK, fileVars
  <2>. QED BY <2>3, <2>4, <2>5, <2>6
<1>13. CASE Publish(b)
  <2>1. Part(dest[b]) \in Names /\ Cat(dest[b]) \in Names
    BY <1>3, <1>13, NameFacts DEF Publish, Try, Goto, InstallPc
  <2>2. /\ dir' = Renamed(Part(dest[b]), Cat(dest[b])) \/ dir' = dir
        /\ inode' = Reclaim(inode, dir', out)
        /\ meta' = meta
    BY <1>13 DEF Publish
  <2>3. dir' \in [Names -> Inodes \cup {None}]
    BY <2>1, <2>2, RenamedType DEF TypeOK, FilesOK
  <2>4. inode' \in [Inodes -> Files]
    BY <2>2, ReclaimType DEF TypeOK, FilesOK
  <2>. QED BY <2>2, <2>3, <2>4 DEF TypeOK, FilesOK
<1>14. CASE Abort(b)
  BY <1>14, ReclaimType DEF Abort, TypeOK, FilesOK
<1>. QED
  BY <1>1, <1>5, <1>6, <1>7, <1>8, <1>9, <1>10, <1>11, <1>12, <1>13, <1>14
     DEF BuilderStep

\* So do copiers.
LEMMA CopierFiles ==
  ASSUME TypeOK, NEW m \in Copiers,
         Materialize(m) \/ CopierStep(m) \/ AbortCopy(m)
  PROVE  FilesOK'
<1> DEFINE disk == Disk(dest[m])
<1>1. CASE Materialize(m) \/ MaterializeReturns(m)
  BY <1>1 DEF Materialize, MaterializeReturns, TypeOK, FilesOK, fileVars
<1>2. ASSUME pc[m] # "idle"
      PROVE  disk \in Names /\ Blob(want[m]) \in Names
  BY <1>2, NameFacts DEF TypeOK, JobsOK, PcOf, CopierPc
<1>3. ASSUME pc[m] \in Writing
      PROVE  out[m] \in Inodes /\ out[m] # None
  BY <1>3 DEF TypeOK, JobsOK
<1>4. CASE ClearDisk(m)
  <2>1. RemoveFile(disk) /\ meta' = meta /\ disk \in Names
    BY <1>2, <1>4 DEF ClearDisk, Goto
  <2>. QED BY <2>1, RemoveType DEF TypeOK, FilesOK
<1>5. CASE OpenClone(m) \/ OpenCopy(m)
  <2> DEFINE i  == dir[Blob(want[m])]
             ok == i # None /\ ~Exists(disk)
  <2>1. /\ ok => CreateNew(m, disk, Copied(i))
        /\ ~ok => UNCHANGED fileVars
        /\ meta' = meta
        /\ pc[m] # "idle"
    BY <1>5 DEF OpenClone, OpenCopy, OpenDisk, Try, Goto
  <2>2. ok => Copied(i) \in Keys \cup {None}
    BY <1>2, <2>1, CopiedType DEF TypeOK, FilesOK
  <2>. QED BY <1>2, <2>1, <2>2, CreateNewType DEF TypeOK, FilesOK, fileVars
<1>6. CASE Clone(m) \/ CopiedDisk(m)
  <2>1. /\ CloseWritten(m, FALSE) \/ CloseWritten(m, TRUE)
        /\ pc[m] \in Writing /\ dir' = dir /\ meta' = meta
    BY <1>6 DEF Clone, CopiedDisk, Goto, Writing
  <2>. QED BY <1>3, <2>1, CloseWrittenFacts DEF TypeOK, FilesOK
<1>7. CASE CloneDeclined(m) \/ AbortCopy(m)
  <2>1. /\ dir' = dir \/ dir' = Unlinked(disk)
        /\ inode' = Reclaim(inode, dir', out')
        /\ meta' = meta
    BY <1>7 DEF CloneDeclined, AbortCopy
  <2>2. inode' \in [Inodes -> Files]
    BY <2>1, ReclaimType DEF TypeOK, FilesOK
  <2>. QED BY <2>1, <2>2 DEF TypeOK, FilesOK, Unlinked
<1>. QED BY <1>1, <1>4, <1>5, <1>6, <1>7 DEF CopierStep

\* So do collectors.
LEMMA CollectorFiles ==
  ASSUME TypeOK, NEW c \in Collectors, List(c) \/ CollectorStep(c)
  PROVE  FilesOK'
<1>1. CASE List(c) \/ Keep(c) \/ Claim(c) \/ KeptBusy(c) \/ Forget(c)
  BY <1>1 DEF List, Keep, Claim, KeptBusy, Forget, TypeOK, FilesOK, fileVars
<1>2. CASE EvictBlob(c)
  <2>1. want[c] \in Keys
    BY <1>2 DEF EvictBlob, Goto, TypeOK, JobsOK
  <2>2. RemoveFile(Blob(want[c])) /\ meta' = meta
    BY <1>2 DEF EvictBlob
  <2>. QED BY <2>1, <2>2, NameFacts, RemoveType DEF TypeOK, FilesOK
<1>. QED BY <1>1, <1>2 DEF CollectorStep

\* So does the environment.
LEMMA EnvironmentFiles ==
  ASSUME TypeOK, Environment
  PROVE  FilesOK'
<1>1. ASSUME NEW p \in Procs, Crash(p) PROVE FilesOK'
  BY <1>1, ReclaimType DEF Crash, TypeOK, FilesOK
<1>2. CASE PowerLoss
  <2>1. PICK lost \in SUBSET {i \in Inodes : inode[i].whole /\ ~inode[i].synced} :
          inode' = Reclaim([i \in Inodes |-> IF i \in lost
                              THEN [inode[i] EXCEPT !.whole = FALSE] ELSE inode[i]],
                           dir, out')
    BY <1>2 DEF PowerLoss
  <2> DEFINE f == [i \in Inodes |-> IF i \in lost
                     THEN [inode[i] EXCEPT !.whole = FALSE] ELSE inode[i]]
  <2>2. f \in [Inodes -> Files]
    BY ChangedType DEF TypeOK, FilesOK
  <2>3. inode' = Reclaim(f, dir, out')
    BY <2>1
  <2>4. inode' \in [Inodes -> Files]
    BY <2>2, <2>3, ReclaimType
  <2>. QED BY <1>2, <2>4 DEF PowerLoss, TypeOK, FilesOK
<1>3. ASSUME NEW d \in Disks, VmWrite(d) PROVE FilesOK'
  <2> DEFINE i == dir[Disk(d)]
             g == [inode[i] EXCEPT !.content = None, !.synced = FALSE]
  <2>1. i \in Inodes
    BY <1>3, NameFacts DEF VmWrite, Owned, Exists, TypeOK, FilesOK
  <2>2. g \in Files
    BY <2>1, ChangedType DEF TypeOK, FilesOK
  <2>3. inode' = [inode EXCEPT ![i] = g]
    BY <1>3, <2>1 DEF VmWrite, TypeOK, FilesOK, Files
  <2>. QED BY <1>3, <2>1, <2>2, <2>3 DEF VmWrite, TypeOK, FilesOK
<1>4. ASSUME NEW d \in Disks, Release(d) PROVE FilesOK'
  BY <1>4, NameFacts, RemoveType DEF Release, TypeOK, FilesOK
<1>5. ASSUME NEW d \in Dests, Withdraw(d) PROVE FilesOK'
  BY <1>5, NameFacts, RemoveType DEF Withdraw, TypeOK, FilesOK
<1>. QED BY <1>1, <1>2, <1>3, <1>4, <1>5 DEF Environment

\* Every step keeps the types.
LEMMA StepTypes == TypeOK /\ [Next]_vars => TypeOK'
<1> SUFFICES ASSUME TypeOK, [Next]_vars PROVE TypeOK'
  OBVIOUS
<1>1. ASSUME NEW b \in Builders,
             Solve(b) \/ Lock(b) \/ BuilderStep(b) \/ Abort(b)
      PROVE  TypeOK'
  BY <1>1, BuilderFiles, BuilderJobs DEF TypeOK
<1>2. ASSUME NEW m \in Copiers, Materialize(m) \/ CopierStep(m) \/ AbortCopy(m)
      PROVE  TypeOK'
  BY <1>2, CopierFiles, CopierJobs DEF TypeOK
<1>3. ASSUME NEW c \in Collectors, List(c) \/ CollectorStep(c)
      PROVE  TypeOK'
  BY <1>3, CollectorFiles, CollectorJobs DEF TypeOK
<1>4. CASE Environment
  BY <1>4, EnvironmentFiles, EnvironmentJobs DEF TypeOK
<1>5. CASE UNCHANGED vars
  BY <1>5 DEF vars, TypeOK, FilesOK, JobsOK
<1>. QED BY <1>1, <1>2, <1>3, <1>4, <1>5 DEF Next

\* Every variable always has its type, and a process its key, destination and
\* descriptor where its code has them.
THEOREM StoreTypes == Spec => []TypeOK
BY InitTypes, StepTypes, PTL DEF Spec

-----------------------------------------------------------------------------
(* Locks.                                                                  *)

\* What the proofs below need of the types.
LEMMA JobFacts ==
  ASSUME TypeOK
  PROVE  /\ lock \in [Keys -> Builders \cup {None}]
         /\ pc \in [Procs -> BuilderPc \cup CopierPc \cup CollectorPc]
         /\ want \in [Procs -> Keys \cup {None}]
         /\ out \in [Procs -> Inodes \cup {None}]
         /\ \A b \in Builders : pc[b] # "idle" => want[b] \in Keys
         /\ \A p \in Procs : out[p] # None <=> pc[p] \in Writing
BY DEF TypeOK, JobsOK, PcOf, BuilderPc

\* No step takes a lock from a builder that goes on.
LEMMA LockHeldStep ==
  ASSUME TypeOK, LockHeld, [Next]_vars
  PROVE  LockHeld'
<1> USE JobFacts DEF LockHeld, Goto, Try, jobVars
<1>1. ASSUME NEW b \in Builders, Solve(b) \/ Lock(b) PROVE LockHeld'
  BY <1>1 DEF Solve, Lock, StartJob
<1>2. ASSUME NEW b \in Builders, Unlock(b) PROVE LockHeld'
  BY <1>2 DEF Unlock, EndJob
<1>3. ASSUME NEW b \in Builders, Get(b) \/ ReadEntry(b) \/ Touch(b) \/ Export(b)
      PROVE  LockHeld'
  BY <1>3 DEF Get, ReadEntry, Touch, Export
<1>4. ASSUME NEW b \in Builders,
             \/ Format(b) \/ PutRename(b) \/ PutCopy(b) \/ PutCopied(b) \/ Seal(b)
      PROVE  LockHeld'
  BY <1>4 DEF Format, PutRename, PutCopy, PutCopied, Seal
<1>5. ASSUME NEW b \in Builders,
             Sync(b) \/ WriteMeta(b) \/ Stat(b) \/ CheckInstall(b) \/ ClearPart(b)
      PROVE  LockHeld'
  BY <1>5 DEF Sync, WriteMeta, Stat, CheckInstall, ClearPart
<1>6. ASSUME NEW b \in Builders,
             LinkPart(b) \/ CopiedPart(b) \/ Publish(b) \/ Tidy(b) \/ Abort(b)
      PROVE  LockHeld'
  <2>1. CASE LinkPart(b)
    <3>1. /\ \E s : pc' = [pc EXCEPT ![b] = s]
          /\ pc[b] = "link" /\ want' = want /\ lock' = lock
      BY <2>1 DEF LinkPart
    <3>. QED BY <3>1
  <2>2. CASE CopiedPart(b) \/ Publish(b)
    BY <2>2 DEF CopiedPart, Publish
  <2>3. CASE Tidy(b) \/ Abort(b)
    BY <2>3 DEF Tidy, Abort, Fallible
  <2>. QED BY <1>6, <2>1, <2>2, <2>3
<1>7. ASSUME NEW m \in Copiers, Materialize(m) \/ CopierStep(m) \/ AbortCopy(m)
      PROVE  LockHeld'
  <2>1. /\ lock' = lock
        /\ \E s : pc' = [pc EXCEPT ![m] = s]
        /\ want' = want \/ \E s : want' = [want EXCEPT ![m] = s]
    <3> HIDE JobFacts DEF LockHeld
    <3>1. CASE Materialize(m)
      BY <3>1 DEF Materialize, StartJob
    <3>2. CASE MaterializeReturns(m)
      BY <3>2 DEF MaterializeReturns, EndJob
    <3>3. CASE OpenClone(m) \/ OpenCopy(m)
      <4>1. \E from, to : OpenDisk(m, from, to)
        BY <3>3 DEF OpenClone, OpenCopy
      <4>. QED BY <4>1 DEF OpenDisk
    <3>4. CASE ClearDisk(m) \/ Clone(m)
      BY <3>4 DEF ClearDisk, Clone
    <3>5. CASE CloneDeclined(m) \/ CopiedDisk(m)
      BY <3>5 DEF CloneDeclined, CopiedDisk
    <3>6. CASE AbortCopy(m)
      BY <3>6 DEF AbortCopy
    <3>. QED BY <1>7, <3>1, <3>2, <3>3, <3>4, <3>5, <3>6 DEF CopierStep
  <2>2. \A b \in Builders : b # m /\ want'[b] = want[b] /\ pc'[b] = pc[b]
    BY <2>1
  <2>. QED BY <2>1, <2>2
<1>8. ASSUME NEW c \in Collectors, List(c) \/ CollectorStep(c) PROVE LockHeld'
  <2>1. /\ lock' = lock
        /\ \A b \in Builders : want'[b] = want[b] /\ pc'[b] = pc[b]
    BY <1>8 DEF List, CollectorStep, Keep, Claim, EvictBlob, KeptBusy, Forget, Done
  <2>. QED BY <2>1
<1>9. ASSUME NEW p \in Procs, Crash(p) PROVE LockHeld'
  BY <1>9 DEF Crash, EndJob
<1>10. CASE PowerLoss
  BY <1>10 DEF PowerLoss
<1>11. ASSUME NEW d \in Disks, VmWrite(d) \/ Release(d) PROVE LockHeld'
  BY <1>11 DEF VmWrite, Release
<1>12. ASSUME NEW d \in Dests, Withdraw(d) PROVE LockHeld'
  BY <1>12 DEF Withdraw
<1>13. CASE UNCHANGED vars
  BY <1>13 DEF vars
<1>. QED
  BY <1>1, <1>2, <1>3, <1>4, <1>5, <1>6, <1>7, <1>8, <1>9, <1>10, <1>11, <1>12,
     <1>13 DEF Next, BuilderStep, Environment

-----------------------------------------------------------------------------
(* What a step does to names and descriptors.                              *)

\* Names change without a file being created.
Relinked ==
  \/ dir' = dir
  \/ \E n \in Names : dir' = Unlinked(n)
  \/ \E m \in Names, n \in Names \ Private : dir' = Renamed(m, n)
  \/ \E m, n \in Names \ Private : dir' = [dir EXCEPT ![n] = dir[m]]

\* No file is opened: a process that keeps a descriptor stays where it is.
Calm ==
  /\ Relinked
  /\ \A p \in Procs :
       out'[p] = None \/ (out'[p] = out[p] /\ pc'[p] = pc[p] /\ want'[p] = want[p])

\* Process p creates a file, not a staging file.
Creates(p) ==
  /\ \E n \in Names \ {Tmp(k) : k \in Keys} : \E c : CreateNew(p, n, c)
  /\ \A q \in Procs \ {p} : pc'[q] = pc[q] /\ want'[q] = want[q]

StepKind == Calm \/ (\E p \in Procs : Creates(p)) \/ (\E b \in Builders : Export(b))

\* Which names are private.
LEMMA PrivateFacts ==
  /\ Private \subseteq Names
  /\ \A k \in Keys : Tmp(k) \in Private /\ Blob(k) \in Names \ Private
  /\ \A d \in Dests : Cat(d) \in Names \ Private /\ Part(d) \in Names \ Private
  /\ \A d \in Disks : Disk(d) \in Private
  /\ \A n \in Names \ Private, k \in Keys : n # Tmp(k)
<1>1. \A n : n \in Private <=> \/ \E k \in Keys : n = Tmp(k)
                               \/ \E d \in Disks : n = Disk(d)
  BY DEF Private
<1>2. ASSUME NEW k \in Keys PROVE Tmp(k) \in Private /\ Blob(k) \in Names \ Private
  BY <1>1, NameFacts
<1>3. ASSUME NEW d \in Dests
      PROVE  Cat(d) \in Names \ Private /\ Part(d) \in Names \ Private
  <2>1. Cat(d) \in Names /\ Part(d) \in Names
    BY NameFacts
  <2>2. \A k \in Keys : Tmp(k) # Cat(d) /\ Tmp(k) # Part(d)
    BY NameFacts
  <2>3. \A v \in Disks : Disk(v) # Cat(d) /\ Disk(v) # Part(d)
    BY NameFacts
  <2>. QED BY <1>1, <2>1, <2>2, <2>3
<1>4. Private \subseteq Names
  BY <1>1, NameFacts
<1>5. \A n \in Names \ Private, k \in Keys : n # Tmp(k)
  BY <1>1
<1>6. \A d \in Disks : Disk(d) \in Private
  BY <1>1
<1>. QED BY <1>2, <1>3, <1>4, <1>5, <1>6

\* Builders create a file, open a staging file, or only move names.
LEMMA BuilderKind ==
  ASSUME TypeOK, NEW b \in Builders,
         Solve(b) \/ Lock(b) \/ BuilderStep(b) \/ Abort(b)
  PROVE  StepKind
<1> USE JobFacts DEF StepKind, Goto, Try, jobVars, fileVars
<1> DEFINE k == want[b]
<1>1. pc[b] # "idle" => k \in Keys
  OBVIOUS
<1>2. pc[b] \in InstallPc => dest[b] \in Dests
  BY DEF TypeOK, JobsOK
<1>3. CASE Solve(b) \/ Lock(b) \/ Get(b) \/ ReadEntry(b) \/ Touch(b)
  BY <1>3 DEF Calm, Relinked, Writing, StartJob, Solve, Lock, Get, ReadEntry, Touch
<1>4. CASE Seal(b) \/ Sync(b) \/ WriteMeta(b) \/ Stat(b) \/ CheckInstall(b)
  BY <1>4 DEF Calm, Relinked, Writing, Seal, Sync, WriteMeta, Stat, CheckInstall
<1>5. CASE Unlock(b)
  BY <1>5 DEF Calm, Relinked, Writing, Unlock, EndJob
<1>6. CASE Abort(b)
  BY <1>6 DEF Calm, Relinked, Writing, Abort
<1>7. CASE Format(b) \/ PutCopied(b) \/ CopiedPart(b)
  <2>1. /\ out' = [out EXCEPT ![b] = None]
        /\ \A p \in Procs \ {b} : pc'[p] = pc[p] /\ want'[p] = want[p]
    BY <1>7 DEF Format, PutCopied, CopiedPart, CloseWritten
  <2>2. dir' = dir \/ (k \in Keys /\ dir' = Unlinked(Tmp(k)))
    BY <1>7 DEF Format, PutCopied, CopiedPart
  <2>. QED BY <2>1, <2>2, NameFacts DEF Calm, Relinked
<1>8. CASE PutRename(b)
  <2>1. k \in Keys /\ (dir' = dir \/ dir' = Renamed(Tmp(k), Blob(k)))
    BY <1>8 DEF PutRename
  <2>2. Relinked
    BY <2>1, PrivateFacts DEF Relinked
  <2>. QED BY <1>8, <2>2 DEF Calm, PutRename, Writing
<1>9. CASE PutCopy(b)
  <2>1. CASE Exists(Tmp(k)) /\ ~Exists(Blob(k))
    <3>1. CreateNew(b, Blob(k), Copied(dir[Tmp(k)])) /\ k \in Keys
      BY <1>9, <2>1 DEF PutCopy
    <3>2. Blob(k) \in Names \ {Tmp(l) : l \in Keys}
      BY <3>1, NameFacts
    <3>3. Creates(b)
      BY <1>9, <3>1, <3>2 DEF Creates, PutCopy
    <3>. QED BY <3>3
  <2>2. CASE ~(Exists(Tmp(k)) /\ ~Exists(Blob(k)))
    BY <1>9, <2>2 DEF PutCopy, Calm, Relinked, Writing
  <2>. QED BY <2>1, <2>2
<1>10. CASE ClearPart(b) \/ Tidy(b)
  <2>1. dest[b] \in Dests
    BY <1>2, <1>10 DEF ClearPart, Tidy, InstallPc
  <2>2. dir' = Unlinked(Part(dest[b]))
    BY <1>10 DEF ClearPart, Tidy, RemoveFile
  <2>. QED BY <1>10, <2>1, <2>2, NameFacts
           DEF Calm, Relinked, ClearPart, Tidy, Writing
<1>11. CASE LinkPart(b)
  <2> DEFINE i == dir[Blob(k)]
             part == Part(dest[b])
             ok == i # None /\ ~Exists(part)
  <2>1. dest[b] \in Dests /\ k \in Keys
    BY <1>2, <1>11 DEF LinkPart, InstallPc
  <2>2. Blob(k) \in Names \ Private /\ part \in Names \ Private
    BY <2>1, PrivateFacts
  <2>3. \/ CreateNew(b, part, Copied(i)) /\ ok
        \/ out' = out /\ (dir' = dir \/ dir' = [dir EXCEPT ![part] = i])
    BY <1>11 DEF LinkPart
  <2>4. CASE CreateNew(b, part, Copied(i)) /\ ok
    <3>1. Creates(b)
      BY <1>11, <2>2, <2>4, PrivateFacts DEF Creates, LinkPart
    <3>. QED BY <3>1
  <2>5. CASE out' = out /\ (dir' = dir \/ dir' = [dir EXCEPT ![part] = i])
    <3>1. Relinked
      BY <2>2, <2>5 DEF Relinked
    <3>. QED BY <1>11, <2>5, <3>1 DEF Calm, LinkPart, Writing
  <2>. QED BY <2>3, <2>4, <2>5
<1>12. CASE Publish(b)
  <2>1. dest[b] \in Dests
    BY <1>2, <1>12 DEF Publish, InstallPc
  <2>2. dir' = dir \/ dir' = Renamed(Part(dest[b]), Cat(dest[b]))
    BY <1>12 DEF Publish
  <2>3. Relinked
    BY <2>1, <2>2, PrivateFacts DEF Relinked
  <2>. QED BY <1>12, <2>3 DEF Calm, Publish, Writing
<1>. QED
  BY <1>3, <1>4, <1>5, <1>6, <1>7, <1>8, <1>9, <1>10, <1>11, <1>12 DEF BuilderStep

\* Copiers create a disk, or only remove one.
LEMMA CopierKind ==
  ASSUME TypeOK, NEW m \in Copiers,
         Materialize(m) \/ CopierStep(m) \/ AbortCopy(m)
  PROVE  StepKind
<1> USE JobFacts DEF StepKind, Goto, Try, jobVars, fileVars
<1> DEFINE disk == Disk(dest[m])
<1>1. pc[m] # "idle" => disk \in Names /\ \A k \in Keys : disk # Tmp(k)
  BY NameFacts DEF TypeOK, JobsOK
<1>2. CASE Materialize(m) \/ MaterializeReturns(m)
  BY <1>2 DEF Calm, Relinked, Writing, Materialize, StartJob, MaterializeReturns,
              EndJob
<1>3. CASE ClearDisk(m)
  BY <1>1, <1>3 DEF Calm, Relinked, Writing, ClearDisk, RemoveFile
<1>4. CASE OpenClone(m) \/ OpenCopy(m)
  <2> DEFINE i  == dir[Blob(want[m])]
             ok == i # None /\ ~Exists(disk)
  <2>1. /\ ok => CreateNew(m, disk, Copied(i))
        /\ ~ok => dir' = dir /\ out' = out
        /\ pc[m] \in {"open", "copy"}
        /\ want' = want
        /\ \A q \in Procs \ {m} : pc'[q] = pc[q]
    BY <1>4 DEF OpenClone, OpenCopy, OpenDisk
  <2>2. CASE ok
    BY <1>1, <2>1, <2>2 DEF Creates
  <2>3. CASE ~ok
    BY <2>1, <2>3 DEF Calm, Relinked, Writing
  <2>. QED BY <2>2, <2>3
<1>5. CASE Clone(m) \/ CopiedDisk(m) \/ CloneDeclined(m) \/ AbortCopy(m)
  <2>1. /\ out' = [out EXCEPT ![m] = None]
        /\ \A q \in Procs \ {m} : pc'[q] = pc[q] /\ want'[q] = want[q]
        /\ pc[m] # "idle"
    BY <1>5 DEF Clone, CopiedDisk, CloneDeclined, AbortCopy, CloseWritten
  <2>2. dir' = dir \/ dir' = Unlinked(disk)
    BY <1>5 DEF Clone, CopiedDisk, CloneDeclined, AbortCopy
  <2>. QED BY <1>1, <2>1, <2>2 DEF Calm, Relinked
<1>. QED BY <1>2, <1>3, <1>4, <1>5 DEF CopierStep

\* Collectors only remove names.
LEMMA CollectorKind ==
  ASSUME TypeOK, NEW c \in Collectors, List(c) \/ CollectorStep(c)
  PROVE  StepKind
<1> USE JobFacts DEF StepKind, Goto, jobVars, fileVars
<1>1. pc[c] \in {"idle", "scan", "evict", "forget"}
  BY DEF TypeOK, JobsOK, PcOf, CollectorPc
<1>2. out[c] = None
  BY <1>1 DEF Writing
<1>3. /\ out' = out
      /\ \A q \in Procs \ {c} : pc'[q] = pc[q] /\ want'[q] = want[q]
  BY DEF List, CollectorStep, Keep, Claim, EvictBlob, KeptBusy, Forget, Done
<1>4. Relinked
  <2>1. CASE EvictBlob(c)
    <3>1. want[c] \in Keys
      BY <2>1 DEF EvictBlob, TypeOK, JobsOK
    <3>. QED BY <2>1, <3>1, NameFacts DEF EvictBlob, RemoveFile, Relinked
  <2>2. CASE ~EvictBlob(c)
    BY <2>2 DEF List, CollectorStep, Keep, Claim, KeptBusy, Forget, Relinked
  <2>. QED BY <2>1, <2>2
<1>. QED BY <1>2, <1>3, <1>4 DEF Calm

\* The environment opens nothing.
LEMMA EnvironmentKind ==
  ASSUME TypeOK, Environment
  PROVE  StepKind
<1> USE JobFacts DEF StepKind, Calm, Relinked, jobVars
<1>1. ASSUME NEW p \in Procs, Crash(p) PROVE StepKind
  BY <1>1 DEF Crash, EndJob
<1>2. CASE PowerLoss
  BY <1>2 DEF PowerLoss
<1>3. ASSUME NEW d \in Disks, VmWrite(d) \/ Release(d) PROVE StepKind
  BY <1>3, NameFacts DEF VmWrite, Release, RemoveFile
<1>4. ASSUME NEW d \in Dests, Withdraw(d) PROVE StepKind
  BY <1>4, NameFacts DEF Withdraw, RemoveFile
<1>. QED BY <1>1, <1>2, <1>3, <1>4 DEF Environment

\* Every step is of one of the three kinds.
LEMMA StepKinds ==
  ASSUME TypeOK, [Next]_vars
  PROVE  StepKind
<1>1. CASE UNCHANGED vars
  BY <1>1 DEF vars, StepKind, Calm, Relinked
<1>. QED
  BY <1>1, BuilderKind, CopierKind, CollectorKind, EnvironmentKind DEF Next

-----------------------------------------------------------------------------
(* One writer per file.                                                    *)

\* Staging files and disks keep their single name.
LEMMA AloneStep ==
  ASSUME TypeOK, Alone, StepKind
  PROVE  Alone'
<1>. dir \in [Names -> Inodes \cup {None}]
  BY DEF TypeOK, FilesOK
<1> SUFFICES ASSUME NEW n \in Private, NEW m \in Names,
                    dir'[n] # None, dir'[m] = dir'[n]
             PROVE  m = n
  BY DEF Alone
<1>. n \in Names
  BY PrivateFacts
<1>1. CASE Relinked
  <2>1. CASE dir' = dir
    BY <2>1 DEF Alone
  <2>2. ASSUME NEW l \in Names, dir' = Unlinked(l) PROVE m = n
    BY <2>2 DEF Alone, Unlinked
  <2>3. ASSUME NEW k \in Names, NEW l \in Names \ Private, dir' = Renamed(k, l)
        PROVE  m = n
    BY <2>3 DEF Alone, Renamed
  <2>4. ASSUME NEW k \in Names \ Private, NEW l \in Names \ Private,
               dir' = [dir EXCEPT ![l] = dir[k]]
        PROVE  m = n
    BY <2>4 DEF Alone
  <2>. QED BY <1>1, <2>1, <2>2, <2>3, <2>4 DEF Relinked
<1>2. ASSUME NEW l \in Names, NEW i, \A x \in Names : dir[x] # i,
             dir' = [dir EXCEPT ![l] = i]
      PROVE  m = n
  BY <1>2 DEF Alone
<1>3. ASSUME NEW p \in Procs, Creates(p) PROVE m = n
  <2>1. PICK l, c : l \in Names /\ CreateNew(p, l, c)
    BY <1>3 DEF Creates
  <2>2. /\ \A x \in Names : dir[x] # NewInode(l)
        /\ dir' = [dir EXCEPT ![l] = NewInode(l)]
    BY <2>1, NewInodeFacts DEF CreateNew
  <2>. QED BY <1>2, <2>1, <2>2
<1>4. ASSUME NEW b \in Builders, Export(b) PROVE m = n
  <2>1. Tmp(want[b]) \in Names
    BY <1>4, JobFacts, NameFacts DEF Export, Goto
  <2>2. CASE Exists(Tmp(want[b]))
    <3>1. dir' = dir
      BY <1>4, <2>1, <2>2 DEF Export
    <3>. QED BY <3>1 DEF Alone
  <2>3. CASE ~Exists(Tmp(want[b]))
    BY <1>2, <1>4, <2>1, <2>3, NewInodeFacts DEF Export
  <2>. QED BY <2>2, <2>3
<1>. QED BY <1>1, <1>3, <1>4 DEF StepKind, Calm

\* Opening or handing on a staging file is left to the holder of its lock.
LEMMA WriterStep ==
  ASSUME TypeOK, LockHeld, Alone, StagingWriter, OneWriterPerFile, StepKind
  PROVE  StagingWriter' /\ OneWriterPerFile'
<1>. /\ dir \in [Names -> Inodes \cup {None}]
     /\ out \in [Procs -> Inodes \cup {None}]
  BY JobFacts DEF TypeOK, FilesOK
<1>1. CASE Calm
  <2>1. \A p \in Procs : out'[p] = None
          \/ (out'[p] = out[p] /\ pc'[p] = pc[p] /\ want'[p] = want[p])
    BY <1>1 DEF Calm
  <2>2. \A k \in Keys : dir'[Tmp(k)] = dir[Tmp(k)] \/ dir'[Tmp(k)] = None
    BY <1>1, NameFacts, PrivateFacts DEF Calm, Relinked, Unlinked, Renamed
  <2>3. StagingWriter'
    BY <2>1, <2>2 DEF StagingWriter
  <2>4. OneWriterPerFile'
    BY <2>1 DEF OneWriterPerFile
  <2>. QED BY <2>3, <2>4
<1>2. ASSUME NEW p \in Procs, Creates(p)
      PROVE  StagingWriter' /\ OneWriterPerFile'
  <2>1. PICK n, c : n \in Names \ {Tmp(k) : k \in Keys} /\ CreateNew(p, n, c)
    BY <1>2 DEF Creates
  <2> DEFINE i == NewInode(n)
  <2>2. /\ out' = [out EXCEPT ![p] = i] /\ i # None
        /\ \A m \in Names : dir[m] # i
        /\ \A q \in Procs : out[q] # i
        /\ dir' = [dir EXCEPT ![n] = i]
    BY <2>1, NewInodeFacts DEF CreateNew
  <2>3. \A k \in Keys : dir'[Tmp(k)] = dir[Tmp(k)] /\ dir[Tmp(k)] # i
    BY <2>1, <2>2, NameFacts
  <2> HIDE DEF i
  <2>4. \A q \in Procs \ {p} : pc'[q] = pc[q] /\ want'[q] = want[q]
    BY <1>2 DEF Creates
  <2>5. StagingWriter'
    BY <2>2, <2>3, <2>4 DEF StagingWriter
  <2>6. OneWriterPerFile'
    BY <2>2 DEF OneWriterPerFile
  <2>. QED BY <2>5, <2>6
<1>3. ASSUME NEW b \in Builders, Export(b)
      PROVE  StagingWriter' /\ OneWriterPerFile'
  <2> DEFINE k == want[b]
             i == IF Exists(Tmp(k)) THEN dir[Tmp(k)] ELSE NewInode(Tmp(k))
  <2>1. /\ k \in Keys /\ Tmp(k) \in Names /\ lock[k] = b
        /\ pc[b] = "export" /\ pc' = [pc EXCEPT ![b] = "format"] /\ want' = want
    BY <1>3, JobFacts, NameFacts DEF Export, Goto, LockHeld, jobVars
  <2>2. out' = [out EXCEPT ![b] = i] /\ dir' = [dir EXCEPT ![Tmp(k)] = i]
    BY <1>3 DEF Export
  <2>3. i # None /\ \A q \in Procs : out[q] # i
    <3>1. CASE Exists(Tmp(k))
      <4>1. ASSUME NEW q \in Procs, out[q] = dir[Tmp(k)] PROVE FALSE
        <5>1. q \in Builders /\ pc[q] = "format" /\ want[q] = k
          BY <2>1, <3>1, <4>1 DEF StagingWriter, Exists
        <5>2. lock[k] = q
          BY <5>1 DEF LockHeld
        <5>. QED BY <2>1, <5>1, <5>2
      <4>. QED BY <3>1, <4>1 DEF Exists
    <3>2. CASE ~Exists(Tmp(k))
      BY <1>3, <2>1, <3>2, NewInodeFacts DEF Export
    <3>. QED BY <3>1, <3>2
  <2>4. \A l \in Keys \ {k} : dir'[Tmp(l)] = dir[Tmp(l)]
    BY <2>1, <2>2, NameFacts
  <2>5. dir'[Tmp(k)] = i
    BY <2>1, <2>2
  <2>6. ASSUME NEW l \in Keys \ {k} PROVE dir[Tmp(l)] # i
    <3>1. Tmp(l) \in Names /\ Tmp(k) \in Private /\ Tmp(l) # Tmp(k)
      BY <2>1, NameFacts, PrivateFacts
    <3>2. CASE Exists(Tmp(k))
      BY <3>1, <3>2 DEF Alone, Exists
    <3>3. CASE ~Exists(Tmp(k))
      BY <1>3, <2>1, <3>1, <3>3, NewInodeFacts DEF Export
    <3>. QED BY <3>2, <3>3
  <2> HIDE DEF i
  <2>7. OneWriterPerFile'
    BY <2>2, <2>3 DEF OneWriterPerFile
  <2>8. StagingWriter'
    <3> SUFFICES ASSUME NEW p \in Procs, NEW l \in Keys,
                        out'[p] # None, out'[p] = dir'[Tmp(l)]
                 PROVE  p \in Builders /\ pc'[p] = "format" /\ want'[p] = l
      BY DEF StagingWriter
    <3>1. CASE l = k
      <4>1. p = b
        BY <2>2, <2>3, <2>5, <3>1
      <4>. QED BY <2>1, <3>1, <4>1, JobFacts
    <3>2. CASE l # k
      <4>1. p # b /\ out[p] = dir[Tmp(l)] /\ out[p] # None
        BY <2>2, <2>4, <2>6, <3>2
      <4>. QED BY <2>1, <4>1, JobFacts DEF StagingWriter
    <3>. QED BY <3>1, <3>2
  <2>. QED BY <2>7, <2>8
<1>. QED BY <1>1, <1>2, <1>3 DEF StepKind

\* The invariant behind OneWriterPerFile is inductive.
LEMMA ExclusiveStep ==
  ASSUME ExclusiveInv, [Next]_vars
  PROVE  ExclusiveInv'
BY StepTypes, LockHeldStep, StepKinds, AloneStep, WriterStep DEF ExclusiveInv

\* It holds when the store is opened.
LEMMA ExclusiveInit == Init => ExclusiveInv
BY InitTypes
   DEF Init, ExclusiveInv, LockHeld, Alone, StagingWriter, OneWriterPerFile,
       Exists, Private

\* No two processes ever write through descriptors of one file, whatever the
\* filesystems, the requests and the faults.
THEOREM StoreOneWriter == Spec => []OneWriterPerFile
<1>1. Init => ExclusiveInv
  BY ExclusiveInit
<1>2. ExclusiveInv /\ [Next]_vars => ExclusiveInv'
  BY ExclusiveStep
<1>3. ExclusiveInv => OneWriterPerFile
  BY DEF ExclusiveInv
<1>. QED BY <1>1, <1>2, <1>3, PTL DEF Spec

-----------------------------------------------------------------------------
(* Blobs.                                                                  *)

\* Who moves the staging file of a key, and who names its blob.
StagingKept(k) ==
  dir'[Tmp(k)] = dir[Tmp(k)] \/ \E b \in Builders :
    want[b] = k /\ (Export(b) \/ PutRename(b) \/ PutCopied(b))

BlobKept(k) ==
  dir'[Blob(k)] \in {dir[Blob(k)], None} \/ \E b \in Builders :
    want[b] = k /\ (PutRename(b) \/ PutCopy(b))

\* Builders move the staging file and the blob of their own key only.
LEMMA BuilderNames ==
  ASSUME TypeOK, NEW b \in Builders, NEW k \in Keys,
         Solve(b) \/ Lock(b) \/ BuilderStep(b) \/ Abort(b)
  PROVE  StagingKept(k) /\ BlobKept(k)
<1> USE JobFacts, NameFacts DEF StagingKept, BlobKept, Goto, Try, jobVars, fileVars
<1>. dir \in [Names -> Inodes \cup {None}]
  BY DEF TypeOK, FilesOK
<1>1. pc[b] # "idle" => want[b] \in Keys
  OBVIOUS
<1>2. pc[b] \in InstallPc => dest[b] \in Dests
  BY DEF TypeOK, JobsOK
<1>3. CASE Solve(b) \/ Lock(b) \/ Get(b) \/ ReadEntry(b) \/ Touch(b) \/ Unlock(b)
  BY <1>3 DEF Solve, Lock, Get, ReadEntry, Touch, Unlock
<1>4. CASE Seal(b) \/ Sync(b) \/ WriteMeta(b) \/ Stat(b) \/ CheckInstall(b) \/ Abort(b)
  BY <1>4 DEF Seal, Sync, WriteMeta, Stat, CheckInstall, Abort
<1>5. CASE Format(b) \/ CopiedPart(b)
  BY <1>5 DEF Format, CopiedPart
<1>6. CASE Export(b)
  BY <1>1, <1>6 DEF Export
<1>7. CASE PutRename(b)
  <2> DEFINE l == want[b]
  <2>1. l \in Keys /\ (dir' = dir \/ dir' = Renamed(Tmp(l), Blob(l)))
    BY <1>1, <1>7 DEF PutRename
  <2>2. CASE l = k
    BY <1>7, <2>2
  <2>3. CASE l # k
    BY <2>1, <2>3 DEF Renamed
  <2>. QED BY <2>2, <2>3
<1>8. CASE PutCopied(b) \/ PutCopy(b)
  <2> DEFINE l == want[b]
  <2>1. /\ l \in Keys
        /\ dir' = dir \/ \E i : \E n \in {Tmp(l), Blob(l)} : dir' = [dir EXCEPT ![n] = i]
        /\ PutCopied(b) => dir' = [dir EXCEPT ![Tmp(l)] = None]
        /\ PutCopy(b) => dir' = dir \/ \E i : dir' = [dir EXCEPT ![Blob(l)] = i]
    BY <1>1, <1>8 DEF PutCopied, PutCopy, CreateNew, Unlinked
  <2>2. CASE l = k
    BY <1>8, <2>1, <2>2
  <2>3. CASE l # k
    BY <2>1, <2>3
  <2>. QED BY <2>2, <2>3
<1>9. CASE ClearPart(b) \/ Tidy(b)
  <2>1. dest[b] \in Dests /\ dir' = Unlinked(Part(dest[b]))
    BY <1>2, <1>9 DEF ClearPart, Tidy, InstallPc, RemoveFile
  <2>. QED BY <2>1 DEF Unlinked
<1>10. CASE LinkPart(b)
  <2>1. /\ dest[b] \in Dests
        /\ dir' = dir \/ \E i : dir' = [dir EXCEPT ![Part(dest[b])] = i]
    BY <1>2, <1>10 DEF LinkPart, InstallPc, CreateNew
  <2>. QED BY <2>1
<1>11. CASE Publish(b)
  <2>1. /\ dest[b] \in Dests
        /\ dir' = dir \/ dir' = Renamed(Part(dest[b]), Cat(dest[b]))
    BY <1>2, <1>11 DEF Publish, InstallPc
  <2>2. {Blob(k), Tmp(k)} \cap {Part(dest[b]), Cat(dest[b])} = {}
    BY <2>1
  <2>3. CASE dir' = Renamed(Part(dest[b]), Cat(dest[b]))
    BY <2>2, <2>3 DEF Renamed
  <2>. QED BY <2>1, <2>3
<1>. QED
  BY <1>3, <1>4, <1>5, <1>6, <1>7, <1>8, <1>9, <1>10, <1>11 DEF BuilderStep

\* Nobody else does, except that blobs are removed.
LEMMA OtherNames ==
  ASSUME TypeOK, NEW k \in Keys,
         \/ \E m \in Copiers : Materialize(m) \/ CopierStep(m) \/ AbortCopy(m)
         \/ \E c \in Collectors : List(c) \/ CollectorStep(c)
         \/ Environment
         \/ UNCHANGED vars
  PROVE  StagingKept(k) /\ BlobKept(k)
<1> USE JobFacts, NameFacts DEF StagingKept, BlobKept, Goto, Try, jobVars, fileVars
<1>. dir \in [Names -> Inodes \cup {None}]
  BY DEF TypeOK, FilesOK
<1>1. ASSUME NEW m \in Copiers, Materialize(m) \/ CopierStep(m) \/ AbortCopy(m)
      PROVE  StagingKept(k) /\ BlobKept(k)
  <2>1. pc[m] # "idle" => dest[m] \in Disks
    BY DEF TypeOK, JobsOK
  <2>2. \/ dir' = dir
        \/ /\ pc[m] # "idle"
           /\ \A n \in Names : n # Disk(dest[m]) => dir'[n] = dir[n]
    <3>1. CASE ClearDisk(m) \/ CloneDeclined(m) \/ AbortCopy(m)
      BY <3>1 DEF ClearDisk, CloneDeclined, AbortCopy, Unlinked, RemoveFile
    <3>2. CASE OpenClone(m) \/ OpenCopy(m)
      BY <3>2 DEF OpenClone, OpenCopy, OpenDisk, CreateNew
    <3>3. CASE \/ Materialize(m) \/ Clone(m) \/ CopiedDisk(m)
               \/ MaterializeReturns(m)
      BY <3>3 DEF Materialize, Clone, CopiedDisk, MaterializeReturns
    <3>. QED BY <1>1, <3>1, <3>2, <3>3 DEF CopierStep
  <2>. QED BY <2>1, <2>2
<1>2. ASSUME NEW c \in Collectors, List(c) \/ CollectorStep(c)
      PROVE  StagingKept(k) /\ BlobKept(k)
  <2>1. CASE EvictBlob(c)
    <3>1. want[c] \in Keys /\ dir' = Unlinked(Blob(want[c]))
      BY <2>1 DEF EvictBlob, TypeOK, JobsOK, RemoveFile
    <3>. QED BY <3>1 DEF Unlinked
  <2>2. CASE ~EvictBlob(c)
    BY <1>2, <2>2 DEF List, CollectorStep, Keep, Claim, KeptBusy, Forget
  <2>. QED BY <2>1, <2>2
<1>3. CASE Environment
  <2>1. \/ dir' = dir
        \/ \E d \in Disks : dir' = Unlinked(Disk(d))
        \/ \E d \in Dests : dir' = Unlinked(Cat(d))
    BY <1>3 DEF Environment, Crash, PowerLoss, VmWrite, Release, Withdraw, RemoveFile
  <2>. QED BY <2>1 DEF Unlinked
<1>4. CASE UNCHANGED vars
  BY <1>4 DEF vars
<1>. QED BY <1>1, <1>2, <1>3, <1>4

\* Staging files and blobs are moved by the builders of their keys.
LEMMA NamesKept ==
  ASSUME TypeOK, [Next]_vars, NEW k \in Keys
  PROVE  StagingKept(k) /\ BlobKept(k)
BY BuilderNames, OtherNames DEF Next

\* How a builder comes to format, and to put.
LEMMA FormatsAndPuts ==
  ASSUME TypeOK, [Next]_vars, NEW b \in Builders
  PROVE  /\ pc'[b] = "format" =>
              \/ Export(b)
              \/ pc[b] = "format" /\ want'[b] = want[b] /\ out'[b] = out[b]
         /\ pc'[b] = "put" =>
              \/ Format(b)
              \/ pc[b] = "put" /\ want'[b] = want[b]
<1> USE JobFacts DEF Goto, Try, jobVars, fileVars
<1> DEFINE Goal == /\ pc'[b] = "format" =>
                        \/ Export(b)
                        \/ pc[b] = "format" /\ want'[b] = want[b] /\ out'[b] = out[b]
                   /\ pc'[b] = "put" =>
                        \/ Format(b)
                        \/ pc[b] = "put" /\ want'[b] = want[b]
<1>1. ASSUME NEW a \in Builders,
             \/ Solve(a) \/ Lock(a) \/ Get(a) \/ ReadEntry(a) \/ Touch(a)
             \/ Export(a) \/ Unlock(a) \/ Abort(a)
      PROVE  Goal
  BY <1>1 DEF Solve, StartJob, Lock, Get, ReadEntry, Touch, AfterGet, Export,
              Unlock, EndJob, Abort
<1>2. ASSUME NEW a \in Builders,
             \/ Format(a) \/ PutRename(a) \/ PutCopy(a) \/ PutCopied(a) \/ Seal(a)
             \/ Sync(a) \/ WriteMeta(a) \/ Stat(a) \/ CheckInstall(a)
      PROVE  Goal
  <2>1. CASE Format(a) \/ PutCopied(a)
    BY <2>1 DEF Format, PutCopied, CloseWritten
  <2>2. CASE PutRename(a) \/ PutCopy(a)
    BY <2>2 DEF PutRename, PutCopy, CreateNew
  <2>3. CASE Seal(a) \/ Sync(a) \/ WriteMeta(a) \/ Stat(a) \/ CheckInstall(a)
    BY <2>3 DEF Seal, Sync, WriteMeta, Stat, CheckInstall
  <2>. QED BY <1>2, <2>1, <2>2, <2>3
<1>3. ASSUME NEW a \in Builders,
             ClearPart(a) \/ LinkPart(a) \/ CopiedPart(a) \/ Publish(a) \/ Tidy(a)
      PROVE  Goal
  <2>1. CASE LinkPart(a)
    <3>1. \E s \in {"publish", "copy_out", "err"} : pc' = [pc EXCEPT ![a] = s]
      BY <2>1 DEF LinkPart
    <3>2. out'[b] = out[b] \/ a = b
      BY <2>1 DEF LinkPart, CreateNew
    <3>3. want' = want
      BY <2>1 DEF LinkPart
    <3>. QED BY <3>1, <3>2, <3>3
  <2>2. CASE ClearPart(a) \/ CopiedPart(a) \/ Publish(a) \/ Tidy(a)
    BY <2>2 DEF ClearPart, CopiedPart, Publish, Tidy, CloseWritten
  <2>. QED BY <1>3, <2>1, <2>2
<1>4. ASSUME NEW m \in Copiers, Materialize(m) \/ CopierStep(m) \/ AbortCopy(m)
      PROVE  Goal
  <2>1. pc'[b] = pc[b] /\ want'[b] = want[b] /\ out'[b] = out[b]
    BY <1>4 DEF Materialize, StartJob, CopierStep, ClearDisk, OpenClone, OpenCopy,
       OpenDisk, CreateNew, CloseWritten, Clone, CloneDeclined, CopiedDisk,
       MaterializeReturns, EndJob, AbortCopy
  <2>. QED BY <2>1
<1>5. ASSUME NEW c \in Collectors, List(c) \/ CollectorStep(c) PROVE Goal
  <2>1. pc'[b] = pc[b] /\ want'[b] = want[b] /\ out'[b] = out[b]
    BY <1>5 DEF List, CollectorStep, Keep, Claim, EvictBlob, KeptBusy, Forget, Done
  <2>. QED BY <2>1
<1>6. CASE Environment
  <2>1. CASE \E p \in Procs : Crash(p)
    <3>1. PICK p \in Procs : Crash(p)
      BY <2>1
    <3>2. /\ pc' = [pc EXCEPT ![p] = "idle"] /\ want' = [want EXCEPT ![p] = None]
          /\ out' = [out EXCEPT ![p] = None]
      BY <3>1 DEF Crash, EndJob
    <3>. QED BY <3>2
  <2>2. CASE PowerLoss
    <3>1. pc'[b] = "idle"
      BY <2>2 DEF PowerLoss
    <3>. QED BY <3>1
  <2>3. CASE ~PowerLoss /\ ~\E p \in Procs : Crash(p)
    BY <1>6, <2>3 DEF Environment, VmWrite, Release, Withdraw
  <2>. QED BY <2>1, <2>2, <2>3
<1>7. CASE UNCHANGED vars
  BY <1>7 DEF vars
<1>. QED BY <1>1, <1>2, <1>3, <1>4, <1>5, <1>6, <1>7 DEF Next, BuilderStep

\* What is in file i is still in it, and complete if it was complete and safe.
Intact(i) ==
  /\ inode'[i].content = inode[i].content
  /\ inode[i].whole /\ Durable(i) =>
       inode'[i].whole /\ ("power" \in Faults => inode'[i].synced)

\* A file that has a name, not a disk's, keeps its bytes unless a process
\* closes it or a builder truncates it.
Undisturbed(n) ==
  /\ n \in Names \ {Disk(d) : d \in Disks}
  /\ dir[n] # None
  /\ dir[n] \in Live(dir', out')
  /\ \A p \in Procs : out'[p] # out[p] => out[p] # dir[n]
  /\ ~ \E b \in Builders : Export(b) /\ n = Tmp(want[b])

\* A file that is not changed is intact.
LEMMA IntactSame ==
  ASSUME NEW i, inode'[i] = inode[i] PROVE Intact(i)
BY DEF Intact, Durable

\* A file reclaimed or not: what is live is intact.
LEMMA IntactReclaim ==
  ASSUME TypeOK, NEW i \in Inodes, NEW d, NEW o,
         inode' = Reclaim(inode, d, o), i \in Live(d, o)
  PROVE  Intact(i)
BY ReclaimType, IntactSame DEF TypeOK, FilesOK

\* Creating a file leaves the others intact.
LEMMA IntactCreate ==
  ASSUME TypeOK, NEW n, Undisturbed(n), NEW p \in Procs, NEW m \in Names, NEW c,
         CreateNew(p, m, c)
  PROVE  Intact(dir[n])
<1>1. NewInode(m) # dir[n] /\ inode' = [inode EXCEPT ![NewInode(m)] = Opened(c)]
  BY NewInodeFacts DEF CreateNew, Undisturbed
<1>2. dir[n] \in Inodes
  BY DEF Undisturbed, TypeOK, FilesOK
<1>. QED BY <1>1, <1>2, IntactSame DEF TypeOK, FilesOK

\* Closing a file leaves the others intact.
LEMMA IntactClose ==
  ASSUME TypeOK, NEW n, Undisturbed(n), NEW p \in Procs,
         NEW durable \in BOOLEAN, out[p] # None, CloseWritten(p, durable)
  PROVE  Intact(dir[n])
<1>1. dir[n] \in Live(dir', out') \cap Inodes
  BY DEF Undisturbed, TypeOK, FilesOK
<1>2. out'[p] = None
  BY JobFacts DEF CloseWritten
<1>3. dir[n] # out[p]
  BY <1>2 DEF Undisturbed
<1>4. FilesOK /\ JobsOK
  BY DEF TypeOK
<1> HIDE ConstantsAssumption DEF Procs
<1>5. inode'[dir[n]] = inode[dir[n]]
  BY <1>1, <1>3, <1>4, CloseWrittenFacts
<1>. QED BY <1>5, IntactSame

\* Builders leave undisturbed files intact.
LEMMA BuilderIntact ==
  ASSUME TypeOK, Alone, NEW n, Undisturbed(n), NEW b \in Builders,
         Solve(b) \/ Lock(b) \/ BuilderStep(b) \/ Abort(b)
  PROVE  Intact(dir[n])
<1> USE JobFacts DEF Goto, Try, jobVars, fileVars
<1> DEFINE k == want[b]
           i == dir[n]
<1>1. i \in Inodes /\ i \in Live(dir', out') /\ n \in Names
  BY DEF Undisturbed, TypeOK, FilesOK
<1>2. pc[b] # "idle" => k \in Keys
  OBVIOUS
<1>3. pc[b] \in InstallPc => dest[b] \in Dests
  BY DEF TypeOK, JobsOK
<1>4. CASE \/ Solve(b) \/ Lock(b) \/ Get(b) \/ ReadEntry(b) \/ Touch(b)
           \/ WriteMeta(b) \/ Stat(b) \/ CheckInstall(b) \/ Unlock(b)
  <2>1. inode' = inode
    BY <1>4 DEF Solve, Lock, Get, ReadEntry, Touch, WriteMeta, Stat, CheckInstall,
                Unlock
  <2>. QED BY <2>1, IntactSame
<1>5. CASE PutRename(b) \/ Publish(b) \/ ClearPart(b) \/ Tidy(b) \/ Abort(b)
  <2>1. inode' = Reclaim(inode, dir', out')
    BY <1>5 DEF PutRename, Publish, ClearPart, Tidy, RemoveFile, Abort
  <2>. QED BY <1>1, <2>1, IntactReclaim
<1>6. CASE Format(b) \/ PutCopied(b) \/ CopiedPart(b)
  <2>1. /\ CloseWritten(b, Journal) \/ CloseWritten(b, TRUE)
        /\ out[b] # None
    BY <1>6 DEF Format, PutCopied, CopiedPart, Writing
  <2>2. CASE CloseWritten(b, Journal)
    BY <2>1, <2>2, IntactClose
  <2>3. CASE CloseWritten(b, TRUE)
    BY <2>1, <2>3, IntactClose
  <2>. QED BY <2>1, <2>2, <2>3
<1>7. CASE Seal(b) \/ Sync(b)
  <2> DEFINE j == dir[Blob(k)]
  <2>1. \/ inode' = inode
        \/ j # None /\ inode' = [inode EXCEPT ![j].ro = TRUE]
        \/ j # None /\ inode' = [inode EXCEPT ![j].synced = TRUE]
    BY <1>7 DEF Seal, Sync
  <2>2. inode \in [Inodes -> Files]
    BY DEF TypeOK, FilesOK
  <2>3. inode[i] \in Files /\ i \in Inodes
    BY <1>1, <2>2
  <2> DEFINE Kept == /\ inode'[i].content = inode[i].content
                     /\ inode'[i].whole = inode[i].whole
                     /\ inode[i].synced => inode'[i].synced
  <2>4. Kept
    <3>1. CASE inode' = inode
      BY <3>1
    <3>2. ASSUME NEW x, x # None, inode' = [inode EXCEPT ![x].ro = TRUE]
          PROVE  Kept
      BY <2>2, <2>3, <3>2 DEF Files
    <3>3. ASSUME NEW x, x # None, inode' = [inode EXCEPT ![x].synced = TRUE]
          PROVE  Kept
      BY <2>2, <2>3, <3>3 DEF Files
    <3>. QED BY <2>1, <3>1, <3>2, <3>3
  <2>. QED BY <2>4 DEF Intact, Durable
<1>8. CASE PutCopy(b)
  <2>1. inode' = inode \/ CreateNew(b, Blob(k), Copied(dir[Tmp(k)]))
    BY <1>8 DEF PutCopy
  <2>2. Blob(k) \in Names
    BY <1>2, <1>8, NameFacts DEF PutCopy
  <2>. QED BY <2>1, <2>2, IntactSame, IntactCreate
<1>9. CASE LinkPart(b)
  <2>1. inode' = inode \/ CreateNew(b, Part(dest[b]), Copied(dir[Blob(k)]))
    BY <1>9 DEF LinkPart
  <2>2. Part(dest[b]) \in Names
    BY <1>3, <1>9, NameFacts DEF LinkPart, InstallPc
  <2>. QED BY <2>1, <2>2, IntactSame, IntactCreate
<1>10. CASE Export(b)
  <2> DEFINE j == IF Exists(Tmp(k)) THEN dir[Tmp(k)] ELSE NewInode(Tmp(k))
  <2>1. Tmp(k) \in Names /\ Tmp(k) \in Private /\ n # Tmp(k)
    BY <1>2, <1>10, NameFacts, PrivateFacts DEF Export, Undisturbed
  <2>3. i # j
    <3>1. CASE Exists(Tmp(k))
      BY <1>1, <2>1, <3>1 DEF Alone, Exists
    <3>2. CASE ~Exists(Tmp(k))
      BY <1>1, <1>10, <2>1, <3>2, NewInodeFacts DEF Export
    <3>. QED BY <3>1, <3>2
  <2>4. \E c : inode' = [inode EXCEPT ![j] = Opened(c)]
    BY <1>10 DEF Export
  <2>5. inode'[i] = inode[i]
    BY <1>1, <2>3, <2>4 DEF TypeOK, FilesOK
  <2>. QED BY <2>5, IntactSame
<1>. QED
  BY <1>4, <1>5, <1>6, <1>7, <1>8, <1>9, <1>10 DEF BuilderStep

\* So do copiers.
LEMMA CopierIntact ==
  ASSUME TypeOK, NEW n, Undisturbed(n), NEW m \in Copiers,
         Materialize(m) \/ CopierStep(m) \/ AbortCopy(m)
  PROVE  Intact(dir[n])
<1> USE JobFacts DEF Goto, Try, jobVars, fileVars
<1>1. dir[n] \in Inodes /\ dir[n] \in Live(dir', out')
  BY DEF Undisturbed, TypeOK, FilesOK
<1>2. CASE Materialize(m) \/ MaterializeReturns(m)
  <2>1. inode' = inode
    BY <1>2 DEF Materialize, MaterializeReturns
  <2>. QED BY <2>1, IntactSame
<1>3. CASE ClearDisk(m) \/ CloneDeclined(m) \/ AbortCopy(m)
  <2>1. inode' = Reclaim(inode, dir', out')
    BY <1>3 DEF ClearDisk, CloneDeclined, AbortCopy, RemoveFile
  <2>. QED BY <1>1, <2>1, IntactReclaim
<1>4. CASE OpenClone(m) \/ OpenCopy(m)
  <2>1. /\ inode' = inode \/ CreateNew(m, Disk(dest[m]), Copied(dir[Blob(want[m])]))
        /\ pc[m] # "idle"
    BY <1>4 DEF OpenClone, OpenCopy, OpenDisk
  <2>2. Disk(dest[m]) \in Names
    BY <2>1, NameFacts DEF TypeOK, JobsOK
  <2>. QED BY <2>1, <2>2, IntactSame, IntactCreate
<1>5. CASE Clone(m) \/ CopiedDisk(m)
  <2>1. /\ CloseWritten(m, FALSE) \/ CloseWritten(m, TRUE)
        /\ out[m] # None
    BY <1>5 DEF Clone, CopiedDisk, Writing
  <2>2. CASE CloseWritten(m, FALSE)
    BY <2>1, <2>2, IntactClose
  <2>3. CASE CloseWritten(m, TRUE)
    BY <2>1, <2>3, IntactClose
  <2>. QED BY <2>1, <2>2, <2>3
<1>. QED BY <1>2, <1>3, <1>4, <1>5 DEF CopierStep

\* So do collectors.
LEMMA CollectorIntact ==
  ASSUME TypeOK, NEW n, Undisturbed(n), NEW c \in Collectors,
         List(c) \/ CollectorStep(c)
  PROVE  Intact(dir[n])
<1>1. dir[n] \in Inodes /\ dir[n] \in Live(dir', out')
  BY DEF Undisturbed, TypeOK, FilesOK
<1>2. inode' = inode \/ inode' = Reclaim(inode, dir', out')
  BY DEF List, CollectorStep, Keep, Claim, EvictBlob, KeptBusy, Forget, RemoveFile,
         fileVars
<1>. QED BY <1>1, <1>2, IntactSame, IntactReclaim

\* A VM writes to disks only, and a loss of power spares what is safe.
LEMMA EnvironmentIntact ==
  ASSUME TypeOK, Alone, NEW n, Undisturbed(n), Environment
  PROVE  Intact(dir[n])
<1> DEFINE i == dir[n]
<1>1. i \in Inodes /\ i \in Live(dir', out') /\ n \in Names /\ i # None
  BY DEF Undisturbed, TypeOK, FilesOK
<1>2. ASSUME NEW p \in Procs, Crash(p) PROVE Intact(i)
  <2>1. inode' = Reclaim(inode, dir', out')
    BY <1>2 DEF Crash
  <2>. QED BY <1>1, <2>1, IntactReclaim
<1>3. CASE PowerLoss
  <2>1. "power" \in Faults /\ dir' = dir
    BY <1>3 DEF PowerLoss
  <2>2. PICK lost \in SUBSET {j \in Inodes : inode[j].whole /\ ~inode[j].synced} :
          inode' = Reclaim([j \in Inodes |-> IF j \in lost
                              THEN [inode[j] EXCEPT !.whole = FALSE] ELSE inode[j]],
                           dir, out')
    BY <1>3 DEF PowerLoss
  <2> DEFINE f == [j \in Inodes |-> IF j \in lost
                     THEN [inode[j] EXCEPT !.whole = FALSE] ELSE inode[j]]
  <2>3. f \in [Inodes -> Files]
    BY ChangedType DEF TypeOK, FilesOK
  <2>4. inode[i] \in Files
    BY <1>1 DEF TypeOK, FilesOK
  <2>5. f[i].content = inode[i].content /\ (inode[i].synced => f[i] = inode[i])
    BY <1>1, <2>2, <2>4 DEF Files
  <2>6. inode' = Reclaim(f, dir', out')
    BY <2>1, <2>2
  <2> HIDE DEF f
  <2>7. inode'[i] = f[i]
    BY <1>1, <2>3, <2>6, ReclaimType
  <2>. QED BY <2>1, <2>5, <2>7 DEF Intact, Durable
<1>4. ASSUME NEW d \in Disks, VmWrite(d) PROVE Intact(i)
  <2> DEFINE j == dir[Disk(d)]
  <2>1. j \in Inodes /\ j # None
    BY <1>4, NameFacts DEF VmWrite, Owned, Exists, TypeOK, FilesOK
  <2>2. i # j
    BY <1>1, <2>1, PrivateFacts DEF Alone, Undisturbed
  <2>3. inode'[i] = inode[i]
    BY <1>1, <1>4, <2>1, <2>2 DEF VmWrite, TypeOK, FilesOK
  <2>. QED BY <2>3, IntactSame
<1>5. ASSUME NEW d \in Disks, Release(d) PROVE Intact(i)
  <2>1. inode' = Reclaim(inode, dir', out) /\ out' = out
    BY <1>5 DEF Release, RemoveFile
  <2>. QED BY <1>1, <2>1, IntactReclaim
<1>6. ASSUME NEW d \in Dests, Withdraw(d) PROVE Intact(i)
  <2>1. inode' = Reclaim(inode, dir', out) /\ out' = out
    BY <1>6 DEF Withdraw, RemoveFile
  <2>. QED BY <1>1, <2>1, IntactReclaim
<1>. QED BY <1>2, <1>3, <1>4, <1>5, <1>6 DEF Environment

\* Every step leaves undisturbed files intact.
LEMMA StepIntact ==
  ASSUME TypeOK, Alone, NEW n, Undisturbed(n), [Next]_vars
  PROVE  Intact(dir[n])
<1>1. CASE UNCHANGED vars
  BY <1>1, IntactSame DEF vars
<1>. QED
  BY <1>1, BuilderIntact, CopierIntact, CollectorIntact, EnvironmentIntact DEF Next

-----------------------------------------------------------------------------

\* What the completeness of blobs rests on: one filesystem, so that put is a
\* rename; sources that stay what they were when the key was computed; and a
\* journal, whose installation fsyncs the image, where power may fail.
Careful ==
  /\ Renames
  /\ "drift" \notin Faults
  /\ "power" \in Faults => Journal

\* The file a builder formats is still its staging file, and nobody else's.
LEMMA FormattingStep ==
  ASSUME Careful, BlobInv, ExclusiveInv', [Next]_vars
  PROVE  Formatting'
<1> SUFFICES ASSUME NEW b \in Builders, pc'[b] = "format"
             PROVE  /\ out'[b] = dir'[Tmp(want'[b])]
                    /\ inode'[out'[b]].content = want'[b]
  BY DEF Formatting
<1>. /\ TypeOK /\ LockHeld /\ Alone /\ OneWriterPerFile /\ Formatting
     /\ dir \in [Names -> Inodes \cup {None}] /\ inode \in [Inodes -> Files]
  BY DEF BlobInv, ExclusiveInv, TypeOK, FilesOK
<1>1. CASE Export(b)
  <2> DEFINE k == want[b]
             i == IF Exists(Tmp(k)) THEN dir[Tmp(k)] ELSE NewInode(Tmp(k))
  <2>1. k \in Keys /\ Tmp(k) \in Names /\ want' = want
    BY <1>1, JobFacts, NameFacts DEF Export, Goto, jobVars
  <2>2. out' = [out EXCEPT ![b] = i] /\ dir' = [dir EXCEPT ![Tmp(k)] = i]
    BY <1>1 DEF Export
  <2>3. i \in Inodes
    BY <1>1, <2>1, NewInodeFacts DEF Export, Exists
  <2>4. inode' = [inode EXCEPT ![i] = Opened(k)]
    BY <1>1 DEF Export, Exports, Careful
  <2> HIDE DEF i
  <2>5. inode'[i].content = k
    BY <2>3, <2>4 DEF Opened
  <2>. QED BY <2>1, <2>2, <2>5, JobFacts
<1>2. CASE pc[b] = "format" /\ want'[b] = want[b] /\ out'[b] = out[b]
  <2> DEFINE k == want[b]
             i == dir[Tmp(k)]
  <2>1. k \in Keys /\ Tmp(k) \in Names /\ out[b] = i /\ i # None
    BY <1>2, JobFacts, NameFacts DEF Formatting, Writing
  <2>2. ~ \E a \in Builders : want[a] = k /\ (Export(a) \/ PutRename(a) \/ PutCopied(a))
    <3> SUFFICES ASSUME NEW a \in Builders, want[a] = k,
                        Export(a) \/ PutRename(a) \/ PutCopied(a)
                 PROVE  FALSE
      OBVIOUS
    <3>1. pc[a] \in {"export", "put", "copy_in"}
      BY DEF Export, PutRename, PutCopied, Goto, Try
    <3>2. lock[k] = a /\ lock[k] = b
      BY <1>2, <3>1 DEF LockHeld
    <3>. QED BY <1>2, <3>1, <3>2
  <2>3. dir'[Tmp(k)] = i
    BY <2>1, <2>2, NamesKept DEF StagingKept
  <2>4. i \in Live(dir', out')
    BY <2>1, <2>3, LiveFacts
  <2>5. \A p \in Procs : out'[p] # out[p] => out[p] # i
    BY <1>2, <2>1 DEF OneWriterPerFile
  <2>6. \A d \in Disks : Tmp(k) # Disk(d)
    BY <2>1, NameFacts
  <2>7. ~ \E a \in Builders : Export(a) /\ Tmp(k) = Tmp(want[a])
    <3> SUFFICES ASSUME NEW a \in Builders, Export(a), Tmp(k) = Tmp(want[a])
                 PROVE  FALSE
      OBVIOUS
    <3>1. want[a] \in Keys
      BY JobFacts DEF Export, Goto
    <3>. QED BY <2>1, <2>2, <3>1, NameFacts
  <2>8. Undisturbed(Tmp(k))
    BY <2>1, <2>4, <2>5, <2>6, <2>7 DEF Undisturbed
  <2>9. Intact(i)
    BY <2>8, StepIntact
  <2>. QED BY <1>2, <2>1, <2>3, <2>9 DEF Intact, Formatting
<1>. QED BY <1>1, <1>2, FormatsAndPuts

\* Format completes the file and, with a journal, makes it safe.
LEMMA FormatFacts ==
  ASSUME TypeOK, NEW b \in Builders, out[b] # None, CloseWritten(b, Journal),
         out[b] \in Live(dir', out') \cap Inodes
  PROVE  /\ inode'[out[b]].content = inode[out[b]].content
         /\ inode'[out[b]].whole = TRUE
         /\ Journal => inode'[out[b]].synced
<1>1. FilesOK /\ JobsOK /\ b \in Procs /\ Journal \in BOOLEAN
  BY DEF TypeOK
<1> HIDE ConstantsAssumption DEF Procs
<1>. QED BY <1>1, CloseWrittenFacts

\* A staging file is complete once it is formatted, and it stays complete and
\* safe while it waits for put.
LEMMA StagedStep ==
  ASSUME Careful, BlobInv, ExclusiveInv', [Next]_vars
  PROVE  Staged'
<1> SUFFICES ASSUME NEW b \in Builders, pc'[b] = "put"
             PROVE  /\ dir'[Tmp(want'[b])] # None
                    /\ inode'[dir'[Tmp(want'[b])]].whole
                    /\ inode'[dir'[Tmp(want'[b])]].content = want'[b]
                    /\ "power" \in Faults => inode'[dir'[Tmp(want'[b])]].synced
  BY DEF Staged, Image, Durable
<1>. /\ TypeOK /\ LockHeld /\ Alone /\ StagingWriter /\ Formatting /\ Staged
     /\ dir \in [Names -> Inodes \cup {None}] /\ inode \in [Inodes -> Files]
  BY DEF BlobInv, ExclusiveInv, TypeOK, FilesOK
<1> DEFINE k == want[b]
           i == dir[Tmp(k)]
<1>1. CASE Format(b)
  <2>1. /\ pc[b] = "format" /\ want' = want /\ dir' = dir
        /\ CloseWritten(b, Journal)
    BY <1>1 DEF Format, Goto, jobVars
  <2>2. /\ k \in Keys /\ Tmp(k) \in Names /\ out[b] = i /\ i # None
        /\ inode[i].content = k
    BY <2>1, JobFacts, NameFacts DEF Formatting, Writing
  <2>3. i \in Live(dir', out') \cap Inodes
    BY <2>1, <2>2, LiveFacts
  <2>4. /\ inode'[i].content = inode[i].content
        /\ inode'[i].whole = TRUE
        /\ Journal => inode'[i].synced
    BY <2>1, <2>2, <2>3, FormatFacts
  <2>. QED BY <2>1, <2>2, <2>4 DEF Careful
<1>2. CASE pc[b] = "put" /\ want'[b] = want[b]
  <2>1. /\ k \in Keys /\ Tmp(k) \in Names /\ i # None
        /\ inode[i].whole /\ inode[i].content = k /\ Durable(i)
    BY <1>2, JobFacts, NameFacts DEF Staged, Image
  <2>2. ASSUME NEW a \in Builders, want[a] = k, pc[a] \notin {"idle", "lock"}
        PROVE  a = b
    BY <1>2, <2>2 DEF LockHeld
  <2>3. ~ \E a \in Builders : want[a] = k /\ (Export(a) \/ PutRename(a) \/ PutCopied(a))
    <3> SUFFICES ASSUME NEW a \in Builders, want[a] = k,
                        Export(a) \/ PutRename(a) \/ PutCopied(a)
                 PROVE  FALSE
      OBVIOUS
    <3>1. /\ pc[a] \in {"export", "put", "copy_in"}
          /\ pc'[a] # "put"
      BY JobFacts DEF Export, PutRename, PutCopied, Goto, Try
    <3>. QED BY <2>2, <3>1
  <2>4. dir'[Tmp(k)] = i
    BY <2>1, <2>3, NamesKept DEF StagingKept
  <2>5. i \in Live(dir', out')
    BY <2>1, <2>4, LiveFacts
  <2>6. ASSUME NEW p \in Procs, out[p] = i PROVE FALSE
    <3>1. p \in Builders /\ pc[p] = "format" /\ want[p] = k
      BY <2>1, <2>6 DEF StagingWriter
    <3>. QED BY <1>2, <2>2, <3>1
  <2>7. \A d \in Disks : Tmp(k) # Disk(d)
    BY <2>1, NameFacts
  <2>8. ~ \E a \in Builders : Export(a) /\ Tmp(k) = Tmp(want[a])
    <3> SUFFICES ASSUME NEW a \in Builders, Export(a), Tmp(k) = Tmp(want[a])
                 PROVE  FALSE
      OBVIOUS
    <3>1. want[a] \in Keys
      BY JobFacts DEF Export, Goto
    <3>. QED BY <2>1, <2>3, <3>1, NameFacts
  <2>9. Undisturbed(Tmp(k))
    BY <2>1, <2>5, <2>6, <2>7, <2>8 DEF Undisturbed
  <2>10. Intact(i)
    BY <2>9, StepIntact
  <2>. QED BY <1>2, <2>1, <2>4, <2>10 DEF Intact
<1>. QED BY <1>1, <1>2, FormatsAndPuts

\* A blob is the file it was, untouched, or the one that was just put.
LEMMA BlobStep ==
  ASSUME Careful, BlobInv, [Next]_vars, NEW k \in Keys, dir'[Blob(k)] # None
  PROVE  /\ inode'[dir'[Blob(k)]].whole
         /\ inode'[dir'[Blob(k)]].content = k
         /\ "power" \in Faults => inode'[dir'[Blob(k)]].synced
         /\ \A p \in Procs : out'[p] # dir'[Blob(k)]
<1>. /\ TypeOK /\ LockHeld /\ Alone /\ StagingWriter /\ Staged
     /\ BlobsClosed /\ BlobsDurable /\ BlobWhole
     /\ dir \in [Names -> Inodes \cup {None}] /\ inode \in [Inodes -> Files]
  BY DEF BlobInv, ExclusiveInv, TypeOK, FilesOK
<1> DEFINE i == dir'[Blob(k)]
<1>0. Blob(k) \in Names /\ Tmp(k) \in Names /\ Tmp(k) \in Private
  BY NameFacts, PrivateFacts
<1>1. CASE dir'[Blob(k)] = dir[Blob(k)]
  <2>1. /\ inode[i].whole /\ inode[i].content = k /\ Durable(i)
        /\ \A p \in Procs : out[p] # i
    BY <1>1 DEF BlobWhole, BlobsDurable, BlobsClosed, Exists, Image
  <2>2. Undisturbed(Blob(k))
    <3>1. i \in Live(dir', out')
      BY <1>0, LiveFacts
    <3>2. \A d \in Disks : Blob(k) # Disk(d)
      BY NameFacts
    <3>3. ~ \E b \in Builders : Export(b) /\ Blob(k) = Tmp(want[b])
      BY JobFacts, NameFacts DEF Export, Goto
    <3>. QED BY <1>0, <1>1, <2>1, <3>1, <3>2, <3>3 DEF Undisturbed
  <2>3. Intact(dir[Blob(k)])
    BY <2>2, StepIntact
  <2>4. ASSUME NEW p \in Procs PROVE out'[p] # i
    <3>1. CASE Calm
      BY <2>1, <3>1 DEF Calm
    <3>2. ASSUME NEW q \in Procs, Creates(q) PROVE out'[p] # i
      <4>1. PICK n, c : n \in Names /\ CreateNew(q, n, c)
        BY <3>2 DEF Creates
      <4>2. out' = [out EXCEPT ![q] = NewInode(n)] /\ NewInode(n) # i
        BY <1>0, <1>1, <4>1, NewInodeFacts DEF CreateNew
      <4>. QED BY <2>1, <4>2, JobFacts
    <3>3. ASSUME NEW b \in Builders, Export(b) PROVE out'[p] # i
      <4> DEFINE l == want[b]
                 j == IF Exists(Tmp(l)) THEN dir[Tmp(l)] ELSE NewInode(Tmp(l))
      <4>1. /\ Tmp(l) \in Names /\ Tmp(l) \in Private /\ Blob(k) # Tmp(l)
            /\ out' = [out EXCEPT ![b] = j]
        BY <3>3, JobFacts, NameFacts, PrivateFacts DEF Export, Goto
      <4>2. j # i
        <5>1. CASE Exists(Tmp(l))
          BY <1>0, <1>1, <4>1, <5>1 DEF Alone, Exists
        <5>2. CASE ~Exists(Tmp(l))
          BY <1>0, <1>1, <3>3, <4>1, <5>2, NewInodeFacts DEF Export
        <5>. QED BY <5>1, <5>2
      <4> HIDE DEF j
      <4>. QED BY <2>1, <4>1, <4>2, JobFacts
    <3>. QED BY <3>1, <3>2, <3>3, StepKinds DEF StepKind
  <2>. QED BY <1>1, <2>1, <2>3, <2>4 DEF Intact
<1>2. ASSUME NEW b \in Builders, want[b] = k, PutRename(b)
      PROVE  /\ inode'[i].whole
             /\ inode'[i].content = k
             /\ "power" \in Faults => inode'[i].synced
             /\ \A p \in Procs : out'[p] # i
  <2>1. /\ pc[b] = "put" /\ out' = out
        /\ inode' = Reclaim(inode, dir', out')
        /\ dir' = IF Exists(Tmp(k)) THEN Renamed(Tmp(k), Blob(k)) ELSE dir
    BY <1>2 DEF PutRename, Try, Goto
  <2>2. /\ dir[Tmp(k)] # None
        /\ inode[dir[Tmp(k)]].whole /\ inode[dir[Tmp(k)]].content = k
        /\ Durable(dir[Tmp(k)])
    BY <1>2, <2>1 DEF Staged, Image
  <2>3. i = dir[Tmp(k)]
    BY <1>0, <2>1, <2>2, NameFacts DEF Exists, Renamed
  <2>4. i \in Live(dir', out') \cap Inodes
    BY <1>0, <2>2, <2>3, LiveFacts
  <2>5. inode'[i] = inode[i]
    BY <2>1, <2>4, ReclaimType
  <2>6. ASSUME NEW p \in Procs, out'[p] = i PROVE FALSE
    <3>1. p \in Builders /\ pc[p] = "format" /\ want[p] = k
      BY <2>1, <2>2, <2>3, <2>6 DEF StagingWriter
    <3>2. lock[k] = p /\ lock[k] = b
      BY <1>2, <2>1, <3>1 DEF LockHeld
    <3>. QED BY <2>1, <3>1, <3>2
  <2>. QED BY <2>2, <2>3, <2>5, <2>6 DEF Durable
<1>3. ASSUME NEW b \in Builders, PutCopy(b) PROVE FALSE
  BY <1>3 DEF PutCopy, Careful
<1>. QED BY <1>1, <1>2, <1>3, NamesKept DEF BlobKept

\* The invariant behind BlobWhole is inductive.
LEMMA BlobInvStep ==
  ASSUME Careful, BlobInv, [Next]_vars
  PROVE  BlobInv'
<1>1. ExclusiveInv'
  BY ExclusiveStep DEF BlobInv
<1>2. Formatting' /\ Staged'
  BY <1>1, FormattingStep, StagedStep
<1>3. BlobsClosed' /\ BlobsDurable' /\ BlobWhole'
  BY BlobStep DEF BlobsClosed, BlobsDurable, BlobWhole, Exists, Image, Durable
<1>. QED BY <1>1, <1>2, <1>3 DEF BlobInv

\* It holds when the store is opened.
LEMMA BlobInvInit == Init => BlobInv
<1> SUFFICES ASSUME Init PROVE BlobInv
  OBVIOUS
<1>1. \A k \in Keys : dir[Blob(k)] = None
  BY NameFacts DEF Init
<1>. QED
  BY <1>1, ExclusiveInit
     DEF Init, BlobInv, Formatting, Staged, BlobsClosed, BlobsDurable, BlobWhole,
         Exists

\* A name in blobs/ always holds the complete image of its key, whatever is
\* killed or fails and, for images with a journal, through losses of power.
THEOREM StoreBlobWhole ==
  ASSUME Careful
  PROVE  Spec => []BlobWhole
<1>1. Init => BlobInv
  BY BlobInvInit
<1>2. BlobInv /\ [Next]_vars => BlobInv'
  BY BlobInvStep
<1>3. BlobInv => BlobWhole
  BY DEF BlobInv
<1>. QED BY <1>1, <1>2, <1>3, PTL DEF Spec

-----------------------------------------------------------------------------
(* What the catalog shows and what the users of the store find.            *)
(*                                                                         *)
(* Hard-linked installs need no lock of their own: a catalog name never    *)
(* shows a partial image, even where builds of different keys install      *)
(* under one name and share its .part.  Installs that may copy need their  *)
(* .part to themselves: then the store implements the cache of module      *)
(* ImageCache, whatever goes wrong.                                        *)

\* The names a settled image may be moved or linked from.
Sources == {Blob(k) : k \in Keys} \cup Catalog

\* All of them are names, and none is a temporary file or a disk.
LEMMA SourceFacts ==
  /\ Sources \subseteq Names \ Private
  /\ Catalog \subseteq Sources
  /\ \A k \in Keys : Blob(k) \in Sources /\ Blob(k) \notin Catalog /\ Tmp(k) \notin Catalog
  /\ \A d \in Dests : Cat(d) \in Catalog /\ Part(d) \in Catalog
  /\ \A d \in Disks : Disk(d) \notin Sources
  /\ \A k \in Keys : Tmp(k) \notin Sources
<1>1. \A n : n \in Catalog <=> \E d \in Dests : n = Cat(d) \/ n = Part(d)
  BY DEF Catalog
<1>2. \A n : n \in Sources <=> n \in Catalog \/ \E k \in Keys : n = Blob(k)
  BY DEF Sources
<1>3. Sources \subseteq Names \ Private
  <2>1. ASSUME NEW k \in Keys PROVE Blob(k) \in Names \ Private
    BY PrivateFacts
  <2>2. ASSUME NEW d \in Dests PROVE {Cat(d), Part(d)} \subseteq Names \ Private
    BY PrivateFacts
  <2>3. ASSUME NEW n \in Sources PROVE n \in Names \ Private
    BY <1>1, <1>2, <2>1, <2>2, <2>3
  <2>. QED BY <2>3
<1>4. ASSUME NEW k \in Keys PROVE Blob(k) \notin Catalog /\ Tmp(k) \notin Catalog
  <2>1. ASSUME NEW d \in Dests
        PROVE  {Blob(k), Tmp(k)} \cap {Cat(d), Part(d)} = {}
    BY NameFacts
  <2>. QED BY <1>1, <2>1
<1>5. /\ \A d \in Disks : Disk(d) \notin Sources
      /\ \A k \in Keys : Tmp(k) \notin Sources
  BY <1>3, PrivateFacts
<1>. QED BY <1>1, <1>2, <1>3, <1>4, <1>5

\* Where every catalog name can be hard-linked, a name of the catalog is bound
\* to a file only by moving or linking a name of the store.
CatalogMoved ==
  \A n \in Catalog : dir'[n] # None => \E m \in Sources : dir'[n] = dir[m]

\* Nothing moves but names outside the catalog.
LEMMA CatalogKept ==
  ASSUME \A n \in Catalog : dir'[n] = dir[n] \/ dir'[n] = None
  PROVE  CatalogMoved
BY SourceFacts DEF CatalogMoved

LEMMA BuilderCatalog ==
  ASSUME TypeOK, Renames, Dests \subseteq Linkable, NEW b \in Builders,
         Solve(b) \/ Lock(b) \/ BuilderStep(b) \/ Abort(b)
  PROVE  CatalogMoved
<1> USE JobFacts DEF Goto, Try, jobVars, fileVars
<1> DEFINE k == want[b]
           part == Part(dest[b])
<1>. dir \in [Names -> Inodes \cup {None}] /\ Catalog \subseteq Names
  BY SourceFacts DEF TypeOK, FilesOK
<1>1. pc[b] # "idle" => k \in Keys
  OBVIOUS
<1>2. pc[b] \in InstallPc => dest[b] \in Dests
  BY DEF TypeOK, JobsOK
<1>3. CASE \/ Solve(b) \/ Lock(b) \/ Get(b) \/ ReadEntry(b) \/ Touch(b) \/ Unlock(b)
           \/ Seal(b) \/ Sync(b) \/ WriteMeta(b) \/ Stat(b) \/ CheckInstall(b)
  <2>1. dir' = dir
    BY <1>3 DEF Solve, Lock, Get, ReadEntry, Touch, Unlock, Seal, Sync, WriteMeta,
                Stat, CheckInstall
  <2>. QED BY <2>1, CatalogKept
<1>4. CASE Format(b) \/ CopiedPart(b) \/ Abort(b)
  <2>1. dir' = dir
    BY <1>4 DEF Format, CopiedPart, Abort
  <2>. QED BY <2>1, CatalogKept
<1>5. CASE Export(b) \/ PutCopied(b)
  <2>1. k \in Keys /\ \E i : dir' = [dir EXCEPT ![Tmp(k)] = i]
    BY <1>1, <1>5 DEF Export, PutCopied, Unlinked
  <2>2. Tmp(k) \notin Catalog
    BY <2>1, SourceFacts
  <2>. QED BY <2>1, <2>2, CatalogKept
<1>6. CASE PutRename(b)
  <2>1. k \in Keys /\ (dir' = dir \/ dir' = Renamed(Tmp(k), Blob(k)))
    BY <1>1, <1>6 DEF PutRename
  <2>2. Tmp(k) \notin Catalog /\ Blob(k) \notin Catalog
    BY <2>1, SourceFacts
  <2>. QED BY <2>1, <2>2, CatalogKept DEF Renamed
<1>7. CASE PutCopy(b)
  BY <1>7 DEF PutCopy
<1>8. CASE ClearPart(b) \/ Tidy(b)
  <2>1. dir' = Unlinked(part)
    BY <1>8 DEF ClearPart, Tidy, RemoveFile
  <2>. QED BY <2>1, CatalogKept DEF Unlinked
<1>9. CASE LinkPart(b)
  <2>1. /\ dest[b] \in Linkable /\ k \in Keys
        /\ dir' = dir \/ dir' = [dir EXCEPT ![part] = dir[Blob(k)]]
    BY <1>1, <1>2, <1>9 DEF LinkPart, InstallPc
  <2>2. \A n \in Catalog : dir'[n] = dir[n] \/ dir'[n] = dir[Blob(k)]
    BY <2>1
  <2>. QED BY <2>1, <2>2, SourceFacts DEF CatalogMoved
<1>10. CASE Publish(b)
  <2>1. /\ dest[b] \in Dests
        /\ dir' = dir \/ dir' = Renamed(part, Cat(dest[b]))
    BY <1>2, <1>10 DEF Publish, InstallPc
  <2>2. \A n \in Catalog : dir'[n] \in {dir[n], dir[part], None}
    BY <2>1 DEF Renamed
  <2>. QED BY <2>1, <2>2, SourceFacts DEF CatalogMoved
<1>. QED
  BY <1>3, <1>4, <1>5, <1>6, <1>7, <1>8, <1>9, <1>10 DEF BuilderStep

\* Nobody else names anything in the catalog.
LEMMA OtherDir ==
  ASSUME TypeOK,
         \/ \E m \in Copiers : Materialize(m) \/ CopierStep(m) \/ AbortCopy(m)
         \/ \E c \in Collectors : List(c) \/ CollectorStep(c)
         \/ Environment
         \/ UNCHANGED vars
  PROVE  \A n \in Catalog : dir'[n] \in {dir[n], None}
<1> USE JobFacts DEF Goto, Try, jobVars, fileVars
<1>. dir \in [Names -> Inodes \cup {None}] /\ Catalog \subseteq Names
  BY SourceFacts DEF TypeOK, FilesOK
<1>1. ASSUME NEW m \in Copiers, Materialize(m) \/ CopierStep(m) \/ AbortCopy(m)
      PROVE  \A n \in Catalog : dir'[n] \in {dir[n], None}
  <2>1. pc[m] # "idle" => dest[m] \in Disks
    BY DEF TypeOK, JobsOK
  <2>2. \/ dir' = dir
        \/ /\ pc[m] # "idle"
           /\ \A n \in Names : n # Disk(dest[m]) => dir'[n] = dir[n]
    <3>1. CASE ClearDisk(m) \/ CloneDeclined(m) \/ AbortCopy(m)
      BY <3>1 DEF ClearDisk, CloneDeclined, AbortCopy, Unlinked, RemoveFile
    <3>2. CASE OpenClone(m) \/ OpenCopy(m)
      BY <3>2 DEF OpenClone, OpenCopy, OpenDisk, CreateNew
    <3>3. CASE \/ Materialize(m) \/ Clone(m) \/ CopiedDisk(m)
               \/ MaterializeReturns(m)
      BY <3>3 DEF Materialize, Clone, CopiedDisk, MaterializeReturns
    <3>. QED BY <1>1, <3>1, <3>2, <3>3 DEF CopierStep
  <2>3. \A n \in Catalog : dir'[n] = dir[n]
    BY <2>1, <2>2, SourceFacts
  <2>. QED BY <2>3
<1>2. ASSUME \/ \E c \in Collectors : List(c) \/ CollectorStep(c)
             \/ Environment
             \/ UNCHANGED vars
      PROVE  \A n \in Catalog : dir'[n] \in {dir[n], None}
  <2>1. dir' = dir \/ \E n : dir' = Unlinked(n)
    <3>1. ASSUME NEW c \in Collectors, List(c) \/ CollectorStep(c)
          PROVE  dir' = dir \/ \E n : dir' = Unlinked(n)
      BY <3>1 DEF List, CollectorStep, Keep, Claim, EvictBlob, KeptBusy, Forget,
                  RemoveFile
    <3>2. CASE Environment
      BY <3>2 DEF Environment, Crash, PowerLoss, VmWrite, Release, Withdraw, RemoveFile
    <3>3. CASE UNCHANGED vars
      BY <3>3 DEF vars
    <3>. QED BY <1>2, <3>1, <3>2, <3>3
  <2>. QED BY <2>1 DEF Unlinked
<1>. QED BY <1>1, <1>2

LEMMA OtherCatalog ==
  ASSUME TypeOK,
         \/ \E m \in Copiers : Materialize(m) \/ CopierStep(m) \/ AbortCopy(m)
         \/ \E c \in Collectors : List(c) \/ CollectorStep(c)
         \/ Environment
         \/ UNCHANGED vars
  PROVE  CatalogMoved
BY OtherDir, CatalogKept

\* A file named by the store, settled, and still named after a step is settled.
LEMMA SettledStep ==
  ASSUME TypeOK, Alone, [Next]_vars, NEW m \in Sources, NEW n \in Names,
         dir'[n] = dir[m], Settled(dir[m])
  PROVE  /\ \E k \in Keys : inode'[dir[m]].whole /\ inode'[dir[m]].content = k
         /\ inode'[dir[m]].content = inode[dir[m]].content
         /\ "power" \in Faults => inode'[dir[m]].synced
         /\ \A p \in Procs : out'[p] # dir[m]
<1> DEFINE i == dir[m]
<1>. /\ i # None /\ \A p \in Procs : out[p] # i
     /\ inode[i].whole /\ Durable(i) /\ \E k \in Keys : inode[i].content = k
  BY DEF Settled, Image
<1>0. m \in Names /\ m \notin Private
  BY SourceFacts
<1>1. Undisturbed(m)
  <2>1. i \in Live(dir', out')
    BY LiveFacts
  <2>2. \A d \in Disks : m # Disk(d)
    BY SourceFacts
  <2>3. ~ \E b \in Builders : Export(b) /\ m = Tmp(want[b])
    BY JobFacts, SourceFacts DEF Export, Goto
  <2>. QED BY <1>0, <2>1, <2>2, <2>3 DEF Undisturbed
<1>2. Intact(i)
  BY <1>1, StepIntact
<1>3. ASSUME NEW p \in Procs PROVE out'[p] # i
  <2>1. CASE Calm
    BY <2>1 DEF Calm
  <2>2. ASSUME NEW q \in Procs, Creates(q) PROVE out'[p] # i
    <3>1. PICK x, c : x \in Names /\ CreateNew(q, x, c)
      BY <2>2 DEF Creates
    <3>2. out' = [out EXCEPT ![q] = NewInode(x)] /\ NewInode(x) # i
      BY <1>0, <3>1, NewInodeFacts DEF CreateNew
    <3>. QED BY <3>2, JobFacts
  <2>3. ASSUME NEW b \in Builders, Export(b) PROVE out'[p] # i
    <3> DEFINE l == want[b]
               j == IF Exists(Tmp(l)) THEN dir[Tmp(l)] ELSE NewInode(Tmp(l))
    <3>1. /\ Tmp(l) \in Names /\ Tmp(l) \in Private /\ m # Tmp(l)
          /\ out' = [out EXCEPT ![b] = j]
      BY <1>0, <2>3, JobFacts, NameFacts, PrivateFacts DEF Export, Goto
    <3>2. j # i
      <4>1. CASE Exists(Tmp(l))
        BY <1>0, <3>1, <4>1 DEF Alone, Exists
      <4>2. CASE ~Exists(Tmp(l))
        BY <1>0, <2>3, <3>1, <4>2, NewInodeFacts DEF Export
      <4>. QED BY <4>1, <4>2
    <3> HIDE DEF j
    <3>. QED BY <3>1, <3>2, JobFacts
  <2>. QED BY <2>1, <2>2, <2>3, StepKinds DEF StepKind
<1>. QED BY <1>2, <1>3 DEF Intact

LEMMA CatalogInvStep ==
  ASSUME Careful, Dests \subseteq Linkable, CatalogInv, [Next]_vars
  PROVE  CatalogInv'
<1>. BlobInv /\ CatalogSettled /\ TypeOK /\ Alone
  BY DEF CatalogInv, BlobInv, ExclusiveInv
<1>1. BlobInv'
  BY BlobInvStep
<1>2. CatalogMoved
  BY BuilderCatalog, OtherCatalog DEF Careful, Next
<1>3. ASSUME NEW m \in Sources, dir[m] # None PROVE Settled(dir[m])
  <2>1. CASE m \in Catalog
    BY <1>3, <2>1 DEF CatalogSettled, Exists
  <2>2. ASSUME NEW k \in Keys, m = Blob(k) PROVE Settled(dir[m])
    BY <1>3, <2>2 DEF BlobInv, BlobWhole, BlobsDurable, BlobsClosed, Exists, Settled
  <2>. QED BY <2>1, <2>2 DEF Sources
<1>4. CatalogSettled'
  <2> SUFFICES ASSUME NEW n \in Catalog, dir'[n] # None
               PROVE  /\ \E k \in Keys : inode'[dir'[n]].whole /\ inode'[dir'[n]].content = k
                      /\ "power" \in Faults => inode'[dir'[n]].synced
                      /\ \A p \in Procs : out'[p] # dir'[n]
    BY DEF CatalogSettled, Settled, Exists, Image, Durable
  <2>1. PICK m \in Sources : dir'[n] = dir[m]
    BY <1>2 DEF CatalogMoved
  <2>2. Settled(dir[m]) /\ n \in Names
    BY <1>3, <2>1, SourceFacts
  <2>. QED BY <2>1, <2>2, SettledStep
<1>. QED BY <1>1, <1>4 DEF CatalogInv

\* It holds when the store is opened.
LEMMA CatalogInvInit == Init => CatalogInv
<1> SUFFICES ASSUME Init PROVE CatalogInv
  OBVIOUS
<1>1. \A n \in Catalog : dir[n] = None
  BY SourceFacts DEF Init
<1>. QED BY <1>1, BlobInvInit DEF CatalogInv, CatalogSettled, Exists

\* A catalog name always shows a complete image, whoever else installs under
\* it, whatever is killed, fails or loses power, as long as installs can link.
\* (Where they copy, run shared_dest is a counterexample.)
THEOREM StoreCatalogWhole ==
  ASSUME Careful, Dests \subseteq Linkable
  PROVE  Spec => []CatalogWhole
<1>1. Init => CatalogInv
  BY CatalogInvInit
<1>2. CatalogInv /\ [Next]_vars => CatalogInv'
  BY CatalogInvStep
<1>3. CatalogInv => CatalogWhole
  BY SourceFacts DEF CatalogInv, CatalogSettled, Settled, CatalogWhole
<1>. QED BY <1>1, <1>2, <1>3, PTL DEF Spec

-----------------------------------------------------------------------------

\* Who changes the file under a catalog name.
CatKept(d) ==
  \/ dir'[Cat(d)] \in {dir[Cat(d)], None}
  \/ \E b \in Builders : dest[b] = d /\ pc[b] = "publish" /\ pc'[b] = "tidy"

LEMMA BuilderCat ==
  ASSUME TypeOK, NEW d \in Dests, NEW b \in Builders,
         Solve(b) \/ Lock(b) \/ BuilderStep(b) \/ Abort(b)
  PROVE  CatKept(d)
<1> USE JobFacts, NameFacts DEF CatKept, Goto, Try, jobVars, fileVars
<1> DEFINE k == want[b]
           part == Part(dest[b])
<1>. dir \in [Names -> Inodes \cup {None}] /\ Cat(d) \in Names
  BY DEF TypeOK, FilesOK
<1>1. pc[b] # "idle" => k \in Keys
  OBVIOUS
<1>2. pc[b] \in InstallPc => dest[b] \in Dests
  BY DEF TypeOK, JobsOK
<1>3. ASSUME NEW n, n # Cat(d), \E i : dir' = [dir EXCEPT ![n] = i]
      PROVE  CatKept(d)
  BY <1>3
<1>4. ASSUME dir' = dir PROVE CatKept(d)
  BY <1>4
<1>5. CASE \/ Solve(b) \/ Lock(b) \/ Get(b) \/ ReadEntry(b) \/ Touch(b) \/ Unlock(b)
           \/ Seal(b) \/ Sync(b) \/ WriteMeta(b) \/ Stat(b) \/ CheckInstall(b)
  <2>1. dir' = dir
    BY <1>5 DEF Solve, Lock, Get, ReadEntry, Touch, Unlock, Seal, Sync, WriteMeta,
                Stat, CheckInstall
  <2>. QED BY <1>4, <2>1
<1>6. CASE Format(b) \/ CopiedPart(b) \/ Abort(b)
  BY <1>4, <1>6 DEF Format, CopiedPart, Abort
<1>7. CASE Export(b) \/ PutCopied(b)
  <2>1. k \in Keys /\ \E i : dir' = [dir EXCEPT ![Tmp(k)] = i]
    BY <1>1, <1>7 DEF Export, PutCopied, Unlinked
  <2>2. Tmp(k) # Cat(d)
    BY <2>1
  <2>. QED BY <1>3, <2>1, <2>2
<1>8. CASE PutRename(b)
  <2>1. k \in Keys /\ (dir' = dir \/ dir' = Renamed(Tmp(k), Blob(k)))
    BY <1>1, <1>8 DEF PutRename
  <2>2. Tmp(k) # Cat(d) /\ Blob(k) # Cat(d)
    BY <2>1
  <2>3. dir'[Cat(d)] = dir[Cat(d)]
    BY <2>1, <2>2 DEF Renamed
  <2>. QED BY <2>3
<1>9. CASE PutCopy(b)
  <2>1. k \in Keys /\ (dir' = dir \/ \E i : dir' = [dir EXCEPT ![Blob(k)] = i])
    BY <1>1, <1>9 DEF PutCopy, CreateNew
  <2>2. Blob(k) # Cat(d)
    BY <2>1
  <2>. QED BY <1>3, <1>4, <2>1, <2>2
<1>10. CASE ClearPart(b) \/ Tidy(b)
  <2>1. dest[b] \in Dests /\ \E i : dir' = [dir EXCEPT ![part] = i]
    BY <1>2, <1>10 DEF ClearPart, Tidy, InstallPc, RemoveFile, Unlinked
  <2>2. part # Cat(d)
    BY <2>1
  <2>. QED BY <1>3, <2>1, <2>2
<1>11. CASE LinkPart(b)
  <2>1. /\ dest[b] \in Dests
        /\ dir' = dir \/ \E i : dir' = [dir EXCEPT ![part] = i]
    BY <1>2, <1>11 DEF LinkPart, InstallPc, CreateNew
  <2>2. part # Cat(d)
    BY <2>1
  <2>. QED BY <1>3, <1>4, <2>1, <2>2
<1>12. CASE Publish(b)
  <2>1. dest[b] \in Dests /\ part # Cat(d)
    BY <1>2, <1>12 DEF Publish, InstallPc
  <2>2. CASE dest[b] # d
    <3>1. Cat(dest[b]) # Cat(d)
      BY <2>2 DEF Cat
    <3>2. dir'[Cat(d)] = dir[Cat(d)]
      BY <1>12, <2>1, <3>1 DEF Publish, Renamed
    <3>. QED BY <3>2
  <2>3. CASE dest[b] = d
    <3>1. CASE Exists(part)
      BY <1>12, <2>3, <3>1 DEF Publish
    <3>2. CASE ~Exists(part)
      BY <1>4, <1>12, <3>2 DEF Publish
    <3>. QED BY <3>1, <3>2
  <2>. QED BY <2>2, <2>3
<1>. QED
  BY <1>5, <1>6, <1>7, <1>8, <1>9, <1>10, <1>11, <1>12 DEF BuilderStep

LEMMA OtherCat ==
  ASSUME TypeOK, NEW d \in Dests,
         \/ \E m \in Copiers : Materialize(m) \/ CopierStep(m) \/ AbortCopy(m)
         \/ \E c \in Collectors : List(c) \/ CollectorStep(c)
         \/ Environment
         \/ UNCHANGED vars
  PROVE  CatKept(d)
<1>. Cat(d) \in Catalog /\ Cat(d) \in Names
  BY SourceFacts, NameFacts
<1>1. dir'[Cat(d)] \in {dir[Cat(d)], None}
  BY OtherDir
<1>. QED BY <1>1 DEF CatKept

\* What a catalog name shows is changed by an install under it or by its user,
\* and by nothing else: no rebuild, eviction, VM or loss of power.
THEOREM StoreCatalogStable ==
  ASSUME Careful, Dests \subseteq Linkable
  PROVE  Spec => CatalogStable
<1>1. Init => CatalogInv
  BY CatalogInvInit
<1>2. CatalogInv /\ [Next]_vars => CatalogInv'
  BY CatalogInvStep
<1> DEFINE Change ==
      \A d \in Dests, k \in Keys : Image(dir[Cat(d)], k) =>
        \/ dir'[Cat(d)] = None
        \/ Image(dir[Cat(d)], k)'
        \/ \E b \in Builders :
             dest[b] = d /\ pc[b] = "publish" /\ pc'[b] = "tidy"
<1>3. CatalogInv /\ [Next]_vars => [Change]_vars
  <2> SUFFICES ASSUME CatalogInv, [Next]_vars, NEW d \in Dests, NEW k \in Keys,
                      Image(dir[Cat(d)], k),
                      dir'[Cat(d)] = dir[Cat(d)]
               PROVE  Image(dir[Cat(d)], k)'
    <3>1. ASSUME CatalogInv, [Next]_vars, NEW d \in Dests PROVE CatKept(d)
      BY <3>1, BuilderCat, OtherCat DEF CatalogInv, BlobInv, ExclusiveInv, Next
    <3>. QED BY <3>1 DEF CatKept
  <2>. TypeOK /\ Alone
    BY DEF CatalogInv, BlobInv, ExclusiveInv
  <2>1. /\ Cat(d) \in Sources /\ Cat(d) \in Names
        /\ dir[Cat(d)] # None /\ inode[dir[Cat(d)]].content = k
    BY SourceFacts DEF Image
  <2>2. Settled(dir[Cat(d)])
    BY <2>1, SourceFacts DEF CatalogInv, CatalogSettled, Exists
  <2>3. /\ inode'[dir[Cat(d)]].whole
        /\ inode'[dir[Cat(d)]].content = inode[dir[Cat(d)]].content
    BY <2>1, <2>2, SettledStep
  <2>. QED BY <2>1, <2>3 DEF Image
<1>. QED BY <1>1, <1>2, <1>3, PTL DEF Spec, CatalogStable

-----------------------------------------------------------------------------
(* Who moves.                                                              *)

\* What builder b does of its own accord.
Acts(b) == Solve(b) \/ Lock(b) \/ BuilderStep(b) \/ Abort(b)

\* Process p stays where it is.
Rests(p) ==
  /\ pc'[p] = pc[p] /\ out'[p] = out[p]
  /\ want'[p] = want[p] /\ dest'[p] = dest[p] /\ refresh'[p] = refresh[p]

\* The variables of the processes are functions on the processes.
LEMMA LocalFacts ==
  ASSUME TypeOK
  PROVE  /\ pc = [p \in Procs |-> pc[p]] /\ out = [p \in Procs |-> out[p]]
         /\ want = [p \in Procs |-> want[p]] /\ dest = [p \in Procs |-> dest[p]]
         /\ refresh = [p \in Procs |-> refresh[p]]
BY DEF TypeOK, JobsOK

\* A step of one builder leaves the other processes where they are.
LEMMA OthersRest ==
  ASSUME TypeOK, NEW c \in Builders, Acts(c), NEW p \in Procs, p # c
  PROVE  Rests(p)
<1> USE DEF Rests, Goto, Try, jobVars, fileVars
<1>1. CASE Solve(c) \/ Lock(c) \/ Unlock(c)
  BY <1>1, LocalFacts DEF Solve, StartJob, Lock, Unlock, EndJob
<1>2. CASE Get(c) \/ ReadEntry(c) \/ Touch(c) \/ Seal(c) \/ Sync(c)
  BY <1>2, LocalFacts DEF Get, ReadEntry, Touch, Seal, Sync
<1>3. CASE WriteMeta(c) \/ Stat(c) \/ CheckInstall(c) \/ ClearPart(c) \/ Tidy(c)
  BY <1>3, LocalFacts DEF WriteMeta, Stat, CheckInstall, ClearPart, Tidy
<1>4. CASE Export(c) \/ Abort(c)
  BY <1>4, LocalFacts DEF Export, Abort
<1>5. CASE Format(c) \/ PutCopied(c) \/ CopiedPart(c)
  BY <1>5, LocalFacts DEF Format, PutCopied, CopiedPart, CloseWritten
<1>6. CASE PutRename(c) \/ Publish(c)
  BY <1>6, LocalFacts DEF PutRename, Publish
<1>7. CASE PutCopy(c)
  BY <1>7, LocalFacts DEF PutCopy, CreateNew
<1>8. CASE LinkPart(c)
  <2>1. /\ \E s : pc' = [pc EXCEPT ![c] = s]
        /\ out' = out \/ \E i : out' = [out EXCEPT ![c] = i]
        /\ UNCHANGED jobVars
    BY <1>8 DEF LinkPart, CreateNew
  <2>. QED BY <2>1, LocalFacts
<1>. QED
  BY <1>1, <1>2, <1>3, <1>4, <1>5, <1>6, <1>7, <1>8 DEF Acts, BuilderStep

\* A builder that acts goes somewhere else.
LEMMA ActsMove ==
  ASSUME TypeOK, NEW b \in Builders, Acts(b) PROVE pc'[b] # pc[b]
<1> USE JobFacts DEF Goto, Try
<1>1. CASE Solve(b) \/ Lock(b) \/ Unlock(b) \/ Abort(b)
  BY <1>1 DEF Solve, Lock, Unlock, Abort, Fallible
<1>2. CASE Get(b) \/ ReadEntry(b) \/ Touch(b) \/ Export(b) \/ Format(b)
  BY <1>2 DEF Get, ReadEntry, Touch, Export, Format, AfterGet
<1>3. CASE PutRename(b) \/ PutCopy(b) \/ PutCopied(b) \/ Seal(b) \/ Sync(b)
  BY <1>3 DEF PutRename, PutCopy, PutCopied, Seal, Sync
<1>4. CASE WriteMeta(b) \/ Stat(b) \/ CheckInstall(b) \/ ClearPart(b)
  BY <1>4 DEF WriteMeta, Stat, CheckInstall, ClearPart
<1>5. CASE LinkPart(b) \/ CopiedPart(b) \/ Publish(b) \/ Tidy(b)
  BY <1>5 DEF LinkPart, CopiedPart, Publish, Tidy
<1>. QED BY <1>1, <1>2, <1>3, <1>4, <1>5 DEF Acts, BuilderStep

\* Where an install is found done or is done.
LEMMA FromInstall ==
  ASSUME TypeOK, NEW b \in Builders, Acts(b), pc[b] \in {"check", "publish"},
         pc'[b] # "err"
  PROVE  \/ pc[b] = "check" /\ CheckInstall(b)
         \/ pc[b] = "publish" /\ Publish(b)
<1> USE JobFacts DEF Goto, Try
<1>1. ~ (Solve(b) \/ Lock(b) \/ Unlock(b) \/ Abort(b))
  BY DEF Solve, Lock, Unlock, Abort
<1>2. ~ (Get(b) \/ ReadEntry(b) \/ Touch(b) \/ Export(b) \/ Format(b))
  BY DEF Get, ReadEntry, Touch, Export, Format
<1>3. ~ (PutRename(b) \/ PutCopy(b) \/ PutCopied(b) \/ Seal(b) \/ Sync(b))
  BY DEF PutRename, PutCopy, PutCopied, Seal, Sync
<1>4. ~ (WriteMeta(b) \/ Stat(b) \/ ClearPart(b))
  BY DEF WriteMeta, Stat, ClearPart
<1>5. ~ (LinkPart(b) \/ CopiedPart(b) \/ Tidy(b))
  BY DEF LinkPart, CopiedPart, Tidy
<1>6. (CheckInstall(b) => pc[b] = "check") /\ (Publish(b) => pc[b] = "publish")
  BY DEF CheckInstall, Publish
<1>. QED BY <1>1, <1>2, <1>3, <1>4, <1>5, <1>6 DEF Acts, BuilderStep

\* Copiers and collectors move no builder, and the environment ends its work
\* or leaves it alone.
LEMMA BuilderRests ==
  ASSUME TypeOK, NEW b \in Builders,
         \/ \E m \in Copiers : Materialize(m) \/ CopierStep(m) \/ AbortCopy(m)
         \/ \E c \in Collectors : List(c) \/ CollectorStep(c)
         \/ Environment
         \/ UNCHANGED vars
  PROVE  \/ Rests(b)
         \/ pc'[b] = "idle" /\ dir' = dir
<1> USE DEF Rests, Goto, Try, jobVars, fileVars
<1>1. ASSUME NEW m \in Copiers, Materialize(m) \/ CopierStep(m) \/ AbortCopy(m)
      PROVE  Rests(b)
  <2>1. CASE Materialize(m) \/ MaterializeReturns(m) \/ ClearDisk(m)
    BY <2>1, LocalFacts DEF Materialize, StartJob, MaterializeReturns, EndJob, ClearDisk
  <2>2. CASE OpenClone(m) \/ OpenCopy(m)
    BY <2>2, LocalFacts DEF OpenClone, OpenCopy, OpenDisk, CreateNew
  <2>3. CASE Clone(m) \/ CloneDeclined(m) \/ CopiedDisk(m) \/ AbortCopy(m)
    BY <2>3, LocalFacts DEF Clone, CloneDeclined, CopiedDisk, AbortCopy, CloseWritten
  <2>. QED BY <1>1, <2>1, <2>2, <2>3 DEF CopierStep
<1>2. ASSUME NEW c \in Collectors, List(c) \/ CollectorStep(c) PROVE Rests(b)
  BY <1>2, LocalFacts DEF List, CollectorStep, Keep, Claim, EvictBlob, KeptBusy, Forget, Done
<1>3. ASSUME NEW p \in Procs, Crash(p)
      PROVE  Rests(b) \/ (pc'[b] = "idle" /\ dir' = dir)
  <2>1. CASE p = b
    BY <1>3, <2>1, LocalFacts DEF Crash
  <2>2. CASE p # b
    BY <1>3, <2>2, LocalFacts DEF Crash, EndJob
  <2>. QED BY <2>1, <2>2
<1>4. CASE PowerLoss
  BY <1>4 DEF PowerLoss
<1>5. CASE \/ \E d \in Disks : VmWrite(d) \/ Release(d)
           \/ \E d \in Dests : Withdraw(d)
  BY <1>5 DEF VmWrite, Release, Withdraw
<1>6. CASE UNCHANGED vars
  BY <1>6 DEF vars
<1>. QED BY <1>1, <1>2, <1>3, <1>4, <1>5, <1>6 DEF Environment

\* A builder acts, or stays, or its work is ended by force.
LEMMA BuilderMoves ==
  ASSUME TypeOK, [Next]_vars, NEW b \in Builders
  PROVE  \/ Acts(b)
         \/ Rests(b)
         \/ pc'[b] = "idle"
<1>1. ASSUME NEW c \in Builders, Acts(c) PROVE Acts(b) \/ Rests(b)
  BY <1>1, OthersRest
<1>. QED BY <1>1, BuilderRests DEF Next, Acts

-----------------------------------------------------------------------------
(* Whose staging name it is.                                               *)

\* A builder touches no .part but that of its own destination.
LEMMA BuilderPart ==
  ASSUME TypeOK, NEW b \in Builders, NEW d \in Dests, Acts(b),
         ~ (pc[b] \in InstallPc /\ Part(dest[b]) = Part(d))
  PROVE  dir'[Part(d)] = dir[Part(d)]
<1> USE JobFacts, NameFacts DEF Goto, Try, jobVars, fileVars
<1> DEFINE k == want[b]
           part == Part(dest[b])
<1>. dir \in [Names -> Inodes \cup {None}] /\ Part(d) \in Names
  BY DEF TypeOK, FilesOK
<1>1. /\ pc[b] # "idle" => k \in Keys
      /\ pc[b] \in InstallPc => dest[b] \in Dests
  BY DEF TypeOK, JobsOK
<1>2. ASSUME NEW n, n # Part(d), \E i : dir' = [dir EXCEPT ![n] = i]
      PROVE  dir'[Part(d)] = dir[Part(d)]
  BY <1>2
<1>3. CASE \/ Solve(b) \/ Lock(b) \/ Get(b) \/ ReadEntry(b) \/ Touch(b) \/ Unlock(b)
           \/ Seal(b) \/ Sync(b) \/ WriteMeta(b) \/ Stat(b) \/ CheckInstall(b)
  BY <1>3 DEF Solve, Lock, Get, ReadEntry, Touch, Unlock, Seal, Sync, WriteMeta,
              Stat, CheckInstall
<1>4. CASE Format(b) \/ CopiedPart(b) \/ Abort(b)
  BY <1>4 DEF Format, CopiedPart, Abort
<1>5. CASE Export(b) \/ PutCopied(b)
  <2>1. k \in Keys /\ \E i : dir' = [dir EXCEPT ![Tmp(k)] = i]
    BY <1>1, <1>5 DEF Export, PutCopied, Unlinked
  <2>. QED BY <1>2, <2>1
<1>6. CASE PutRename(b)
  <2>1. k \in Keys /\ (dir' = dir \/ dir' = Renamed(Tmp(k), Blob(k)))
    BY <1>1, <1>6 DEF PutRename
  <2>2. Tmp(k) # Part(d) /\ Blob(k) # Part(d)
    BY <2>1
  <2>. QED BY <2>1, <2>2 DEF Renamed
<1>7. CASE PutCopy(b)
  <2>1. k \in Keys /\ (dir' = dir \/ \E i : dir' = [dir EXCEPT ![Blob(k)] = i])
    BY <1>1, <1>7 DEF PutCopy, CreateNew
  <2>2. Blob(k) # Part(d)
    BY <2>1
  <2>. QED BY <1>2, <2>1, <2>2
<1>8. CASE ClearPart(b) \/ Tidy(b) \/ LinkPart(b)
  <2>1. part # Part(d)
    BY <1>8 DEF ClearPart, Tidy, LinkPart, InstallPc
  <2>2. dir' = dir \/ \E i : dir' = [dir EXCEPT ![part] = i]
    BY <1>8 DEF ClearPart, Tidy, LinkPart, RemoveFile, Unlinked, CreateNew
  <2>. QED BY <1>2, <2>1, <2>2
<1>9. CASE Publish(b)
  <2>1. part # Part(d) /\ Cat(dest[b]) # Part(d)
    BY <1>1, <1>9 DEF Publish, InstallPc
  <2>2. dir' = dir \/ dir' = Renamed(part, Cat(dest[b]))
    BY <1>9 DEF Publish
  <2>. QED BY <2>1, <2>2 DEF Renamed
<1>. QED
  BY <1>3, <1>4, <1>5, <1>6, <1>7, <1>8, <1>9 DEF Acts, BuilderStep

\* Nobody but a builder touches a .part.
LEMMA OtherPart ==
  ASSUME TypeOK, NEW d \in Dests,
         \/ \E m \in Copiers : Materialize(m) \/ CopierStep(m) \/ AbortCopy(m)
         \/ \E c \in Collectors : List(c) \/ CollectorStep(c)
         \/ Environment
         \/ UNCHANGED vars
  PROVE  dir'[Part(d)] = dir[Part(d)]
<1> USE JobFacts, NameFacts DEF Goto, Try, jobVars, fileVars
<1>. dir \in [Names -> Inodes \cup {None}] /\ Part(d) \in Names
  BY DEF TypeOK, FilesOK
<1>1. ASSUME NEW m \in Copiers, Materialize(m) \/ CopierStep(m) \/ AbortCopy(m)
      PROVE  dir'[Part(d)] = dir[Part(d)]
  <2>1. pc[m] # "idle" => dest[m] \in Disks
    BY DEF TypeOK, JobsOK
  <2>2. CASE ClearDisk(m) \/ CloneDeclined(m) \/ AbortCopy(m)
    BY <2>1, <2>2 DEF ClearDisk, CloneDeclined, AbortCopy, Unlinked, RemoveFile
  <2>3. CASE OpenClone(m) \/ OpenCopy(m)
    BY <2>1, <2>3 DEF OpenClone, OpenCopy, OpenDisk, CreateNew
  <2>4. CASE \/ Materialize(m) \/ Clone(m) \/ CopiedDisk(m)
             \/ MaterializeReturns(m)
    BY <2>4 DEF Materialize, Clone, CopiedDisk, MaterializeReturns
  <2>. QED BY <1>1, <2>2, <2>3, <2>4 DEF CopierStep
<1>2. ASSUME NEW c \in Collectors, List(c) \/ CollectorStep(c)
      PROVE  dir'[Part(d)] = dir[Part(d)]
  <2>1. CASE EvictBlob(c)
    <3>1. want[c] \in Keys
      BY <2>1 DEF EvictBlob, TypeOK, JobsOK
    <3>. QED BY <2>1, <3>1 DEF EvictBlob, RemoveFile, Unlinked
  <2>2. CASE List(c) \/ Keep(c) \/ Claim(c) \/ KeptBusy(c) \/ Forget(c)
    BY <2>2 DEF List, Keep, Claim, KeptBusy, Forget
  <2>. QED BY <1>2, <2>1, <2>2 DEF CollectorStep
<1>3. CASE Environment
  <2>1. ASSUME NEW v \in Disks, Release(v) PROVE dir'[Part(d)] = dir[Part(d)]
    BY <2>1 DEF Release, RemoveFile, Unlinked
  <2>2. ASSUME NEW e \in Dests, Withdraw(e) PROVE dir'[Part(d)] = dir[Part(d)]
    BY <2>2 DEF Withdraw, RemoveFile, Unlinked
  <2>3. CASE PowerLoss \/ (\E p \in Procs : Crash(p)) \/ \E v \in Disks : VmWrite(v)
    BY <2>3 DEF PowerLoss, Crash, VmWrite
  <2>. QED BY <1>3, <2>1, <2>2, <2>3 DEF Environment
<1>4. CASE UNCHANGED vars
  BY <1>4 DEF vars
<1>. QED BY <1>1, <1>2, <1>3, <1>4

\* The .part of a builder that is where it was is what it was.
LEMMA PartRests ==
  ASSUME InstallsApart, TypeOK, [Next]_vars,
         NEW b \in Builders, Rests(b), pc[b] \in InstallPc
  PROVE  dir'[Part(dest[b])] = dir[Part(dest[b])]
<1>1. dest[b] \in Dests
  BY DEF TypeOK, JobsOK
<1>2. ASSUME NEW c \in Builders, Acts(c)
      PROVE  dir'[Part(dest[b])] = dir[Part(dest[b])]
  <2>1. CASE ~ (pc[c] \in InstallPc /\ Part(dest[c]) = Part(dest[b]))
    BY <1>1, <1>2, <2>1, BuilderPart
  <2>2. CASE c = b
    BY <1>2, <2>2, ActsMove DEF Rests
  <2>. QED BY <2>1, <2>2 DEF InstallsApart
<1>. QED BY <1>1, <1>2, OtherPart DEF Next, Acts

-----------------------------------------------------------------------------
(* The invariant of the installs.                                          *)

\* How a builder comes to copy or rename its .part, and that it keeps its
\* request on the way.
LEMMA BuilderGoes ==
  ASSUME TypeOK, NEW b \in Builders, Acts(b)
  PROVE  /\ pc'[b] = "copy_out" => LinkPart(b)
         /\ pc'[b] = "publish" => LinkPart(b) \/ CopiedPart(b)
         /\ \/ Solve(b)
            \/ Unlock(b)
            \/ pc[b] # "idle" /\ UNCHANGED jobVars
<1> USE JobFacts DEF Goto, Try, jobVars, fileVars
<1>1. CASE Solve(b) \/ Lock(b) \/ Unlock(b) \/ Abort(b)
  BY <1>1 DEF Solve, Lock, Unlock, Abort, Fallible
<1>2. CASE Get(b) \/ ReadEntry(b) \/ Touch(b) \/ Export(b) \/ Format(b)
  BY <1>2 DEF Get, ReadEntry, Touch, Export, Format, AfterGet
<1>3. CASE PutRename(b) \/ PutCopy(b) \/ PutCopied(b) \/ Seal(b) \/ Sync(b)
  BY <1>3 DEF PutRename, PutCopy, PutCopied, Seal, Sync
<1>4. CASE WriteMeta(b) \/ Stat(b) \/ CheckInstall(b) \/ ClearPart(b)
  BY <1>4 DEF WriteMeta, Stat, CheckInstall, ClearPart
<1>5. CASE LinkPart(b) \/ CopiedPart(b) \/ Publish(b) \/ Tidy(b)
  BY <1>5 DEF LinkPart, CopiedPart, Publish, Tidy
<1>. QED BY <1>1, <1>2, <1>3, <1>4, <1>5 DEF Acts, BuilderStep

\* The blob of a builder that holds it is an image anybody may be shown.
LEMMA BlobSettled ==
  ASSUME BlobInv, NEW k \in Keys, dir[Blob(k)] # None
  PROVE  Settled(dir[Blob(k)]) /\ Image(dir[Blob(k)], k)
BY DEF BlobInv, BlobWhole, BlobsDurable, BlobsClosed, Exists, Settled

LEMMA CopyingStep ==
  ASSUME InstallsApart, InstallInv, [Next]_vars
  PROVE  Copying'
<1>. /\ BlobInv /\ TypeOK /\ LockHeld /\ Alone /\ OneWriterPerFile
     /\ FilesOK /\ TypeOK'
  BY StepTypes DEF InstallInv, BlobInv, ExclusiveInv, TypeOK
<1> SUFFICES ASSUME NEW b \in Builders, pc'[b] = "copy_out"
             PROVE  /\ out'[b] = dir'[Part(dest'[b])]
                    /\ inode'[out'[b]].content = want'[b]
  BY DEF Copying
<1> DEFINE part == Part(dest[b])
           k == want[b]
<1>1. CASE LinkPart(b)
  <2>1. /\ pc[b] = "link" /\ UNCHANGED jobVars /\ dir[Blob(k)] # None
        /\ CreateNew(b, part, Copied(dir[Blob(k)]))
    BY <1>1, JobFacts DEF LinkPart, Try, Goto
  <2>2. dest[b] \in Dests /\ part \in Names /\ k \in Keys
    BY <2>1, NameFacts, JobFacts DEF TypeOK, JobsOK, InstallPc
  <2>3. Copied(dir[Blob(k)]) = k
    BY <2>1, <2>2, BlobSettled DEF Image, Copied
  <2>4. NewInode(part) \in Inodes
    BY <2>1, <2>2, NewInodeFacts DEF CreateNew
  <2>5. /\ out'[b] = NewInode(part) /\ dir'[part] = NewInode(part)
        /\ inode'[NewInode(part)].content = k
    BY <2>1, <2>2, <2>3, <2>4, LocalFacts DEF CreateNew, FilesOK, Opened
  <2>. QED BY <2>1, <2>5 DEF jobVars
<1>2. CASE Rests(b)
  <2>1. /\ pc[b] = "copy_out" /\ out'[b] = out[b] /\ want'[b] = k /\ dest'[b] = dest[b]
        /\ out[b] = dir[part] /\ inode[out[b]].content = k /\ out[b] # None
    BY <1>2, JobFacts DEF Rests, InstallInv, Copying, Writing
  <2>2. dest[b] \in Dests /\ part \in Names
    BY <2>1, NameFacts DEF TypeOK, JobsOK, InstallPc
  <2>3. dir'[part] = dir[part]
    BY <1>2, <2>1, PartRests DEF InstallPc
  <2>4. Undisturbed(part)
    <3>1. \A p \in Procs : out'[p] # out[p] => out[p] # dir[part]
      BY <2>1 DEF OneWriterPerFile
    <3>2. ~ \E c \in Builders : Export(c) /\ part = Tmp(want[c])
      BY <2>2, JobFacts, NameFacts DEF Export, Goto
    <3>3. part \in Names \ {Disk(d) : d \in Disks}
      BY <2>2, NameFacts
    <3>4. dir[part] \in Live(dir', out')
      BY <2>2, <2>3, LiveFacts
    <3>. QED BY <2>1, <3>1, <3>2, <3>3, <3>4 DEF Undisturbed
  <2>. QED BY <2>1, <2>3, <2>4, StepIntact DEF Intact
<1>. QED BY <1>1, <1>2, BuilderMoves, BuilderGoes

\* What is shown under a name stays, with all that was written to it.
LEMMA ShownStays ==
  ASSUME TypeOK, Alone, [Next]_vars, NEW m \in Sources, NEW n \in Names,
         dir'[n] = dir[m], Settled(dir[m])
  PROVE  /\ Settled(dir[n])'
         /\ \A k \in Keys : Image(dir[m], k) => Image(dir[n], k)'
BY SettledStep DEF Settled, Image, Durable

LEMMA ReadyStep ==
  ASSUME InstallsApart, InstallInv, [Next]_vars
  PROVE  Ready'
<1>. /\ BlobInv /\ TypeOK /\ LockHeld /\ Alone /\ OneWriterPerFile
     /\ FilesOK /\ JobsOK
  BY DEF InstallInv, BlobInv, ExclusiveInv, TypeOK
<1> SUFFICES ASSUME NEW b \in Builders, pc'[b] = "publish"
             PROVE  Image(dir[Part(dest[b])], want[b])' /\ Settled(dir[Part(dest[b])])'
  BY DEF Ready
<1> DEFINE part == Part(dest[b])
           k == want[b]
<1>1. ASSUME pc[b] \in InstallPc
      PROVE  dest[b] \in Dests /\ part \in Names /\ part \in Sources /\ k \in Keys
  BY <1>1, NameFacts, SourceFacts, JobFacts DEF TypeOK, JobsOK, InstallPc
<1>2. CASE LinkPart(b)
  <2>1. /\ pc[b] = "link" /\ UNCHANGED jobVars
        /\ dir[Blob(k)] # None /\ dir' = [dir EXCEPT ![part] = dir[Blob(k)]]
    BY <1>2, JobFacts DEF LinkPart, Try, Goto
  <2>2. dest[b] \in Dests /\ part \in Names /\ k \in Keys /\ Blob(k) \in Sources
    BY <1>1, <2>1, SourceFacts DEF InstallPc
  <2>3. dir'[part] = dir[Blob(k)]
    BY <2>1, <2>2 DEF FilesOK
  <2>. QED BY <2>1, <2>2, <2>3, BlobSettled, ShownStays DEF jobVars
<1>3. CASE CopiedPart(b)
  <2> DEFINE i == out[b]
  <2>1. /\ pc[b] = "copy_out" /\ UNCHANGED jobVars /\ dir' = dir
        /\ CloseWritten(b, TRUE)
        /\ i = dir[part] /\ inode[i].content = k /\ i # None
    BY <1>3, JobFacts DEF CopiedPart, Goto, InstallInv, Copying, Writing
  <2>2. dest[b] \in Dests /\ part \in Names /\ k \in Keys /\ i \in Inodes
    BY <1>1, <2>1, JobFacts DEF InstallPc
  <2>3. i \in Live(dir', out')
    BY <2>1, <2>2, LiveFacts
  <2>4. /\ inode'[i].content = k /\ inode'[i].whole = TRUE /\ inode'[i].synced
        /\ out' = [out EXCEPT ![b] = None]
    BY <2>1, <2>2, <2>3, CloseWrittenFacts
  <2>5. \A p \in Procs : out'[p] # i
    BY <2>1, <2>4, JobFacts DEF OneWriterPerFile
  <2>. QED BY <2>1, <2>2, <2>4, <2>5 DEF jobVars, Image, Settled, Durable
<1>4. CASE Rests(b)
  <2>1. /\ pc[b] = "publish" /\ want'[b] = k /\ dest'[b] = dest[b]
        /\ Image(dir[part], k) /\ Settled(dir[part])
    BY <1>4 DEF Rests, InstallInv, Ready
  <2>2. dir'[part] = dir[part]
    BY <1>4, <2>1, PartRests DEF InstallPc
  <2>. QED BY <1>1, <2>1, <2>2, ShownStays DEF InstallPc
<1>. QED BY <1>2, <1>3, <1>4, BuilderMoves, BuilderGoes

\* Who binds the name d of the catalog anew.
LEMMA CatChanges ==
  ASSUME TypeOK, [Next]_vars, NEW d \in Dests
  PROVE  \/ dir'[Cat(d)] \in {dir[Cat(d)], None}
         \/ \E b \in Builders : dest[b] = d /\ Publish(b) /\ pc'[b] = "tidy"
<1>1. CatKept(d)
  BY BuilderCat, OtherCat DEF Next
<1>2. ASSUME NEW b \in Builders, pc[b] = "publish", pc'[b] = "tidy"
      PROVE  Publish(b)
  <2>1. Acts(b)
    BY <1>2, BuilderMoves DEF Rests
  <2>. QED BY <1>2, <2>1, FromInstall
<1>. QED BY <1>1, <1>2 DEF CatKept

\* What Publish does to the catalog.
LEMMA PublishBinds ==
  ASSUME TypeOK, NEW b \in Builders, Publish(b), pc'[b] = "tidy"
  PROVE  /\ pc[b] = "publish" /\ dest[b] \in Dests /\ dir[Part(dest[b])] # None
         /\ dir'[Cat(dest[b])] = dir[Part(dest[b])]
<1>1. pc[b] = "publish" /\ dest[b] \in Dests /\ dir[Part(dest[b])] # None
  BY JobFacts DEF Publish, Try, Goto, Exists, TypeOK, JobsOK, InstallPc
<1>2. /\ dir' = Renamed(Part(dest[b]), Cat(dest[b]))
      /\ Cat(dest[b]) \in Names /\ Part(dest[b]) \in Names
      /\ Cat(dest[b]) # Part(dest[b])
  BY <1>1, NameFacts DEF Publish, Exists
<1>. QED BY <1>1, <1>2 DEF Renamed, TypeOK, FilesOK

LEMMA NamesSettledStep ==
  ASSUME InstallInv, [Next]_vars
  PROVE  NamesSettled'
<1>. TypeOK /\ Alone
  BY DEF InstallInv, BlobInv, ExclusiveInv
<1> SUFFICES ASSUME NEW d \in Dests, dir'[Cat(d)] # None
             PROVE  Settled(dir[Cat(d)])'
  BY DEF NamesSettled, Exists
<1>. Cat(d) \in Sources /\ Part(d) \in Sources /\ Cat(d) \in Names
  BY SourceFacts, NameFacts
<1>1. CASE dir'[Cat(d)] = dir[Cat(d)]
  <2>1. Settled(dir[Cat(d)])
    BY <1>1 DEF InstallInv, NamesSettled, Exists
  <2>. QED BY <1>1, <2>1, ShownStays
<1>2. ASSUME NEW b \in Builders, dest[b] = d, Publish(b), pc'[b] = "tidy"
      PROVE  Settled(dir[Cat(d)])'
  <2>1. pc[b] = "publish" /\ dir'[Cat(d)] = dir[Part(d)]
    BY <1>2, PublishBinds
  <2>2. Settled(dir[Part(d)])
    BY <1>2, <2>1 DEF InstallInv, Ready
  <2>. QED BY <2>1, <2>2, ShownStays
<1>. QED BY <1>1, <1>2, CatChanges

LEMMA InstallInvStep ==
  ASSUME Careful, InstallsApart, InstallInv, [Next]_vars
  PROVE  InstallInv'
<1>1. BlobInv'
  BY BlobInvStep DEF InstallInv
<1>. QED BY <1>1, CopyingStep, ReadyStep, NamesSettledStep DEF InstallInv

\* It holds when the store is opened.
LEMMA InstallInvInit == Init => InstallInv
<1> SUFFICES ASSUME Init PROVE InstallInv
  OBVIOUS
<1>1. \A d \in Dests : dir[Cat(d)] = None
  BY NameFacts DEF Init
<1>2. \A b \in Builders : pc[b] = "idle"
  BY DEF Init
<1>. QED
  BY <1>1, <1>2, BlobInvInit DEF InstallInv, Copying, Ready, NamesSettled, Exists

\* With a staging name of its own for every key, a catalog name always shows a
\* complete image wherever the image had to be copied (store.rs 348-350).
THEOREM StoreCopiesWhole ==
  ASSUME Careful
  PROVE  Spec /\ []InstallsApart => []CatalogWhole
<1>1. Init => InstallInv
  BY InstallInvInit
<1>2. InstallInv /\ InstallsApart /\ [Next]_vars => InstallInv'
  BY InstallInvStep
<1>3. InstallInv => CatalogWhole
  BY DEF InstallInv, NamesSettled, Settled, CatalogWhole
<1>. QED BY <1>1, <1>2, <1>3, PTL DEF Spec

\* The image under a name that is not bound anew stays the image it was.
LEMMA CatStays ==
  ASSUME InstallInv, [Next]_vars, NEW d \in Dests,
         dir[Cat(d)] # None, dir'[Cat(d)] = dir[Cat(d)]
  PROVE  /\ Settled(dir[Cat(d)]) /\ Settled(dir[Cat(d)])'
         /\ \A k \in Keys : Image(dir[Cat(d)], k) => Image(dir[Cat(d)], k)'
<1>1. Cat(d) \in Sources /\ Cat(d) \in Names
  BY SourceFacts, NameFacts
<1>2. Settled(dir[Cat(d)])
  BY DEF InstallInv, NamesSettled, Exists
<1>. QED BY <1>1, <1>2, ShownStays DEF InstallInv, BlobInv, ExclusiveInv

\* What a catalog name shows changes only by an install under it or by its
\* user, where images are copied too.
THEOREM StoreCopiesStable ==
  ASSUME Careful
  PROVE  Spec /\ []InstallsApart => CatalogStable
<1>1. Init => InstallInv
  BY InstallInvInit
<1>2. InstallInv /\ InstallsApart /\ [Next]_vars => InstallInv'
  BY InstallInvStep
<1> DEFINE Change ==
      \A d \in Dests, k \in Keys : Image(dir[Cat(d)], k) =>
        \/ dir'[Cat(d)] = None
        \/ Image(dir[Cat(d)], k)'
        \/ \E b \in Builders :
             dest[b] = d /\ pc[b] = "publish" /\ pc'[b] = "tidy"
<1>3. InstallInv /\ [Next]_vars => [Change]_vars
  <2> SUFFICES ASSUME InstallInv, [Next]_vars, NEW d \in Dests, NEW k \in Keys,
                      Image(dir[Cat(d)], k),
                      dir'[Cat(d)] = dir[Cat(d)]
               PROVE  Image(dir[Cat(d)], k)'
    <3>1. ASSUME InstallInv, [Next]_vars, NEW d \in Dests PROVE CatKept(d)
      BY <3>1, BuilderCat, OtherCat DEF InstallInv, BlobInv, ExclusiveInv, Next
    <3>. QED BY <3>1 DEF CatKept
  <2>. QED BY CatStays DEF Image
<1>. QED BY <1>1, <1>2, <1>3, PTL DEF Spec, CatalogStable

\* When an install has found or made its destination, it holds the image that
\* was asked for.
LEMMA InstallShows ==
  ASSUME InstallInv, [Next]_vars, NEW b \in Builders,
         pc[b] \in {"check", "publish"}, pc'[b] \in {"ok", "tidy"}
  PROVE  /\ Image(dir[Cat(dest[b])], want[b])'
         /\ UNCHANGED jobVars /\ dest[b] \in Dests /\ want[b] \in Keys
         /\ \/ CheckInstall(b) /\ Image(dir[Cat(dest[b])], want[b])
            \/ Publish(b) /\ pc'[b] = "tidy"
<1> DEFINE cat == Cat(dest[b])
           part == Part(dest[b])
           k == want[b]
<1>. /\ BlobInv /\ TypeOK /\ Alone
     /\ dest[b] \in Dests /\ cat \in Names /\ part \in Sources /\ k \in Keys
  <2>1. BlobInv /\ TypeOK /\ Alone
    BY DEF InstallInv, BlobInv, ExclusiveInv
  <2>2. dest[b] \in Dests /\ k \in Keys
    BY <2>1, JobFacts DEF TypeOK, JobsOK, InstallPc
  <2>. QED BY <2>1, <2>2, NameFacts, SourceFacts
<1>1. Acts(b)
  <2>1. ~ Rests(b)
    BY DEF Rests
  <2>. QED BY <2>1, BuilderMoves
<1>2. CASE CheckInstall(b)
  <2>1. /\ dir[Blob(k)] # None /\ dir[cat] = dir[Blob(k)] /\ dir' = dir
        /\ UNCHANGED jobVars
    BY <1>2, JobFacts DEF CheckInstall, Try, Goto, fileVars
  <2>2. Image(dir[cat], k)
    BY <2>1, BlobSettled
  <2>3. Image(dir[Cat(dest[b])], k)'
    BY <2>1, <2>2, CatStays DEF jobVars
  <2>. QED BY <1>2, <2>1, <2>2, <2>3 DEF jobVars
<1>3. CASE Publish(b)
  <2>1. /\ pc'[b] = "tidy" /\ UNCHANGED jobVars
        /\ pc[b] = "publish" /\ dir'[cat] = dir[part]
    BY <1>3, JobFacts, PublishBinds DEF Publish, Try, Goto
  <2>2. Image(dir[part], k) /\ Settled(dir[part])
    BY <2>1 DEF InstallInv, Ready
  <2>3. Image(dir[Cat(dest[b])], k)'
    BY <2>1, <2>2, ShownStays DEF jobVars
  <2>. QED BY <1>3, <2>1, <2>3 DEF jobVars
<1>. QED BY <1>1, <1>2, <1>3, FromInstall

\* An install that reports success has done what it was asked, whatever other
\* builders, collectors and faults do meanwhile.
THEOREM StoreInstallsAsRequested ==
  ASSUME Careful
  PROVE  Spec /\ []InstallsApart => InstallsAsRequested
<1>1. Init => InstallInv
  BY InstallInvInit
<1>2. InstallInv /\ InstallsApart /\ [Next]_vars => InstallInv'
  BY InstallInvStep
<1> DEFINE Installs ==
      \A b \in Builders :
        pc[b] \in {"check", "publish"} /\ pc'[b] \in {"ok", "tidy"}
          => Image(dir[Cat(dest[b])], want[b])'
<1>3. InstallInv /\ [Next]_vars => [Installs]_vars
  BY InstallShows
<1>. QED BY <1>1, <1>2, <1>3, PTL DEF Spec, InstallsAsRequested

-----------------------------------------------------------------------------
(* The store implements the cache.                                         *)

\* rename(2) changes its two names only.
LEMMA RenamedElsewhere ==
  ASSUME TypeOK, NEW m, NEW n, NEW x \in Names, x # m, x # n
  PROVE  Renamed(m, n)[x] = dir[x]
BY DEF Renamed, TypeOK, FilesOK

\* The names a builder may bind anew or unbind.
LEMMA BuilderTouches ==
  ASSUME TypeOK, Renames, NEW b \in Builders, Acts(b)
  PROVE  /\ \A k \in Keys : dir'[Blob(k)] = dir[Blob(k)] \/ (PutRename(b) /\ want[b] = k)
         /\ \A d \in Dests : dir'[Cat(d)] = dir[Cat(d)] \/ (Publish(b) /\ dest[b] = d)
<1> USE DEF Goto, Try, jobVars, fileVars
<1> DEFINE k == want[b]
           part == Part(dest[b])
           Blobs == \A l \in Keys : dir'[Blob(l)] = dir[Blob(l)]
           Cats == \A d \in Dests : dir'[Cat(d)] = dir[Cat(d)]
<1>. dir \in [Names -> Inodes \cup {None}]
  BY DEF TypeOK, FilesOK
<1>1. /\ pc[b] # "idle" => k \in Keys
      /\ pc[b] \in InstallPc => dest[b] \in Dests
  BY JobFacts DEF TypeOK, JobsOK
<1>2. CASE \/ Solve(b) \/ Lock(b) \/ Get(b) \/ ReadEntry(b) \/ Touch(b) \/ Unlock(b)
           \/ Seal(b) \/ Sync(b) \/ WriteMeta(b) \/ Stat(b) \/ CheckInstall(b)
  BY <1>2 DEF Solve, Lock, Get, ReadEntry, Touch, Unlock, Seal, Sync, WriteMeta,
              Stat, CheckInstall
<1>3. CASE Format(b) \/ CopiedPart(b) \/ Abort(b)
  <2>1. dir' = dir
    BY <1>3 DEF Format, CopiedPart, Abort
  <2>. QED BY <2>1
<1>4. CASE Export(b) \/ PutCopied(b)
  <2>1. k \in Keys /\ \E i : dir' = [dir EXCEPT ![Tmp(k)] = i]
    BY <1>1, <1>4, JobFacts DEF Export, PutCopied, Unlinked
  <2>2. Blobs
    BY <2>1, NameFacts
  <2>3. Cats
    BY <2>1, NameFacts
  <2>. QED BY <2>2, <2>3
<1>5. CASE PutRename(b)
  <2>1. k \in Keys /\ (dir' = dir \/ dir' = Renamed(Tmp(k), Blob(k)))
    BY <1>1, <1>5, JobFacts DEF PutRename
  <2>2. ASSUME NEW l \in Keys, l # k PROVE dir'[Blob(l)] = dir[Blob(l)]
    <3>1. Blob(l) \notin {Tmp(k), Blob(k)} /\ Blob(l) \in Names
      BY <2>1, <2>2, NameFacts
    <3>. QED BY <2>1, <3>1, RenamedElsewhere
  <2>3. ASSUME NEW d \in Dests PROVE dir'[Cat(d)] = dir[Cat(d)]
    <3>1. Cat(d) \notin {Tmp(k), Blob(k)} /\ Cat(d) \in Names
      BY <2>1, NameFacts
    <3>. QED BY <2>1, <3>1, RenamedElsewhere
  <2>. QED BY <1>5, <2>2, <2>3
<1>6. CASE PutCopy(b)
  BY <1>6 DEF PutCopy
<1>7. CASE ClearPart(b) \/ Tidy(b) \/ LinkPart(b)
  <2>1. dest[b] \in Dests
    BY <1>1, <1>7 DEF ClearPart, Tidy, LinkPart, InstallPc
  <2>2. dir' = dir \/ \E i : dir' = [dir EXCEPT ![part] = i]
    BY <1>7 DEF ClearPart, Tidy, LinkPart, RemoveFile, Unlinked, CreateNew
  <2>3. Blobs
    BY <2>1, <2>2, NameFacts
  <2>4. Cats
    BY <2>1, <2>2, NameFacts
  <2>. QED BY <2>3, <2>4
<1>8. CASE Publish(b)
  <2>1. dest[b] \in Dests
    BY <1>1, <1>8 DEF Publish, InstallPc
  <2>2. dir' = dir \/ dir' = Renamed(part, Cat(dest[b]))
    BY <1>8 DEF Publish
  <2>3. ASSUME NEW l \in Keys PROVE dir'[Blob(l)] = dir[Blob(l)]
    <3>1. Blob(l) \notin {part, Cat(dest[b])} /\ Blob(l) \in Names
      BY <2>1, NameFacts
    <3>. QED BY <2>2, <3>1, RenamedElsewhere
  <2>4. ASSUME NEW d \in Dests, d # dest[b] PROVE dir'[Cat(d)] = dir[Cat(d)]
    <3>1. Cat(d) # Cat(dest[b])
      BY <2>4 DEF Cat
    <3>2. Cat(d) # part /\ Cat(d) \in Names
      BY <2>1, NameFacts
    <3>. QED BY <2>2, <3>1, <3>2, RenamedElsewhere
  <2>. QED BY <1>8, <2>3, <2>4
<1>. QED
  BY <1>2, <1>3, <1>4, <1>5, <1>6, <1>7, <1>8 DEF Acts, BuilderStep

\* Nobody else binds a blob or a catalog name anew; a collector removes blobs,
\* the user of a catalog withdraws names.
LEMMA OthersTouch ==
  ASSUME TypeOK,
         \/ \E m \in Copiers : Materialize(m) \/ CopierStep(m) \/ AbortCopy(m)
         \/ \E c \in Collectors : List(c) \/ CollectorStep(c)
         \/ Environment
         \/ UNCHANGED vars
  PROVE  /\ \/ \A k \in Keys : dir'[Blob(k)] = dir[Blob(k)]
            \/ \E l \in Keys : /\ dir'[Blob(l)] = None
                               /\ \A k \in Keys \ {l} : dir'[Blob(k)] = dir[Blob(k)]
                               /\ \A d \in Dests : dir'[Cat(d)] = dir[Cat(d)]
         /\ \/ \A d \in Dests : dir'[Cat(d)] = dir[Cat(d)]
            \/ \E e \in Dests : /\ dir'[Cat(e)] = None
                                /\ \A d \in Dests \ {e} : dir'[Cat(d)] = dir[Cat(d)]
                                /\ \A k \in Keys : dir'[Blob(k)] = dir[Blob(k)]
<1> USE JobFacts, NameFacts DEF Goto, Try, jobVars, fileVars
<1> DEFINE Same == /\ \A k \in Keys : dir'[Blob(k)] = dir[Blob(k)]
                   /\ \A d \in Dests : dir'[Cat(d)] = dir[Cat(d)]
<1>. dir \in [Names -> Inodes \cup {None}]
  BY DEF TypeOK, FilesOK
<1>1. ASSUME NEW v \in Disks, dir' = dir \/ \E i : dir' = [dir EXCEPT ![Disk(v)] = i]
      PROVE  Same
  BY <1>1
<1>2. ASSUME NEW m \in Copiers, Materialize(m) \/ CopierStep(m) \/ AbortCopy(m)
      PROVE  Same
  <2>1. pc[m] # "idle" => dest[m] \in Disks
    BY DEF TypeOK, JobsOK
  <2>2. CASE ClearDisk(m) \/ CloneDeclined(m) \/ AbortCopy(m)
    BY <1>1, <2>1, <2>2 DEF ClearDisk, CloneDeclined, AbortCopy, Unlinked, RemoveFile
  <2>3. CASE OpenClone(m) \/ OpenCopy(m)
    BY <1>1, <2>1, <2>3 DEF OpenClone, OpenCopy, OpenDisk, CreateNew
  <2>4. CASE \/ Materialize(m) \/ Clone(m) \/ CopiedDisk(m)
             \/ MaterializeReturns(m)
    BY <2>4 DEF Materialize, Clone, CopiedDisk, MaterializeReturns
  <2>. QED BY <1>2, <2>2, <2>3, <2>4 DEF CopierStep
<1>3. ASSUME NEW c \in Collectors, List(c) \/ CollectorStep(c)
      PROVE  Same \/ \E l \in Keys : dir' = Unlinked(Blob(l))
  <2>1. CASE EvictBlob(c)
    <3>1. want[c] \in Keys
      BY <2>1 DEF EvictBlob, TypeOK, JobsOK
    <3>. QED BY <2>1, <3>1 DEF EvictBlob, RemoveFile
  <2>2. CASE List(c) \/ Keep(c) \/ Claim(c) \/ KeptBusy(c) \/ Forget(c)
    BY <2>2 DEF List, Keep, Claim, KeptBusy, Forget
  <2>. QED BY <1>3, <2>1, <2>2 DEF CollectorStep
<1>4. ASSUME Environment
      PROVE  Same \/ \E e \in Dests : dir' = Unlinked(Cat(e))
  <2>1. ASSUME NEW v \in Disks, Release(v) PROVE Same
    BY <1>1, <2>1 DEF Release, RemoveFile, Unlinked
  <2>2. ASSUME NEW e \in Dests, Withdraw(e) PROVE dir' = Unlinked(Cat(e))
    BY <2>2 DEF Withdraw, RemoveFile
  <2>3. CASE PowerLoss \/ (\E p \in Procs : Crash(p)) \/ \E v \in Disks : VmWrite(v)
    BY <2>3 DEF PowerLoss, Crash, VmWrite
  <2>. QED BY <1>4, <2>1, <2>2, <2>3 DEF Environment
<1>5. ASSUME NEW l \in Keys, dir' = Unlinked(Blob(l))
      PROVE  /\ dir'[Blob(l)] = None
             /\ \A k \in Keys \ {l} : dir'[Blob(k)] = dir[Blob(k)]
             /\ \A d \in Dests : dir'[Cat(d)] = dir[Cat(d)]
  BY <1>5 DEF Unlinked
<1>6. ASSUME NEW e \in Dests, dir' = Unlinked(Cat(e))
      PROVE  /\ dir'[Cat(e)] = None
             /\ \A d \in Dests \ {e} : dir'[Cat(d)] = dir[Cat(d)]
             /\ \A k \in Keys : dir'[Blob(k)] = dir[Blob(k)]
  <2>1. \A d \in Dests \ {e} : Cat(d) # Cat(e)
    BY DEF Cat
  <2>. QED BY <1>6, <2>1 DEF Unlinked
<1>7. CASE UNCHANGED vars
  BY <1>7 DEF vars
<1>. QED BY <1>2, <1>3, <1>4, <1>5, <1>6, <1>7

\* How far the build of b is, where b is.
StageTable(b) ==
  /\ pc[b] \in {"idle", "err"} => StageOf(b) = "idle"
  /\ pc[b] \in {"lock", "get", "export", "format", "put"} => StageOf(b) = "asked"
  /\ pc[b] \in {"entry", "touch"} =>
       StageOf(b) = IF refresh[b] THEN "asked" ELSE "supplied"
  /\ pc[b] \in {"copy_in", "seal", "sync", "record", "stat",
                "check", "clear", "link", "copy_out", "publish"} =>
       StageOf(b) = "supplied"
  /\ pc[b] \in {"tidy", "ok"} =>
       StageOf(b) = IF dest[b] # None THEN "installed" ELSE "supplied"

LEMMA StageFacts ==
  ASSUME NEW b \in Builders
  PROVE  StageTable(b) /\ StageTable(b)'
<1>1. StageTable(b)
  BY DEF StageTable, StageOf
<1>2. StageTable(b)'
  BY DEF StageTable, StageOf
<1>. QED BY <1>1, <1>2

\* A build that rests is where it was for its caller as well.
LEMMA RestingStage ==
  ASSUME NEW b \in Builders, Rests(b)
  PROVE  StageOf(b)' = StageOf(b) /\ AskOf(b)' = AskOf(b)
BY DEF Rests, StageOf, AskOf

\* When b acts, the caller of no other build sees anything.
LEMMA ActingStages ==
  ASSUME TypeOK, NEW b \in Builders, Acts(b)
  PROVE  /\ Stages' = [Stages EXCEPT ![b] = StageOf(b)']
         /\ Asks' = [Asks EXCEPT ![b] = AskOf(b)']
<1>1. ASSUME NEW c \in Builders, c # b
      PROVE  StageOf(c)' = StageOf(c) /\ AskOf(c)' = AskOf(c)
  BY <1>1, OthersRest, RestingStage
<1>2. /\ Stages' = [c \in Builders |-> StageOf(c)']
      /\ Asks' = [c \in Builders |-> AskOf(c)']
  BY DEF Stages, Asks
<1>3. /\ [Stages EXCEPT ![b] = StageOf(b)'] =
           [c \in Builders |-> IF c = b THEN StageOf(b)' ELSE StageOf(c)]
      /\ [Asks EXCEPT ![b] = AskOf(b)'] =
           [c \in Builders |-> IF c = b THEN AskOf(b)' ELSE AskOf(c)]
  BY DEF Stages, Asks
<1>. QED BY <1>1, <1>2, <1>3

\* A blob is an image as soon as it is there.
LEMMA StoredIs ==
  ASSUME BlobInv, BlobInv'
  PROVE  /\ Stored = {k \in Keys : dir[Blob(k)] # None}
         /\ Stored' = {k \in Keys : dir'[Blob(k)] # None}
<1>1. \A k \in Keys : Image(dir[Blob(k)], k) <=> dir[Blob(k)] # None
  BY DEF BlobInv, BlobWhole, Exists, Image
<1>2. \A k \in Keys : Image(dir[Blob(k)], k)' <=> dir'[Blob(k)] # None
  BY DEF BlobInv, BlobWhole, Exists, Image
<1>. QED BY <1>1, <1>2 DEF Stored

\* What a catalog name shows.
LEMMA ShownIs ==
  ASSUME InstallInv, [Next]_vars, NEW d \in Dests
  PROVE  /\ dir'[Cat(d)] = dir[Cat(d)] => Shown(dir[Cat(d)])' = Shown(dir[Cat(d)])
         /\ dir'[Cat(d)] = None => Shown(dir[Cat(d)])' = None
         /\ \A k \in Keys : /\ Image(dir[Cat(d)], k) => Shown(dir[Cat(d)]) = k
                            /\ Image(dir[Cat(d)], k)' => Shown(dir[Cat(d)])' = k
<1>1. \A k \in Keys : /\ Image(dir[Cat(d)], k) => Shown(dir[Cat(d)]) = k
                      /\ Image(dir[Cat(d)], k)' => Shown(dir[Cat(d)])' = k
  BY DEF Shown, Image
<1>2. dir'[Cat(d)] = None => Shown(dir[Cat(d)])' = None
  BY DEF Shown
<1>3. dir[Cat(d)] = None => Shown(dir[Cat(d)]) = None
  BY DEF Shown
<1>4. ASSUME dir[Cat(d)] # None, dir'[Cat(d)] = dir[Cat(d)]
      PROVE  Shown(dir[Cat(d)])' = Shown(dir[Cat(d)])
  <2>1. PICK k \in Keys : Image(dir[Cat(d)], k)
    BY <1>4, CatStays DEF Settled
  <2>2. Image(dir[Cat(d)], k)'
    BY <1>4, <2>1, CatStays
  <2>. QED BY <1>1, <2>1, <2>2
<1>. QED BY <1>1, <1>2, <1>3, <1>4

\* Names that stay show what they showed.
LEMMA SameFiles ==
  ASSUME InstallInv, InstallInv', [Next]_vars
  PROVE  /\ (\A k \in Keys : dir'[Blob(k)] = dir[Blob(k)]) => Stored' = Stored
         /\ (\A d \in Dests : dir'[Cat(d)] = dir[Cat(d)]) => Shows' = Shows
<1>1. (\A k \in Keys : dir'[Blob(k)] = dir[Blob(k)]) => Stored' = Stored
  BY StoredIs DEF InstallInv
<1>2. ASSUME \A d \in Dests : dir'[Cat(d)] = dir[Cat(d)] PROVE Shows' = Shows
  <2>1. \A d \in Dests : Shown(dir[Cat(d)])' = Shown(dir[Cat(d)])
    BY <1>2, ShownIs
  <2>2. Shows' = [d \in Dests |-> Shown(dir[Cat(d)])']
    BY DEF Shows
  <2>. QED BY <2>1, <2>2 DEF Shows
<1>. QED BY <1>1, <1>2

\* put() supplies the image.
LEMMA PutSupplies ==
  ASSUME InstallInv, InstallInv', [Next]_vars, NEW b \in Builders, PutRename(b),
         pc'[b] = "seal"
  PROVE  Stored' = Stored \cup {want[b]} /\ Shows' = Shows
<1> DEFINE k == want[b]
<1>. TypeOK
  BY DEF InstallInv, BlobInv, ExclusiveInv
<1>1. /\ k \in Keys /\ dir[Tmp(k)] # None
      /\ dir' = Renamed(Tmp(k), Blob(k))
  BY JobFacts DEF PutRename, Try, Goto, Exists
<1>2. dir'[Blob(k)] # None
  <2>1. Tmp(k) \in Names /\ Blob(k) \in Names /\ Blob(k) # Tmp(k)
    BY <1>1, NameFacts
  <2>. QED BY <1>1, <2>1 DEF Renamed, TypeOK, FilesOK
<1>3. ASSUME NEW l \in Keys, l # k PROVE dir'[Blob(l)] = dir[Blob(l)]
  <2>1. Blob(l) \notin {Tmp(k), Blob(k)} /\ Blob(l) \in Names
    BY <1>1, <1>3, NameFacts
  <2>. QED BY <1>1, <2>1, RenamedElsewhere
<1>4. ASSUME NEW d \in Dests PROVE dir'[Cat(d)] = dir[Cat(d)]
  <2>1. Cat(d) \notin {Tmp(k), Blob(k)} /\ Cat(d) \in Names
    BY <1>1, NameFacts
  <2>. QED BY <1>1, <2>1, RenamedElsewhere
<1>. QED BY <1>1, <1>2, <1>3, <1>4, StoredIs, SameFiles DEF InstallInv

\* An install shows the image under its name and changes nothing else.
LEMMA InstallChanges ==
  ASSUME Careful, InstallInv, InstallInv', [Next]_vars, NEW b \in Builders, Acts(b),
         pc[b] \in {"check", "publish"}, pc'[b] \in {"ok", "tidy"}
  PROVE  Stored' = Stored /\ Shows' = [Shows EXCEPT ![dest[b]] = want[b]]
<1>. TypeOK /\ Renames
  BY DEF InstallInv, BlobInv, ExclusiveInv, Careful
<1>1. /\ Image(dir[Cat(dest[b])], want[b])'
      /\ want'[b] = want[b] /\ dest'[b] = dest[b]
      /\ dest[b] \in Dests /\ want[b] \in Keys
  BY InstallShows DEF jobVars
<1>2. ~ PutRename(b)
  BY DEF PutRename, Try, Goto
<1>3. \A k \in Keys : dir'[Blob(k)] = dir[Blob(k)]
  BY <1>2, BuilderTouches
<1>4. \A d \in Dests : dest[b] = d => Shown(dir[Cat(d)])' = want[b]
  BY <1>1 DEF Shown, Image
<1>5. ASSUME NEW d \in Dests, d # dest[b]
      PROVE  Shown(dir[Cat(d)])' = Shown(dir[Cat(d)])
  BY <1>5, BuilderTouches, ShownIs
<1>6. Shows' = [d \in Dests |-> Shown(dir[Cat(d)])']
  BY DEF Shows
<1>7. Shows' = [Shows EXCEPT ![dest[b]] = want[b]]
  BY <1>1, <1>4, <1>5, <1>6 DEF Shows
<1>. QED BY <1>3, <1>7, SameFiles

\* What the cache does, or nothing it shows.
CacheStep == Cache!Next \/ UNCHANGED Cache!vars

\* The steps of a build, as its caller sees them.
LEMMA BuilderStages ==
  ASSUME TypeOK, Renames, NEW b \in Builders, Acts(b)
  PROVE  \/ /\ StageOf(b)' = StageOf(b) /\ AskOf(b)' = AskOf(b)
            /\ ~ PutRename(b) /\ ~ Publish(b)
         \/ StageOf(b)' = "idle" /\ dir' = dir
         \/ Solve(b)
         \/ Get(b) /\ pc'[b] = "entry" /\ ~ refresh[b]
         \/ PutRename(b) /\ pc'[b] = "seal"
         \/ pc[b] \in {"check", "publish"} /\ pc'[b] \in {"ok", "tidy"}
<1> USE DEF Goto, Try, jobVars, fileVars
<1>1. /\ PutRename(b) => pc[b] = "put"
      /\ Publish(b) => pc[b] = "publish"
  BY DEF PutRename, Publish
<1>2. ASSUME UNCHANGED jobVars, StageOf(b)' = StageOf(b), pc[b] \notin {"put", "publish"}
      PROVE  /\ StageOf(b)' = StageOf(b) /\ AskOf(b)' = AskOf(b)
             /\ ~ PutRename(b) /\ ~ Publish(b)
  BY <1>1, <1>2 DEF AskOf
<1>3. CASE \/ Lock(b) \/ Format(b)
  <2>1. /\ UNCHANGED jobVars /\ pc[b] \in {"lock", "format"} /\ pc'[b] \in {"get", "put"}
    BY <1>3, JobFacts DEF Lock, Format
  <2>. QED BY <1>2, <2>1, StageFacts DEF StageTable
<1>4. CASE Get(b) \/ ReadEntry(b) \/ Touch(b)
  <2>1. /\ UNCHANGED jobVars
        /\ \/ pc[b] = "get" /\ pc'[b] \in {"entry", "export"} /\ Get(b)
           \/ pc[b] = "entry" /\ (pc'[b] = "touch" \/ pc'[b] = AfterGet(b))
           \/ pc[b] = "touch" /\ pc'[b] = AfterGet(b)
    BY <1>4, JobFacts DEF Get, ReadEntry, Touch
  <2>2. CASE Get(b) /\ pc'[b] = "entry" /\ ~ refresh[b]
    BY <2>2
  <2>3. CASE ~ (Get(b) /\ pc'[b] = "entry" /\ ~ refresh[b])
    <3>1. StageOf(b)' = StageOf(b) /\ pc[b] \notin {"put", "publish"}
      BY <2>1, <2>3, StageFacts DEF StageTable, AfterGet
    <3>. QED BY <1>2, <2>1, <3>1
  <2>. QED BY <2>2, <2>3
<1>5. CASE Export(b) \/ WriteMeta(b) \/ ClearPart(b) \/ CopiedPart(b) \/ PutCopied(b)
  <2>1. /\ UNCHANGED jobVars
        /\ \/ pc[b] = "export" /\ pc'[b] = "format"
           \/ pc[b] = "record" /\ pc'[b] = "stat"
           \/ pc[b] = "clear" /\ pc'[b] = "link"
           \/ pc[b] = "copy_out" /\ pc'[b] = "publish"
           \/ pc[b] = "copy_in" /\ pc'[b] = "seal"
    BY <1>5, JobFacts DEF Export, WriteMeta, ClearPart, CopiedPart, PutCopied
  <2>2. StageOf(b)' = StageOf(b) /\ pc[b] \notin {"put", "publish"}
    BY <2>1, StageFacts DEF StageTable
  <2>. QED BY <1>2, <2>1, <2>2
<1>6. CASE Seal(b) \/ Sync(b) \/ Stat(b)
  <2>1. /\ UNCHANGED jobVars /\ dir' = dir
        /\ \/ pc'[b] = "err"
           \/ pc[b] = "seal" /\ pc'[b] = "sync"
           \/ pc[b] = "sync" /\ pc'[b] = "record"
           \/ pc[b] = "stat" /\ pc'[b] = "check"
           \/ pc[b] = "stat" /\ pc'[b] = "ok" /\ dest[b] = None
    BY <1>6, JobFacts DEF Seal, Sync, Stat
  <2>2. CASE pc'[b] = "err"
    BY <2>1, <2>2, StageFacts DEF StageTable
  <2>3. CASE pc'[b] # "err"
    <3>1. StageOf(b)' = StageOf(b) /\ pc[b] \notin {"put", "publish"}
      BY <2>1, <2>3, StageFacts DEF StageTable
    <3>. QED BY <1>2, <2>1, <3>1
  <2>. QED BY <2>2, <2>3
<1>7. CASE PutRename(b)
  <2>1. pc'[b] = "seal" \/ (pc'[b] = "err" /\ dir' = dir)
    BY <1>7, JobFacts DEF PutRename
  <2>. QED BY <1>7, <2>1, StageFacts DEF StageTable
<1>8. CASE PutCopy(b)
  BY <1>8 DEF PutCopy
<1>9. CASE CheckInstall(b)
  <2>1. /\ UNCHANGED jobVars /\ dir' = dir /\ pc[b] = "check"
        /\ pc'[b] \in {"err", "ok", "clear"}
    BY <1>9, JobFacts DEF CheckInstall
  <2>2. CASE pc'[b] = "clear"
    <3>1. StageOf(b)' = StageOf(b)
      BY <2>1, <2>2, StageFacts DEF StageTable
    <3>. QED BY <1>2, <2>1, <3>1
  <2>. QED BY <2>1, <2>2, StageFacts DEF StageTable
<1>10. CASE LinkPart(b)
  <2>1. /\ UNCHANGED jobVars /\ pc[b] = "link"
        /\ pc'[b] \in {"publish", "copy_out"} \/ (pc'[b] = "err" /\ dir' = dir)
    BY <1>10, JobFacts DEF LinkPart
  <2>2. CASE pc'[b] \in {"publish", "copy_out"}
    <3>1. StageOf(b)' = StageOf(b)
      BY <2>1, <2>2, StageFacts DEF StageTable
    <3>. QED BY <1>2, <2>1, <3>1
  <2>. QED BY <2>1, <2>2, StageFacts DEF StageTable
<1>11. CASE Publish(b)
  <2>1. /\ pc[b] = "publish"
        /\ pc'[b] = "tidy" \/ (pc'[b] = "err" /\ dir' = dir)
    BY <1>11, JobFacts DEF Publish
  <2>. QED BY <2>1, StageFacts DEF StageTable
<1>12. CASE Tidy(b)
  <2>1. UNCHANGED jobVars /\ pc[b] = "tidy" /\ pc'[b] = "ok"
    BY <1>12, JobFacts DEF Tidy
  <2>2. StageOf(b)' = StageOf(b)
    BY <2>1, StageFacts DEF StageTable
  <2>. QED BY <1>2, <2>1, <2>2
<1>13. CASE Unlock(b) \/ Abort(b)
  <2>1. dir' = dir /\ pc'[b] \in {"idle", "err"}
    BY <1>13, JobFacts DEF Unlock, Abort
  <2>. QED BY <2>1, StageFacts DEF StageTable
<1>. QED
  BY <1>3, <1>4, <1>5, <1>6, <1>7, <1>8, <1>9, <1>10, <1>11, <1>12, <1>13
     DEF Acts, BuilderStep

LEMMA BuilderImplements ==
  ASSUME Careful, InstallInv, InstallInv', [Next]_vars, NEW b \in Builders, Acts(b)
  PROVE  CacheStep
<1> USE DEF CacheStep, Cache!Next, Cache!vars
<1>. TypeOK /\ Renames
  BY DEF InstallInv, BlobInv, ExclusiveInv, Careful
<1>1. /\ Stages' = [Stages EXCEPT ![b] = StageOf(b)']
      /\ Asks' = [Asks EXCEPT ![b] = AskOf(b)']
      /\ Stages[b] = StageOf(b) /\ Asks[b] = AskOf(b)
      /\ Stages = [c \in Builders |-> Stages[c]] /\ Asks = [c \in Builders |-> Asks[c]]
  BY ActingStages DEF Stages, Asks
<1>2. CASE /\ StageOf(b)' = StageOf(b) /\ AskOf(b)' = AskOf(b)
           /\ ~ PutRename(b) /\ ~ Publish(b)
  <2>1. Stored' = Stored /\ Shows' = Shows
    BY <1>2, BuilderTouches, SameFiles
  <2>2. Stages' = Stages /\ Asks' = Asks
    BY <1>1, <1>2
  <2>. QED BY <2>1, <2>2
<1>3. CASE StageOf(b)' = "idle" /\ dir' = dir
  <2>1. Stored' = Stored /\ Shows' = Shows
    BY <1>3, SameFiles
  <2>2. AskOf(b)' = <<None, None>>
    BY <1>3 DEF AskOf
  <2>3. Cache!End({b})
    BY <1>1, <1>3, <2>1, <2>2 DEF Cache!End, Cache!NoRequest
  <2>. QED BY <2>3 DEF Cache!Fail
<1>4. CASE Solve(b)
  <2>1. /\ pc[b] = "idle" /\ pc'[b] = "lock" /\ dir' = dir
        /\ want'[b] \in Keys /\ dest'[b] \in Dests \cup {None}
    <3>1. PICK q \in Requests[b] : StartJob(b, q)
      BY <1>4 DEF Solve
    <3>2. q.key \in Keys /\ q.dest \in Dests \cup {None}
      OBVIOUS
    <3>3. want'[b] = q.key /\ dest'[b] = q.dest
      BY <3>1, LocalFacts DEF StartJob
    <3>. QED BY <1>4, <3>2, <3>3, JobFacts DEF Solve, Goto, fileVars
  <2>2. /\ StageOf(b) = "idle" /\ StageOf(b)' = "asked"
        /\ AskOf(b)' = <<want'[b], dest'[b]>>
    BY <2>1, StageFacts DEF StageTable, AskOf
  <2>3. Stored' = Stored /\ Shows' = Shows
    BY <2>1, SameFiles
  <2>4. Cache!Ask(b)
    BY <1>1, <2>1, <2>2, <2>3 DEF Cache!Ask, Cache!Requested
  <2>. QED BY <2>4
<1>5. CASE Get(b) /\ pc'[b] = "entry" /\ ~ refresh[b]
  <2>1. /\ pc[b] = "get" /\ dir' = dir /\ UNCHANGED jobVars
        /\ want[b] \in Keys /\ dir[Blob(want[b])] # None
    BY <1>5, JobFacts DEF Get, Goto, fileVars, Exists
  <2>2. /\ StageOf(b) = "asked" /\ StageOf(b)' = "supplied"
        /\ AskOf(b) = <<want[b], dest[b]>> /\ AskOf(b)' = AskOf(b)
    BY <1>5, <2>1, StageFacts DEF StageTable, AskOf, jobVars
  <2>3. Stored' = Stored \cup {want[b]} /\ Shows' = Shows
    BY <2>1, SameFiles, StoredIs DEF InstallInv
  <2>4. Cache!Supply(b)
    BY <1>1, <2>2, <2>3 DEF Cache!Supply
  <2>. QED BY <2>4
<1>6. CASE PutRename(b) /\ pc'[b] = "seal"
  <2>1. pc[b] = "put" /\ UNCHANGED jobVars
    BY <1>6 DEF PutRename, Try, Goto
  <2>2. /\ StageOf(b) = "asked" /\ StageOf(b)' = "supplied"
        /\ AskOf(b) = <<want[b], dest[b]>> /\ AskOf(b)' = AskOf(b)
    BY <1>6, <2>1, StageFacts DEF StageTable, AskOf, jobVars
  <2>3. Cache!Supply(b)
    BY <1>1, <1>6, <2>2, PutSupplies DEF Cache!Supply
  <2>. QED BY <2>3
<1>7. CASE pc[b] \in {"check", "publish"} /\ pc'[b] \in {"ok", "tidy"}
  <2>1. UNCHANGED jobVars /\ dest[b] \in Dests
    BY <1>7, InstallShows
  <2>2. /\ StageOf(b) = "supplied" /\ StageOf(b)' = "installed"
        /\ AskOf(b) = <<want[b], dest[b]>> /\ AskOf(b)' = AskOf(b)
    BY <1>7, <2>1, StageFacts DEF StageTable, AskOf, jobVars
  <2>3. Cache!Install(b)
    BY <1>1, <1>7, <2>1, <2>2, InstallChanges DEF Cache!Install
  <2>. QED BY <2>3
<1>. QED BY <1>2, <1>3, <1>4, <1>5, <1>6, <1>7, BuilderStages

\* Everybody else can only evict, withdraw, or end builds.
LEMMA OthersImplement ==
  ASSUME Careful, InstallInv, InstallInv', [Next]_vars,
         \/ \E m \in Copiers : Materialize(m) \/ CopierStep(m) \/ AbortCopy(m)
         \/ \E c \in Collectors : List(c) \/ CollectorStep(c)
         \/ Environment
         \/ UNCHANGED vars
  PROVE  CacheStep
<1> USE DEF CacheStep, Cache!Next, Cache!vars
<1>. TypeOK
  BY DEF InstallInv, BlobInv, ExclusiveInv
<1>1. /\ Stages' = [b \in Builders |-> StageOf(b)'] /\ Asks' = [b \in Builders |-> AskOf(b)']
      /\ Stages = [b \in Builders |-> StageOf(b)] /\ Asks = [b \in Builders |-> AskOf(b)]
  BY DEF Stages, Asks
<1>2. CASE \A b \in Builders : Rests(b)
  <2>1. Stages' = Stages /\ Asks' = Asks
    BY <1>1, <1>2, RestingStage
  <2>2. CASE /\ \A k \in Keys : dir'[Blob(k)] = dir[Blob(k)]
             /\ \A d \in Dests : dir'[Cat(d)] = dir[Cat(d)]
    BY <2>1, <2>2, SameFiles
  <2>3. ASSUME NEW l \in Keys, dir'[Blob(l)] = None,
               \A k \in Keys \ {l} : dir'[Blob(k)] = dir[Blob(k)],
               \A d \in Dests : dir'[Cat(d)] = dir[Cat(d)]
        PROVE  Cache!Evict(l)
    <3>1. Shows' = Shows
      BY <2>3, SameFiles
    <3>2. Stored' = Stored \ {l}
      BY <2>3, StoredIs DEF InstallInv
    <3>. QED BY <2>1, <3>1, <3>2 DEF Cache!Evict
  <2>4. ASSUME NEW e \in Dests, dir'[Cat(e)] = None,
               \A d \in Dests \ {e} : dir'[Cat(d)] = dir[Cat(d)],
               \A k \in Keys : dir'[Blob(k)] = dir[Blob(k)]
        PROVE  Cache!Withdraw(e)
    <3>1. Stored' = Stored
      BY <2>4, SameFiles
    <3>2. Shown(dir[Cat(e)])' = None
      BY <2>4, ShownIs
    <3>3. \A d \in Dests \ {e} : Shown(dir[Cat(d)])' = Shown(dir[Cat(d)])
      BY <2>4, ShownIs
    <3>4. Shows' = [d \in Dests |-> Shown(dir[Cat(d)])']
      BY DEF Shows
    <3>5. Shows' = [Shows EXCEPT ![e] = None]
      BY <3>2, <3>3, <3>4 DEF Shows
    <3>. QED BY <2>1, <3>1, <3>5 DEF Cache!Withdraw
  <2>. QED BY <2>2, <2>3, <2>4, OthersTouch
<1>3. CASE dir' = dir
  <2>1. Stored' = Stored /\ Shows' = Shows
    BY <1>3, SameFiles
  <2> DEFINE B == {b \in Builders : ~ Rests(b)}
  <2>2. ASSUME NEW b \in B PROVE StageOf(b)' = "idle" /\ AskOf(b)' = <<None, None>>
    <3>1. pc'[b] = "idle"
      BY BuilderRests
    <3>2. StageOf(b)' = "idle"
      BY <3>1, StageFacts DEF StageTable
    <3>. QED BY <3>2 DEF AskOf
  <2>3. ASSUME NEW b \in Builders \ B
        PROVE  StageOf(b)' = StageOf(b) /\ AskOf(b)' = AskOf(b)
    BY RestingStage
  <2>4. B \in SUBSET Builders
    OBVIOUS
  <2> HIDE DEF B
  <2>5. Cache!End(B)
    BY <1>1, <2>1, <2>2, <2>3, <2>4 DEF Cache!End, Cache!NoRequest
  <2>. QED BY <2>4, <2>5 DEF Cache!Fail
<1>4. (\A b \in Builders : Rests(b)) \/ dir' = dir
  BY BuilderRests
<1>. QED BY <1>2, <1>3, <1>4

LEMMA InitImplements == Init => Cache!Init
<1> SUFFICES ASSUME Init PROVE Cache!Init
  OBVIOUS
<1>1. Stored = {} /\ Shows = [d \in Dests |-> None]
  <2>1. \A k \in Keys : ~ Image(dir[Blob(k)], k)
    BY NameFacts DEF Init, Image
  <2>2. \A d \in Dests : Shown(dir[Cat(d)]) = None
    BY NameFacts DEF Init, Shown
  <2>. QED BY <2>1, <2>2 DEF Stored, Shows
<1>2. \A b \in Builders : StageOf(b) = "idle" /\ AskOf(b) = <<None, None>>
  BY StageFacts DEF Init, StageTable, AskOf
<1>3. /\ Stages = [b \in Builders |-> "idle"]
      /\ Asks = [b \in Builders |-> <<None, None>>]
  BY <1>2 DEF Stages, Asks
<1>. QED BY <1>1, <1>3 DEF Cache!Init, Cache!NoRequest

\* The store implements the cache: whatever its steps, kills, failures,
\* evictions and losses of power, its callers see images supplied as a whole
\* and names that change at once to the image asked for.
THEOREM StoreImplementsItsCache ==
  ASSUME Careful
  PROVE  Spec /\ []InstallsApart => ImplementsCache
<1>1. Init => InstallInv /\ Cache!Init
  BY InstallInvInit, InitImplements
<1>2. InstallInv /\ InstallsApart /\ [Next]_vars => InstallInv'
  BY InstallInvStep
<1>3. InstallInv /\ InstallInv' /\ [Next]_vars => [Cache!Next]_(Cache!vars)
  <2> SUFFICES ASSUME InstallInv, InstallInv', [Next]_vars
               PROVE  CacheStep
    BY DEF CacheStep
  <2>. QED BY BuilderImplements, OthersImplement DEF Next, Acts
<1>. QED BY <1>1, <1>2, <1>3, PTL DEF Spec, ImplementsCache, Cache!Spec

-----------------------------------------------------------------------------
(* When installs do not meet.                                              *)

LEMMA AskedStep ==
  ASSUME TypeOK, Asked, [Next]_vars
  PROVE  Asked'
<1> SUFFICES ASSUME NEW b \in Builders, pc'[b] # "idle"
             PROVE  \E q \in Requests[b] : q.key = want'[b] /\ q.dest = dest'[b]
  BY DEF Asked
<1>1. CASE Rests(b)
  BY <1>1 DEF Rests, Asked
<1>2. CASE Solve(b)
  <2>1. PICK q \in Requests[b] : StartJob(b, q)
    BY <1>2 DEF Solve
  <2>2. want'[b] = q.key /\ dest'[b] = q.dest
    BY <2>1, LocalFacts DEF StartJob
  <2>. QED BY <2>2
<1>3. CASE Unlock(b)
  BY <1>3, JobFacts DEF Unlock
<1>4. CASE pc[b] # "idle" /\ UNCHANGED jobVars
  BY <1>4 DEF Asked, jobVars
<1>. QED BY <1>1, <1>2, <1>3, <1>4, BuilderMoves, BuilderGoes

\* Two builders that install under one staging name are one: they would install
\* one key, and its lock has one holder.
LEMMA OneInstaller ==
  ASSUME OwnStaging, TypeOK, LockHeld, Asked,
         NEW b \in Builders, NEW c \in Builders,
         pc[b] \in InstallPc, pc[c] \in InstallPc, Part(dest[b]) = Part(dest[c])
  PROVE  b = c
<1>1. /\ dest[b] # None /\ dest[c] # None /\ Stem[dest[b]] = Stem[dest[c]]
      /\ {pc[b], pc[c]} \cap {"idle", "lock"} = {}
  BY DEF TypeOK, JobsOK, InstallPc, Part
<1>2. PICK q \in Requests[b] : q.key = want[b] /\ q.dest = dest[b]
  BY <1>1 DEF Asked
<1>3. PICK r \in Requests[c] : r.key = want[c] /\ r.dest = dest[c]
  BY <1>1 DEF Asked
<1>4. b # c => want[b] = want[c]
  BY <1>1, <1>2, <1>3 DEF OwnStaging
<1>. QED BY <1>1, <1>4 DEF LockHeld

\* As long as no two processes are asked to install different keys under one
\* staging name, installs through one staging name exclude one another, whatever
\* the filesystems and the faults: the lock of the key is enough.
THEOREM StoreInstallsApart ==
  ASSUME OwnStaging
  PROVE  Spec => []InstallsApart
<1>1. Init => ExclusiveInv /\ Asked
  BY ExclusiveInit DEF Init, Asked
<1>2. ExclusiveInv /\ Asked /\ [Next]_vars => (ExclusiveInv /\ Asked)'
  BY ExclusiveStep, AskedStep DEF ExclusiveInv
<1>3. ExclusiveInv /\ Asked => InstallsApart
  BY OneInstaller DEF ExclusiveInv, InstallsApart
<1>. QED BY <1>1, <1>2, <1>3, PTL DEF Spec

\* Such a store implements the cache for every number of keys, names,
\* processes and files.
THEOREM StoreWithOwnStaging ==
  ASSUME Careful, OwnStaging
  PROVE  /\ Spec => ImplementsCache
         /\ Spec => []CatalogWhole
         /\ Spec => CatalogStable
         /\ Spec => InstallsAsRequested
BY StoreInstallsApart, StoreImplementsItsCache, StoreCopiesWhole, StoreCopiesStable,
   StoreInstallsAsRequested, PTL

-----------------------------------------------------------------------------
(* What the users of the store can rely on: builds that hit a blob, copies *)
(* for VMs, and gc in a quiet store.  The invariants are those of the last *)
(* part of module StoreInvariant.                                          *)

-----------------------------------------------------------------------------
(* Where the steps of a process start and end.                             *)

\* A builder that acts takes the step its place asks for.
LEMMA ActsWhere ==
  ASSUME TypeOK, NEW b \in Builders, Acts(b)
  PROVE  /\ pc[b] = "idle" => Solve(b)
         /\ pc[b] = "lock" => Lock(b)
         /\ pc[b] = "get" => Get(b)
         /\ pc[b] = "entry" => ReadEntry(b)
         /\ pc[b] = "touch" => Touch(b)
         /\ pc[b] = "export" => Export(b) \/ Abort(b)
         /\ pc[b] = "format" => Format(b) \/ Abort(b)
         /\ pc[b] = "put" => PutRename(b) \/ PutCopy(b) \/ Abort(b)
         /\ pc[b] = "copy_in" => PutCopied(b) \/ Abort(b)
         /\ pc[b] = "seal" => Seal(b) \/ Abort(b)
         /\ pc[b] = "sync" => Sync(b) \/ Abort(b)
         /\ pc[b] = "record" => WriteMeta(b) \/ Abort(b)
         /\ pc[b] = "stat" => Stat(b) \/ Abort(b)
         /\ pc[b] = "check" => CheckInstall(b) \/ Abort(b)
         /\ pc[b] = "clear" => ClearPart(b)
         /\ pc[b] = "link" => LinkPart(b) \/ Abort(b)
         /\ pc[b] = "copy_out" => CopiedPart(b) \/ Abort(b)
         /\ pc[b] = "publish" => Publish(b) \/ Abort(b)
         /\ pc[b] = "tidy" => Tidy(b)
         /\ pc[b] \in {"ok", "err"} => Unlock(b)
         /\ pc[b] \in BuilderPc
<1> USE DEF Goto, Try
<1>1. /\ Solve(b) => pc[b] = "idle"
      /\ Lock(b) => pc[b] = "lock"
      /\ Get(b) => pc[b] = "get"
      /\ ReadEntry(b) => pc[b] = "entry"
      /\ Touch(b) => pc[b] = "touch"
  BY DEF Solve, Lock, Get, ReadEntry, Touch
<1>2. /\ Export(b) => pc[b] = "export"
      /\ Format(b) => pc[b] = "format"
      /\ PutRename(b) => pc[b] = "put"
      /\ PutCopy(b) => pc[b] = "put"
      /\ PutCopied(b) => pc[b] = "copy_in"
  BY DEF Export, Format, PutRename, PutCopy, PutCopied
<1>3. /\ Seal(b) => pc[b] = "seal"
      /\ Sync(b) => pc[b] = "sync"
      /\ WriteMeta(b) => pc[b] = "record"
      /\ Stat(b) => pc[b] = "stat"
      /\ CheckInstall(b) => pc[b] = "check"
  BY DEF Seal, Sync, WriteMeta, Stat, CheckInstall
<1>4. /\ ClearPart(b) => pc[b] = "clear"
      /\ LinkPart(b) => pc[b] = "link"
      /\ CopiedPart(b) => pc[b] = "copy_out"
      /\ Publish(b) => pc[b] = "publish"
      /\ Tidy(b) => pc[b] = "tidy"
  BY DEF ClearPart, LinkPart, CopiedPart, Publish, Tidy
<1>5. /\ Unlock(b) => pc[b] \in {"ok", "err"}
      /\ Abort(b) => pc[b] \in Fallible
  BY DEF Unlock, Abort
<1>6. pc[b] \in BuilderPc
  BY DEF TypeOK, JobsOK, PcOf
<1>. QED
  BY <1>1, <1>2, <1>3, <1>4, <1>5, <1>6 DEF Acts, BuilderStep, Fallible

-----------------------------------------------------------------------------
(* Builds that hit a blob.                                                 *)

\* A blob is opened by the builder that creates it, and by nobody else.
LEMMA BlobWriterStep ==
  ASSUME HitInv, [Next]_vars
  PROVE  BlobWriter'
<1>. /\ TypeOK /\ LockHeld /\ Alone /\ StagingWriter /\ BlobWriter
     /\ dir \in [Names -> Inodes \cup {None}]
     /\ out \in [Procs -> Inodes \cup {None}]
     /\ pc \in [Procs -> BuilderPc \cup CopierPc \cup CollectorPc]
  BY JobFacts DEF HitInv, ExclusiveInv, TypeOK, FilesOK
<1> SUFFICES ASSUME NEW p \in Procs, NEW k \in Keys,
                    out'[p] # None, out'[p] = dir'[Blob(k)]
             PROVE  p \in Builders /\ pc'[p] = "copy_in" /\ want'[p] = k
  BY DEF BlobWriter
<1>0. Blob(k) \in Names /\ Tmp(k) \in Names
  BY NameFacts
<1>1. CASE dir'[Blob(k)] = dir[Blob(k)]
  <2>1. CASE Calm
    BY <1>1, <2>1 DEF Calm, BlobWriter
  <2>2. ASSUME NEW q \in Procs, Creates(q)
        PROVE  p \in Builders /\ pc'[p] = "copy_in" /\ want'[p] = k
    <3>1. PICK n, c : n \in Names /\ CreateNew(q, n, c)
      BY <2>2 DEF Creates
    <3>2. out' = [out EXCEPT ![q] = NewInode(n)] /\ NewInode(n) # dir[Blob(k)]
      BY <1>0, <3>1, NewInodeFacts DEF CreateNew
    <3>3. p # q /\ out'[p] = out[p] /\ pc'[p] = pc[p] /\ want'[p] = want[p]
      BY <1>1, <2>2, <3>2 DEF Creates
    <3>. QED BY <1>1, <3>3 DEF BlobWriter
  <2>3. ASSUME NEW b \in Builders, Export(b)
        PROVE  p \in Builders /\ pc'[p] = "copy_in" /\ want'[p] = k
    <3> DEFINE l == want[b]
               i == IF Exists(Tmp(l)) THEN dir[Tmp(l)] ELSE NewInode(Tmp(l))
    <3>1. /\ l \in Keys /\ Tmp(l) \in Names /\ Tmp(l) \in Private
          /\ Blob(k) # Tmp(l)
      BY <2>3, JobFacts, NameFacts, PrivateFacts DEF Export, Goto
    <3>2. out' = [out EXCEPT ![b] = i]
      BY <2>3 DEF Export
    <3>3. i # dir[Blob(k)]
      <4>1. CASE Exists(Tmp(l))
        BY <1>0, <3>1, <4>1 DEF Alone, Exists
      <4>2. CASE ~Exists(Tmp(l))
        BY <1>0, <2>3, <3>1, <4>2, NewInodeFacts DEF Export
      <4>. QED BY <4>1, <4>2
    <3> HIDE DEF i
    <3>4. p # b /\ out'[p] = out[p]
      BY <1>1, <3>2, <3>3
    <3>5. pc'[p] = pc[p] /\ want'[p] = want[p]
      BY <2>3, <3>4 DEF Export, Goto, jobVars
    <3>. QED BY <1>1, <3>4, <3>5 DEF BlobWriter
  <2>. QED BY <2>1, <2>2, <2>3, StepKinds DEF StepKind
<1>2. ASSUME NEW b \in Builders, want[b] = k, PutRename(b), dir'[Blob(k)] # dir[Blob(k)]
      PROVE  FALSE
  <2>1. /\ pc[b] = "put" /\ out' = out
        /\ dir' = Renamed(Tmp(k), Blob(k))
    BY <1>2 DEF PutRename, Try, Goto
  <2>2. dir'[Blob(k)] = dir[Tmp(k)]
    BY <1>0, <1>2, <2>1, NameFacts DEF Renamed
  <2>3. p \in Builders /\ pc[p] = "format" /\ want[p] = k
    BY <2>1, <2>2 DEF StagingWriter
  <2>4. lock[k] = p /\ lock[k] = b
    BY <1>2, <2>1, <2>3 DEF LockHeld
  <2>. QED BY <2>1, <2>3, <2>4
<1>3. ASSUME NEW b \in Builders, want[b] = k, PutCopy(b), dir'[Blob(k)] # dir[Blob(k)]
      PROVE  p \in Builders /\ pc'[p] = "copy_in" /\ want'[p] = k
  <2>1. /\ CreateNew(b, Blob(k), Copied(dir[Tmp(k)]))
        /\ pc' = [pc EXCEPT ![b] = "copy_in"] /\ want' = want
    BY <1>3 DEF PutCopy, Try, Goto, jobVars, fileVars
  <2>2. /\ dir'[Blob(k)] = NewInode(Blob(k))
        /\ out' = [out EXCEPT ![b] = NewInode(Blob(k))]
        /\ \A q \in Procs : out[q] # NewInode(Blob(k))
    BY <1>0, <2>1, NewInodeFacts DEF CreateNew
  <2>3. p = b
    BY <2>2
  <2>. QED BY <1>3, <2>1, <2>3
<1>4. dir'[Blob(k)] # None
  OBVIOUS
<1>. QED BY <1>1, <1>2, <1>3, <1>4, NamesKept DEF BlobKept

\* A build that hits a blob never meets one that is being copied, however put
\* works and whatever fails: only a builder of the same key would copy it, and
\* the lock keeps that one away.
THEOREM StoreHitsFinishedBlobs == Spec => HitsFinishedBlobs
<1>1. Init => HitInv
  <2> SUFFICES ASSUME Init PROVE HitInv
    OBVIOUS
  <2>. QED BY ExclusiveInit DEF Init, HitInv, BlobWriter
<1>2. HitInv /\ [Next]_vars => HitInv'
  BY ExclusiveStep, BlobWriterStep DEF HitInv
<1> DEFINE Hits == \A b \in Builders : pc[b] = "get" /\ pc'[b] = "entry" =>
                     \A p \in Procs : out[p] # dir[Blob(want[b])]
<1>3. HitInv /\ [Next]_vars => [Hits]_vars
  <2> SUFFICES ASSUME HitInv, [Next]_vars,
                      NEW b \in Builders, pc[b] = "get", pc'[b] = "entry",
                      NEW p \in Procs, out[p] = dir[Blob(want[b])]
               PROVE  FALSE
    OBVIOUS
  <2>. TypeOK /\ LockHeld /\ BlobWriter
    BY DEF HitInv, ExclusiveInv
  <2>1. Get(b)
    BY BuilderMoves, ActsWhere DEF Rests
  <2>2. want[b] \in Keys /\ dir[Blob(want[b])] # None
    BY <2>1, JobFacts DEF Get, Goto, Exists
  <2>3. p \in Builders /\ pc[p] = "copy_in" /\ want[p] = want[b]
    BY <2>2 DEF BlobWriter
  <2>4. lock[want[b]] = p /\ lock[want[b]] = b
    BY <2>3 DEF LockHeld
  <2>. QED BY <2>3, <2>4
<1>. QED BY <1>1, <1>2, <1>3, PTL DEF Spec, HitsFinishedBlobs

-----------------------------------------------------------------------------
(* What a step does to a file that stays.                                  *)

\* The file is what it was, as far as its image and its mode go.
Same(i) == inode'[i].content = inode[i].content /\ inode'[i].ro = inode[i].ro

\* Whatever else happens to file i: it is truncated, sealed or written by a VM.
Changed(i) ==
  \/ \E b \in Builders : Export(b) /\ i = dir[Tmp(want[b])]
  \/ \E k \in Keys : /\ i = dir[Blob(k)]
                     /\ inode'[i].content = inode[i].content
                     /\ inode[i].ro => inode'[i].ro
  \/ \E d \in Disks : /\ VmWrite(d) /\ i = dir[Disk(d)]
                      /\ inode'[i].ro = inode[i].ro

\* Reclaiming other files changes nothing in this one.
LEMMA ReclaimSame ==
  ASSUME TypeOK, NEW i \in Inodes, inode' = Reclaim(inode, dir', out'),
         i \in Live(dir', out')
  PROVE  Same(i)
BY ReclaimType DEF Same, TypeOK, FilesOK

\* Creating a file changes no file that has a name.
LEMMA CreateSame ==
  ASSUME TypeOK, NEW n \in Names, dir[n] # None, NEW p \in Procs, NEW m \in Names,
         NEW c, CreateNew(p, m, c)
  PROVE  Same(dir[n])
<1>1. NewInode(m) # dir[n] /\ inode' = [inode EXCEPT ![NewInode(m)] = Opened(c)]
  BY NewInodeFacts DEF CreateNew
<1>. QED BY <1>1 DEF Same, TypeOK, FilesOK

\* Closing a file keeps its image and its mode, and every other file.
LEMMA CloseSame ==
  ASSUME TypeOK, NEW i \in Inodes, i \in Live(dir', out'), NEW p \in Procs,
         NEW durable \in BOOLEAN, out[p] # None, CloseWritten(p, durable)
  PROVE  Same(i)
<1>1. FilesOK /\ JobsOK
  BY DEF TypeOK
<1> HIDE ConstantsAssumption DEF Procs
<1>. QED BY <1>1, CloseWrittenFacts DEF Same

\* What builders do to it.
LEMMA BuilderChanges ==
  ASSUME TypeOK, NEW n \in Names, dir[n] # None, dir[n] \in Live(dir', out'),
         NEW b \in Builders, Acts(b)
  PROVE  Same(dir[n]) \/ Changed(dir[n])
<1> USE JobFacts DEF Goto, Try, jobVars, fileVars
<1> DEFINE k == want[b]
           i == dir[n]
<1>1. i \in Inodes /\ i \in Live(dir', out') /\ inode[i] \in Files
  BY DEF TypeOK, FilesOK
<1>2. pc[b] # "idle" => k \in Keys
  OBVIOUS
<1>3. pc[b] \in InstallPc => dest[b] \in Dests
  BY DEF TypeOK, JobsOK
<1>4. CASE \/ Solve(b) \/ Lock(b) \/ Get(b) \/ ReadEntry(b) \/ Touch(b)
           \/ WriteMeta(b) \/ Stat(b) \/ CheckInstall(b) \/ Unlock(b)
  <2>1. inode' = inode
    BY <1>4 DEF Solve, Lock, Get, ReadEntry, Touch, WriteMeta, Stat, CheckInstall,
                Unlock
  <2>. QED BY <2>1 DEF Same
<1>5. CASE PutRename(b) \/ Publish(b) \/ ClearPart(b) \/ Tidy(b) \/ Abort(b)
  <2>1. inode' = Reclaim(inode, dir', out')
    BY <1>5 DEF PutRename, Publish, ClearPart, Tidy, RemoveFile, Abort
  <2>. QED BY <1>1, <2>1, ReclaimSame
<1>6. CASE Format(b) \/ PutCopied(b) \/ CopiedPart(b)
  <2>1. /\ CloseWritten(b, Journal) \/ CloseWritten(b, TRUE)
        /\ out[b] # None
    BY <1>6 DEF Format, PutCopied, CopiedPart, Writing
  <2>2. CASE CloseWritten(b, Journal)
    BY <1>1, <2>1, <2>2, CloseSame
  <2>3. CASE CloseWritten(b, TRUE)
    BY <1>1, <2>1, <2>3, CloseSame
  <2>. QED BY <2>1, <2>2, <2>3
<1>7. CASE Seal(b) \/ Sync(b)
  <2> DEFINE j == dir[Blob(k)]
  <2>0. k \in Keys
    BY <1>2, <1>7 DEF Seal, Sync
  <2>1. \/ inode' = inode
        \/ inode' = [inode EXCEPT ![j].ro = TRUE]
        \/ inode' = [inode EXCEPT ![j].synced = TRUE]
    BY <1>7 DEF Seal, Sync
  <2>2. inode \in [Inodes -> Files]
    BY DEF TypeOK, FilesOK
  <2>3. CASE i = j
    <3>1. /\ inode'[i].content = inode[i].content
          /\ inode[i].ro => inode'[i].ro
      BY <1>1, <2>1, <2>2, <2>3 DEF Files
    <3>. QED BY <2>0, <2>3, <3>1 DEF Changed
  <2>4. CASE i # j
    BY <1>1, <2>1, <2>2, <2>4 DEF Same
  <2>. QED BY <2>3, <2>4
<1>8. CASE PutCopy(b)
  <2>1. inode' = inode \/ CreateNew(b, Blob(k), Copied(dir[Tmp(k)]))
    BY <1>8 DEF PutCopy
  <2>2. Blob(k) \in Names
    BY <1>2, <1>8, NameFacts DEF PutCopy
  <2>3. CASE inode' = inode
    BY <2>3 DEF Same
  <2>. QED BY <2>1, <2>2, <2>3, CreateSame
<1>9. CASE LinkPart(b)
  <2>1. inode' = inode \/ CreateNew(b, Part(dest[b]), Copied(dir[Blob(k)]))
    BY <1>9 DEF LinkPart
  <2>2. Part(dest[b]) \in Names
    BY <1>3, <1>9, NameFacts DEF LinkPart, InstallPc
  <2>3. CASE inode' = inode
    BY <2>3 DEF Same
  <2>. QED BY <2>1, <2>2, <2>3, CreateSame
<1>10. CASE Export(b)
  <2> DEFINE j == IF Exists(Tmp(k)) THEN dir[Tmp(k)] ELSE NewInode(Tmp(k))
  <2>1. Tmp(k) \in Names
    BY <1>2, <1>10, NameFacts DEF Export
  <2>2. CASE Exists(Tmp(k)) /\ i = dir[Tmp(k)]
    BY <1>10, <2>2 DEF Changed
  <2>3. CASE ~ (Exists(Tmp(k)) /\ i = dir[Tmp(k)])
    <3>1. i # j
      BY <1>10, <2>1, <2>3, NewInodeFacts DEF Export
    <3>2. \E c : inode' = [inode EXCEPT ![j] = Opened(c)]
      BY <1>10 DEF Export
    <3> HIDE DEF j
    <3>3. inode'[i] = inode[i]
      BY <1>1, <3>1, <3>2 DEF TypeOK, FilesOK
    <3>. QED BY <3>3 DEF Same
  <2>. QED BY <2>2, <2>3
<1>. QED
  BY <1>4, <1>5, <1>6, <1>7, <1>8, <1>9, <1>10 DEF Acts, BuilderStep

\* What the others do to it.
LEMMA OtherChanges ==
  ASSUME TypeOK, NEW n \in Names, dir[n] # None, dir[n] \in Live(dir', out'),
         \/ \E m \in Copiers : Materialize(m) \/ CopierStep(m) \/ AbortCopy(m)
         \/ \E c \in Collectors : List(c) \/ CollectorStep(c)
         \/ Environment
         \/ UNCHANGED vars
  PROVE  Same(dir[n]) \/ Changed(dir[n])
<1> USE JobFacts DEF Goto, Try, jobVars, fileVars
<1> DEFINE i == dir[n]
<1>1. i \in Inodes /\ i \in Live(dir', out') /\ inode[i] \in Files
  BY DEF TypeOK, FilesOK
<1>2. ASSUME NEW m \in Copiers, Materialize(m) \/ CopierStep(m) \/ AbortCopy(m)
      PROVE  Same(i)
  <2>1. CASE Materialize(m) \/ MaterializeReturns(m)
    <3>1. inode' = inode
      BY <2>1 DEF Materialize, MaterializeReturns
    <3>. QED BY <3>1 DEF Same
  <2>2. CASE ClearDisk(m) \/ CloneDeclined(m) \/ AbortCopy(m)
    <3>1. inode' = Reclaim(inode, dir', out')
      BY <2>2 DEF ClearDisk, CloneDeclined, AbortCopy, RemoveFile
    <3>. QED BY <1>1, <3>1, ReclaimSame
  <2>3. CASE OpenClone(m) \/ OpenCopy(m)
    <3>1. /\ inode' = inode \/ CreateNew(m, Disk(dest[m]), Copied(dir[Blob(want[m])]))
          /\ pc[m] # "idle"
      BY <2>3 DEF OpenClone, OpenCopy, OpenDisk
    <3>2. Disk(dest[m]) \in Names
      BY <3>1, NameFacts DEF TypeOK, JobsOK
    <3>3. CASE inode' = inode
      BY <3>3 DEF Same
    <3>. QED BY <3>1, <3>2, <3>3, CreateSame
  <2>4. CASE Clone(m) \/ CopiedDisk(m)
    <3>1. /\ CloseWritten(m, FALSE) \/ CloseWritten(m, TRUE)
          /\ out[m] # None
      BY <2>4 DEF Clone, CopiedDisk, Writing
    <3>2. CASE CloseWritten(m, FALSE)
      BY <1>1, <3>1, <3>2, CloseSame
    <3>3. CASE CloseWritten(m, TRUE)
      BY <1>1, <3>1, <3>3, CloseSame
    <3>. QED BY <3>1, <3>2, <3>3
  <2>. QED BY <1>2, <2>1, <2>2, <2>3, <2>4 DEF CopierStep
<1>3. ASSUME NEW c \in Collectors, List(c) \/ CollectorStep(c) PROVE Same(i)
  <2>1. inode' = inode \/ inode' = Reclaim(inode, dir', out')
    BY <1>3 DEF List, CollectorStep, Keep, Claim, EvictBlob, KeptBusy, Forget,
                RemoveFile
  <2>2. CASE inode' = inode
    BY <2>2 DEF Same
  <2>. QED BY <1>1, <2>1, <2>2, ReclaimSame
<1>4. CASE \/ \E p \in Procs : Crash(p)
           \/ \E d \in Disks : Release(d)
           \/ \E d \in Dests : Withdraw(d)
  <2>1. inode' = Reclaim(inode, dir', out')
    BY <1>4 DEF Crash, Release, Withdraw, RemoveFile
  <2>. QED BY <1>1, <2>1, ReclaimSame
<1>5. CASE PowerLoss
  <2>1. PICK lost \in SUBSET {j \in Inodes : inode[j].whole /\ ~inode[j].synced} :
          inode' = Reclaim([j \in Inodes |-> IF j \in lost
                              THEN [inode[j] EXCEPT !.whole = FALSE] ELSE inode[j]],
                           dir, out')
    BY <1>5 DEF PowerLoss
  <2> DEFINE f == [j \in Inodes |-> IF j \in lost
                     THEN [inode[j] EXCEPT !.whole = FALSE] ELSE inode[j]]
  <2>2. f \in [Inodes -> Files]
    BY ChangedType DEF TypeOK, FilesOK
  <2>3. f[i].content = inode[i].content /\ f[i].ro = inode[i].ro
    BY <1>1 DEF Files
  <2>4. inode' = Reclaim(f, dir', out')
    BY <1>5, <2>1 DEF PowerLoss
  <2> HIDE DEF f
  <2>5. inode'[i] = f[i]
    BY <1>1, <2>2, <2>4, ReclaimType
  <2>. QED BY <2>3, <2>5 DEF Same
<1>6. ASSUME NEW d \in Disks, VmWrite(d) PROVE Same(i) \/ Changed(i)
  <2> DEFINE j == dir[Disk(d)]
  <2>1. inode' = [inode EXCEPT ![j].content = None, ![j].synced = FALSE]
    BY <1>6 DEF VmWrite
  <2>2. inode \in [Inodes -> Files]
    BY DEF TypeOK, FilesOK
  <2>3. CASE i = j
    <3>1. inode'[i].ro = inode[i].ro
      BY <1>1, <2>1, <2>2, <2>3 DEF Files
    <3>. QED BY <1>6, <2>3, <3>1 DEF Changed
  <2>4. CASE i # j
    BY <1>1, <2>1, <2>2, <2>4 DEF Same
  <2>. QED BY <2>3, <2>4
<1>7. CASE UNCHANGED vars
  BY <1>7 DEF vars, Same
<1>. QED BY <1>2, <1>3, <1>4, <1>5, <1>6, <1>7 DEF Environment

\* What any step does to it.
LEMMA FileChanges ==
  ASSUME TypeOK, NEW n \in Names, dir[n] # None, dir[n] \in Live(dir', out'),
         [Next]_vars
  PROVE  Same(dir[n]) \/ Changed(dir[n])
BY BuilderChanges, OtherChanges DEF Next, Acts

-----------------------------------------------------------------------------
(* Sealed and listed.                                                      *)

\* Where nobody is killed, a builder that does not act stays where it is.
LEMMA NobodyKilled ==
  ASSUME TypeOK, "crash" \notin Faults, "power" \notin Faults, [Next]_vars,
         NEW b \in Builders
  PROVE  Acts(b) \/ Rests(b)
<1> USE DEF Rests, Goto, Try, jobVars, fileVars
<1>1. ASSUME NEW c \in Builders, Acts(c) PROVE Acts(b) \/ Rests(b)
  BY <1>1, OthersRest
<1>2. ASSUME NEW m \in Copiers, Materialize(m) \/ CopierStep(m) \/ AbortCopy(m)
      PROVE  Rests(b)
  <2>1. CASE Materialize(m) \/ MaterializeReturns(m) \/ ClearDisk(m)
    BY <2>1, LocalFacts DEF Materialize, StartJob, MaterializeReturns, EndJob, ClearDisk
  <2>2. CASE OpenClone(m) \/ OpenCopy(m)
    BY <2>2, LocalFacts DEF OpenClone, OpenCopy, OpenDisk, CreateNew
  <2>3. CASE Clone(m) \/ CloneDeclined(m) \/ CopiedDisk(m) \/ AbortCopy(m)
    BY <2>3, LocalFacts DEF Clone, CloneDeclined, CopiedDisk, AbortCopy, CloseWritten
  <2>. QED BY <1>2, <2>1, <2>2, <2>3 DEF CopierStep
<1>3. ASSUME NEW c \in Collectors, List(c) \/ CollectorStep(c) PROVE Rests(b)
  BY <1>3, LocalFacts DEF List, CollectorStep, Keep, Claim, EvictBlob, KeptBusy, Forget, Done
<1>4. CASE Environment
  <2>1. ~ PowerLoss /\ ~ \E p \in Procs : Crash(p)
    BY DEF PowerLoss, Crash
  <2>. QED BY <1>4, <2>1 DEF Environment, VmWrite, Release, Withdraw
<1>5. CASE UNCHANGED vars
  BY <1>5 DEF vars
<1>. QED BY <1>1, <1>2, <1>3, <1>4, <1>5 DEF Next, Acts

\* A sealed blob stays sealed as long as it has its name.
LEMMA SealStays ==
  ASSUME TypeOK, Alone, [Next]_vars, NEW k \in Keys, dir[Blob(k)] # None,
         dir'[Blob(k)] = dir[Blob(k)], inode[dir[Blob(k)]].ro
  PROVE  inode'[dir[Blob(k)]].ro
<1>1. Blob(k) \in Names /\ dir[Blob(k)] \in Live(dir', out')
  BY NameFacts, LiveFacts
<1>2. ASSUME NEW b \in Builders, Export(b), dir[Blob(k)] = dir[Tmp(want[b])]
      PROVE  FALSE
  <2>1. want[b] \in Keys
    BY <1>2, JobFacts DEF Export, Goto
  <2>2. Tmp(want[b]) \in Private /\ Blob(k) # Tmp(want[b])
    BY <2>1, NameFacts, PrivateFacts
  <2>. QED BY <1>1, <1>2, <2>2 DEF Alone
<1>. QED BY <1>1, <1>2, FileChanges DEF Same, Changed

\* Where put is a rename it never copies.
LEMMA NoCopyInStep ==
  ASSUME TypeOK, NoCopyIn, [Next]_vars
  PROVE  NoCopyIn'
<1> SUFFICES ASSUME Renames, NEW b \in Builders, pc'[b] = "copy_in" PROVE FALSE
  BY DEF NoCopyIn
<1>1. pc[b] # "copy_in"
  BY DEF NoCopyIn
<1>2. Acts(b)
  BY <1>1, BuilderMoves DEF Rests
<1> USE JobFacts DEF Goto, Try
<1>3. ~ (Solve(b) \/ Lock(b) \/ Unlock(b) \/ Abort(b) \/ PutCopy(b))
  BY DEF Solve, Lock, Unlock, Abort, PutCopy
<1>4. ~ (Get(b) \/ ReadEntry(b) \/ Touch(b) \/ Export(b) \/ Format(b))
  BY DEF Get, ReadEntry, Touch, AfterGet, Export, Format
<1>5. ~ (PutRename(b) \/ PutCopied(b) \/ Seal(b) \/ Sync(b) \/ WriteMeta(b))
  BY DEF PutRename, PutCopied, Seal, Sync, WriteMeta
<1>6. ~ (Stat(b) \/ CheckInstall(b) \/ ClearPart(b))
  BY DEF Stat, CheckInstall, ClearPart
<1>7. ~ LinkPart(b)
  <2>1. LinkPart(b) => \E s \in {"publish", "copy_out", "err"} :
                         pc' = [pc EXCEPT ![b] = s]
    BY DEF LinkPart
  <2>. QED BY <2>1
<1>8. ~ (CopiedPart(b) \/ Publish(b) \/ Tidy(b))
  BY DEF CopiedPart, Publish, Tidy
<1>. QED BY <1>2, <1>3, <1>4, <1>5, <1>6, <1>7, <1>8 DEF Acts, BuilderStep

\* A blob is bound when it is put, by a builder that goes on to seal it.
LEMMA BlobBinds ==
  ASSUME TypeOK, [Next]_vars, NEW k \in Keys, dir'[Blob(k)] # None
  PROVE  \/ dir'[Blob(k)] = dir[Blob(k)]
         \/ \E b \in Builders :
              /\ want'[b] = k /\ lock'[k] = lock[k]
              /\ pc[b] = "put" /\ pc'[b] \in {"copy_in", "seal"}
<1> USE JobFacts DEF Goto, Try, jobVars, fileVars
<1>1. ASSUME NEW b \in Builders, want[b] = k, PutRename(b) \/ PutCopy(b),
             dir' # dir
      PROVE  /\ want'[b] = k /\ lock'[k] = lock[k]
             /\ pc[b] = "put" /\ pc'[b] \in {"copy_in", "seal"}
  <2>1. CASE PutRename(b)
    BY <1>1, <2>1 DEF PutRename
  <2>2. CASE PutCopy(b)
    BY <1>1, <2>2 DEF PutCopy
  <2>. QED BY <1>1, <2>1, <2>2
<1>. QED BY <1>1, NamesKept DEF BlobKept

\* A builder that puts goes on until the blob is sealed, or finds it gone.
LEMMA PutGoesOn ==
  ASSUME TypeOK, Unbroken, NEW b \in Builders, Acts(b)
  PROVE  /\ pc[b] = "copy_in" => pc'[b] = "seal" /\ want' = want
         /\ pc[b] = "seal" /\ dir[Blob(want[b])] # None =>
              /\ pc'[b] = "sync" /\ want' = want /\ dir' = dir
              /\ inode'[dir[Blob(want[b])]].ro
         /\ pc[b] = "sync" /\ dir[Blob(want[b])] # None =>
              pc'[b] = "record" /\ want' = want
         /\ pc[b] = "record" => want[b] \in meta'
<1> USE JobFacts DEF Goto, Try, jobVars
<1>0. ~ Abort(b)
  BY DEF Abort, Unbroken
<1>1. CASE pc[b] = "copy_in"
  <2>1. PutCopied(b)
    BY <1>0, <1>1, ActsWhere
  <2>. QED BY <1>1, <2>1 DEF PutCopied
<1>2. CASE pc[b] = "seal"
  <2>1. Seal(b)
    BY <1>0, <1>2, ActsWhere
  <2>2. inode \in [Inodes -> Files] /\ dir \in [Names -> Inodes \cup {None}]
    BY DEF TypeOK, FilesOK
  <2>3. Blob(want[b]) \in Names
    BY <1>2, NameFacts
  <2> DEFINE i == dir[Blob(want[b])]
  <2>4. ASSUME i # None
        PROVE  /\ pc'[b] = "sync" /\ want' = want /\ dir' = dir
               /\ inode' = [inode EXCEPT ![i].ro = TRUE]
    BY <2>1, <2>4 DEF Seal
  <2>5. ASSUME i # None PROVE inode'[i].ro
    <3>1. i \in Inodes /\ inode[i] \in Files
      BY <2>2, <2>3, <2>5
    <3>. QED BY <2>2, <2>4, <2>5, <3>1 DEF Files
  <2>. QED BY <1>2, <2>4, <2>5
<1>3. CASE pc[b] = "sync"
  BY <1>0, <1>3, ActsWhere DEF Sync
<1>4. CASE pc[b] = "record"
  BY <1>0, <1>4, ActsWhere DEF WriteMeta
<1>. QED BY <1>1, <1>2, <1>3, <1>4

\* A blob is sealed, or the builder that puts it is about to.
LEMMA SealedStep ==
  ASSUME Unbroken, SealInv, [Next]_vars
  PROVE  SealedOrPut'
<1>. TypeOK /\ Alone /\ SealedOrPut
  BY DEF SealInv, ExclusiveInv
<1> SUFFICES ASSUME NEW k \in Keys, dir'[Blob(k)] # None
             PROVE  \/ inode'[dir'[Blob(k)]].ro
                    \/ \E b \in Builders : want'[b] = k /\ pc'[b] \in {"copy_in", "seal"}
  BY DEF SealedOrPut, Exists, Putting
<1>1. CASE dir'[Blob(k)] = dir[Blob(k)]
  <2>1. CASE inode[dir[Blob(k)]].ro
    BY <1>1, <2>1, SealStays
  <2>2. ASSUME NEW b \in Builders, want[b] = k, pc[b] \in {"copy_in", "seal"}
        PROVE  \/ inode'[dir'[Blob(k)]].ro
               \/ want'[b] = k /\ pc'[b] \in {"copy_in", "seal"}
    <3>1. CASE Rests(b)
      BY <2>2, <3>1 DEF Rests
    <3>2. CASE Acts(b)
      BY <1>1, <2>2, <3>2, PutGoesOn
    <3>. QED BY <3>1, <3>2, NobodyKilled DEF Unbroken
  <2>. QED BY <1>1, <2>1, <2>2 DEF SealedOrPut, Putting, Exists
<1>. QED BY <1>1, BlobBinds

\* The invariant behind Sealed is inductive.
LEMMA SealInvStep ==
  ASSUME Unbroken, SealInv, [Next]_vars
  PROVE  SealInv'
BY ExclusiveStep, SealedStep DEF SealInv, ExclusiveInv

\* It holds when the store is opened.
LEMMA SealInvInit == Init => SealInv
<1> SUFFICES ASSUME Init PROVE SealInv
  OBVIOUS
<1>1. \A k \in Keys : dir[Blob(k)] = None
  BY NameFacts DEF Init
<1>2. \A b \in Builders : pc[b] = "idle"
  BY DEF Init
<1>. QED BY <1>1, <1>2, ExclusiveInit DEF SealInv, SealedOrPut, Exists

\* It says what it is for: who puts holds the lock.
LEMMA SealedWhenFree == SealInv => Sealed
<1> SUFFICES ASSUME SealInv, NEW k \in Keys, lock[k] = None, dir[Blob(k)] # None,
                    NEW b \in Builders, want[b] = k, pc[b] \in {"copy_in", "seal"}
             PROVE  FALSE
  BY DEF Sealed, SealInv, SealedOrPut, Putting, Exists
<1>1. lock[k] = b
  BY DEF SealInv, ExclusiveInv, LockHeld
<1>. QED BY <1>1

\* A blob nobody works on is sealed, whatever gc, copies and other builds do at
\* the same time and whatever sources drift, as long as nothing is killed and no
\* call fails.
THEOREM StoreSealed ==
  ASSUME Unbroken
  PROVE  Spec => []Sealed
<1>1. Init => SealInv
  BY SealInvInit
<1>2. SealInv /\ [Next]_vars => SealInv'
  BY SealInvStep
<1>3. SealInv => Sealed
  BY SealedWhenFree
<1>. QED BY <1>1, <1>2, <1>3, PTL DEF Spec

-----------------------------------------------------------------------------
(* Maintenance in a quiet store.                                           *)

\* How a collector comes to evict and to forget, and that it keeps its entry on
\* the way.
LEMMA CollectorGoes ==
  ASSUME TypeOK, [Next]_vars, NEW c \in Collectors
  PROVE  /\ pc'[c] = "evict" =>
              Claim(c) \/ (pc[c] = "evict" /\ want'[c] = want[c])
         /\ pc'[c] = "forget" =>
              EvictBlob(c) \/ (pc[c] = "forget" /\ want'[c] = want[c])
<1> USE DEF Goto, Try, jobVars, fileVars
<1> DEFINE Goal == /\ pc'[c] = "evict" =>
                        Claim(c) \/ (pc[c] = "evict" /\ want'[c] = want[c])
                   /\ pc'[c] = "forget" =>
                        EvictBlob(c) \/ (pc[c] = "forget" /\ want'[c] = want[c])
<1>1. ASSUME NEW b \in Builders, Acts(b) PROVE Goal
  <2>1. Rests(c)
    BY <1>1, OthersRest
  <2>. QED BY <2>1 DEF Rests
<1>2. ASSUME NEW m \in Copiers, Materialize(m) \/ CopierStep(m) \/ AbortCopy(m)
      PROVE  Goal
  <2>1. pc'[c] = pc[c] /\ want'[c] = want[c]
    BY <1>2, LocalFacts DEF Materialize, StartJob, CopierStep, ClearDisk, OpenClone,
       OpenCopy, OpenDisk, CreateNew, CloseWritten, Clone, CloneDeclined, CopiedDisk,
       MaterializeReturns, EndJob, AbortCopy
  <2>. QED BY <2>1
<1>3. ASSUME NEW e \in Collectors, List(e) \/ CollectorStep(e) PROVE Goal
  <2>1. CASE e = c
    <3>1. CASE List(c) \/ Keep(c) \/ KeptBusy(c) \/ Forget(c)
      <4>1. pc'[c] \in {"idle", "scan"}
        BY <3>1, JobFacts DEF List, Keep, KeptBusy, Forget, Done
      <4>. QED BY <4>1
    <3>2. CASE Claim(c) \/ EvictBlob(c)
      BY <3>2, JobFacts DEF Claim, EvictBlob
    <3>. QED BY <1>3, <2>1, <3>1, <3>2 DEF CollectorStep
  <2>2. CASE e # c
    <3>1. pc'[c] = pc[c] /\ want'[c] = want[c]
      BY <1>3, <2>2, LocalFacts DEF List, CollectorStep, Keep, Claim, EvictBlob,
         KeptBusy, Forget, Done
    <3>. QED BY <3>1
  <2>. QED BY <2>1, <2>2
<1>4. CASE Environment
  <2>1. ASSUME NEW p \in Procs, Crash(p) PROVE Goal
    <3>1. pc' = [pc EXCEPT ![p] = "idle"] /\ want' = [want EXCEPT ![p] = None]
      BY <2>1 DEF Crash, EndJob
    <3>. QED BY <3>1, LocalFacts
  <2>2. CASE PowerLoss
    <3>1. pc'[c] = "idle"
      BY <2>2 DEF PowerLoss
    <3>. QED BY <3>1
  <2>3. CASE ~ PowerLoss /\ ~ \E p \in Procs : Crash(p)
    BY <1>4, <2>3 DEF Environment, VmWrite, Release, Withdraw
  <2>. QED BY <2>1, <2>2, <2>3
<1>5. CASE UNCHANGED vars
  BY <1>5 DEF vars
<1>. QED BY <1>1, <1>2, <1>3, <1>4, <1>5 DEF Next, Acts

\* While a pass goes on in a quiet store no builder takes a step.
LEMMA NobodyBuilds ==
  ASSUME TypeOK, Quiet, Quiet', NEW c \in Collectors, pc[c] # "idle", pc'[c] # "idle",
         NEW b \in Builders, Acts(b)
  PROVE  FALSE
<1>1. pc[b] = "idle" /\ pc'[b] = "idle"
  BY DEF Quiet
<1>. QED BY <1>1, ActsMove

\* Metadata goes by gc, or with the power.
LEMMA MetaGoes ==
  ASSUME TypeOK, [Next]_vars, NEW k \in meta, k \notin meta'
  PROVE  PowerLoss \/ \E c \in Collectors : Forget(c) /\ want[c] = k
<1>1. ASSUME NEW b \in Builders, Acts(b) PROVE FALSE
  BY <1>1 DEF Acts, BuilderStep, Solve, Lock, Get, ReadEntry, Touch, Export, Format,
     PutRename, PutCopy, PutCopied, Seal, Sync, WriteMeta, Stat, CheckInstall,
     ClearPart, LinkPart, CopiedPart, Publish, Tidy, Unlock, Abort
<1>2. ASSUME NEW m \in Copiers, Materialize(m) \/ CopierStep(m) \/ AbortCopy(m)
      PROVE  FALSE
  BY <1>2 DEF Materialize, CopierStep, ClearDisk, OpenClone, OpenCopy, OpenDisk,
     Clone, CloneDeclined, CopiedDisk, MaterializeReturns, AbortCopy
<1>3. ASSUME NEW c \in Collectors, List(c) \/ CollectorStep(c)
      PROVE  Forget(c) /\ want[c] = k
  BY <1>3 DEF List, CollectorStep, Keep, Claim, EvictBlob, KeptBusy, Forget
<1>4. ASSUME Environment PROVE PowerLoss
  BY <1>4 DEF Environment, Crash, VmWrite, Release, Withdraw
<1>5. CASE UNCHANGED vars
  BY <1>5 DEF vars
<1>. QED BY <1>1, <1>2, <1>3, <1>4, <1>5 DEF Next, Acts

\* A blob is listed, or the builder that puts it is about to; gc does not change
\* that, because it forgets only what nobody puts back meanwhile.
LEMMA RecordedStep ==
  ASSUME Unbroken, RecordInv, Quiet', [Next]_vars
  PROVE  RecordedOrPut'
<1>. TypeOK /\ RecordedOrPut /\ ForgottenGone
  BY DEF RecordInv, ExclusiveInv
<1> DEFINE Steps == {"copy_in", "seal", "sync", "record"}
<1> SUFFICES ASSUME NEW k \in Keys, dir'[Blob(k)] # None
             PROVE  k \in meta' \/ \E b \in Builders : want'[b] = k /\ pc'[b] \in Steps
  BY DEF RecordedOrPut, Exists, Putting
<1>1. CASE dir'[Blob(k)] = dir[Blob(k)]
  <2>1. ASSUME k \in meta PROVE k \in meta'
    <3>1. ASSUME NEW c \in Collectors, Forget(c), want[c] = k PROVE FALSE
      BY <1>1, <3>1 DEF Forget, ForgottenGone, Exists
    <3>2. ~ PowerLoss
      BY DEF PowerLoss, Unbroken
    <3>. QED BY <2>1, <3>1, <3>2, MetaGoes
  <2>2. ASSUME NEW b \in Builders, want[b] = k, pc[b] \in Steps
        PROVE  k \in meta' \/ (want'[b] = k /\ pc'[b] \in Steps)
    <3>1. CASE Rests(b)
      BY <2>2, <3>1 DEF Rests
    <3>2. CASE Acts(b)
      BY <1>1, <2>2, <3>2, PutGoesOn
    <3>. QED BY <3>1, <3>2, NobodyKilled DEF Unbroken
  <2>. QED BY <1>1, <2>1, <2>2 DEF RecordedOrPut, Putting, Exists
<1>. QED BY <1>1, BlobBinds

\* What gc is about to forget stays gone: in a quiet store nobody builds it.
LEMMA ForgottenStep ==
  ASSUME RecordInv, Quiet', [Next]_vars
  PROVE  ForgottenGone'
<1>. TypeOK /\ Quiet /\ ForgottenGone
  BY DEF RecordInv, ExclusiveInv
<1> SUFFICES ASSUME NEW c \in Collectors, pc'[c] = "forget"
             PROVE  dir'[Blob(want'[c])] = None
  BY DEF ForgottenGone, Exists
<1>1. CASE EvictBlob(c)
  <2>1. /\ want' = want /\ want[c] \in Keys
        /\ dir' = Unlinked(Blob(want[c]))
    BY <1>1 DEF EvictBlob, RemoveFile, Goto, jobVars, TypeOK, JobsOK
  <2>2. Blob(want[c]) \in Names /\ dir \in [Names -> Inodes \cup {None}]
    BY <2>1, NameFacts DEF TypeOK, FilesOK
  <2>. QED BY <2>1, <2>2 DEF Unlinked
<1>2. CASE pc[c] = "forget" /\ want'[c] = want[c]
  <2>1. want[c] \in Keys /\ dir[Blob(want[c])] = None
    BY <1>2 DEF ForgottenGone, Exists, TypeOK, JobsOK
  <2>2. ASSUME NEW b \in Builders PROVE ~ PutRename(b) /\ ~ PutCopy(b)
    BY <1>2, NobodyBuilds DEF Acts, BuilderStep
  <2>. QED BY <1>2, <2>1, <2>2, NamesKept DEF BlobKept
<1>. QED BY <1>1, <1>2, CollectorGoes

\* The steps of a quiet store.
LEMMA QuietSteps ==
  ASSUME Quiet, [Next /\ Quiet']_vars
  PROVE  [Next]_vars /\ Quiet'
BY DEF Quiet, vars

\* A store is quiet when it is opened.
LEMMA QuietInit == Init => Quiet
BY DEF Init, Quiet

\* A blob nobody works on is listed, provided gc runs while nobody builds and
\* nothing is killed and no call fails: a put cut short after the rename leaves a
\* blob without metadata.
THEOREM StoreRecorded ==
  ASSUME Unbroken
  PROVE  QuietSpec => []Recorded
<1>1. Init => RecordInv
  <2> SUFFICES ASSUME Init PROVE RecordInv
    OBVIOUS
  <2>1. \A k \in Keys : dir[Blob(k)] = None
    BY NameFacts DEF Init
  <2>2. \A p \in Procs : pc[p] = "idle"
    BY DEF Init
  <2>. QED
    BY <2>1, <2>2, ExclusiveInit, QuietInit
       DEF RecordInv, RecordedOrPut, ForgottenGone, Exists
<1>2. RecordInv /\ [Next /\ Quiet']_vars => RecordInv'
  <2> SUFFICES ASSUME RecordInv, [Next /\ Quiet']_vars PROVE RecordInv'
    OBVIOUS
  <2>1. [Next]_vars /\ Quiet'
    BY QuietSteps DEF RecordInv
  <2>. QED
    BY <2>1, ExclusiveStep, RecordedStep, ForgottenStep
       DEF RecordInv, ExclusiveInv
<1>3. RecordInv => Recorded
  <2> SUFFICES ASSUME RecordInv, NEW k \in Keys, lock[k] = None, NEW b \in Builders,
                      want[b] = k, pc[b] \in {"copy_in", "seal", "sync", "record"}
               PROVE  FALSE
    BY DEF Recorded, RecordInv, RecordedOrPut, Putting
  <2>1. lock[k] = b
    BY DEF RecordInv, ExclusiveInv, LockHeld
  <2>. QED BY <2>1
<1>. QED BY <1>1, <1>2, <1>3, PTL DEF QuietSpec

\* What gc claims is not installed, and nobody installs it meanwhile.
LEMMA NotInstalledStep ==
  ASSUME SpareInv, Quiet', [Next]_vars
  PROVE  NotInstalled'
<1>. /\ TypeOK /\ Quiet /\ NotInstalled
     /\ dir \in [Names -> Inodes \cup {None}]
  BY DEF SpareInv, TypeOK, FilesOK
<1> SUFFICES ASSUME NEW c \in Collectors, pc'[c] = "evict",
                    NEW d \in Dests, dir'[Cat(d)] # None
             PROVE  dir'[Cat(d)] # dir'[Blob(want'[c])]
  BY DEF NotInstalled, Exists
<1>0. Cat(d) \in Names /\ Cat(d) \in Catalog
  BY NameFacts, SourceFacts
<1>1. CASE Claim(c)
  <2>1. PICK k \in todo[c] : /\ Exists(Blob(k)) => ~Linked(Blob(k))
                             /\ want' = [want EXCEPT ![c] = k]
    BY <1>1 DEF Claim
  <2>2. dir' = dir /\ k \in Keys /\ want'[c] = k
    BY <1>1, <2>1 DEF Claim, fileVars, TypeOK, JobsOK
  <2>3. Cat(d) # Blob(k)
    BY <2>2, NameFacts
  <2>. QED BY <1>0, <2>1, <2>2, <2>3 DEF Linked, Exists
<1>2. CASE pc[c] = "evict" /\ want'[c] = want[c]
  <2>1. want[c] \in Keys
    BY <1>2 DEF TypeOK, JobsOK
  <2>2. ASSUME NEW b \in Builders PROVE ~ Acts(b)
    BY <1>2, NobodyBuilds
  <2>3. dir'[Cat(d)] = dir[Cat(d)]
    BY <1>0, <2>2, OtherDir DEF Next, Acts
  <2>4. dir'[Blob(want[c])] \in {dir[Blob(want[c])], None}
    BY <2>1, <2>2, NamesKept DEF BlobKept, Acts, BuilderStep
  <2>. QED BY <1>2, <2>3, <2>4 DEF NotInstalled, Exists
<1>. QED BY <1>1, <1>2, CollectorGoes

\* In a quiet store gc never takes the blob of an installed image, through kills,
\* losses of power and failures of any kind, whatever copies and other passes do.
THEOREM StoreSparesInstalled == QuietSpec => EvictionSparesInstalled
<1>1. Init => SpareInv
  <2> SUFFICES ASSUME Init PROVE SpareInv
    OBVIOUS
  <2>. QED BY InitTypes, QuietInit DEF Init, SpareInv, NotInstalled
<1>2. SpareInv /\ [Next /\ Quiet']_vars => SpareInv'
  <2> SUFFICES ASSUME SpareInv, [Next /\ Quiet']_vars PROVE SpareInv'
    OBVIOUS
  <2>1. [Next]_vars /\ Quiet'
    BY QuietSteps DEF SpareInv
  <2>. QED BY <2>1, StepTypes, NotInstalledStep DEF SpareInv
<1> DEFINE Spares == \A c \in Collectors : pc[c] = "evict" /\ pc'[c] = "forget" =>
                       \A d \in Dests : dir[Cat(d)] = dir[Blob(want[c])] => dir[Cat(d)] = None
<1>3. SpareInv => [Spares]_vars
  BY DEF SpareInv, NotInstalled, Exists
<1>. QED BY <1>1, <1>2, <1>3, PTL DEF QuietSpec, EvictionSparesInstalled

-----------------------------------------------------------------------------
(* Builds do not fail one another.                                         *)

\* Only gc removes a blob.
LEMMA BlobGoes ==
  ASSUME TypeOK, [Next]_vars, NEW k \in Keys, dir[Blob(k)] # None,
         dir'[Blob(k)] = None
  PROVE  \E c \in Collectors : EvictBlob(c)
<1> USE JobFacts, NameFacts DEF Goto, Try, jobVars, fileVars
<1>. dir \in [Names -> Inodes \cup {None}] /\ Blob(k) \in Names
  BY DEF TypeOK, FilesOK
<1>1. ASSUME NEW n, n # Blob(k), dir' = dir \/ \E i : dir' = [dir EXCEPT ![n] = i]
      PROVE  FALSE
  BY <1>1
<1>2. ASSUME NEW b \in Builders, Acts(b) PROVE FALSE
  <2>1. /\ pc[b] # "idle" => want[b] \in Keys
        /\ pc[b] \in InstallPc => dest[b] \in Dests
    BY DEF TypeOK, JobsOK
  <2>2. CASE \/ Solve(b) \/ Lock(b) \/ Get(b) \/ ReadEntry(b) \/ Touch(b) \/ Unlock(b)
             \/ Seal(b) \/ Sync(b) \/ WriteMeta(b) \/ Stat(b) \/ CheckInstall(b)
    BY <2>2 DEF Solve, Lock, Get, ReadEntry, Touch, Unlock, Seal, Sync, WriteMeta,
                Stat, CheckInstall
  <2>3. CASE Format(b) \/ CopiedPart(b) \/ Abort(b)
    BY <2>3 DEF Format, CopiedPart, Abort
  <2>4. CASE Export(b) \/ PutCopied(b)
    <3>1. want[b] \in Keys /\ \E i : dir' = [dir EXCEPT ![Tmp(want[b])] = i]
      BY <2>1, <2>4 DEF Export, PutCopied, Unlinked
    <3>. QED BY <1>1, <3>1
  <2>5. CASE PutRename(b)
    <3>1. /\ want[b] \in Keys
          /\ dir' = dir \/ (/\ dir[Tmp(want[b])] # None
                            /\ dir' = Renamed(Tmp(want[b]), Blob(want[b])))
      BY <2>1, <2>5 DEF PutRename, Exists
    <3>2. Tmp(want[b]) \in Names /\ Blob(want[b]) \in Names /\ Tmp(want[b]) # Blob(k)
      BY <3>1
    <3>3. CASE want[b] = k
      BY <3>1, <3>2, <3>3 DEF Renamed
    <3>4. CASE want[b] # k
      BY <3>1, <3>2, <3>4 DEF Renamed
    <3>. QED BY <3>3, <3>4
  <2>6. CASE PutCopy(b)
    <3>1. /\ want[b] \in Keys
          /\ dir' = dir \/ (/\ dir[Blob(want[b])] = None
                            /\ \E i : dir' = [dir EXCEPT ![Blob(want[b])] = i])
      BY <2>1, <2>6 DEF PutCopy, CreateNew, Exists
    <3>2. CASE want[b] = k
      BY <3>1, <3>2
    <3>3. CASE want[b] # k
      BY <1>1, <3>1, <3>3
    <3>. QED BY <3>2, <3>3
  <2>7. CASE ClearPart(b) \/ Tidy(b) \/ LinkPart(b)
    <3>1. /\ dest[b] \in Dests
          /\ dir' = dir \/ \E i : dir' = [dir EXCEPT ![Part(dest[b])] = i]
      BY <2>1, <2>7
         DEF ClearPart, Tidy, LinkPart, RemoveFile, Unlinked, CreateNew, InstallPc
    <3>. QED BY <1>1, <3>1
  <2>8. CASE Publish(b)
    <3>1. /\ dest[b] \in Dests
          /\ dir' = dir \/ dir' = Renamed(Part(dest[b]), Cat(dest[b]))
      BY <2>1, <2>8 DEF Publish, InstallPc
    <3>2. Part(dest[b]) # Blob(k) /\ Cat(dest[b]) # Blob(k)
      BY <3>1
    <3>. QED BY <3>1, <3>2 DEF Renamed
  <2>. QED
    BY <1>2, <2>2, <2>3, <2>4, <2>5, <2>6, <2>7, <2>8 DEF Acts, BuilderStep
<1>3. ASSUME NEW m \in Copiers, Materialize(m) \/ CopierStep(m) \/ AbortCopy(m)
      PROVE  FALSE
  <2>1. pc[m] # "idle" => dest[m] \in Disks
    BY DEF TypeOK, JobsOK
  <2>2. CASE ClearDisk(m) \/ CloneDeclined(m) \/ AbortCopy(m)
    BY <2>1, <2>2 DEF ClearDisk, CloneDeclined, AbortCopy, Unlinked, RemoveFile
  <2>3. CASE OpenClone(m) \/ OpenCopy(m)
    BY <2>1, <2>3 DEF OpenClone, OpenCopy, OpenDisk, CreateNew
  <2>4. CASE \/ Materialize(m) \/ Clone(m) \/ CopiedDisk(m)
             \/ MaterializeReturns(m)
    BY <2>4 DEF Materialize, Clone, CopiedDisk, MaterializeReturns
  <2>. QED BY <1>3, <2>2, <2>3, <2>4 DEF CopierStep
<1>4. ASSUME NEW c \in Collectors, List(c) \/ CollectorStep(c) PROVE EvictBlob(c)
  BY <1>4 DEF List, CollectorStep, Keep, Claim, KeptBusy, Forget
<1>5. CASE Environment
  <2>1. ASSUME NEW v \in Disks, Release(v) PROVE FALSE
    <3>1. Disk(v) # Blob(k) /\ dir' = [dir EXCEPT ![Disk(v)] = None]
      BY <2>1 DEF Release, RemoveFile, Unlinked
    <3>. QED BY <1>1, <3>1
  <2>2. ASSUME NEW e \in Dests, Withdraw(e) PROVE FALSE
    <3>1. Cat(e) # Blob(k) /\ dir' = [dir EXCEPT ![Cat(e)] = None]
      BY <2>2 DEF Withdraw, RemoveFile, Unlinked
    <3>. QED BY <1>1, <3>1
  <2>3. CASE PowerLoss \/ (\E p \in Procs : Crash(p)) \/ \E v \in Disks : VmWrite(v)
    BY <2>3 DEF PowerLoss, Crash, VmWrite
  <2>. QED BY <1>5, <2>1, <2>2, <2>3 DEF Environment
<1>6. CASE UNCHANGED vars
  BY <1>6 DEF vars
<1>. QED BY <1>2, <1>3, <1>4, <1>5, <1>6 DEF Next, Acts

\* In a quiet store the blob of a builder at work stays.
LEMMA BlobStays ==
  ASSUME TypeOK, Quiet', [Next]_vars, NEW b \in Builders, pc'[b] # "idle",
         NEW k \in Keys, dir[Blob(k)] # None
  PROVE  dir'[Blob(k)] # None
<1> SUFFICES ASSUME NEW c \in Collectors, EvictBlob(c) PROVE FALSE
  BY BlobGoes
<1>1. pc'[c] = "forget"
  BY JobFacts DEF EvictBlob, Goto
<1>. QED BY <1>1 DEF Quiet

\* A builder finds what the next step needs.
LEMMA BlobThereStep ==
  ASSUME Renames, SuccessInv, Quiet', [Next]_vars
  PROVE  BlobThere'
<1>. /\ TypeOK /\ NoCopyIn /\ BlobThere
     /\ dir \in [Names -> Inodes \cup {None}]
  BY DEF SuccessInv, ExclusiveInv, TypeOK, FilesOK
<1> DEFINE After == {"entry", "touch", "copy_in", "seal", "sync", "record", "stat"} \cup InstallPc
<1> SUFFICES ASSUME NEW b \in Builders, pc'[b] \in After
             PROVE  dir'[Blob(want'[b])] # None
  BY DEF BlobThere, Exists
<1> DEFINE k == want[b]
<1> USE JobFacts DEF Goto, Try, jobVars, fileVars
<1>0. pc'[b] # "idle"
  BY DEF InstallPc
<1>1. CASE Rests(b)
  <2>1. pc[b] \in After /\ want'[b] = k /\ k \in Keys
    BY <1>0, <1>1 DEF Rests
  <2>. QED BY <1>0, <2>1, BlobStays DEF BlobThere, Exists
<1>2. CASE Acts(b) /\ pc[b] \in After
  <2>1. want' = want /\ k \in Keys /\ dir[Blob(k)] # None
    <3>1. k \in Keys /\ dir[Blob(k)] # None
      BY <1>2 DEF BlobThere, Exists, InstallPc
    <3>2. ~ Solve(b) /\ ~ Unlock(b)
      BY <1>0, <1>2 DEF Solve, Unlock, InstallPc
    <3>. QED BY <1>2, <3>1, <3>2, BuilderGoes
  <2>. QED BY <1>0, <2>1, BlobStays
<1>3. CASE Acts(b) /\ pc[b] \notin After
  <2>0. ~ Abort(b)
    BY DEF Abort, InstallPc
  <2>1. \/ pc[b] = "get" /\ Get(b)
        \/ pc[b] = "put" /\ (PutRename(b) \/ PutCopy(b))
    <3>1. CASE pc[b] = "idle" \/ pc[b] = "lock"
      BY <1>3, <3>1, ActsWhere DEF Solve, Lock, InstallPc
    <3>2. CASE pc[b] = "export" \/ pc[b] = "format"
      BY <1>3, <3>2, <2>0, ActsWhere DEF Export, Format, InstallPc
    <3>3. CASE pc[b] \in {"tidy", "ok", "err"}
      BY <1>3, <3>3, ActsWhere DEF Tidy, Unlock, InstallPc
    <3>. QED BY <1>3, <2>0, <3>1, <3>2, <3>3, ActsWhere DEF BuilderPc, InstallPc
  <2>2. CASE pc[b] = "get" /\ Get(b)
    BY <2>2 DEF Get, Exists, InstallPc
  <2>3. CASE pc[b] = "put" /\ PutRename(b)
    <3>1. k \in Keys /\ dir[Tmp(k)] # None /\ dir' = Renamed(Tmp(k), Blob(k))
      BY <2>3 DEF PutRename, Exists, InstallPc
    <3>2. dir'[Blob(k)] = dir[Tmp(k)]
      BY <3>1, NameFacts DEF Renamed
    <3>. QED BY <2>3, <3>1, <3>2 DEF PutRename
  <2>4. ~ PutCopy(b)
    BY DEF PutCopy
  <2>. QED BY <2>1, <2>2, <2>3, <2>4
<1>. QED BY <1>0, <1>1, <1>2, <1>3, BuilderMoves

\* The staging file of a builder at work stays.
LEMMA StagingThereStep ==
  ASSUME SuccessInv, [Next]_vars
  PROVE  StagingThere'
<1>. /\ TypeOK /\ LockHeld /\ StagingThere
     /\ dir \in [Names -> Inodes \cup {None}]
  BY DEF SuccessInv, ExclusiveInv, TypeOK, FilesOK
<1> SUFFICES ASSUME NEW b \in Builders, pc'[b] \in {"format", "put"}
             PROVE  dir'[Tmp(want'[b])] # None
  BY DEF StagingThere, Exists
<1> DEFINE k == want[b]
<1> USE JobFacts DEF Goto, Try, jobVars, fileVars
<1>1. CASE Export(b)
  <2> DEFINE i == IF Exists(Tmp(k)) THEN dir[Tmp(k)] ELSE NewInode(Tmp(k))
  <2>1. /\ k \in Keys /\ Tmp(k) \in Names /\ want' = want
        /\ dir' = [dir EXCEPT ![Tmp(k)] = i]
    BY <1>1, NameFacts DEF Export
  <2>2. i # None
    BY <1>1, <2>1, NewInodeFacts DEF Export, Exists
  <2>. QED BY <2>1, <2>2
<1>2. CASE Format(b)
  BY <1>2 DEF Format, StagingThere, Exists
<1>3. CASE pc[b] \in {"format", "put"} /\ pc'[b] = pc[b] /\ want'[b] = k
  <2>1. k \in Keys /\ dir[Tmp(k)] # None
    BY <1>3 DEF StagingThere, Exists
  <2>2. ASSUME NEW a \in Builders, want[a] = k,
               Export(a) \/ PutRename(a) \/ PutCopied(a)
        PROVE  FALSE
    <3>1. pc[a] \in {"export", "put", "copy_in"} /\ pc'[a] # pc[a]
      BY <2>2 DEF Export, PutRename, PutCopied
    <3>2. lock[k] = a /\ lock[k] = b
      BY <1>3, <2>2, <3>1 DEF LockHeld
    <3>. QED BY <1>3, <3>1, <3>2
  <2>. QED BY <1>3, <2>1, <2>2, NamesKept DEF StagingKept
<1>4. \/ Export(b) \/ Format(b)
      \/ pc[b] \in {"format", "put"} /\ pc'[b] = pc[b] /\ want'[b] = k
  BY FormatsAndPuts
<1>. QED BY <1>1, <1>2, <1>3, <1>4

\* How a builder comes to stage its install.
LEMMA LinksAfterClear ==
  ASSUME TypeOK, NEW b \in Builders, Acts(b), pc'[b] = "link"
  PROVE  ClearPart(b)
<1> USE JobFacts DEF Goto, Try
<1>1. ~ (Solve(b) \/ Lock(b) \/ Unlock(b) \/ Abort(b))
  BY DEF Solve, Lock, Unlock, Abort
<1>2. ~ (Get(b) \/ ReadEntry(b) \/ Touch(b) \/ Export(b) \/ Format(b))
  BY DEF Get, ReadEntry, Touch, AfterGet, Export, Format
<1>3. ~ (PutRename(b) \/ PutCopy(b) \/ PutCopied(b) \/ Seal(b) \/ Sync(b))
  BY DEF PutRename, PutCopy, PutCopied, Seal, Sync
<1>4. ~ (WriteMeta(b) \/ Stat(b) \/ CheckInstall(b))
  BY DEF WriteMeta, Stat, CheckInstall
<1>5. ~ LinkPart(b)
  <2>1. LinkPart(b) => \E s \in {"publish", "copy_out", "err"} :
                         pc' = [pc EXCEPT ![b] = s]
    BY DEF LinkPart
  <2>. QED BY <2>1
<1>6. ~ (CopiedPart(b) \/ Publish(b) \/ Tidy(b))
  BY DEF CopiedPart, Publish, Tidy
<1>. QED BY <1>1, <1>2, <1>3, <1>4, <1>5, <1>6 DEF Acts, BuilderStep

\* The .part of a builder is not there until the builder makes it, and stays
\* until the builder renames it.
LEMMA PartThereStep ==
  ASSUME InstallsApart, SuccessInv, [Next]_vars
  PROVE  PartThere'
<1>. /\ TypeOK /\ PartThere
     /\ dir \in [Names -> Inodes \cup {None}]
  BY DEF SuccessInv, ExclusiveInv, TypeOK, FilesOK
<1> SUFFICES ASSUME NEW b \in Builders
             PROVE  /\ pc'[b] = "link" => dir'[Part(dest'[b])] = None
                    /\ pc'[b] \in {"copy_out", "publish"} => dir'[Part(dest'[b])] # None
  BY DEF PartThere, Exists
<1> USE DEF Goto, Try, jobVars, fileVars
<1> DEFINE part == Part(dest[b])
<1>1. CASE Rests(b)
  <2>1. CASE pc[b] \in {"link", "copy_out", "publish"}
    <3>1. dir'[part] = dir[part]
      BY <1>1, <2>1, PartRests DEF InstallPc
    <3>. QED BY <1>1, <3>1 DEF Rests, PartThere, Exists
  <2>2. CASE pc[b] \notin {"link", "copy_out", "publish"}
    BY <1>1, <2>2 DEF Rests
  <2>. QED BY <2>1, <2>2
<1>2. ASSUME Acts(b), pc'[b] = "link" PROVE dir'[Part(dest'[b])] = None
  <2>1. ClearPart(b)
    BY <1>2, LinksAfterClear
  <2>2. dest[b] \in Dests
    BY <2>1 DEF ClearPart, InstallPc, TypeOK, JobsOK
  <2>3. dir' = [dir EXCEPT ![part] = None] /\ dest' = dest
    BY <2>1 DEF ClearPart, RemoveFile, Unlinked
  <2>. QED BY <2>2, <2>3, NameFacts
<1>3. ASSUME Acts(b), pc'[b] \in {"copy_out", "publish"}
      PROVE  dir'[Part(dest'[b])] # None
  <2>1. LinkPart(b) \/ CopiedPart(b)
    BY <1>3, BuilderGoes
  <2>2. dest[b] \in Dests /\ part \in Names
    BY <2>1, NameFacts DEF LinkPart, CopiedPart, InstallPc, TypeOK, JobsOK
  <2>3. CASE CopiedPart(b)
    BY <2>3 DEF CopiedPart, PartThere, Exists
  <2>4. CASE LinkPart(b)
    <3> DEFINE i == dir[Blob(want[b])]
               ok == i # None /\ ~Exists(part)
    <3>1. PICK link \in BOOLEAN :
            /\ pc' = [pc EXCEPT ![b] = IF ok
                        THEN IF link THEN "publish" ELSE "copy_out" ELSE "err"]
            /\ IF ok /\ link
                 THEN dir' = [dir EXCEPT ![part] = i] /\ UNCHANGED <<inode, out>>
               ELSE IF ok THEN CreateNew(b, part, Copied(i))
               ELSE UNCHANGED <<fileVars, out>>
            /\ dest' = dest
      BY <2>4 DEF LinkPart
    <3>2. ok
      BY <1>3, <3>1, JobFacts
    <3>3. CASE link
      BY <2>2, <3>1, <3>2, <3>3
    <3>4. CASE ~link
      <4>1. CreateNew(b, part, Copied(i))
        BY <3>1, <3>2, <3>4
      <4>2. NewInode(part) # None /\ dir' = [dir EXCEPT ![part] = NewInode(part)]
        BY <2>2, <4>1, NewInodeFacts DEF CreateNew
      <4>. QED BY <2>2, <3>1, <4>2
    <3>. QED BY <3>3, <3>4
  <2>. QED BY <2>1, <2>3, <2>4
<1>. QED BY <1>1, <1>2, <1>3, BuilderMoves

\* With what it needs in place, no step of a builder fails.
LEMMA NoFailureStep ==
  ASSUME Renames, "io" \notin Faults, SuccessInv, [Next]_vars
  PROVE  NoSpuriousFailure'
<1>. /\ TypeOK /\ NoSpuriousFailure /\ BlobThere /\ StagingThere /\ PartThere
  BY DEF SuccessInv, ExclusiveInv
<1> SUFFICES ASSUME NEW b \in Builders, pc'[b] = "err" PROVE FALSE
  BY DEF NoSpuriousFailure
<1>1. Acts(b)
  BY BuilderMoves DEF Rests, NoSpuriousFailure
<1> USE JobFacts DEF Goto, Try
<1>2. ~ Abort(b) /\ ~ PutCopy(b)
  BY DEF Abort, PutCopy
<1>3. ~ (Solve(b) \/ Lock(b) \/ Unlock(b) \/ Get(b) \/ ReadEntry(b) \/ Touch(b))
  BY DEF Solve, Lock, Unlock, Get, ReadEntry, Touch, AfterGet
<1>4. ~ (Export(b) \/ Format(b) \/ PutCopied(b) \/ WriteMeta(b))
  BY DEF Export, Format, PutCopied, WriteMeta
<1>5. ~ (ClearPart(b) \/ CopiedPart(b) \/ Tidy(b))
  BY DEF ClearPart, CopiedPart, Tidy
<1>6. ~ PutRename(b)
  BY DEF PutRename, StagingThere
<1>7. ~ (Seal(b) \/ Sync(b))
  BY DEF Seal, Sync, BlobThere, Exists
<1>8. ~ (Stat(b) \/ CheckInstall(b))
  BY DEF Stat, CheckInstall, BlobThere, Exists, InstallPc
<1>9. ~ LinkPart(b)
  <2> SUFFICES ASSUME LinkPart(b) PROVE FALSE
    OBVIOUS
  <2>1. pc[b] = "link" /\ (dir[Blob(want[b])] = None \/ Exists(Part(dest[b])))
    BY DEF LinkPart
  <2>. QED BY <2>1 DEF BlobThere, PartThere, Exists, InstallPc
<1>10. ~ Publish(b)
  BY DEF Publish, PartThere
<1>. QED
  BY <1>1, <1>2, <1>3, <1>4, <1>5, <1>6, <1>7, <1>8, <1>9, <1>10 DEF Acts, BuilderStep

\* The quiet store is a store.
LEMMA QuietIsSpec == QuietSpec => Spec
<1>1. [Next /\ Quiet']_vars => [Next]_vars
  OBVIOUS
<1>. QED BY <1>1, PTL DEF QuietSpec, Spec

\* In a quiet store builds never make one another fail: what others leave
\* behind when they are killed or lose power is in nobody's way.
THEOREM StoreNoSpuriousFailure ==
  ASSUME Renames, "io" \notin Faults, OwnStaging
  PROVE  QuietSpec => []NoSpuriousFailure
<1>1. Init => SuccessInv
  <2> SUFFICES ASSUME Init PROVE SuccessInv
    OBVIOUS
  <2>1. \A b \in Builders : pc[b] = "idle"
    BY DEF Init
  <2>. QED
    BY <2>1, ExclusiveInit, QuietInit
       DEF SuccessInv, NoCopyIn, BlobThere, StagingThere, PartThere,
           NoSpuriousFailure, InstallPc
<1>2. InstallsApart /\ SuccessInv /\ [Next /\ Quiet']_vars => SuccessInv'
  <2> SUFFICES ASSUME InstallsApart, SuccessInv, [Next /\ Quiet']_vars
               PROVE  SuccessInv'
    OBVIOUS
  <2>1. [Next]_vars /\ Quiet'
    BY QuietSteps DEF SuccessInv
  <2>. QED
    BY <2>1, ExclusiveStep, NoCopyInStep, BlobThereStep, StagingThereStep,
       PartThereStep, NoFailureStep
       DEF SuccessInv, ExclusiveInv
<1>3. SuccessInv => NoSpuriousFailure
  BY DEF SuccessInv
<1>4. QuietSpec => []InstallsApart
  BY QuietIsSpec, StoreInstallsApart
<1>. QED BY <1>1, <1>2, <1>3, <1>4, PTL DEF QuietSpec

-----------------------------------------------------------------------------
(* Copies for VMs.                                                         *)

\* A copier comes to write by creating its disk, and to its end by closing it.
LEMMA CopierMoves ==
  ASSUME TypeOK, [Next]_vars, NEW m \in Copiers,
         pc'[m] \in {"clone", "copying", "ok"}
  PROVE  \/ Rests(m)
         \/ pc'[m] \in {"clone", "copying"} /\ (OpenClone(m) \/ OpenCopy(m))
         \/ pc'[m] = "ok" /\ (Clone(m) \/ CopiedDisk(m))
<1> USE LocalFacts DEF Rests, Goto, Try, jobVars, fileVars
<1>1. ASSUME NEW b \in Builders, Acts(b) PROVE Rests(m)
  <2>1. m # b
    OBVIOUS
  <2>. QED BY <1>1, <2>1, OthersRest
<1>2. ASSUME NEW n \in Copiers, n # m, Materialize(n) \/ CopierStep(n) \/ AbortCopy(n)
      PROVE  Rests(m)
  <2>1. CASE Materialize(n) \/ MaterializeReturns(n) \/ ClearDisk(n)
    BY <1>2, <2>1 DEF Materialize, StartJob, MaterializeReturns, EndJob, ClearDisk
  <2>2. CASE OpenClone(n) \/ OpenCopy(n)
    BY <1>2, <2>2 DEF OpenClone, OpenCopy, OpenDisk, CreateNew
  <2>3. CASE Clone(n) \/ CloneDeclined(n) \/ CopiedDisk(n) \/ AbortCopy(n)
    BY <1>2, <2>3 DEF Clone, CloneDeclined, CopiedDisk, AbortCopy, CloseWritten
  <2>. QED BY <1>2, <2>1, <2>2, <2>3 DEF CopierStep
<1>3. ASSUME Materialize(m) \/ CopierStep(m) \/ AbortCopy(m)
      PROVE  \/ pc'[m] \in {"clone", "copying"} /\ (OpenClone(m) \/ OpenCopy(m))
             \/ pc'[m] = "ok" /\ (Clone(m) \/ CopiedDisk(m))
  <2>1. ~ (Materialize(m) \/ ClearDisk(m) \/ CloneDeclined(m))
    BY DEF Materialize, ClearDisk, CloneDeclined
  <2>2. ~ (MaterializeReturns(m) \/ AbortCopy(m))
    BY DEF MaterializeReturns, AbortCopy
  <2>3. OpenClone(m) \/ OpenCopy(m) => pc'[m] # "ok"
    BY DEF OpenClone, OpenCopy, OpenDisk
  <2>4. Clone(m) \/ CopiedDisk(m) => pc'[m] = "ok"
    BY DEF Clone, CopiedDisk
  <2>. QED BY <1>3, <2>1, <2>2, <2>3, <2>4 DEF CopierStep
<1>4. ASSUME NEW c \in Collectors, List(c) \/ CollectorStep(c) PROVE Rests(m)
  BY <1>4 DEF List, CollectorStep, Keep, Claim, EvictBlob, KeptBusy, Forget, Done
<1>5. ASSUME NEW p \in Procs, Crash(p) PROVE Rests(m)
  <2>1. p # m
    BY <1>5 DEF Crash
  <2>. QED BY <1>5, <2>1 DEF Crash, EndJob
<1>6. CASE Environment
  <2>1. ~ PowerLoss
    BY DEF PowerLoss
  <2>. QED BY <1>5, <1>6, <2>1 DEF Environment, VmWrite, Release, Withdraw
<1>7. CASE UNCHANGED vars
  BY <1>7 DEF vars
<1>. QED BY <1>1, <1>2, <1>3, <1>4, <1>6, <1>7 DEF Next, Acts

\* A disk is bound and removed by the copiers that were asked for it, and
\* removed by its owner.
LEMMA DiskMoves ==
  ASSUME TypeOK, [Next]_vars, NEW d \in Disks, dir'[Disk(d)] # dir[Disk(d)]
  PROVE  \/ Release(d)
         \/ \E m \in Copiers : dest[m] = d /\ pc'[m] # pc[m]
<1> USE JobFacts, NameFacts DEF Goto, Try, jobVars, fileVars
<1>. dir \in [Names -> Inodes \cup {None}] /\ Disk(d) \in Names
  BY DEF TypeOK, FilesOK
<1>1. ASSUME NEW n, n # Disk(d), dir' = dir \/ \E i : dir' = [dir EXCEPT ![n] = i]
      PROVE  FALSE
  BY <1>1
<1>2. ASSUME NEW a, NEW n, a # Disk(d), n # Disk(d), dir' = Renamed(a, n)
      PROVE  FALSE
  BY <1>2 DEF Renamed
<1>3. ASSUME NEW b \in Builders, Acts(b) PROVE FALSE
  <2>1. /\ pc[b] # "idle" => want[b] \in Keys
        /\ pc[b] \in InstallPc => dest[b] \in Dests
    BY DEF TypeOK, JobsOK
  <2>2. CASE \/ Solve(b) \/ Lock(b) \/ Get(b) \/ ReadEntry(b) \/ Touch(b) \/ Unlock(b)
             \/ Seal(b) \/ Sync(b) \/ WriteMeta(b) \/ Stat(b) \/ CheckInstall(b)
    BY <2>2 DEF Solve, Lock, Get, ReadEntry, Touch, Unlock, Seal, Sync, WriteMeta,
                Stat, CheckInstall
  <2>3. CASE Format(b) \/ CopiedPart(b) \/ Abort(b)
    BY <2>3 DEF Format, CopiedPart, Abort
  <2>4. CASE Export(b) \/ PutCopied(b)
    <3>1. want[b] \in Keys /\ \E i : dir' = [dir EXCEPT ![Tmp(want[b])] = i]
      BY <2>1, <2>4 DEF Export, PutCopied, Unlinked
    <3>. QED BY <1>1, <3>1
  <2>5. CASE PutRename(b)
    <3>1. /\ want[b] \in Keys
          /\ dir' = dir \/ dir' = Renamed(Tmp(want[b]), Blob(want[b]))
      BY <2>1, <2>5 DEF PutRename
    <3>. QED BY <1>2, <3>1
  <2>6. CASE PutCopy(b)
    <3>1. /\ want[b] \in Keys
          /\ dir' = dir \/ \E i : dir' = [dir EXCEPT ![Blob(want[b])] = i]
      BY <2>1, <2>6 DEF PutCopy, CreateNew
    <3>. QED BY <1>1, <3>1
  <2>7. CASE ClearPart(b) \/ Tidy(b) \/ LinkPart(b)
    <3>1. /\ dest[b] \in Dests
          /\ dir' = dir \/ \E i : dir' = [dir EXCEPT ![Part(dest[b])] = i]
      BY <2>1, <2>7
         DEF ClearPart, Tidy, LinkPart, RemoveFile, Unlinked, CreateNew, InstallPc
    <3>. QED BY <1>1, <3>1
  <2>8. CASE Publish(b)
    <3>1. /\ dest[b] \in Dests
          /\ dir' = dir \/ dir' = Renamed(Part(dest[b]), Cat(dest[b]))
      BY <2>1, <2>8 DEF Publish, InstallPc
    <3>. QED BY <1>2, <3>1
  <2>. QED
    BY <1>3, <2>2, <2>3, <2>4, <2>5, <2>6, <2>7, <2>8 DEF Acts, BuilderStep
<1>4. ASSUME NEW m \in Copiers, Materialize(m) \/ CopierStep(m) \/ AbortCopy(m)
      PROVE  dest[m] = d /\ pc'[m] # pc[m]
  <2>1. CASE \/ Materialize(m) \/ Clone(m) \/ CopiedDisk(m)
             \/ MaterializeReturns(m)
    BY <2>1 DEF Materialize, Clone, CopiedDisk, MaterializeReturns
  <2>2. CASE \/ ClearDisk(m) \/ CloneDeclined(m) \/ AbortCopy(m)
             \/ OpenClone(m) \/ OpenCopy(m)
    <3>1. pc'[m] # pc[m]
      BY <2>2 DEF ClearDisk, CloneDeclined, AbortCopy, OpenClone, OpenCopy, OpenDisk
    <3>2. dir' = dir \/ \E i : dir' = [dir EXCEPT ![Disk(dest[m])] = i]
      BY <2>2
         DEF ClearDisk, CloneDeclined, AbortCopy, OpenClone, OpenCopy, OpenDisk,
             CreateNew, Unlinked, RemoveFile
    <3>3. dest[m] # d => Disk(dest[m]) # Disk(d)
      BY DEF Disk
    <3>. QED BY <1>1, <3>1, <3>2, <3>3
  <2>. QED BY <1>4, <2>1, <2>2 DEF CopierStep
<1>5. ASSUME NEW c \in Collectors, List(c) \/ CollectorStep(c) PROVE FALSE
  <2>1. CASE EvictBlob(c)
    <3>1. want[c] \in Keys /\ dir' = [dir EXCEPT ![Blob(want[c])] = None]
      BY <2>1 DEF EvictBlob, TypeOK, JobsOK, RemoveFile, Unlinked
    <3>. QED BY <1>1, <3>1
  <2>2. CASE ~EvictBlob(c)
    BY <1>5, <2>2 DEF List, CollectorStep, Keep, Claim, KeptBusy, Forget
  <2>. QED BY <2>1, <2>2
<1>6. ASSUME Environment PROVE Release(d)
  <2>1. ASSUME NEW v \in Disks, Release(v) PROVE Release(d)
    <3>1. v # d => Disk(v) # Disk(d)
      BY DEF Disk
    <3>2. dir' = [dir EXCEPT ![Disk(v)] = None]
      BY <2>1 DEF Release, RemoveFile, Unlinked
    <3>. QED BY <1>1, <2>1, <3>1, <3>2
  <2>2. ASSUME NEW e \in Dests, Withdraw(e) PROVE FALSE
    <3>1. Cat(e) # Disk(d) /\ dir' = [dir EXCEPT ![Cat(e)] = None]
      BY <2>2 DEF Withdraw, RemoveFile, Unlinked
    <3>. QED BY <1>1, <3>1
  <2>3. CASE PowerLoss \/ (\E p \in Procs : Crash(p)) \/ \E v \in Disks : VmWrite(v)
    BY <2>3 DEF PowerLoss, Crash, VmWrite
  <2>. QED BY <1>6, <2>1, <2>2, <2>3 DEF Environment
<1>7. CASE UNCHANGED vars
  BY <1>7 DEF vars
<1>. QED BY <1>3, <1>4, <1>5, <1>6, <1>7 DEF Next, Acts

\* What a copier writes stays the image it was asked for, on its own disk.
LEMMA DeliveringStep ==
  ASSUME DisksApart, DeliveryInv, [Next]_vars
  PROVE  Delivering'
<1>. /\ TypeOK /\ Alone /\ BlobWhole /\ Delivering
     /\ dir \in [Names -> Inodes \cup {None}]
     /\ inode \in [Inodes -> Files]
     /\ out \in [Procs -> Inodes \cup {None}]
  BY DEF DeliveryInv, BlobInv, ExclusiveInv, TypeOK, FilesOK, JobsOK
<1> SUFFICES ASSUME NEW m \in Copiers, pc'[m] \in {"clone", "copying"}
             PROVE  /\ out'[m] = dir'[Disk(dest'[m])]
                    /\ inode'[out'[m]].content = want'[m]
                    /\ ~inode'[out'[m]].ro
  BY DEF Delivering
<1> DEFINE disk == Disk(dest[m])
<1>1. ASSUME OpenClone(m) \/ OpenCopy(m)
      PROVE  /\ out'[m] = dir'[Disk(dest'[m])]
             /\ inode'[out'[m]].content = want'[m]
             /\ ~inode'[out'[m]].ro
  <2> DEFINE i == dir[Blob(want[m])]
  <2>1. /\ pc[m] \in {"open", "copy"} /\ UNCHANGED jobVars
        /\ i # None /\ CreateNew(m, disk, Copied(i))
    BY <1>1, JobFacts DEF OpenClone, OpenCopy, OpenDisk, Try, Goto
  <2>2. dest[m] \in Disks /\ want[m] \in Keys
    BY <2>1 DEF TypeOK, JobsOK
  <2>3. disk \in Names
    BY <2>2, NameFacts
  <2>4. Copied(i) = want[m]
    BY <2>1, <2>2 DEF BlobWhole, Exists, Image, Copied
  <2>5. /\ NewInode(disk) \in Inodes
        /\ dir'[disk] = NewInode(disk) /\ out'[m] = NewInode(disk)
        /\ inode'[NewInode(disk)] = Opened(want[m])
    <3>1. NewInode(disk) \in Inodes
      BY <2>1, <2>3, NewInodeFacts DEF CreateNew
    <3>. QED BY <2>1, <2>3, <2>4, <3>1 DEF CreateNew
  <2>. QED BY <2>1, <2>5 DEF Opened, jobVars
<1>2. ASSUME Rests(m)
      PROVE  /\ out'[m] = dir'[Disk(dest'[m])]
             /\ inode'[out'[m]].content = want'[m]
             /\ ~inode'[out'[m]].ro
  <2>1. /\ pc[m] \in {"clone", "copying"} /\ pc'[m] = pc[m]
        /\ out'[m] = out[m] /\ want'[m] = want[m] /\ dest'[m] = dest[m]
    BY <1>2 DEF Rests
  <2>2. /\ dest[m] \in Disks /\ disk \in Names /\ disk \in Private
        /\ out[m] = dir[disk] /\ dir[disk] # None
        /\ inode[dir[disk]].content = want[m] /\ ~inode[dir[disk]].ro
    <3>1. dest[m] \in Disks
      BY <2>1 DEF TypeOK, JobsOK
    <3>2. out[m] # None
      BY <2>1, JobFacts DEF Writing
    <3>. QED BY <2>1, <3>1, <3>2, NameFacts, PrivateFacts DEF Delivering
  <2>3. \A d \in Disks : Owned(d) => d # dest[m]
    BY DEF Owned
  <2>4. dir'[disk] = dir[disk]
    <3>1. ~ Release(dest[m])
      BY <2>2, <2>3 DEF Release
    <3>2. \A n \in Copiers : dest[n] = dest[m] => pc'[n] = pc[n]
      <4>1. dest[m] # None
        BY <2>2
      <4>. QED BY <2>1, <4>1 DEF DisksApart
    <3>. QED BY <2>2, <3>1, <3>2, DiskMoves
  <2>5. Same(dir[disk]) \/ Changed(dir[disk])
    <3>1. dir[disk] \in Live(dir', out')
      BY <2>2, <2>4, LiveFacts
    <3>. QED BY <2>2, <3>1, FileChanges
  <2>6. ~ Changed(dir[disk])
    <3>1. ASSUME NEW b \in Builders, Export(b), dir[disk] = dir[Tmp(want[b])]
          PROVE  FALSE
      <4>1. Tmp(want[b]) \in Names /\ Tmp(want[b]) # disk
        BY <2>2, <3>1, JobFacts, NameFacts DEF Export, Goto
      <4>. QED BY <2>2, <3>1, <4>1 DEF Alone
    <3>2. ASSUME NEW k \in Keys, dir[disk] = dir[Blob(k)] PROVE FALSE
      <4>1. Blob(k) \in Names /\ Blob(k) # disk
        BY <2>2, NameFacts
      <4>. QED BY <2>2, <3>2, <4>1 DEF Alone
    <3>3. ASSUME NEW d \in Disks, VmWrite(d), dir[disk] = dir[Disk(d)] PROVE FALSE
      <4>1. Disk(d) \in Names /\ Disk(d) # disk
        BY <2>3, <3>3, NameFacts DEF VmWrite, Disk
      <4>. QED BY <2>2, <3>3, <4>1 DEF Alone
    <3>. QED BY <3>1, <3>2, <3>3 DEF Changed
  <2>. QED BY <2>1, <2>2, <2>4, <2>5, <2>6 DEF Same
<1>. QED BY <1>1, <1>2, CopierMoves

\* What materialize reports done is what it was asked for.
LEMMA DeliversWhole ==
  ASSUME DeliveryInv, [Next]_vars, NEW m \in Copiers, pc[m] # "ok", pc'[m] = "ok"
  PROVE  Delivered(m)'
<1>. TypeOK /\ Alone /\ Delivering
  BY DEF DeliveryInv, BlobInv, ExclusiveInv
<1> DEFINE disk == Disk(dest[m])
           i == dir[disk]
<1>1. Clone(m) \/ CopiedDisk(m)
  BY CopierMoves DEF Rests
<1>2. /\ pc[m] \in {"clone", "copying"} /\ UNCHANGED jobVars /\ dir' = dir
      /\ CloseWritten(m, FALSE) \/ CloseWritten(m, TRUE)
  BY <1>1 DEF Clone, CopiedDisk, Goto
<1>3. /\ disk \in Private /\ out[m] # None
      /\ out[m] = i /\ inode[i].content = want[m] /\ ~inode[i].ro
  <2>1. dest[m] \in Disks /\ out[m] # None
    BY <1>2, JobFacts DEF TypeOK, JobsOK, Writing
  <2>. QED BY <1>2, <2>1, PrivateFacts DEF Delivering
<1>4. i \in Live(dir', out') \cap Inodes /\ i # None
  <2>1. disk \in Names /\ i # None
    BY <1>3, PrivateFacts
  <2>. QED BY <1>2, <2>1, LiveFacts DEF TypeOK, FilesOK
<1>5. inode'[i].content = want[m] /\ inode'[i].whole /\ ~inode'[i].ro
  <2>1. FilesOK /\ JobsOK
    BY DEF TypeOK
  <2> HIDE ConstantsAssumption DEF Procs
  <2>2. m \in Procs
    BY DEF Procs
  <2>3. CASE CloseWritten(m, FALSE)
    BY <1>3, <1>4, <2>1, <2>2, <2>3, CloseWrittenFacts
  <2>4. CASE CloseWritten(m, TRUE)
    BY <1>3, <1>4, <2>1, <2>2, <2>4, CloseWrittenFacts
  <2>. QED BY <1>2, <2>3, <2>4
<1>6. \A n \in Names \ {disk} : dir[n] # i
  BY <1>3, <1>4 DEF Alone
<1>. QED BY <1>2, <1>4, <1>5, <1>6 DEF Delivered, Image, Linked, jobVars

\* When materialize reports success the disk is a complete, writable and
\* private copy of the image asked for, whatever else is built, evicted, killed
\* or cut off meanwhile: as long as no two copies go to one disk at a time.
THEOREM StoreMaterializes ==
  ASSUME Careful
  PROVE  Spec /\ []DisksApart => MaterializesAsRequested
<1>1. Init => DeliveryInv
  <2> SUFFICES ASSUME Init PROVE DeliveryInv
    OBVIOUS
  <2>. QED BY BlobInvInit DEF Init, DeliveryInv, Delivering
<1>2. DisksApart /\ DeliveryInv /\ [Next]_vars => DeliveryInv'
  BY BlobInvStep, DeliveringStep DEF DeliveryInv
<1> DEFINE Delivers == \A m \in Copiers : pc[m] # "ok" /\ pc'[m] = "ok" => Delivered(m)'
<1>3. DeliveryInv /\ [Next]_vars => [Delivers]_vars
  BY DeliversWhole
<1>. QED BY <1>1, <1>2, <1>3, PTL DEF Spec, MaterializesAsRequested

\* A copier keeps to the disk it was asked for.
LEMMA DiskAskedStep ==
  ASSUME TypeOK, DiskAsked, [Next]_vars
  PROVE  DiskAsked'
<1> SUFFICES ASSUME NEW m \in Copiers, dest'[m] # None
             PROVE  \E q \in Requests[m] : q.dest = dest'[m]
  BY DEF DiskAsked
<1> USE LocalFacts DEF jobVars, fileVars
<1>1. CASE dest'[m] = dest[m]
  BY <1>1 DEF DiskAsked
<1>2. ASSUME NEW b \in Builders, Acts(b) PROVE dest'[m] = dest[m]
  <2>1. m # b
    OBVIOUS
  <2>. QED BY <1>2, <2>1, OthersRest DEF Rests
<1>3. ASSUME NEW n \in Copiers, Materialize(n) \/ CopierStep(n) \/ AbortCopy(n)
      PROVE  dest'[m] = dest[m] \/ Materialize(m)
  <2>1. CASE Materialize(n)
    BY <2>1 DEF Materialize, StartJob
  <2>2. CASE MaterializeReturns(n)
    BY <2>2 DEF MaterializeReturns, EndJob
  <2>3. CASE ClearDisk(n) \/ OpenClone(n) \/ OpenCopy(n)
    BY <2>3 DEF ClearDisk, OpenClone, OpenCopy, OpenDisk
  <2>4. CASE Clone(n) \/ CloneDeclined(n) \/ CopiedDisk(n) \/ AbortCopy(n)
    BY <2>4 DEF Clone, CloneDeclined, CopiedDisk, AbortCopy
  <2>. QED BY <1>3, <2>1, <2>2, <2>3, <2>4 DEF CopierStep
<1>4. ASSUME NEW c \in Collectors, List(c) \/ CollectorStep(c) PROVE dest'[m] = dest[m]
  BY <1>4 DEF List, CollectorStep, Keep, Claim, EvictBlob, KeptBusy, Forget
<1>5. CASE Environment
  <2>1. ASSUME NEW p \in Procs, Crash(p) PROVE dest'[m] = dest[m]
    BY <2>1 DEF Crash, EndJob
  <2>2. ~ PowerLoss
    BY DEF PowerLoss
  <2>3. CASE \/ \E d \in Disks : VmWrite(d) \/ Release(d)
             \/ \E d \in Dests : Withdraw(d)
    BY <1>1, <2>3 DEF VmWrite, Release, Withdraw
  <2>. QED BY <1>1, <1>5, <2>1, <2>2, <2>3 DEF Environment
<1>6. CASE UNCHANGED vars
  BY <1>1, <1>6 DEF vars
<1>7. CASE Materialize(m)
  <2>1. PICK q \in Requests[m] : StartJob(m, q)
    BY <1>7 DEF Materialize
  <2>2. dest'[m] = q.dest
    BY <2>1 DEF StartJob
  <2>. QED BY <2>2
<1>. QED BY <1>1, <1>2, <1>3, <1>4, <1>5, <1>6, <1>7 DEF Next, Acts

\* Where every copier is asked for disks of its own, every VM gets its copy.
THEOREM StoreWithOwnDisks ==
  ASSUME Careful, OwnDisks
  PROVE  Spec => MaterializesAsRequested
<1>1. Init => TypeOK /\ DiskAsked
  BY InitTypes DEF Init, DiskAsked
<1>2. TypeOK /\ DiskAsked /\ [Next]_vars => (TypeOK /\ DiskAsked)'
  BY StepTypes, DiskAskedStep
<1>3. DiskAsked => DisksApart
  BY DEF DiskAsked, OwnDisks, DisksApart
<1>. QED BY <1>1, <1>2, <1>3, StoreMaterializes, PTL DEF Spec
=============================================================================
