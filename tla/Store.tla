------------------------------- MODULE Store -------------------------------
(***************************************************************************)
(* The content-addressed image store of vmbuild on a POSIX filesystem      *)
(* (src/store.rs) and the processes that share one store directory:    *)
(*                                                                         *)
(*   builders    `vmbuild build`: solve, lock, look up, export, write the  *)
(*               ext4, put it in the store, install it in the catalog      *)
(*               (src/build.rs);                                       *)
(*   copiers     `vmbuild materialize`: a writable private copy for a VM;  *)
(*   collectors  `vmbuild cache gc`.                                       *)
(*                                                                         *)
(* Each action is one step another process can observe: a system call on   *)
(* a shared file, or the flock.  Only builders take the lock of a key;     *)
(* copiers and collectors run without it, as the code does.                *)
(*                                                                         *)
(* A file is an inode and the names bound to it.  An image is known by the *)
(* key it was built for: content k is "the image of k", content None is    *)
(* "no key's image".                                                       *)
(***************************************************************************)

CONSTANTS
  Keys,        (* the recipe keys                                          *)
  Dests,       (* the catalog names an image can be installed under        *)
  Disks,       (* the VM disk paths materialize can write                  *)
  Builders, Copiers, Collectors,       (* the processes                    *)
  Inodes,      (* the inodes of the filesystem                             *)
  Pool,        (* the inodes a file created under each name is given       *)
  None,        (* no file, no key, no process, no destination              *)
  Stem,        (* the stem of a catalog name: with_extension keys on it    *)
  Requests,    (* what each builder and copier may be asked to do          *)
  Linkable,    (* the catalog names to which a link is never refused       *)
  Clonable,    (* the disks on a filesystem that shares blocks (FICLONE)   *)
  Renames,     (* whether tmp/ and blobs/ are on one filesystem            *)
  Journal,     (* whether images get a journal (Ext4Options.journal)       *)
  Faults       (* what may go wrong                                        *)

Procs == Builders \cup Copiers \cup Collectors

Blob(k) == <<"blob", k>>          \* blobs/<key>.ext4
\* Mutant of Tmp: the image is built straight under its final name.
TmpInPlace(k) == <<"blob", k>>

Tmp(k)  == <<"tmp", k>>           \* tmp/<key>.building
Cat(d)  == <<"cat", d>>           \* a catalog name
\* Mutant of Part: the destination is written without staging.
PartUnstaged(d) == <<"cat", d>>

Part(d) == <<"part", Stem[d]>>    \* <dest>.ext4.part
Disk(d) == <<"disk", d>>          \* a VM disk

Names == ({"blob", "tmp"} \X Keys) \cup ({"cat", "part"} \X Dests)
           \cup ({"disk"} \X Disks)

ASSUME ConstantsAssumption ==
  /\ None \notin Keys \cup Dests \cup Disks \cup Procs \cup Inodes
  /\ Builders \cap Copiers = {}
  /\ Builders \cap Collectors = {}
  /\ Copiers \cap Collectors = {}
  /\ Pool \in [Names -> SUBSET Inodes]
  /\ Stem \in [Dests -> Dests]
  /\ Requests \in [Builders \cup Copiers ->
       SUBSET [key : Keys, dest : Dests \cup Disks \cup {None}, refresh : BOOLEAN]]
  /\ \A b \in Builders : \A q \in Requests[b] : q.dest \in Dests \cup {None}
  /\ \A m \in Copiers : \A q \in Requests[m] : q.dest \in Disks /\ ~q.refresh
  /\ Linkable \subseteq Dests
  /\ Clonable \subseteq Disks
  /\ Renames \in BOOLEAN
  /\ Journal \in BOOLEAN
  /\ Faults \subseteq {"crash", "power", "io", "drift", "busy"}

VARIABLES
  dir,         (* the file each name is bound to, None if it does not exist *)
  inode,       (* the bytes and the mode of each file                      *)
  meta,        (* the keys that have a meta/<key>.json                     *)
  lock,        (* the process holding the flock of each key                *)
  pc,          (* where each process is                                    *)
  want,        (* the key each process works on                            *)
  dest,        (* the destination each process works on                    *)
  refresh,     (* the builders asked to ignore a cached image              *)
  out,         (* the file each process is writing through a descriptor    *)
  todo         (* the entries each collector has listed and not yet seen   *)

vars == <<dir, inode, meta, lock, pc, want, dest, refresh, out, todo>>
fileVars == <<dir, inode>>
jobVars == <<want, dest, refresh>>

-----------------------------------------------------------------------------
(* Files.                                                                  *)

Files == [content : Keys \cup {None}, whole : BOOLEAN,
          synced : BOOLEAN, ro : BOOLEAN]

Unused == [content |-> None, whole |-> FALSE, synced |-> FALSE, ro |-> FALSE]

Exists(n) == dir[n] # None

\* File i holds the complete image of k.
Image(i, k) == i # None /\ inode[i].whole /\ inode[i].content = k

\* st_nlink > 1
Linked(n) == \E m \in Names \ {n} : dir[m] = dir[n]

\* The files reachable from a name of d or from an open descriptor of o.
Live(d, o) == {d[n] : n \in Names} \cup {o[p] : p \in Procs}

\* The kernel frees a file when its last name and descriptor are gone.
Reclaim(f, d, o) ==
  LET live == Live(d, o)
  IN [i \in Inodes |-> IF i \in live THEN f[i] ELSE Unused]

Free(n) == Pool[n] \ Live(dir, out)

\* Which free inode the kernel hands out is immaterial.
NewInode(n) == CHOOSE i \in Free(n) : TRUE

\* A file just created or truncated, about to receive content c.
Opened(c) == [content |-> c, whole |-> FALSE, synced |-> FALSE, ro |-> FALSE]

\* What a copy of file i will hold: a copy of a partial image is no image.
Copied(i) == IF inode[i].whole THEN inode[i].content ELSE None

Unlinked(n) == [dir EXCEPT ![n] = None]

\* rename(2): replaces the target; does nothing between two links to one file.
Renamed(a, b) == IF dir[a] = dir[b] THEN dir
                 ELSE [dir EXCEPT ![b] = dir[a], ![a] = None]

\* open(O_CREAT|O_EXCL) of n by process p, to be filled with content c.
CreateNew(p, n, c) ==
  /\ Free(n) # {}
  /\ dir' = [dir EXCEPT ![n] = NewInode(n)]
  /\ out' = [out EXCEPT ![p] = NewInode(n)]
  /\ inode' = [inode EXCEPT ![NewInode(n)] = Opened(c)]
\* Mutant of CloseWritten: the descriptor leaks.
CloseLeaks(p, durable) ==
  /\ out' = out
  /\ inode' = [inode EXCEPT ![out[p]].whole = TRUE, ![out[p]].synced = durable]

\* The last write and the close of the file p is writing.
CloseWritten(p, durable) ==
  /\ out' = [out EXCEPT ![p] = None]
  /\ inode' = Reclaim([inode EXCEPT ![out[p]].whole = TRUE,
                                    ![out[p]].synced = durable], dir', out')

\* unlink(2) of n; a name that is already gone is not an error.
RemoveFile(n) ==
  /\ dir' = Unlinked(n)
  /\ inode' = Reclaim(inode, dir', out)

-----------------------------------------------------------------------------
(* Control.                                                                *)

Goto(p, from, to) == pc[p] = from /\ pc' = [pc EXCEPT ![p] = to]

\* The two ways a fallible step continues.
Try(p, from, ok, to) == Goto(p, from, IF ok THEN to ELSE "err")

Init ==
  /\ dir = [n \in Names |-> None]
  /\ inode = [i \in Inodes |-> Unused]
  /\ meta = {}
  /\ lock = [k \in Keys |-> None]
  /\ pc = [p \in Procs |-> "idle"]
  /\ want = [p \in Procs |-> None]
  /\ dest = [p \in Procs |-> None]
  /\ refresh = [p \in Procs |-> FALSE]
  /\ out = [p \in Procs |-> None]
  /\ todo = [p \in Procs |-> {}]

StartJob(p, q) ==
  /\ want' = [want EXCEPT ![p] = q.key]
  /\ dest' = [dest EXCEPT ![p] = q.dest]
  /\ refresh' = [refresh EXCEPT ![p] = q.refresh]

\* p's request is over: its locals are dropped.
EndJob(p) ==
  /\ want' = [want EXCEPT ![p] = None]
  /\ dest' = [dest EXCEPT ![p] = None]
  /\ refresh' = [refresh EXCEPT ![p] = FALSE]

-----------------------------------------------------------------------------
(* Builders: the pipeline of build().                                      *)

\* A request arrives and BuildKit says which diffIDs, hence which key, its
\* Dockerfile builds to.
Solve(b) ==
  /\ Goto(b, "idle", "lock")
  /\ \E q \in Requests[b] : StartJob(b, q)
  /\ UNCHANGED <<fileVars, meta, lock, out, todo>>
\* Mutant of Lock: the lock of another process is no obstacle.
LockUnguarded(b) ==
  /\ Goto(b, "lock", "get")
  /\ lock' = [lock EXCEPT ![want[b]] = b]
  /\ UNCHANGED <<fileVars, meta, jobVars, out, todo>>

Lock(b) ==
  /\ Goto(b, "lock", "get")
  /\ lock[want[b]] = None
  /\ lock' = [lock EXCEPT ![want[b]] = b]
  /\ UNCHANGED <<fileVars, meta, jobVars, out, todo>>

\* get(): is there a blob?
Get(b) ==
  /\ Goto(b, "get", IF Exists(Blob(want[b])) THEN "entry" ELSE "export")
  /\ UNCHANGED <<fileVars, meta, lock, jobVars, out, todo>>

\* get() touches an entry even when the caller is going to rebuild it.
AfterGet(b) == IF refresh[b] THEN "export" ELSE "stat"

ReadEntry(b) ==
  /\ Goto(b, "entry", IF want[b] \in meta THEN "touch" ELSE AfterGet(b))
  /\ UNCHANGED <<fileVars, meta, lock, jobVars, out, todo>>

\* get() ignores that the entry could not be written back.
Touch(b) ==
  /\ Goto(b, "touch", AfterGet(b))
  /\ \/ meta' = meta \cup {want[b]}
     \/ "io" \in Faults /\ meta' = meta
  /\ UNCHANGED <<fileVars, lock, jobVars, out, todo>>

\* The rootfs a second buildx run exports is the one that was solved, unless
\* the sources drifted in between.
Exports(k) == IF "drift" \in Faults THEN Keys ELSE {k}

\* Export the rootfs and open tmp/<key>.building, truncating what an earlier
\* builder left there.
Export(b) ==
  LET k == want[b]
      i == IF Exists(Tmp(k)) THEN dir[Tmp(k)] ELSE NewInode(Tmp(k))
  IN /\ Goto(b, "export", "format")
     /\ Exists(Tmp(k)) \/ Free(Tmp(k)) # {}
     /\ \E c \in Exports(k) : inode' = [inode EXCEPT ![i] = Opened(c)]
     /\ dir' = [dir EXCEPT ![Tmp(k)] = i]
     /\ out' = [out EXCEPT ![b] = i]
     /\ UNCHANGED <<meta, lock, jobVars, todo>>
\* Mutant of Format: nothing fsyncs the staging file.
FormatUnsynced(b) ==
  /\ Goto(b, "format", "put")
  /\ dir' = dir
  /\ CloseWritten(b, FALSE)
  /\ UNCHANGED <<meta, lock, jobVars, todo>>

\* write_ext4_from_tar finishes.  The only fsync on its path is the last line
\* of normalize_timestamps, which runs for images with a journal.
Format(b) ==
  /\ Goto(b, "format", "put")
  /\ dir' = dir
  /\ CloseWritten(b, Journal)
  /\ UNCHANGED <<meta, lock, jobVars, todo>>

\* A staging file that is gone fails either way.
PutRename(b) ==
  LET k == want[b]
  IN /\ Renames
     /\ Try(b, "put", Exists(Tmp(k)), "seal")
     /\ dir' = IF Exists(Tmp(k)) THEN Renamed(Tmp(k), Blob(k)) ELSE dir
     /\ inode' = Reclaim(inode, dir', out)
     /\ UNCHANGED <<meta, lock, jobVars, out, todo>>

\* EXDEV: put copies straight into the blob's final name.
PutCopy(b) ==
  LET k  == want[b]
      ok == Exists(Tmp(k)) /\ ~Exists(Blob(k))
  IN /\ ~Renames
     /\ Try(b, "put", ok, "copy_in")
     /\ IF ok THEN CreateNew(b, Blob(k), Copied(dir[Tmp(k)]))
        ELSE UNCHANGED <<fileVars, out>>
     /\ UNCHANGED <<meta, lock, jobVars, todo>>

PutCopied(b) ==
  /\ Goto(b, "copy_in", "seal")
  /\ dir' = Unlinked(Tmp(want[b]))
  /\ CloseWritten(b, TRUE)
  /\ UNCHANGED <<meta, lock, jobVars, todo>>
\* Mutant of Seal: the mode is left alone.
SealSkipped(b) ==
  /\ Try(b, "seal", Exists(Blob(want[b])), "sync")
  /\ UNCHANGED <<fileVars, meta, lock, jobVars, out, todo>>

\* chmod 0444; a collector may have unlinked the blob meanwhile.
Seal(b) ==
  LET i == dir[Blob(want[b])]
  IN /\ Try(b, "seal", i # None, "sync")
     /\ inode' = IF i = None THEN inode ELSE [inode EXCEPT ![i].ro = TRUE]
     /\ UNCHANGED <<dir, meta, lock, jobVars, out, todo>>
\* fsync, which may fail unnoticed, and measure.
Sync(b) ==
  LET i == dir[Blob(want[b])]
  IN /\ Try(b, "sync", i # None, "record")
     /\ \/ inode' = IF i = None THEN inode ELSE [inode EXCEPT ![i].synced = TRUE]
        \/ "io" \in Faults /\ inode' = inode
     /\ UNCHANGED <<dir, meta, lock, jobVars, out, todo>>

\* write_meta: tmp/<key>.json renamed over meta/<key>.json.
WriteMeta(b) ==
  /\ Goto(b, "record", "stat")
  /\ meta' = meta \cup {want[b]}
  /\ UNCHANGED <<fileVars, lock, jobVars, out, todo>>

\* build() measures the blob, then installs it if it was asked to.
Stat(b) ==
  /\ Try(b, "stat", Exists(Blob(want[b])),
         IF dest[b] = None THEN "ok" ELSE "check")
  /\ UNCHANGED <<fileVars, meta, lock, jobVars, out, todo>>

-----------------------------------------------------------------------------
(* Builders: install().                                                    *)
\* Mutant of CheckInstall: any file under the name counts as installed.
CheckInstallByName(b) ==
  /\ Try(b, "check", Exists(Blob(want[b])),
         IF Exists(Cat(dest[b])) THEN "ok" ELSE "clear")
  /\ UNCHANGED <<fileVars, meta, lock, jobVars, out, todo>>

\* Nothing to do when the destination already is a link to the blob.
CheckInstall(b) ==
  LET i == dir[Blob(want[b])]
  IN /\ Try(b, "check", i # None,
            IF dir[Cat(dest[b])] = i THEN "ok" ELSE "clear")
     /\ UNCHANGED <<fileVars, meta, lock, jobVars, out, todo>>

ClearPart(b) ==
  /\ Goto(b, "clear", "link")
  /\ RemoveFile(Part(dest[b]))
  /\ UNCHANGED <<meta, lock, jobVars, out, todo>>

\* Stage the image as <dest>.ext4.part: a hard link to the blob, or a private
\* copy where the link is refused: between filesystems always, elsewhere when
\* the blob is another user's (fs.protected_hardlinks).
LinkPart(b) ==
  LET i    == dir[Blob(want[b])]
      part == Part(dest[b])
      ok   == i # None /\ ~Exists(part)
  IN \E link \in IF dest[b] \in Linkable THEN {TRUE} ELSE BOOLEAN :
       /\ Try(b, "link", ok, IF link THEN "publish" ELSE "copy_out")
       /\ IF ok /\ link
            THEN dir' = [dir EXCEPT ![part] = i] /\ UNCHANGED <<inode, out>>
          ELSE IF ok THEN CreateNew(b, part, Copied(i))
          ELSE UNCHANGED <<fileVars, out>>
       /\ UNCHANGED <<meta, lock, jobVars, todo>>

CopiedPart(b) ==
  /\ Goto(b, "copy_out", "publish")
  /\ dir' = dir
  /\ CloseWritten(b, TRUE)
  /\ UNCHANGED <<meta, lock, jobVars, todo>>

Publish(b) ==
  LET part == Part(dest[b])
  IN /\ Try(b, "publish", Exists(part), "tidy")
     /\ dir' = IF Exists(part) THEN Renamed(part, Cat(dest[b])) ELSE dir
     /\ inode' = Reclaim(inode, dir', out)
     /\ UNCHANGED <<meta, lock, jobVars, out, todo>>

Tidy(b) ==
  /\ Goto(b, "tidy", "ok")
  /\ RemoveFile(Part(dest[b]))
  /\ UNCHANGED <<meta, lock, jobVars, out, todo>>

\* build() returns; the guard drops.
Unlock(b) ==
  /\ pc[b] \in {"ok", "err"}
  /\ pc' = [pc EXCEPT ![b] = "idle"]
  /\ lock' = [lock EXCEPT ![want[b]] = None]
  /\ EndJob(b)
  /\ UNCHANGED <<fileVars, meta, out, todo>>

\* The steps that return the error of a call they make.
Fallible == {"export", "format", "put", "copy_in", "seal", "sync", "record",
             "stat", "check", "link", "copy_out", "publish"}

\* Such a call fails (a full disk, no e2fsprogs): what was done and written so
\* far stays behind, be it a blob that has its name but no metadata.
Abort(b) ==
  /\ "io" \in Faults
  /\ pc[b] \in Fallible
  /\ pc' = [pc EXCEPT ![b] = "err"]
  /\ out' = [out EXCEPT ![b] = None]
  /\ inode' = Reclaim(inode, dir, out')
  /\ UNCHANGED <<dir, meta, lock, jobVars, todo>>

-----------------------------------------------------------------------------
(* Copiers: materialize().                                                 *)

Materialize(m) ==
  /\ Goto(m, "idle", "clear")
  /\ \E q \in Requests[m] : Exists(Blob(q.key)) /\ StartJob(m, q)
  /\ UNCHANGED <<fileVars, meta, lock, out, todo>>

ClearDisk(m) ==
  /\ Goto(m, "clear", "open")
  /\ RemoveFile(Disk(dest[m]))
  /\ UNCHANGED <<meta, lock, jobVars, out, todo>>
\* Mutant of OpenDisk: the disk is a hard link to the blob.
OpenDiskLinked(m, from, to) ==
  LET i == dir[Blob(want[m])]
  IN /\ Try(m, from, i # None /\ ~Exists(Disk(dest[m])), "ok")
     /\ dir' = IF Exists(Disk(dest[m])) THEN dir
               ELSE [dir EXCEPT ![Disk(dest[m])] = i]
     /\ UNCHANGED <<inode, meta, lock, jobVars, out, todo>>

\* Open the blob and create the disk, for the clone and then for the copy.
OpenDisk(m, from, to) ==
  LET i    == dir[Blob(want[m])]
      disk == Disk(dest[m])
      ok   == i # None /\ ~Exists(disk)
  IN /\ Try(m, from, ok, to)
     /\ IF ok THEN CreateNew(m, disk, Copied(i)) ELSE UNCHANGED <<fileVars, out>>
     /\ UNCHANGED <<meta, lock, jobVars, todo>>

OpenClone(m) == OpenDisk(m, "open", "clone")

Clone(m) ==
  /\ dest[m] \in Clonable
  /\ Goto(m, "clone", "ok")
  /\ dir' = dir
  /\ CloseWritten(m, FALSE)
  /\ UNCHANGED <<meta, lock, jobVars, todo>>
\* Mutant of CloneDeclined: the refusal is reported as a clone.
CloneDeclinedIgnored(m) ==
  /\ dest[m] \notin Clonable
  /\ Goto(m, "clone", "ok")
  /\ dir' = Unlinked(Disk(dest[m]))
  /\ out' = [out EXCEPT ![m] = None]
  /\ inode' = Reclaim(inode, dir', out')
  /\ UNCHANGED <<meta, lock, jobVars, todo>>

\* The filesystem declines: the empty disk is removed again.
CloneDeclined(m) ==
  /\ dest[m] \notin Clonable
  /\ Goto(m, "clone", "copy")
  /\ dir' = Unlinked(Disk(dest[m]))
  /\ out' = [out EXCEPT ![m] = None]
  /\ inode' = Reclaim(inode, dir', out')
  /\ UNCHANGED <<meta, lock, jobVars, todo>>

OpenCopy(m) == OpenDisk(m, "copy", "copying")

CopiedDisk(m) ==
  /\ Goto(m, "copying", "ok")
  /\ dir' = dir
  /\ CloseWritten(m, TRUE)
  /\ UNCHANGED <<meta, lock, jobVars, todo>>

MaterializeReturns(m) ==
  /\ pc[m] \in {"ok", "err"}
  /\ pc' = [pc EXCEPT ![m] = "idle"]
  /\ EndJob(m)
  /\ UNCHANGED <<fileVars, meta, lock, out, todo>>

\* A call fails (a full disk): a partial copy stays, the empty disk of a clone
\* is removed.
AbortCopy(m) ==
  /\ "io" \in Faults
  /\ pc[m] \in {"open", "clone", "copy", "copying"}
  /\ pc' = [pc EXCEPT ![m] = "err"]
  /\ dir' = IF pc[m] = "clone" THEN Unlinked(Disk(dest[m])) ELSE dir
  /\ out' = [out EXCEPT ![m] = None]
  /\ inode' = Reclaim(inode, dir', out')
  /\ UNCHANGED <<meta, lock, jobVars, todo>>

-----------------------------------------------------------------------------
(* Collectors: gc().  Which entries are over the size budget or too old is *)
(* data of module Gc; here a policy may pick any of the listed ones.       *)

List(c) ==
  /\ meta # {}
  /\ Goto(c, "idle", "scan")
  /\ todo' = [todo EXCEPT ![c] = meta]
  /\ UNCHANGED <<fileVars, meta, lock, jobVars, out>>
\* Done with entry k: go on, or end the pass.
Done(c, k) ==
  LET rest == todo[c] \ {k}
  IN /\ todo' = [todo EXCEPT ![c] = rest]
     /\ pc' = [pc EXCEPT ![c] = IF rest = {} THEN "idle" ELSE "scan"]

\* Kept: within the policy, or still linked somewhere.
Keep(c) ==
  /\ pc[c] = "scan"
  /\ \E k \in todo[c] : Done(c, k)
  /\ UNCHANGED <<fileVars, meta, lock, jobVars, out>>
\* Mutant of Claim: the link count is not looked at.
ClaimLinked(c) ==
  /\ Goto(c, "scan", "evict")
  /\ \E k \in todo[c] : want' = [want EXCEPT ![c] = k]
  /\ UNCHANGED <<fileVars, meta, lock, dest, refresh, out, todo>>

Claim(c) ==
  /\ Goto(c, "scan", "evict")
  /\ \E k \in todo[c] :
       /\ Exists(Blob(k)) => ~Linked(Blob(k))
       /\ want' = [want EXCEPT ![c] = k]
  /\ UNCHANGED <<fileVars, meta, lock, dest, refresh, out, todo>>

\* First half of the two-phase delete.
EvictBlob(c) ==
  /\ Goto(c, "evict", "forget")
  /\ RemoveFile(Blob(want[c]))
  /\ UNCHANGED <<meta, lock, jobVars, out, todo>>
\* Mutant of KeptBusy: the metadata goes although the blob stays.
KeptBusyForgotten(c) ==
  /\ "busy" \in Faults
  /\ pc[c] = "evict"
  /\ Exists(Blob(want[c]))
  /\ Done(c, want[c])
  /\ want' = [want EXCEPT ![c] = None]
  /\ meta' = meta \ {want[c]}
  /\ UNCHANGED <<fileVars, lock, dest, refresh, out>>

\* The blob cannot be removed: it keeps its metadata.
KeptBusy(c) ==
  /\ "busy" \in Faults
  /\ pc[c] = "evict"
  /\ Exists(Blob(want[c]))
  /\ Done(c, want[c])
  /\ want' = [want EXCEPT ![c] = None]
  /\ UNCHANGED <<fileVars, meta, lock, dest, refresh, out>>

Forget(c) ==
  /\ pc[c] = "forget"
  /\ meta' = meta \ {want[c]}
  /\ want' = [want EXCEPT ![c] = None]
  /\ \/ Done(c, want[c])
     \/ /\ todo' = [todo EXCEPT ![c] = {}]         \* stopped_early
        /\ pc' = [pc EXCEPT ![c] = "idle"]
  /\ UNCHANGED <<fileVars, lock, dest, refresh, out>>

-----------------------------------------------------------------------------
(* The environment.                                                        *)
\* Mutant of Crash: the lock outlives its holder.
CrashKeepsLock(p) ==
  /\ "crash" \in Faults
  /\ pc[p] # "idle"
  /\ pc' = [pc EXCEPT ![p] = "idle"]
  /\ EndJob(p)
  /\ out' = [out EXCEPT ![p] = None]
  /\ todo' = [todo EXCEPT ![p] = {}]
  /\ inode' = Reclaim(inode, dir, out')
  /\ UNCHANGED <<dir, meta, lock>>

\* A process is killed: the kernel closes its files and drops its locks.
Crash(p) ==
  /\ "crash" \in Faults
  /\ pc[p] # "idle"
  /\ pc' = [pc EXCEPT ![p] = "idle"]
  /\ lock' = [k \in Keys |-> IF lock[k] = p THEN None ELSE lock[k]]
  /\ EndJob(p)
  /\ out' = [out EXCEPT ![p] = None]
  /\ todo' = [todo EXCEPT ![p] = {}]
  /\ inode' = Reclaim(inode, dir, out')
  /\ UNCHANGED <<dir, meta>>

\* The machine loses power: names are journalled, bytes nobody fsynced may
\* be lost, those of the metadata among them: nothing fsyncs those.
PowerLoss ==
  /\ "power" \in Faults
  /\ pc' = [p \in Procs |-> "idle"]
  /\ lock' = [k \in Keys |-> None]
  /\ want' = [p \in Procs |-> None]
  /\ dest' = [p \in Procs |-> None]
  /\ refresh' = [p \in Procs |-> FALSE]
  /\ out' = [p \in Procs |-> None]
  /\ todo' = [p \in Procs |-> {}]
  /\ \E lost \in SUBSET {i \in Inodes : inode[i].whole /\ ~inode[i].synced} :
       inode' = Reclaim([i \in Inodes |-> IF i \in lost
                           THEN [inode[i] EXCEPT !.whole = FALSE] ELSE inode[i]],
                        dir, out')
  /\ meta' \in SUBSET meta
  /\ dir' = dir

\* The owner of a disk uses it only between materialize and release.
Owned(d) == Exists(Disk(d)) /\ \A m \in Copiers : dest[m] # d

\* The VM writes to its disk.
VmWrite(d) ==
  /\ Owned(d)
  /\ ~inode[dir[Disk(d)]].ro
  /\ inode' = [inode EXCEPT ![dir[Disk(d)]].content = None,
                            ![dir[Disk(d)]].synced = FALSE]
  /\ UNCHANGED <<dir, meta, lock, pc, jobVars, out, todo>>

\* release(): the VM is gone.
Release(d) ==
  /\ Owned(d)
  /\ RemoveFile(Disk(d))
  /\ UNCHANGED <<meta, lock, pc, jobVars, out, todo>>

\* heyvm drops an image from its catalog.
Withdraw(d) ==
  /\ Exists(Cat(d))
  /\ RemoveFile(Cat(d))
  /\ UNCHANGED <<meta, lock, pc, jobVars, out, todo>>

-----------------------------------------------------------------------------

BuilderStep(b) ==
  \/ Get(b) \/ ReadEntry(b) \/ Touch(b) \/ Export(b) \/ Format(b)
  \/ PutRename(b) \/ PutCopy(b) \/ PutCopied(b) \/ Seal(b) \/ Sync(b)
  \/ WriteMeta(b) \/ Stat(b) \/ CheckInstall(b) \/ ClearPart(b)
  \/ LinkPart(b) \/ CopiedPart(b) \/ Publish(b) \/ Tidy(b) \/ Unlock(b)

CopierStep(m) ==
  \/ ClearDisk(m) \/ OpenClone(m) \/ Clone(m) \/ CloneDeclined(m)
  \/ OpenCopy(m) \/ CopiedDisk(m) \/ MaterializeReturns(m)

CollectorStep(c) ==
  \/ Keep(c) \/ Claim(c) \/ EvictBlob(c) \/ KeptBusy(c) \/ Forget(c)

Environment ==
  \/ \E p \in Procs : Crash(p)
  \/ PowerLoss
  \/ \E d \in Disks : VmWrite(d) \/ Release(d)
  \/ \E d \in Dests : Withdraw(d)

Next ==
  \/ \E b \in Builders : Solve(b) \/ Lock(b) \/ BuilderStep(b) \/ Abort(b)
  \/ \E m \in Copiers : Materialize(m) \/ CopierStep(m) \/ AbortCopy(m)
  \/ \E c \in Collectors : List(c) \/ CollectorStep(c)
  \/ Environment

Spec == Init /\ [][Next]_vars

\* Every started process keeps running, and the kernel grants a lock that is
\* released again and again to each process that waits for it.
Fairness ==
  /\ \A b \in Builders : WF_vars(BuilderStep(b)) /\ SF_vars(Lock(b))
  /\ \A m \in Copiers : WF_vars(CopierStep(m))
  /\ \A c \in Collectors : WF_vars(CollectorStep(c))

FairSpec == Spec /\ Fairness

\* Maintenance in a quiet store: gc does not overlap a build.
Quiet ==
  (\E c \in Collectors : pc[c] # "idle") => \A b \in Builders : pc[b] = "idle"

QuietSpec == Init /\ [][Next /\ Quiet']_vars

-----------------------------------------------------------------------------
(* Properties.                                                             *)

BuilderPc == {"idle", "lock", "get", "entry", "touch", "export", "format", "put",
              "copy_in", "seal", "sync", "record", "stat", "check", "clear",
              "link", "copy_out", "publish", "tidy", "ok", "err"}
InstallPc == {"check", "clear", "link", "copy_out", "publish", "tidy"}
CopierPc == {"idle", "clear", "open", "clone", "copy", "copying", "ok", "err"}
CollectorPc == {"idle", "scan", "evict", "forget"}
PcOf(p) == IF p \in Builders THEN BuilderPc
           ELSE IF p \in Copiers THEN CopierPc ELSE CollectorPc

\* Where a process is writing a file.
Writing == {"format", "copy_in", "copy_out", "clone", "copying"}

FilesOK ==
  /\ dir \in [Names -> Inodes \cup {None}]
  /\ inode \in [Inodes -> Files]
  /\ meta \subseteq Keys

JobsOK ==
  /\ lock \in [Keys -> Builders \cup {None}]
  /\ pc \in [Procs -> BuilderPc \cup CopierPc \cup CollectorPc]
  /\ \A p \in Procs : pc[p] \in PcOf(p)
  /\ want \in [Procs -> Keys \cup {None}]
  /\ \A p \in Procs : want[p] = None <=> pc[p] \in {"idle", "scan"}
  /\ dest \in [Procs -> Dests \cup Disks \cup {None}]
  /\ \A b \in Builders : dest[b] \in Dests \cup {None}
  /\ \A b \in Builders : pc[b] \in InstallPc => dest[b] # None
  /\ \A m \in Copiers : pc[m] # "idle" => dest[m] \in Disks
  /\ refresh \in [Procs -> BOOLEAN]
  /\ out \in [Procs -> Inodes \cup {None}]
  /\ \A p \in Procs : out[p] # None <=> pc[p] \in Writing
  /\ todo \in [Procs -> SUBSET Keys]

\* Every variable has its type; a process has a key, a destination and an
\* open descriptor exactly where its code does.
TypeOK == FilesOK /\ JobsOK

\* No two processes ever write through descriptors of one file: the lock of a
\* key keeps tmp/<key>.building to a single builder, and a staging name is
\* cleared before it is created anew (store.rs 203-225, 342, 383-384).
OneWriterPerFile ==
  \A p, q \in Procs : out[p] = out[q] /\ out[p] # None => p = q

\* A name in blobs/ always holds the complete image of its key: building in
\* tmp/ and renaming hides every partial state, whoever is killed when
\* (store.rs 303-307).
BlobWhole == \A k \in Keys : Exists(Blob(k)) => Image(dir[Blob(k)], k)

\* While put copies across filesystems, the lock of the key hides the blob from
\* every other build until its last byte is written; what a killed copy leaves
\* is met by the next build, for nobody writes it any more (store.rs 311-314).
HitsFinishedBlobs ==
  [][\A b \in Builders : pc[b] = "get" /\ pc'[b] = "entry" =>
       \A p \in Procs : out[p] # dir[Blob(want[b])]]_vars

\* A catalog name always holds a complete image: "a crash never leaves a
\* truncated .ext4 that a sandbox create would happily try to boot"
\* (store.rs 348-350).
CatalogWhole ==
  \A d \in Dests : Exists(Cat(d)) => \E k \in Keys : Image(dir[Cat(d)], k)

\* The same, once no install to the name is under way.
CatalogWholeAtRest ==
  \A d \in Dests : Exists(Cat(d)) /\ (\A b \in Builders : dest[b] # d)
    => \E k \in Keys : Image(dir[Cat(d)], k)

\* A blob nobody is working on is sealed 0444 (store.rs 317-318).
Sealed ==
  \A k \in Keys : lock[k] = None /\ Exists(Blob(k)) => inode[dir[Blob(k)]].ro

\* A blob nobody is working on is listed, so that a later gc can find it: it
\* is no "invisible garbage" (store.rs 518-523).
Recorded ==
  \A k \in Keys : lock[k] = None /\ Exists(Blob(k)) => k \in meta

\* Builders never make one another fail: with nothing else going on, every
\* build of every key succeeds.
NoSpuriousFailure == \A b \in Builders : pc[b] # "err"

\* When install reports success, its destination holds the image of the key
\* it was asked to install (store.rs 345-350).
InstallsAsRequested ==
  [][\A b \in Builders :
       pc[b] \in {"check", "publish"} /\ pc'[b] \in {"ok", "tidy"}
         => Image(dir[Cat(dest[b])], want[b])']_vars

\* What a catalog name holds changes only by being withdrawn or installed
\* again: neither a rebuild of its key, nor an eviction, nor a write to a VM
\* disk, nor a loss of power alters the image under it.
CatalogStable ==
  [][\A d \in Dests, k \in Keys : Image(dir[Cat(d)], k) =>
       \/ dir'[Cat(d)] = None
       \/ Image(dir[Cat(d)], k)'
       \/ \E b \in Builders :
            dest[b] = d /\ pc[b] = "publish" /\ pc'[b] = "tidy"]_vars

\* The disk of copier m is a complete, writable, private copy.
Delivered(m) ==
  LET i == dir[Disk(dest[m])]
  IN Image(i, want[m]) /\ ~inode[i].ro /\ ~Linked(Disk(dest[m]))

\* When materialize reports success, the disk is a complete, writable and
\* private copy of the image asked for (store.rs 402-413).
MaterializesAsRequested ==
  [][\A m \in Copiers : pc[m] # "ok" /\ pc'[m] = "ok" => Delivered(m)']_vars

\* gc never takes the blob of an installed image: "an entry whose blob has
\* st_nlink > 1 is referenced by an installed catalog name and is never
\* evicted" (store.rs 469-470).
EvictionSparesInstalled ==
  [][\A c \in Collectors : pc[c] = "evict" /\ pc'[c] = "forget" =>
       \A d \in Dests : dir[Cat(d)] = dir[Blob(want[c])] => dir[Cat(d)] = None]_vars

\* A builder waiting for a lock gets it and its build returns.
WaiterReturns == \A b \in Builders : pc[b] = "lock" ~> pc[b] = "idle"
=============================================================================
