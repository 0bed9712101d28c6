------------------------------ MODULE ZfsStore ------------------------------
(***************************************************************************)
(* The ZFS backend of the image store (src/zfs.rs): a dataset, a @ready    *)
(* snapshot and a metadata file per image, a clone per materialized disk.  *)
(* The processes are those of module Store: builders, which hold the lock  *)
(* of their key, copiers and collectors, which hold none.                  *)
(*                                                                         *)
(* Each action is one zfs(8) command, or one open or close of a file.  The *)
(* kernel keeps the clone graph: destroying an image that a clone or an    *)
(* open file depends on fails with "dataset is busy".  Every dataset is a  *)
(* filesystem of its own, so a rename or a hard link between two of them   *)
(* fails with EXDEV.                                                       *)
(***************************************************************************)

CONSTANTS
  Keys,        (* the recipe keys                                          *)
  Dests,       (* the catalog names an image can be installed under        *)
  Disks,       (* the paths materialize can be asked to write              *)
  Builders, Copiers, Collectors,       (* the processes                    *)
  None,        (* no key, no process, no destination, no clone             *)
  Worlds       (* the sets of things that may go wrong in one behaviour    *)

Procs == Builders \cup Copiers \cup Collectors

\* A process may be killed, a disk may be full, a dataset may be in use by
\* others, and gc may run while builds do.
Hazards == {"crash", "io", "busy", "overlap"}

ASSUME ZfsAssumption ==
  /\ None \notin Keys \cup Dests \cup Disks \cup Procs
  /\ "partial" \notin Keys /\ None # "partial"
  /\ Builders \cap Copiers = {}
  /\ Builders \cap Collectors = {}
  /\ Copiers \cap Collectors = {}
  /\ Worlds \subseteq SUBSET Hazards

VARIABLES
  image,       (* the dataset of each key                                  *)
  meta,        (* the keys that have a meta/<key>.json                     *)
  clone,       (* the clone behind each disk: what it shows, None if none  *)
  catalog,     (* what each catalog name holds                             *)
  lock,        (* the process holding the flock of each key                *)
  pc, want, dest, refresh,             (* the processes' locals            *)
  todo,        (* the entries each collector has listed and not yet seen   *)
  pinned,      (* the images each collector read as pinned                 *)
  world        (* what may go wrong in this behaviour                      *)

zfs == <<image, clone>>
job == <<want, dest, refresh>>
pass == <<todo, pinned>>
vars == <<image, meta, clone, catalog, lock, pc, want, dest, refresh, todo,
          pinned, world>>

-----------------------------------------------------------------------------
(* Datasets.  file is the image.ext4 in the dataset, snap the one in its   *)
(* @ready snapshot, ro the readonly property.                              *)

Bytes == {"none", "partial", "whole"}
Datasets == [there : BOOLEAN, file : Bytes, snap : Bytes, ro : BOOLEAN]

NoDataset == [there |-> FALSE, file |-> "none", snap |-> "none", ro |-> FALSE]

Served(k) == image[k].file # "none"
Ready(k) == image[k].snap # "none"

\* A clone shows the bytes of the snapshot it was taken from.
Clones == [key : Keys, file : Bytes]

\* A dataset with a dependent clone, or with a file somebody holds open,
\* cannot be destroyed.
Pins(k) == \E d \in Disks : clone[d] # None /\ clone[d].key = k
InUse(k) ==
  \/ Pins(k)
  \/ \E b \in Builders : want[b] = k /\ pc[b] \in {"copying", "installing"}

-----------------------------------------------------------------------------
(* Control.                                                                *)

Goto(p, from, to) == pc[p] = from /\ pc' = [pc EXCEPT ![p] = to]

Try(p, from, ok, to) == Goto(p, from, IF ok THEN to ELSE "err")

Init ==
  /\ image = [k \in Keys |-> NoDataset]
  /\ meta = {}
  /\ clone = [d \in Disks |-> None]
  /\ catalog = [d \in Dests |-> None]
  /\ lock = [k \in Keys |-> None]
  /\ pc = [p \in Procs |-> "idle"]
  /\ want = [p \in Procs |-> None]
  /\ dest = [p \in Procs |-> None]
  /\ refresh = [p \in Procs |-> FALSE]
  /\ todo = [p \in Procs |-> {}]
  /\ pinned = [p \in Procs |-> {}]
  /\ world \in Worlds

StartJob(p, k, d, r) ==
  /\ want' = [want EXCEPT ![p] = k]
  /\ dest' = [dest EXCEPT ![p] = d]
  /\ refresh' = [refresh EXCEPT ![p] = r]

\* Mutant of EndJob: the key is kept.
EndJobKeepsKey(p) == StartJob(p, want[p], None, FALSE)

EndJob(p) == StartJob(p, None, None, FALSE)

\* Outside the worlds with "overlap", gc runs in a maintenance window.
Quiet(others) ==
  "overlap" \in world \/ \A p \in others : pc[p] = "idle"

-----------------------------------------------------------------------------
(* Builders: build() on this backend.                                      *)

Solve(b) ==
  /\ Goto(b, "idle", "lock")
  /\ Quiet(Collectors)
  /\ \E k \in Keys, d \in Dests \cup {None}, r \in BOOLEAN : StartJob(b, k, d, r)
  /\ UNCHANGED <<zfs, meta, catalog, lock, pass, world>>
\* Mutant of Lock: two builders of one key get in.
LockUnguarded(b) ==
  /\ Goto(b, "lock", "get")
  /\ lock' = [lock EXCEPT ![want[b]] = b]
  /\ UNCHANGED <<zfs, meta, catalog, job, pass, world>>

Lock(b) ==
  /\ Goto(b, "lock", "get")
  /\ lock[want[b]] = None
  /\ lock' = [lock EXCEPT ![want[b]] = b]
  /\ UNCHANGED <<zfs, meta, catalog, job, pass, world>>

\* A hit needs only the file: neither the snapshot nor the metadata.
Get(b) ==
  /\ Goto(b, "get", IF Served(want[b]) /\ ~refresh[b] THEN "stat" ELSE "create")
  /\ UNCHANGED <<zfs, meta, catalog, lock, job, pass, world>>

\* The image has been built in tmp/ (module Store); put() starts with
\* `zfs create -p`, which does nothing when the dataset is there.
Create(b) ==
  LET k == want[b]
  IN /\ Goto(b, "create", "copy")
     /\ image' = [image EXCEPT ![k].there = TRUE]
     /\ UNCHANGED <<meta, clone, catalog, lock, job, pass, world>>

\* The rename from tmp/ is EXDEV, so the image is copied under its final name.
CopyIn(b) ==
  LET k  == want[b]
      ok == image[k].there /\ ~image[k].ro
  IN /\ Try(b, "copy", ok, "copying")
     /\ image' = IF ok THEN [image EXCEPT ![k].file = "partial"] ELSE image
     /\ UNCHANGED <<meta, clone, catalog, lock, job, pass, world>>

CopiedIn(b) ==
  /\ Goto(b, "copying", "snapshot")
  /\ image' = [image EXCEPT ![want[b]].file = "whole"]
  /\ UNCHANGED <<meta, clone, catalog, lock, job, pass, world>>
Snapshot(b) ==
  LET k  == want[b]
      ok == image[k].there /\ ~Ready(k)
  IN /\ Try(b, "snapshot", ok, "seal")
     /\ image' = IF ok THEN [image EXCEPT ![k].snap = image[k].file] ELSE image
     /\ UNCHANGED <<meta, clone, catalog, lock, job, pass, world>>

\* Mutant of Seal: readonly=on is left out.
SealSkipped(b) ==
  /\ Try(b, "seal", image[want[b]].there, "record")
  /\ UNCHANGED <<zfs, meta, catalog, lock, job, pass, world>>

\* `zfs set readonly=on`
Seal(b) ==
  LET k == want[b]
  IN /\ Try(b, "seal", image[k].there, "record")
     /\ image' = IF image[k].there THEN [image EXCEPT ![k].ro = TRUE] ELSE image
     /\ UNCHANGED <<meta, clone, catalog, lock, job, pass, world>>

Record(b) ==
  LET k == want[b]
  IN /\ Try(b, "record", Served(k), "stat")
     /\ meta' = IF Served(k) THEN meta \cup {k} ELSE meta
     /\ UNCHANGED <<zfs, catalog, lock, job, pass, world>>

Stat(b) ==
  /\ Try(b, "stat", Served(want[b]), IF dest[b] = None THEN "ok" ELSE "install")
  /\ UNCHANGED <<zfs, meta, catalog, lock, job, pass, world>>

\* install(): the old name is removed, the hard link is EXDEV, and the copy is
\* made under the final name.
Install(b) ==
  LET ok == Served(want[b])
  IN /\ Try(b, "install", ok, "installing")
     /\ catalog' = IF ok THEN [catalog EXCEPT ![dest[b]] = "partial"] ELSE catalog
     /\ UNCHANGED <<zfs, meta, lock, job, pass, world>>

Installed(b) ==
  LET k == want[b]
  IN /\ Goto(b, "installing", "ok")
     /\ catalog' = [catalog EXCEPT ![dest[b]] =
                      IF image[k].file = "whole" THEN k ELSE "partial"]
     /\ UNCHANGED <<zfs, meta, lock, job, pass, world>>

\* Mutant of Unlock: the guard is forgotten.
UnlockForgets(b) ==
  /\ pc[b] \in {"ok", "err"}
  /\ pc' = [pc EXCEPT ![b] = "idle"]
  /\ EndJob(b)
  /\ UNCHANGED <<zfs, meta, catalog, lock, pass, world>>

Unlock(b) ==
  /\ pc[b] \in {"ok", "err"}
  /\ pc' = [pc EXCEPT ![b] = "idle"]
  /\ lock' = [lock EXCEPT ![want[b]] = None]
  /\ EndJob(b)
  /\ UNCHANGED <<zfs, meta, catalog, pass, world>>

\* Mutant of Abort: a copy that ran out of space counts as made.
AbortIgnored(b) ==
  /\ "io" \in world
  /\ \/ Goto(b, "copying", "snapshot")
     \/ Goto(b, "installing", "err")
  /\ UNCHANGED <<zfs, meta, catalog, lock, job, pass, world>>

\* A full disk: the partial copy stays where it is.  (A command that fails at
\* another step of put leaves what a kill at that step leaves.)
Abort(b) ==
  /\ "io" \in world
  /\ Goto(b, "copying", "err") \/ Goto(b, "installing", "err")
  /\ UNCHANGED <<zfs, meta, catalog, lock, job, pass, world>>

-----------------------------------------------------------------------------
(* Copiers: materialize(), and release() by the owner of the disk.         *)

Materialize(m) ==
  /\ Goto(m, "idle", "start")
  /\ \E k \in Keys, d \in Disks :
       /\ \A n \in Copiers : dest[n] # d
       /\ StartJob(m, k, d, FALSE)
  /\ UNCHANGED <<zfs, meta, catalog, lock, pass, world>>

Find(m) ==
  /\ Try(m, "start", Served(want[m]), "drop")
  /\ UNCHANGED <<zfs, meta, catalog, lock, job, pass, world>>

\* `zfs destroy -r` of the clone of an earlier materialize; what it says is
\* ignored, and it refuses while a VM has the clone open.
Destroyed(d) ==
  \/ clone' = [clone EXCEPT ![d] = None]
  \/ "busy" \in world /\ clone' = clone

DropClone(m) ==
  /\ Goto(m, "drop", "clone")
  /\ Destroyed(dest[m])
  /\ UNCHANGED <<image, meta, catalog, lock, job, pass, world>>

CloneReady(m) ==
  LET k  == want[m]
      d  == dest[m]
      ok == Ready(k) /\ clone[d] = None
  IN /\ Try(m, "clone", ok, "link")
     /\ clone' = IF ok THEN [clone EXCEPT ![d] = [key |-> k, file |-> image[k].snap]]
                 ELSE clone
     /\ UNCHANGED <<image, meta, catalog, lock, job, pass, world>>

\* The hard link from the clone's filesystem to the path the caller asked for
\* is EXDEV, and there is no copy to fall back to: the call fails, and the
\* clone stays.
LinkDisk(m) ==
  /\ Goto(m, "link", "err")
  /\ UNCHANGED <<zfs, meta, catalog, lock, job, pass, world>>

MaterializeReturns(m) ==
  /\ Goto(m, "err", "idle")
  /\ EndJob(m)
  /\ UNCHANGED <<zfs, meta, catalog, lock, pass, world>>

\* release(); a clone that is already gone is no error.
Release(d) ==
  /\ \A m \in Copiers : dest[m] # d
  /\ Destroyed(d)
  /\ UNCHANGED <<image, meta, catalog, lock, pc, job, pass, world>>

-----------------------------------------------------------------------------
(* Collectors: gc().  Which entries the policy wants gone is left open.    *)

List(c) ==
  /\ meta # {}
  /\ Goto(c, "idle", "graph")
  /\ Quiet(Builders)
  /\ todo' = [todo EXCEPT ![c] = meta]
  /\ UNCHANGED <<zfs, meta, catalog, lock, job, pinned, world>>

\* `zfs list -o name,origin`, once for the whole pass
ReadGraph(c) ==
  /\ Goto(c, "graph", "scan")
  /\ pinned' = [pinned EXCEPT ![c] = {k \in Keys : Pins(k)}]
  /\ UNCHANGED <<zfs, meta, catalog, lock, job, todo, world>>

\* Mutant of Done: the entry is looked at once more.
DoneTwice(c, k) ==
  /\ todo' = todo
  /\ pc' = [pc EXCEPT ![c] = "scan"]
  /\ pinned' = pinned

\* Done with entry k: go on, or end the pass.
Done(c, k) ==
  LET rest == todo[c] \ {k}
  IN /\ todo' = [todo EXCEPT ![c] = rest]
     /\ pc' = [pc EXCEPT ![c] = IF rest = {} THEN "idle" ELSE "scan"]
     /\ pinned' = IF rest = {} THEN [pinned EXCEPT ![c] = {}] ELSE pinned

\* Within the policy, or kept_busy because it is pinned.
Keep(c) ==
  /\ pc[c] = "scan"
  /\ \E k \in todo[c] : Done(c, k)
  /\ UNCHANGED <<zfs, meta, catalog, lock, job, world>>

Claim(c) ==
  /\ Goto(c, "scan", "destroy")
  /\ \E k \in todo[c] \ pinned[c] : want' = [want EXCEPT ![c] = k]
  /\ UNCHANGED <<zfs, meta, catalog, lock, dest, refresh, pass, world>>

Destroy(c) ==
  LET k == want[c]
  IN /\ Goto(c, "destroy", "forget")
     /\ image[k].there /\ ~InUse(k)
     /\ image' = [image EXCEPT ![k] = NoDataset]
     /\ UNCHANGED <<clone, meta, catalog, lock, job, pass, world>>
\* Mutant of KeptBusy: "dataset is busy" passes for success.
KeptBusyForgotten(c) ==
  LET k == want[c]
  IN /\ pc[c] = "destroy"
     /\ image[k].there /\ (InUse(k) \/ "busy" \in world)
     /\ meta' = meta \ {k}
     /\ Done(c, k)
     /\ want' = [want EXCEPT ![c] = None]
     /\ UNCHANGED <<zfs, catalog, lock, dest, refresh, world>>

\* is_busy(): the dataset stays, and so does its metadata.
KeptBusy(c) ==
  LET k == want[c]
  IN /\ pc[c] = "destroy"
     /\ image[k].there /\ (InUse(k) \/ "busy" \in world)
     /\ Done(c, k)
     /\ want' = [want EXCEPT ![c] = None]
     /\ UNCHANGED <<zfs, meta, catalog, lock, dest, refresh, world>>

\* Any other answer, "dataset does not exist" among them, ends the whole pass.
DestroyFails(c) ==
  /\ Goto(c, "destroy", "err")
  /\ ~image[want[c]].there
  /\ UNCHANGED <<zfs, meta, catalog, lock, job, pass, world>>

Forget(c) ==
  /\ pc[c] = "forget"
  /\ meta' = meta \ {want[c]}
  /\ Done(c, want[c])
  /\ want' = [want EXCEPT ![c] = None]
  /\ UNCHANGED <<zfs, catalog, lock, dest, refresh, world>>

GcReturns(c) ==
  /\ Goto(c, "err", "idle")
  /\ todo' = [todo EXCEPT ![c] = {}]
  /\ pinned' = [pinned EXCEPT ![c] = {}]
  /\ EndJob(c)
  /\ UNCHANGED <<zfs, meta, catalog, lock, world>>

-----------------------------------------------------------------------------

\* A process is killed: its lock is dropped, datasets and files stay.
Crash(p) ==
  /\ "crash" \in world
  /\ pc[p] # "idle"
  /\ pc' = [pc EXCEPT ![p] = "idle"]
  /\ lock' = [k \in Keys |-> IF lock[k] = p THEN None ELSE lock[k]]
  /\ EndJob(p)
  /\ todo' = [todo EXCEPT ![p] = {}]
  /\ pinned' = [pinned EXCEPT ![p] = {}]
  /\ UNCHANGED <<zfs, meta, catalog, world>>

BuilderStep(b) ==
  \/ Get(b) \/ Create(b) \/ CopyIn(b) \/ CopiedIn(b) \/ Snapshot(b) \/ Seal(b)
  \/ Record(b) \/ Stat(b) \/ Install(b) \/ Installed(b) \/ Unlock(b)

CopierStep(m) ==
  Find(m) \/ DropClone(m) \/ CloneReady(m) \/ LinkDisk(m) \/ MaterializeReturns(m)

CollectorStep(c) ==
  \/ ReadGraph(c) \/ Keep(c) \/ Claim(c) \/ Destroy(c) \/ KeptBusy(c)
  \/ DestroyFails(c) \/ Forget(c) \/ GcReturns(c)

Next ==
  \/ \E b \in Builders : Solve(b) \/ Lock(b) \/ BuilderStep(b) \/ Abort(b)
  \/ \E m \in Copiers : Materialize(m) \/ CopierStep(m)
  \/ \E c \in Collectors : List(c) \/ CollectorStep(c)
  \/ \E p \in Procs : Crash(p)
  \/ \E d \in Disks : Release(d)

Spec == Init /\ [][Next]_vars

\* A started process keeps running; a waiter gets a lock that is released
\* again and again.
Fairness ==
  /\ \A b \in Builders : WF_vars(BuilderStep(b)) /\ SF_vars(Lock(b))
  /\ \A m \in Copiers : WF_vars(CopierStep(m))
  /\ \A c \in Collectors : WF_vars(CollectorStep(c))

FairSpec == Spec /\ Fairness

-----------------------------------------------------------------------------
(* Properties.                                                             *)

BuilderPc == {"idle", "lock", "get", "create", "copy", "copying", "snapshot", "seal",
              "record", "stat", "install", "installing", "ok", "err"}
CopierPc == {"idle", "start", "drop", "clone", "link", "err"}
CollectorPc == {"idle", "graph", "scan", "destroy", "forget", "err"}

\* Every variable has its type; a process has a key and a destination where
\* its code does.
TypeOK ==
  /\ image \in [Keys -> Datasets]
  /\ meta \subseteq Keys
  /\ clone \in [Disks -> Clones \cup {None}]
  /\ catalog \in [Dests -> Keys \cup {"partial", None}]
  /\ lock \in [Keys -> Builders \cup {None}]
  /\ pc \in [Procs -> BuilderPc \cup CopierPc \cup CollectorPc]
  /\ \A b \in Builders : pc[b] \in BuilderPc
  /\ \A m \in Copiers : pc[m] \in CopierPc
  /\ \A c \in Collectors : pc[c] \in CollectorPc
  /\ want \in [Procs -> Keys \cup {None}]
  /\ \A p \in Procs : want[p] = None <=> pc[p] \in {"idle", "graph", "scan"}
  /\ dest \in [Procs -> Dests \cup Disks \cup {None}]
  /\ \A b \in Builders :
       /\ dest[b] \in Dests \cup {None}
       /\ pc[b] \in {"install", "installing"} => dest[b] # None
  /\ \A m \in Copiers : pc[m] # "idle" => dest[m] \in Disks
  /\ refresh \in [Procs -> BOOLEAN]
  /\ todo \in [Procs -> SUBSET Keys]
  /\ pinned \in [Procs -> SUBSET Keys]
  /\ world \in Worlds

\* What a VM is given to boot is never a truncated image: the snapshot clones
\* are taken from "must capture a complete image" (zfs.rs 187-188), although
\* put copies under the final name and may be killed, run out of space or be
\* repeated over what an earlier one left.
ClonesWhole == \A d \in Disks : clone[d] # None => clone[d].file = "whole"

\* Unless a put was cut short, an image that get() serves is complete and
\* sealed, and has the snapshot materialize needs (zfs.rs 187-191).
Committed ==
  world \cap {"crash", "io"} = {} =>
    \A k \in Keys : Served(k) /\ lock[k] = None =>
      image[k] = [there |-> TRUE, file |-> "whole", snap |-> "whole", ro |-> TRUE]

\* Where gc runs while nobody builds, it drops the metadata of an image only when
\* the image is gone: passes killed between the two, other passes, pins, copies
\* and VMs notwithstanding (zfs.rs 344-360).  In a pass beside builds a builder may
\* put the image again after the destroy (351) and lose its metadata (360).
ForgetsOnlyDestroyed ==
  [][ "overlap" \notin world => \A k \in meta \ meta' : ~image[k].there ]_vars

\* Where there is one gc and nobody is killed, a pass never stops at an entry
\* whose dataset is not there (zfs.rs 27-28): that of a put that failed never
\* becomes an entry, and what the pass destroys it forgets.  (Of two gcs either
\* can take an entry from under the other.)
PassCompletes ==
  "crash" \notin world /\ (\A c, e \in Collectors : c = e) =>
    \A c \in Collectors : pc[c] # "err"

\* A build with nothing in its way succeeds, whatever the state earlier builds
\* and passes left, unless it was asked to rebuild a sealed image: the
\* dataset of such an image is read-only (zfs.rs 176-191).
BuildsSucceed ==
  world = {} => \A b \in Builders : pc[b] = "err" => refresh[b]

\* Every call returns: a build that waits gets its lock, and a pass ends.
EveryCallReturns == \A p \in Procs : pc[p] # "idle" ~> pc[p] = "idle"
=============================================================================
