------------------------------ MODULE ZfsProofs -----------------------------
(* Theorems about ZfsStore, for every value of its constants.              *)
EXTENDS ZfsStore, TLAPS

USE ZfsAssumption DEF Procs

\* The steps of a builder between taking the lock of its key and dropping it.
HoldingPc == BuilderPc \ {"idle", "lock"}

\* A builder past Lock holds its key (store.rs 195-225).
LockHeld == \A b \in Builders : pc[b] \in HoldingPc => lock[want[b]] = b

\* A @ready snapshot is complete, and what is about to be snapshotted is.
SnapshotsWhole ==
  /\ \A k \in Keys : image[k].snap \in {"none", "whole"}
  /\ \A b \in Builders : pc[b] = "snapshot" /\ image[want[b]].there
       => image[want[b]].file = "whole"

ZfsInv == TypeOK /\ LockHeld /\ SnapshotsWhole /\ ClonesWhole

-----------------------------------------------------------------------------

LEMMA ZfsInit == Init => ZfsInv
  BY DEF Init, ZfsInv, TypeOK, LockHeld, SnapshotsWhole, ClonesWhole, HoldingPc,
         NoDataset, Datasets, Bytes, BuilderPc, CopierPc, CollectorPc

LEMMA DoneType ==
  ASSUME TypeOK, NEW c \in Collectors, NEW k \in Keys, Done(c, k)
  PROVE  /\ todo' \in [Procs -> SUBSET Keys]
         /\ pinned' \in [Procs -> SUBSET Keys]
         /\ pc' \in [Procs -> BuilderPc \cup CopierPc \cup CollectorPc]
         /\ pc'[c] \in {"idle", "scan"}
         /\ \A p \in Procs \ {c} : pc'[p] = pc[p]
  BY DEF Done, TypeOK, CollectorPc

\* A collector that is done with the entry it claimed.
LEMMA EntryDone ==
  ASSUME TypeOK, NEW c \in Collectors, want[c] \in Keys, Done(c, want[c]),
         want' = [want EXCEPT ![c] = None], meta' \subseteq Keys,
         UNCHANGED <<zfs, catalog, lock, dest, refresh, world>>
  PROVE  TypeOK'
PROOF
<1>1. /\ todo' \in [Procs -> SUBSET Keys]
      /\ pinned' \in [Procs -> SUBSET Keys]
      /\ pc' \in [Procs -> BuilderPc \cup CopierPc \cup CollectorPc]
      /\ pc'[c] \in {"idle", "scan"}
      /\ \A p \in Procs \ {c} : pc'[p] = pc[p]
  BY DoneType
<1>2. /\ \A b \in Builders : pc'[b] \in BuilderPc
      /\ \A m \in Copiers : pc'[m] \in CopierPc
      /\ \A e \in Collectors : pc'[e] \in CollectorPc
  BY <1>1 DEF TypeOK, CollectorPc
<1>3. want' \in [Procs -> Keys \cup {None}]
  BY DEF TypeOK
<1>4. \A p \in Procs : want'[p] = None <=> pc'[p] \in {"idle", "graph", "scan"}
  BY <1>1 DEF TypeOK
<1>5. /\ \A b \in Builders :
           /\ dest'[b] \in Dests \cup {None}
           /\ pc'[b] \in {"install", "installing"} => dest'[b] # None
      /\ \A m \in Copiers : pc'[m] # "idle" => dest'[m] \in Disks
  BY <1>1 DEF TypeOK
<1> QED
  BY <1>1, <1>2, <1>3, <1>4, <1>5 DEF TypeOK, zfs

LEMMA DatasetUpdate ==
  ASSUME NEW x \in Datasets, NEW v \in BOOLEAN, NEW f \in Bytes
  PROVE  /\ [x EXCEPT !.there = v] \in Datasets /\ [x EXCEPT !.ro = v] \in Datasets
         /\ [x EXCEPT !.file = f] \in Datasets /\ [x EXCEPT !.snap = f] \in Datasets
  BY DEF Datasets

\* A builder at work on its dataset.
LEMMA DatasetStep ==
  ASSUME TypeOK, NEW b \in Builders, NEW to \in BuilderPc, pc[b] # "idle",
         to \notin {"idle", "install", "installing"},
         pc' = [pc EXCEPT ![b] = to], image' \in [Keys -> Datasets],
         UNCHANGED <<meta, clone, catalog, lock, job, pass, world>>
  PROVE  TypeOK'
PROOF
<1>1. pc[b] \in BuilderPc
  BY DEF TypeOK
<1>2. /\ pc' \in [Procs -> BuilderPc \cup CopierPc \cup CollectorPc]
      /\ pc'[b] = to
      /\ \A p \in Procs \ {b} : pc'[p] = pc[p]
  BY DEF TypeOK
<1>3. /\ \A a \in Builders : pc'[a] \in BuilderPc
      /\ \A m \in Copiers : pc'[m] \in CopierPc
      /\ \A e \in Collectors : pc'[e] \in CollectorPc
  BY <1>2 DEF TypeOK
<1>4. \A p \in Procs : want'[p] = None <=> pc'[p] \in {"idle", "graph", "scan"}
  BY <1>1, <1>2 DEF TypeOK, BuilderPc, job
<1>5. /\ \A a \in Builders :
           /\ dest'[a] \in Dests \cup {None}
           /\ pc'[a] \in {"install", "installing"} => dest'[a] # None
      /\ \A m \in Copiers : pc'[m] # "idle" => dest'[m] \in Disks
  BY <1>2 DEF TypeOK, job
<1> QED
  BY <1>2, <1>3, <1>4, <1>5 DEF TypeOK, job, pass

LEMMA CreateType ==
  ASSUME TypeOK, NEW b \in Builders, Create(b)
  PROVE  TypeOK'
PROOF
<1>1. /\ pc[b] = "create"
      /\ pc' = [pc EXCEPT ![b] = "copy"]
      /\ UNCHANGED <<meta, clone, catalog, lock, job, pass, world>>
  BY DEF Create, Goto
<1>2. want[b] \in Keys /\ image[want[b]] \in Datasets
  BY <1>1 DEF TypeOK
<1>3. image' \in [Keys -> Datasets]
  BY <1>2, DatasetUpdate DEF Create, TypeOK, Bytes
<1> QED
  BY <1>1, <1>3, DatasetStep DEF BuilderPc

LEMMA CopyInType ==
  ASSUME TypeOK, NEW b \in Builders, CopyIn(b)
  PROVE  TypeOK'
PROOF
<1>1. /\ pc[b] = "copy"
      /\ pc' = [pc EXCEPT ![b] = IF image[want[b]].there /\ ~image[want[b]].ro THEN "copying" ELSE "err"]
      /\ UNCHANGED <<meta, clone, catalog, lock, job, pass, world>>
  BY DEF CopyIn, Try, Goto
<1>2. want[b] \in Keys /\ image[want[b]] \in Datasets
  BY <1>1 DEF TypeOK
<1>3. image' \in [Keys -> Datasets]
  BY <1>2, DatasetUpdate DEF CopyIn, TypeOK, Bytes
<1> QED
  BY <1>1, <1>3, DatasetStep DEF BuilderPc

LEMMA CopiedInType ==
  ASSUME TypeOK, NEW b \in Builders, CopiedIn(b)
  PROVE  TypeOK'
PROOF
<1>1. /\ pc[b] = "copying"
      /\ pc' = [pc EXCEPT ![b] = "snapshot"]
      /\ UNCHANGED <<meta, clone, catalog, lock, job, pass, world>>
  BY DEF CopiedIn, Goto
<1>2. want[b] \in Keys /\ image[want[b]] \in Datasets
  BY <1>1 DEF TypeOK
<1>3. image' \in [Keys -> Datasets]
  BY <1>2, DatasetUpdate DEF CopiedIn, TypeOK, Bytes
<1> QED
  BY <1>1, <1>3, DatasetStep DEF BuilderPc

LEMMA SnapshotType ==
  ASSUME TypeOK, NEW b \in Builders, Snapshot(b)
  PROVE  TypeOK'
PROOF
<1>1. /\ pc[b] = "snapshot"
      /\ pc' = [pc EXCEPT ![b] = IF image[want[b]].there /\ ~Ready(want[b]) THEN "seal" ELSE "err"]
      /\ UNCHANGED <<meta, clone, catalog, lock, job, pass, world>>
  BY DEF Snapshot, Try, Goto
<1>2. want[b] \in Keys /\ image[want[b]] \in Datasets
  BY <1>1 DEF TypeOK
<1>3. image' \in [Keys -> Datasets]
  BY <1>2, DatasetUpdate DEF Snapshot, TypeOK, Datasets
<1> QED
  BY <1>1, <1>3, DatasetStep DEF BuilderPc

LEMMA SealType ==
  ASSUME TypeOK, NEW b \in Builders, Seal(b)
  PROVE  TypeOK'
PROOF
<1>1. /\ pc[b] = "seal"
      /\ pc' = [pc EXCEPT ![b] = IF image[want[b]].there THEN "record" ELSE "err"]
      /\ UNCHANGED <<meta, clone, catalog, lock, job, pass, world>>
  BY DEF Seal, Try, Goto
<1>2. want[b] \in Keys /\ image[want[b]] \in Datasets
  BY <1>1 DEF TypeOK
<1>3. image' \in [Keys -> Datasets]
  BY <1>2, DatasetUpdate DEF Seal, TypeOK, Bytes
<1> QED
  BY <1>1, <1>3, DatasetStep DEF BuilderPc

LEMMA AbortType ==
  ASSUME TypeOK, NEW b \in Builders, Abort(b)
  PROVE  TypeOK'
PROOF
<1>1. /\ pc[b] \in {"copying", "installing"}
      /\ pc' = [pc EXCEPT ![b] = "err"]
      /\ UNCHANGED <<image, meta, clone, catalog, lock, job, pass, world>>
  BY DEF Abort, Goto, zfs
<1>2. image' \in [Keys -> Datasets]
  BY <1>1 DEF TypeOK
<1> QED
  BY <1>1, <1>2, DatasetStep DEF BuilderPc

LEMMA ZfsTypes ==
  ASSUME TypeOK, [Next]_vars
  PROVE  TypeOK'
PROOF
<1> USE DEF TypeOK, Datasets, Bytes, Clones, NoDataset, BuilderPc, CopierPc,
    CollectorPc, Destroyed, Goto, Try, StartJob, EndJob, zfs, job, pass, vars, Served, Ready
<1>1. ASSUME NEW b \in Builders, Solve(b) PROVE TypeOK'
  BY <1>1 DEF Solve
<1>2. ASSUME NEW b \in Builders, Lock(b) PROVE TypeOK'
  BY <1>2 DEF Lock
<1>3. ASSUME NEW b \in Builders, Get(b) PROVE TypeOK'
  BY <1>3 DEF Get
<1>4. ASSUME NEW b \in Builders, Create(b) PROVE TypeOK'
  BY <1>4, CreateType
<1>5. ASSUME NEW b \in Builders, CopyIn(b) PROVE TypeOK'
  BY <1>5, CopyInType
<1>6. ASSUME NEW b \in Builders, CopiedIn(b) PROVE TypeOK'
  BY <1>6, CopiedInType
<1>7. ASSUME NEW b \in Builders, Snapshot(b) PROVE TypeOK'
  BY <1>7, SnapshotType
<1>8. ASSUME NEW b \in Builders, Seal(b) PROVE TypeOK'
  BY <1>8, SealType
<1>9. ASSUME NEW b \in Builders, Record(b) PROVE TypeOK'
  BY <1>9 DEF Record
<1>10. ASSUME NEW b \in Builders, Stat(b) PROVE TypeOK'
  BY <1>10 DEF Stat
<1>11. ASSUME NEW b \in Builders, Install(b) PROVE TypeOK'
  BY <1>11 DEF Install
<1>12. ASSUME NEW b \in Builders, Installed(b) PROVE TypeOK'
  BY <1>12 DEF Installed
<1>13. ASSUME NEW b \in Builders, Unlock(b) PROVE TypeOK'
  BY <1>13 DEF Unlock
<1>14. ASSUME NEW b \in Builders, Abort(b) PROVE TypeOK'
  BY <1>14, AbortType
<1>15. ASSUME NEW m \in Copiers, Materialize(m) PROVE TypeOK'
  BY <1>15 DEF Materialize
<1>16. ASSUME NEW m \in Copiers, Find(m) PROVE TypeOK'
  BY <1>16 DEF Find
<1>17. ASSUME NEW m \in Copiers, DropClone(m) PROVE TypeOK'
  BY <1>17 DEF DropClone
<1>18. ASSUME NEW m \in Copiers, CloneReady(m) PROVE TypeOK'
  BY <1>18 DEF CloneReady
<1>19. ASSUME NEW m \in Copiers, LinkDisk(m) PROVE TypeOK'
  BY <1>19 DEF LinkDisk
<1>20. ASSUME NEW m \in Copiers, MaterializeReturns(m) PROVE TypeOK'
  BY <1>20 DEF MaterializeReturns
<1>21. ASSUME NEW c \in Collectors, List(c) PROVE TypeOK'
  BY <1>21 DEF List
<1>22. ASSUME NEW c \in Collectors, ReadGraph(c) PROVE TypeOK'
  BY <1>22 DEF ReadGraph
<1>23. ASSUME NEW c \in Collectors, Keep(c) PROVE TypeOK'
  <2>1. PICK k \in todo[c] : Done(c, k)
    BY <1>23 DEF Keep
  <2>2. k \in Keys
    BY <2>1
  <2>3. /\ todo' \in [Procs -> SUBSET Keys] /\ pinned' \in [Procs -> SUBSET Keys]
        /\ pc' \in [Procs -> BuilderPc \cup CopierPc \cup CollectorPc]
        /\ pc'[c] \in {"idle", "scan"}
        /\ \A p \in Procs \ {c} : pc'[p] = pc[p]
    BY <2>1, <2>2, DoneType
  <2>4. pc[c] = "scan" /\ UNCHANGED <<image, clone, meta, catalog, lock, want, dest, refresh, world>>
    BY <1>23 DEF Keep
  <2> HIDE DEF Datasets, Bytes, Clones
  <2> QED
    BY <2>3, <2>4
<1>24. ASSUME NEW c \in Collectors, Claim(c) PROVE TypeOK'
  BY <1>24 DEF Claim
<1>25. ASSUME NEW c \in Collectors, Destroy(c) PROVE TypeOK'
  BY <1>25 DEF Destroy
<1>26. ASSUME NEW c \in Collectors, KeptBusy(c) PROVE TypeOK'
  <2>1. want[c] \in Keys
    BY <1>26 DEF KeptBusy
  <2>2. Done(c, want[c])
    BY <1>26 DEF KeptBusy
  <2> QED
    BY <1>26, <2>1, <2>2, EntryDone DEF KeptBusy
<1>27. ASSUME NEW c \in Collectors, DestroyFails(c) PROVE TypeOK'
  BY <1>27 DEF DestroyFails
<1>28. ASSUME NEW c \in Collectors, Forget(c) PROVE TypeOK'
  <2>1. want[c] \in Keys
    BY <1>28 DEF Forget
  <2>2. Done(c, want[c])
    BY <1>28 DEF Forget
  <2> QED
    <3>1. meta' \subseteq Keys
      BY <1>28 DEF Forget
    <3> QED
      BY <1>28, <2>1, <2>2, <3>1, EntryDone DEF Forget
<1>29. ASSUME NEW c \in Collectors, GcReturns(c) PROVE TypeOK'
  BY <1>29 DEF GcReturns
<1>30. ASSUME NEW p \in Procs, Crash(p) PROVE TypeOK'
  BY <1>30 DEF Crash
<1>31. ASSUME NEW d \in Disks, Release(d) PROVE TypeOK'
  BY <1>31 DEF Release
<1>32. CASE UNCHANGED vars
  BY <1>32
<1> QED
  BY <1>1, <1>2, <1>3, <1>4, <1>5, <1>6, <1>7, <1>8, <1>9, <1>10, <1>11, <1>12, <1>13, <1>14, <1>15, <1>16, <1>17, <1>18, <1>19, <1>20, <1>21, <1>22, <1>23, <1>24, <1>25, <1>26, <1>27, <1>28, <1>29, <1>30, <1>31, <1>32
     DEF Next, BuilderStep, CopierStep, CollectorStep

LEMMA ZfsLockHeld ==
  ASSUME TypeOK, LockHeld, [Next]_vars
  PROVE  LockHeld'
PROOF
<1> USE DEF TypeOK, LockHeld, HoldingPc, BuilderPc, CopierPc,
    CollectorPc, Goto, Try, StartJob, EndJob, zfs, job, pass, vars, Served, Ready
<1>1. ASSUME NEW b \in Builders, Solve(b) PROVE LockHeld'
  BY <1>1 DEF Solve
<1>2. ASSUME NEW b \in Builders, Lock(b) PROVE LockHeld'
  BY <1>2 DEF Lock
<1>3. ASSUME NEW b \in Builders, Get(b) PROVE LockHeld'
  BY <1>3 DEF Get
<1>4. ASSUME NEW b \in Builders, Create(b) PROVE LockHeld'
  BY <1>4 DEF Create
<1>5. ASSUME NEW b \in Builders, CopyIn(b) PROVE LockHeld'
  BY <1>5 DEF CopyIn
<1>6. ASSUME NEW b \in Builders, CopiedIn(b) PROVE LockHeld'
  BY <1>6 DEF CopiedIn
<1>7. ASSUME NEW b \in Builders, Snapshot(b) PROVE LockHeld'
  BY <1>7 DEF Snapshot
<1>8. ASSUME NEW b \in Builders, Seal(b) PROVE LockHeld'
  BY <1>8 DEF Seal
<1>9. ASSUME NEW b \in Builders, Record(b) PROVE LockHeld'
  BY <1>9 DEF Record
<1>10. ASSUME NEW b \in Builders, Stat(b) PROVE LockHeld'
  BY <1>10 DEF Stat
<1>11. ASSUME NEW b \in Builders, Install(b) PROVE LockHeld'
  BY <1>11 DEF Install
<1>12. ASSUME NEW b \in Builders, Installed(b) PROVE LockHeld'
  BY <1>12 DEF Installed
<1>13. ASSUME NEW b \in Builders, Unlock(b) PROVE LockHeld'
  BY <1>13 DEF Unlock
<1>14. ASSUME NEW b \in Builders, Abort(b) PROVE LockHeld'
  BY <1>14 DEF Abort
<1>15. ASSUME NEW m \in Copiers, Materialize(m) PROVE LockHeld'
  BY <1>15 DEF Materialize
<1>16. ASSUME NEW m \in Copiers, Find(m) PROVE LockHeld'
  BY <1>16 DEF Find
<1>17. ASSUME NEW m \in Copiers, DropClone(m) PROVE LockHeld'
  BY <1>17 DEF DropClone
<1>18. ASSUME NEW m \in Copiers, CloneReady(m) PROVE LockHeld'
  BY <1>18 DEF CloneReady
<1>19. ASSUME NEW m \in Copiers, LinkDisk(m) PROVE LockHeld'
  BY <1>19 DEF LinkDisk
<1>20. ASSUME NEW m \in Copiers, MaterializeReturns(m) PROVE LockHeld'
  BY <1>20 DEF MaterializeReturns
<1>21. ASSUME NEW c \in Collectors, List(c) PROVE LockHeld'
  BY <1>21 DEF List
<1>22. ASSUME NEW c \in Collectors, ReadGraph(c) PROVE LockHeld'
  BY <1>22 DEF ReadGraph
<1>23. ASSUME NEW c \in Collectors, Keep(c) PROVE LockHeld'
  <2>1. PICK k \in Keys : Done(c, k)
    BY <1>23 DEF Keep
  <2> QED
    BY <1>23, <2>1, DoneType DEF Keep
<1>24. ASSUME NEW c \in Collectors, Claim(c) PROVE LockHeld'
  BY <1>24 DEF Claim
<1>25. ASSUME NEW c \in Collectors, Destroy(c) PROVE LockHeld'
  BY <1>25 DEF Destroy
<1>26. ASSUME NEW c \in Collectors, KeptBusy(c) PROVE LockHeld'
  <2>1. PICK k \in Keys : Done(c, k)
    BY <1>26 DEF KeptBusy
  <2> QED
    BY <1>26, <2>1, DoneType DEF KeptBusy
<1>27. ASSUME NEW c \in Collectors, DestroyFails(c) PROVE LockHeld'
  BY <1>27 DEF DestroyFails
<1>28. ASSUME NEW c \in Collectors, Forget(c) PROVE LockHeld'
  <2>1. PICK k \in Keys : Done(c, k)
    BY <1>28 DEF Forget
  <2> QED
    BY <1>28, <2>1, DoneType DEF Forget
<1>29. ASSUME NEW c \in Collectors, GcReturns(c) PROVE LockHeld'
  BY <1>29 DEF GcReturns
<1>30. ASSUME NEW p \in Procs, Crash(p) PROVE LockHeld'
  BY <1>30 DEF Crash
<1>31. ASSUME NEW d \in Disks, Release(d) PROVE LockHeld'
  BY <1>31 DEF Release
<1>32. CASE UNCHANGED vars
  BY <1>32
<1> QED
  BY <1>1, <1>2, <1>3, <1>4, <1>5, <1>6, <1>7, <1>8, <1>9, <1>10, <1>11, <1>12, <1>13, <1>14, <1>15, <1>16, <1>17,
     <1>18, <1>19, <1>20, <1>21, <1>22, <1>23, <1>24, <1>25, <1>26, <1>27, <1>28, <1>29, <1>30, <1>31, <1>32
     DEF Next, BuilderStep, CopierStep, CollectorStep

\* A step that changes no dataset and takes nobody to the snapshot.
LEMMA SnapshotsKept ==
  ASSUME SnapshotsWhole, UNCHANGED image,
         \A b \in Builders : pc'[b] = pc[b] /\ want'[b] = want[b]
  PROVE  SnapshotsWhole'
  BY DEF SnapshotsWhole

LEMMA ZfsSnapshotsWhole ==
  ASSUME TypeOK, LockHeld, SnapshotsWhole, [Next]_vars
  PROVE  SnapshotsWhole'
PROOF
<1> USE DEF TypeOK, LockHeld, HoldingPc, SnapshotsWhole, Datasets, NoDataset,
    BuilderPc, CopierPc, CollectorPc, Goto, Try, StartJob, EndJob, zfs, job, pass, vars, Served, Ready
<1>1. ASSUME NEW b \in Builders, Solve(b) PROVE SnapshotsWhole'
  BY <1>1 DEF Solve
<1>2. ASSUME NEW b \in Builders, Lock(b) PROVE SnapshotsWhole'
  BY <1>2 DEF Lock
<1>3. ASSUME NEW b \in Builders, Get(b) PROVE SnapshotsWhole'
  BY <1>3 DEF Get
<1>4. ASSUME NEW b \in Builders, Create(b) PROVE SnapshotsWhole'
  BY <1>4 DEF Create
<1>5. ASSUME NEW b \in Builders, CopyIn(b) PROVE SnapshotsWhole'
  BY <1>5 DEF CopyIn
<1>6. ASSUME NEW b \in Builders, CopiedIn(b) PROVE SnapshotsWhole'
  BY <1>6 DEF CopiedIn
<1>7. ASSUME NEW b \in Builders, Snapshot(b) PROVE SnapshotsWhole'
  BY <1>7 DEF Snapshot
<1>8. ASSUME NEW b \in Builders, Seal(b) PROVE SnapshotsWhole'
  BY <1>8 DEF Seal
<1>9. ASSUME NEW b \in Builders, Record(b) PROVE SnapshotsWhole'
  BY <1>9 DEF Record
<1>10. ASSUME NEW b \in Builders, Stat(b) PROVE SnapshotsWhole'
  BY <1>10 DEF Stat
<1>11. ASSUME NEW b \in Builders, Install(b) PROVE SnapshotsWhole'
  BY <1>11 DEF Install
<1>12. ASSUME NEW b \in Builders, Installed(b) PROVE SnapshotsWhole'
  BY <1>12 DEF Installed
<1>13. ASSUME NEW b \in Builders, Unlock(b) PROVE SnapshotsWhole'
  BY <1>13 DEF Unlock
<1>14. ASSUME NEW b \in Builders, Abort(b) PROVE SnapshotsWhole'
  BY <1>14 DEF Abort
<1>15. ASSUME NEW m \in Copiers, Materialize(m) PROVE SnapshotsWhole'
  BY <1>15 DEF Materialize
<1>16. ASSUME NEW m \in Copiers, Find(m) PROVE SnapshotsWhole'
  BY <1>16 DEF Find
<1>17. ASSUME NEW m \in Copiers, DropClone(m) PROVE SnapshotsWhole'
  BY <1>17 DEF DropClone
<1>18. ASSUME NEW m \in Copiers, CloneReady(m) PROVE SnapshotsWhole'
  BY <1>18 DEF CloneReady
<1>19. ASSUME NEW m \in Copiers, LinkDisk(m) PROVE SnapshotsWhole'
  BY <1>19 DEF LinkDisk
<1>20. ASSUME NEW m \in Copiers, MaterializeReturns(m) PROVE SnapshotsWhole'
  BY <1>20 DEF MaterializeReturns
<1>21. ASSUME NEW c \in Collectors, List(c) PROVE SnapshotsWhole'
  BY <1>21 DEF List
<1>22. ASSUME NEW c \in Collectors, ReadGraph(c) PROVE SnapshotsWhole'
  BY <1>22 DEF ReadGraph
<1>23. ASSUME NEW c \in Collectors, Keep(c) PROVE SnapshotsWhole'
  <2>1. PICK k \in Keys : Done(c, k)
    BY <1>23 DEF Keep
  <2>2. \A b \in Builders : pc'[b] = pc[b] /\ want'[b] = want[b]
    BY <1>23, <2>1, DoneType DEF Keep
  <2> QED
    BY <1>23, <2>2, SnapshotsKept DEF Keep
<1>24. ASSUME NEW c \in Collectors, Claim(c) PROVE SnapshotsWhole'
  BY <1>24 DEF Claim
<1>25. ASSUME NEW c \in Collectors, Destroy(c) PROVE SnapshotsWhole'
  BY <1>25 DEF Destroy
<1>26. ASSUME NEW c \in Collectors, KeptBusy(c) PROVE SnapshotsWhole'
  <2>1. PICK k \in Keys : Done(c, k)
    BY <1>26 DEF KeptBusy
  <2>2. \A b \in Builders : pc'[b] = pc[b] /\ want'[b] = want[b]
    BY <1>26, <2>1, DoneType DEF KeptBusy
  <2> QED
    BY <1>26, <2>2, SnapshotsKept DEF KeptBusy
<1>27. ASSUME NEW c \in Collectors, DestroyFails(c) PROVE SnapshotsWhole'
  BY <1>27 DEF DestroyFails
<1>28. ASSUME NEW c \in Collectors, Forget(c) PROVE SnapshotsWhole'
  <2>1. PICK k \in Keys : Done(c, k)
    BY <1>28 DEF Forget
  <2>2. \A b \in Builders : pc'[b] = pc[b] /\ want'[b] = want[b]
    BY <1>28, <2>1, DoneType DEF Forget
  <2> QED
    BY <1>28, <2>2, SnapshotsKept DEF Forget
<1>29. ASSUME NEW c \in Collectors, GcReturns(c) PROVE SnapshotsWhole'
  BY <1>29 DEF GcReturns
<1>30. ASSUME NEW p \in Procs, Crash(p) PROVE SnapshotsWhole'
  BY <1>30 DEF Crash
<1>31. ASSUME NEW d \in Disks, Release(d) PROVE SnapshotsWhole'
  BY <1>31 DEF Release
<1>32. CASE UNCHANGED vars
  BY <1>32
<1> QED
  BY <1>1, <1>2, <1>3, <1>4, <1>5, <1>6, <1>7, <1>8, <1>9, <1>10, <1>11, <1>12, <1>13, <1>14, <1>15, <1>16, <1>17,
     <1>18, <1>19, <1>20, <1>21, <1>22, <1>23, <1>24, <1>25, <1>26, <1>27, <1>28, <1>29, <1>30, <1>31, <1>32
     DEF Next, BuilderStep, CopierStep, CollectorStep

LEMMA ZfsClones ==
  ASSUME TypeOK, SnapshotsWhole, ClonesWhole, [Next]_vars
  PROVE  ClonesWhole'
PROOF
<1> USE DEF TypeOK, SnapshotsWhole, ClonesWhole, Clones, Destroyed, Goto, Try, StartJob, EndJob, zfs, job, pass, vars, Served, Ready
<1>1. ASSUME NEW b \in Builders, Solve(b) PROVE ClonesWhole'
  BY <1>1 DEF Solve
<1>2. ASSUME NEW b \in Builders, Lock(b) PROVE ClonesWhole'
  BY <1>2 DEF Lock
<1>3. ASSUME NEW b \in Builders, Get(b) PROVE ClonesWhole'
  BY <1>3 DEF Get
<1>4. ASSUME NEW b \in Builders, Create(b) PROVE ClonesWhole'
  BY <1>4 DEF Create
<1>5. ASSUME NEW b \in Builders, CopyIn(b) PROVE ClonesWhole'
  BY <1>5 DEF CopyIn
<1>6. ASSUME NEW b \in Builders, CopiedIn(b) PROVE ClonesWhole'
  BY <1>6 DEF CopiedIn
<1>7. ASSUME NEW b \in Builders, Snapshot(b) PROVE ClonesWhole'
  BY <1>7 DEF Snapshot
<1>8. ASSUME NEW b \in Builders, Seal(b) PROVE ClonesWhole'
  BY <1>8 DEF Seal
<1>9. ASSUME NEW b \in Builders, Record(b) PROVE ClonesWhole'
  BY <1>9 DEF Record
<1>10. ASSUME NEW b \in Builders, Stat(b) PROVE ClonesWhole'
  BY <1>10 DEF Stat
<1>11. ASSUME NEW b \in Builders, Install(b) PROVE ClonesWhole'
  BY <1>11 DEF Install
<1>12. ASSUME NEW b \in Builders, Installed(b) PROVE ClonesWhole'
  BY <1>12 DEF Installed
<1>13. ASSUME NEW b \in Builders, Unlock(b) PROVE ClonesWhole'
  BY <1>13 DEF Unlock
<1>14. ASSUME NEW b \in Builders, Abort(b) PROVE ClonesWhole'
  BY <1>14 DEF Abort
<1>15. ASSUME NEW m \in Copiers, Materialize(m) PROVE ClonesWhole'
  BY <1>15 DEF Materialize
<1>16. ASSUME NEW m \in Copiers, Find(m) PROVE ClonesWhole'
  BY <1>16 DEF Find
<1>17. ASSUME NEW m \in Copiers, DropClone(m) PROVE ClonesWhole'
  BY <1>17 DEF DropClone
<1>18. ASSUME NEW m \in Copiers, CloneReady(m) PROVE ClonesWhole'
  BY <1>18 DEF CloneReady
<1>19. ASSUME NEW m \in Copiers, LinkDisk(m) PROVE ClonesWhole'
  BY <1>19 DEF LinkDisk
<1>20. ASSUME NEW m \in Copiers, MaterializeReturns(m) PROVE ClonesWhole'
  BY <1>20 DEF MaterializeReturns
<1>21. ASSUME NEW c \in Collectors, List(c) PROVE ClonesWhole'
  BY <1>21 DEF List
<1>22. ASSUME NEW c \in Collectors, ReadGraph(c) PROVE ClonesWhole'
  BY <1>22 DEF ReadGraph
<1>23. ASSUME NEW c \in Collectors, Keep(c) PROVE ClonesWhole'
  <2>1. PICK k \in Keys : Done(c, k)
    BY <1>23 DEF Keep
  <2> QED
    BY <1>23, <2>1, DoneType DEF Keep
<1>24. ASSUME NEW c \in Collectors, Claim(c) PROVE ClonesWhole'
  BY <1>24 DEF Claim
<1>25. ASSUME NEW c \in Collectors, Destroy(c) PROVE ClonesWhole'
  BY <1>25 DEF Destroy
<1>26. ASSUME NEW c \in Collectors, KeptBusy(c) PROVE ClonesWhole'
  <2>1. PICK k \in Keys : Done(c, k)
    BY <1>26 DEF KeptBusy
  <2> QED
    BY <1>26, <2>1, DoneType DEF KeptBusy
<1>27. ASSUME NEW c \in Collectors, DestroyFails(c) PROVE ClonesWhole'
  BY <1>27 DEF DestroyFails
<1>28. ASSUME NEW c \in Collectors, Forget(c) PROVE ClonesWhole'
  <2>1. PICK k \in Keys : Done(c, k)
    BY <1>28 DEF Forget
  <2> QED
    BY <1>28, <2>1, DoneType DEF Forget
<1>29. ASSUME NEW c \in Collectors, GcReturns(c) PROVE ClonesWhole'
  BY <1>29 DEF GcReturns
<1>30. ASSUME NEW p \in Procs, Crash(p) PROVE ClonesWhole'
  BY <1>30 DEF Crash
<1>31. ASSUME NEW d \in Disks, Release(d) PROVE ClonesWhole'
  BY <1>31 DEF Release
<1>32. CASE UNCHANGED vars
  BY <1>32
<1> QED
  BY <1>1, <1>2, <1>3, <1>4, <1>5, <1>6, <1>7, <1>8, <1>9, <1>10, <1>11, <1>12, <1>13, <1>14, <1>15, <1>16, <1>17,
     <1>18, <1>19, <1>20, <1>21, <1>22, <1>23, <1>24, <1>25, <1>26, <1>27, <1>28, <1>29, <1>30, <1>31, <1>32
     DEF Next, BuilderStep, CopierStep, CollectorStep

-----------------------------------------------------------------------------

LEMMA ZfsInvStep == ZfsInv /\ [Next]_vars => ZfsInv'
  BY ZfsTypes, ZfsLockHeld, ZfsSnapshotsWhole, ZfsClones DEF ZfsInv

\* Every variable keeps its type.
THEOREM ZfsTypeCorrect == Spec => []TypeOK
  BY ZfsInit, ZfsInvStep, PTL DEF Spec, ZfsInv

\* No clone ever shows a truncated image, for any number of processes, keys
\* and disks, and whatever goes wrong.
THEOREM ZfsClonesWhole == Spec => []ClonesWhole
  BY ZfsInit, ZfsInvStep, PTL DEF Spec, ZfsInv

-----------------------------------------------------------------------------
(* What a put leaves behind, and what gc finds.                            *)

\* Where gc keeps to its window, no collector runs while a builder does.
Window ==
  "overlap" \notin world =>
    \A b \in Builders, c \in Collectors : pc[b] = "idle" \/ pc[c] = "idle"

\* The datasets on the way of a put that is not cut short.
Created == [there |-> TRUE, file |-> "none", snap |-> "none", ro |-> FALSE]
Copying == [there |-> TRUE, file |-> "partial", snap |-> "none", ro |-> FALSE]
Copied == [there |-> TRUE, file |-> "whole", snap |-> "none", ro |-> FALSE]
Snapped == [there |-> TRUE, file |-> "whole", snap |-> "whole", ro |-> FALSE]
Full == [there |-> TRUE, file |-> "whole", snap |-> "whole", ro |-> TRUE]

\* The steps of a put during which the dataset is neither complete nor gone.
PutPc == {"copy", "copying", "snapshot", "seal"}

\* A put that is not cut short takes its dataset through these states; at any
\* step but the copy gc may have destroyed it.
PutStage(b) ==
  /\ pc[b] = "copy" => image[want[b]] \in {NoDataset, Created, Full}
  /\ pc[b] = "copying" => image[want[b]] = Copying
  /\ pc[b] = "snapshot" => image[want[b]] \in {NoDataset, Copied}
  /\ pc[b] = "seal" => image[want[b]] \in {NoDataset, Snapped}

PutStages == world \cap {"crash", "io"} = {} => \A b \in Builders : PutStage(b)

\* No put in its middle: the dataset is complete or not there.
Settled ==
  world \cap {"crash", "io"} = {} =>
    \A k \in Keys :
      \/ image[k] \in {NoDataset, Full}
      \/ \E b \in Builders : pc[b] \in PutPc /\ want[b] = k

\* With nothing in its way a build finds its dataset where it left it.
OnItsWay(b) ==
  /\ pc[b] = "create" => image[want[b]] = NoDataset
  /\ pc[b] = "copy" => image[want[b]] = Created
  /\ pc[b] = "copying" => image[want[b]] = Copying
  /\ pc[b] = "snapshot" => image[want[b]] = Copied
  /\ pc[b] = "seal" => image[want[b]] = Snapped
  /\ pc[b] \in {"record", "stat", "install", "installing"} => image[want[b]] = Full
  /\ pc[b] # "err"

Undisturbed == world = {} => \A b \in Builders : ~refresh[b] => OnItsWay(b)

\* An image with a file has its dataset, and so has one being copied.
ServedThere ==
  /\ \A k \in Keys : Served(k) => image[k].there
  /\ \A b \in Builders : pc[b] = "copying" => image[want[b]].there

\* Between the two, metadata without a dataset.
Forgetting ==
  "overlap" \notin world =>
    \A c \in Collectors : pc[c] = "forget" => ~image[want[c]].there

\* A lone collector knows every dataset that is not there: it destroyed it.
LonePass ==
  "crash" \notin world /\ (\A c, e \in Collectors : c = e) =>
    \A c \in Collectors :
      /\ \A k \in meta \cup todo[c] : image[k].there \/ (pc[c] = "forget" /\ want[c] = k)
      /\ pc[c] = "destroy" => want[c] \in todo[c]
      /\ pc[c] # "err"

PutInv == ZfsInv /\ Window /\ PutStages /\ Settled /\ Undisturbed
GcInv == ZfsInv /\ Window /\ ServedThere /\ Forgetting /\ LonePass

-----------------------------------------------------------------------------

BuilderMoves == \E b \in Builders : Solve(b) \/ Lock(b) \/ BuilderStep(b) \/ Abort(b)
CopierMoves == \E m \in Copiers : Materialize(m) \/ CopierStep(m)
CollectorMoves == \E c \in Collectors : List(c) \/ CollectorStep(c)

\* Copiers touch nothing but their locals and the clones.
LEMMA CopiersRest ==
  ASSUME TypeOK, CopierMoves \/ (\E d \in Disks : Release(d)) \/ UNCHANGED vars
  PROVE  /\ UNCHANGED <<image, meta, lock, pass, world>>
         /\ \A p \in Builders \cup Collectors : pc'[p] = pc[p] /\ want'[p] = want[p]
         /\ \A b \in Builders : refresh'[b] = refresh[b]
PROOF
<1> USE DEF TypeOK, Goto, Try, StartJob, EndJob, zfs, job, pass
<1>1. CASE CopierMoves
  <2>1. PICK m \in Copiers : Materialize(m) \/ CopierStep(m)
    BY <1>1 DEF CopierMoves
  <2>2. CASE Materialize(m)
    <3>1. PICK k \in Keys, d \in Disks : StartJob(m, k, d, FALSE)
      BY <2>2 DEF Materialize
    <3>2. /\ want' = [want EXCEPT ![m] = k] /\ refresh' = [refresh EXCEPT ![m] = FALSE]
          /\ pc' = [pc EXCEPT ![m] = "start"]
          /\ UNCHANGED <<image, meta, lock, todo, pinned, world>>
      BY <2>2, <3>1 DEF Materialize
    <3> QED
      BY <3>2, ZfsAssumption
  <2>3. CASE Find(m) \/ LinkDisk(m) \/ MaterializeReturns(m)
    <3>1. CASE Find(m) \/ LinkDisk(m)
      BY <3>1 DEF Find, LinkDisk
    <3>2. CASE MaterializeReturns(m)
      BY <3>2 DEF MaterializeReturns
    <3> QED
      BY <2>3, <3>1, <3>2
  <2>4. CASE DropClone(m) \/ CloneReady(m)
    <3>1. CASE DropClone(m)
      BY <3>1 DEF DropClone
    <3>2. CASE CloneReady(m)
      BY <3>2 DEF CloneReady
    <3> QED
      BY <2>4, <3>1, <3>2
  <2> QED
    BY <2>1, <2>2, <2>3, <2>4 DEF CopierStep
<1>2. CASE \E d \in Disks : Release(d)
  BY <1>2 DEF Release
<1>3. CASE UNCHANGED vars
  BY <1>3 DEF vars
<1> QED
  BY <1>1, <1>2, <1>3

\* Collectors touch no builder, and no dataset but those they destroy.
LEMMA CollectorsRest ==
  ASSUME TypeOK, CollectorMoves
  PROVE  /\ \A b \in Builders : pc'[b] = pc[b] /\ want'[b] = want[b] /\ refresh'[b] = refresh[b]
         /\ UNCHANGED <<lock, world>>
         /\ UNCHANGED image \/ \E c \in Collectors : Destroy(c)
         /\ Window /\ "overlap" \notin world => \A b \in Builders : pc[b] = "idle"
PROOF
<1>1. PICK c \in Collectors : List(c) \/ CollectorStep(c)
  BY DEF CollectorMoves
<1>2. \A k \in Keys : Done(c, k) => \A b \in Builders : pc'[b] = pc[b]
  BY DoneType
<1>3. /\ \A b \in Builders : pc'[b] = pc[b] /\ want'[b] = want[b] /\ refresh'[b] = refresh[b]
      /\ UNCHANGED <<lock, world>>
      /\ UNCHANGED image \/ \E e \in Collectors : Destroy(e)
  <2> USE DEF TypeOK, Goto, EndJob, StartJob, zfs, job, pass
  <2>1. CASE List(c) \/ ReadGraph(c) \/ DestroyFails(c)
    BY <2>1 DEF List, ReadGraph, DestroyFails
  <2>2. CASE Keep(c) \/ KeptBusy(c) \/ Forget(c)
    <3>1. \A b \in Builders : pc'[b] = pc[b]
      BY <1>2, <2>2 DEF Keep, KeptBusy, Forget
    <3> QED
      BY <2>2, <3>1 DEF Keep, KeptBusy, Forget
  <2>3. CASE Claim(c) \/ GcReturns(c)
    BY <2>3 DEF Claim, GcReturns
  <2>4. CASE Destroy(c)
    BY <2>4 DEF Destroy
  <2> QED
    BY <1>1, <2>1, <2>2, <2>3, <2>4 DEF CollectorStep
<1>4. ASSUME Window, "overlap" \notin world PROVE \A b \in Builders : pc[b] = "idle"
  <2>1. CASE List(c)
    BY <1>4, <2>1 DEF List, Quiet
  <2>2. CASE CollectorStep(c)
    <3>1. pc[c] # "idle"
      <4>1. CASE ReadGraph(c) \/ Keep(c) \/ Claim(c) \/ Destroy(c)
        BY <4>1 DEF ReadGraph, Keep, Claim, Destroy, Goto
      <4>2. CASE KeptBusy(c) \/ DestroyFails(c) \/ Forget(c) \/ GcReturns(c)
        BY <4>2 DEF KeptBusy, DestroyFails, Forget, GcReturns, Goto
      <4> QED
        BY <2>2, <4>1, <4>2 DEF CollectorStep
    <3> QED
      BY <1>4, <3>1 DEF Window
  <2> QED
    BY <1>1, <2>1, <2>2
<1> QED
  BY <1>3, <1>4

\* A builder touches its own dataset and its own locals.
LEMMA BuildersRest ==
  ASSUME TypeOK, NEW b \in Builders, Solve(b) \/ Lock(b) \/ BuilderStep(b) \/ Abort(b)
  PROVE  /\ \A p \in Procs \ {b} : /\ pc'[p] = pc[p] /\ want'[p] = want[p]
                                  /\ refresh'[p] = refresh[p]
         /\ UNCHANGED <<clone, pass, world>>
         /\ UNCHANGED image \/ want[b] \in Keys
         /\ \A k \in Keys \ {want[b]} : image'[k] = image[k]
         /\ pc[b] = "idle" /\ "overlap" \notin world
              => \A c \in Collectors : pc[c] = "idle"
PROOF
<1> USE DEF TypeOK, Goto, Try, StartJob, EndJob, zfs, job, pass
<1>1. CASE Solve(b)
  BY <1>1 DEF Solve, Quiet
<1>2. CASE Lock(b) \/ Get(b)
  BY <1>2 DEF Lock, Get
<1>3. CASE Create(b) \/ CopyIn(b) \/ CopiedIn(b)
  BY <1>3 DEF Create, CopyIn, CopiedIn
<1>4. CASE Snapshot(b) \/ Seal(b)
  BY <1>4 DEF Snapshot, Seal
<1>5. CASE Record(b) \/ Stat(b)
  BY <1>5 DEF Record, Stat
<1>6. CASE Install(b) \/ Installed(b) \/ Unlock(b)
  BY <1>6 DEF Install, Installed, Unlock
<1>7. CASE Abort(b)
  BY <1>7 DEF Abort
<1> QED
  BY <1>1, <1>2, <1>3, <1>4, <1>5, <1>6, <1>7 DEF BuilderStep

\* Killing a process ends its job and touches no dataset.
LEMMA CrashRests ==
  ASSUME TypeOK, NEW p \in Procs, Crash(p)
  PROVE  /\ "crash" \in world
         /\ UNCHANGED <<image, clone, meta, world>>
         /\ pc'[p] = "idle" /\ todo'[p] = {}
         /\ \A q \in Procs \ {p} : pc'[q] = pc[q] /\ want'[q] = want[q] /\ todo'[q] = todo[q]
  BY DEF TypeOK, Crash, EndJob, StartJob, zfs

LEMMA StepKinds ==
  [Next]_vars => \/ BuilderMoves \/ CopierMoves \/ CollectorMoves
                 \/ \E p \in Procs : Crash(p)
                 \/ \E d \in Disks : Release(d)
                 \/ UNCHANGED vars
  BY DEF Next, BuilderMoves, CopierMoves, CollectorMoves

-----------------------------------------------------------------------------

LEMMA WindowStep ==
  ASSUME TypeOK, Window, [Next]_vars
  PROVE  Window'
PROOF
<1>1. CASE BuilderMoves
  <2>1. PICK b \in Builders : Solve(b) \/ Lock(b) \/ BuilderStep(b) \/ Abort(b)
    BY <1>1 DEF BuilderMoves
  <2>2. /\ \A p \in Procs \ {b} : pc'[p] = pc[p]
        /\ world' = world
        /\ pc[b] = "idle" /\ "overlap" \notin world => \A c \in Collectors : pc[c] = "idle"
    BY <2>1, BuildersRest
  <2>3. \A c \in Collectors : pc'[c] = pc[c]
    BY <2>2, ZfsAssumption
  <2> QED
    BY <2>2, <2>3 DEF Window
<1>2. CASE CollectorMoves
  BY <1>2, CollectorsRest DEF Window
<1>3. CASE CopierMoves \/ (\E d \in Disks : Release(d)) \/ UNCHANGED vars
  BY <1>3, CopiersRest DEF Window
<1>4. CASE \E p \in Procs : Crash(p)
  BY <1>4, CrashRests DEF Window
<1> QED
  BY <1>1, <1>2, <1>3, <1>4, StepKinds

\* Two builders past Lock have two keys.
LEMMA OneHolder ==
  ASSUME LockHeld, NEW a \in Builders, NEW b \in Builders, a # b,
         pc[a] \in HoldingPc, pc[b] \in HoldingPc
  PROVE  want[a] # want[b]
  BY DEF LockHeld

\* While a builder moves, the dataset of another one past Lock rests.
LEMMA OthersDataset ==
  ASSUME TypeOK, LockHeld, NEW b \in Builders,
         Solve(b) \/ Lock(b) \/ BuilderStep(b) \/ Abort(b),
         NEW a \in Builders \ {b}, pc[a] \in HoldingPc
  PROVE  /\ pc'[a] = pc[a] /\ want'[a] = want[a] /\ refresh'[a] = refresh[a]
         /\ image'[want'[a]] = image[want[a]]
PROOF
<1>1. /\ pc'[a] = pc[a] /\ want'[a] = want[a] /\ refresh'[a] = refresh[a]
      /\ \A k \in Keys \ {want[b]} : image'[k] = image[k]
  BY BuildersRest
<1>2. want[a] \in Keys
  BY DEF TypeOK, HoldingPc, BuilderPc
<1>3. CASE pc[b] \in HoldingPc
  BY <1>1, <1>2, <1>3, OneHolder
<1>4. CASE pc[b] \notin HoldingPc
  <2>1. pc[b] \in {"idle", "lock"}
    BY <1>4 DEF TypeOK, HoldingPc
  <2>2. Solve(b) \/ Lock(b)
    <3>1. ~(Get(b) \/ Create(b) \/ CopyIn(b) \/ CopiedIn(b) \/ Snapshot(b) \/ Seal(b))
      BY <2>1 DEF Get, Create, CopyIn, CopiedIn, Snapshot, Seal, Try, Goto
    <3>2. ~(Record(b) \/ Stat(b) \/ Install(b) \/ Installed(b) \/ Unlock(b) \/ Abort(b))
      BY <2>1 DEF Record, Stat, Install, Installed, Unlock, Abort, Try, Goto
    <3> QED
      BY <3>1, <3>2 DEF BuilderStep
  <2> QED
    BY <1>1, <2>2 DEF Solve, Lock, zfs
<1> QED
  BY <1>3, <1>4

\* At rest but for its own put, a dataset a builder holds is complete or gone.
LEMMA HolderSettled ==
  ASSUME TypeOK, LockHeld, Settled, world \cap {"crash", "io"} = {},
         NEW b \in Builders, pc[b] \in HoldingPc \ PutPc
  PROVE  image[want[b]] \in {NoDataset, Full}
PROOF
<1>1. want[b] \in Keys
  BY DEF TypeOK, HoldingPc, BuilderPc
<1>2. \A a \in Builders : ~(pc[a] \in PutPc /\ want[a] = want[b])
  BY OneHolder DEF PutPc, HoldingPc, BuilderPc
<1> QED
  BY <1>1, <1>2 DEF Settled

\* The states of a put follow from one another.
LEMMA StagesFollow ==
  /\ [NoDataset EXCEPT !.there = TRUE] = Created /\ [Full EXCEPT !.there = TRUE] = Full
  /\ [Created EXCEPT !.file = "partial"] = Copying /\ [Copying EXCEPT !.file = "whole"] = Copied
  /\ [Copied EXCEPT !.snap = "whole"] = Snapped /\ [Snapped EXCEPT !.ro = TRUE] = Full
  /\ ~NoDataset.there /\ NoDataset.file = "none" /\ NoDataset.snap = "none"
  /\ Created.there /\ ~Created.ro /\ Full.ro /\ Full.file = "whole"
  /\ Copied.there /\ Copied.file = "whole" /\ Copied.snap = "none" /\ Snapped.there
PROOF
<1>1. /\ NoDataset \in Datasets /\ Created \in Datasets /\ Copying \in Datasets
      /\ Copied \in Datasets /\ Snapped \in Datasets /\ Full \in Datasets
  BY DEF Datasets, Bytes, NoDataset, Created, Copying, Copied, Snapped, Full
<1>2. \A x \in Datasets, v \in BOOLEAN, f \in Bytes :
        /\ [x EXCEPT !.there = v] \in Datasets /\ [x EXCEPT !.ro = v] \in Datasets
        /\ [x EXCEPT !.file = f] \in Datasets /\ [x EXCEPT !.snap = f] \in Datasets
  BY DatasetUpdate
<1>3. "partial" \in Bytes /\ "whole" \in Bytes
  BY DEF Bytes
<1>4. \A x, y \in Datasets :
        x.there = y.there /\ x.file = y.file /\ x.snap = y.snap /\ x.ro = y.ro => x = y
  BY DEF Datasets
<1>5. [NoDataset EXCEPT !.there = TRUE] = Created
  <2> DEFINE x == [NoDataset EXCEPT !.there = TRUE]
  <2>1. x \in Datasets
    BY <1>1, <1>2, <1>3
  <2>2. x.there = Created.there /\ x.file = Created.file /\ x.snap = Created.snap /\ x.ro = Created.ro
    BY DEF NoDataset, Created
  <2> HIDE DEF x
  <2>3. x = Created
    BY <1>1, <1>4, <2>1, <2>2
  <2> QED
    BY <2>3 DEF x
<1>6. [Full EXCEPT !.there = TRUE] = Full
  <2> DEFINE x == [Full EXCEPT !.there = TRUE]
  <2>1. x \in Datasets
    BY <1>1, <1>2, <1>3
  <2>2. x.there = Full.there /\ x.file = Full.file /\ x.snap = Full.snap /\ x.ro = Full.ro
    BY DEF Full
  <2> HIDE DEF x
  <2>3. x = Full
    BY <1>1, <1>4, <2>1, <2>2
  <2> QED
    BY <2>3 DEF x
<1>7. [Created EXCEPT !.file = "partial"] = Copying
  <2> DEFINE x == [Created EXCEPT !.file = "partial"]
  <2>1. x \in Datasets
    BY <1>1, <1>2, <1>3
  <2>2. x.there = Copying.there /\ x.file = Copying.file /\ x.snap = Copying.snap /\ x.ro = Copying.ro
    BY DEF Created, Copying
  <2> HIDE DEF x
  <2>3. x = Copying
    BY <1>1, <1>4, <2>1, <2>2
  <2> QED
    BY <2>3 DEF x
<1>8. [Copying EXCEPT !.file = "whole"] = Copied
  <2> DEFINE x == [Copying EXCEPT !.file = "whole"]
  <2>1. x \in Datasets
    BY <1>1, <1>2, <1>3
  <2>2. x.there = Copied.there /\ x.file = Copied.file /\ x.snap = Copied.snap /\ x.ro = Copied.ro
    BY DEF Copying, Copied
  <2> HIDE DEF x
  <2>3. x = Copied
    BY <1>1, <1>4, <2>1, <2>2
  <2> QED
    BY <2>3 DEF x
<1>9. [Copied EXCEPT !.snap = "whole"] = Snapped
  <2> DEFINE x == [Copied EXCEPT !.snap = "whole"]
  <2>1. x \in Datasets
    BY <1>1, <1>2, <1>3
  <2>2. x.there = Snapped.there /\ x.file = Snapped.file /\ x.snap = Snapped.snap /\ x.ro = Snapped.ro
    BY DEF Copied, Snapped
  <2> HIDE DEF x
  <2>3. x = Snapped
    BY <1>1, <1>4, <2>1, <2>2
  <2> QED
    BY <2>3 DEF x
<1>10. [Snapped EXCEPT !.ro = TRUE] = Full
  <2> DEFINE x == [Snapped EXCEPT !.ro = TRUE]
  <2>1. x \in Datasets
    BY <1>1, <1>2, <1>3
  <2>2. x.there = Full.there /\ x.file = Full.file /\ x.snap = Full.snap /\ x.ro = Full.ro
    BY DEF Snapped, Full
  <2> HIDE DEF x
  <2>3. x = Full
    BY <1>1, <1>4, <2>1, <2>2
  <2> QED
    BY <2>3 DEF x
<1>11. /\ ~NoDataset.there /\ NoDataset.file = "none" /\ NoDataset.snap = "none"
       /\ Created.there /\ ~Created.ro /\ Full.ro /\ Full.file = "whole"
  BY DEF NoDataset, Created, Full
<1>12. Copied.there /\ Copied.file = "whole" /\ Copied.snap = "none" /\ Snapped.there
  BY DEF Copied, Snapped
<1> QED
  BY <1>5, <1>6, <1>7, <1>8, <1>9, <1>10, <1>11, <1>12, Zenon

\* What a builder does to its own dataset.
LEMMA OwnStage ==
  ASSUME TypeOK, LockHeld, PutStages, Settled, world \cap {"crash", "io"} = {},
         NEW b \in Builders, Solve(b) \/ Lock(b) \/ BuilderStep(b) \/ Abort(b)
  PROVE  /\ PutStage(b)'
         /\ \/ pc'[b] \in PutPc /\ want'[b] = want[b]
            \/ image'[want[b]] \in {NoDataset, Full}
            \/ UNCHANGED image /\ pc[b] \notin PutPc
PROOF
<1> DEFINE Goal == /\ PutStage(b)'
                   /\ \/ pc'[b] \in PutPc /\ want'[b] = want[b]
                      \/ image'[want[b]] \in {NoDataset, Full}
                      \/ UNCHANGED image /\ pc[b] \notin PutPc
<1>1. PutStage(b)
  BY DEF PutStages
<1>2. pc[b] \in HoldingPc \ PutPc => image[want[b]] \in {NoDataset, Full}
  BY HolderSettled
<1> USE DEF TypeOK, Goto, Try, zfs, job
<1>3. CASE Solve(b)
  BY <1>3 DEF Solve, PutStage, PutPc
<1>4. CASE Lock(b) \/ Get(b)
  BY <1>4 DEF Lock, Get, PutStage, PutPc
<1>5. CASE Create(b)
  <2>1. pc[b] \in HoldingPc \ PutPc /\ want[b] \in Keys
    BY <1>5 DEF Create, HoldingPc, PutPc, BuilderPc
  <2>2. image'[want[b]] \in {Created, Full}
    <3>1. image'[want[b]] = [image[want[b]] EXCEPT !.there = TRUE]
      BY <1>5, <2>1 DEF Create
    <3> QED
      BY <1>2, <1>5, <2>1, <3>1, StagesFollow DEF Create
  <2>3. want' = want /\ pc'[b] = "copy"
    BY <1>5 DEF Create, BuilderPc
  <2> QED
    BY <2>2, <2>3 DEF PutStage, PutPc
<1>6. CASE CopyIn(b)
  <2>1. want[b] \in Keys /\ image[want[b]] \in {NoDataset, Created, Full}
    BY <1>1, <1>6 DEF CopyIn, PutStage
  <2>2. \/ pc'[b] = "copying" /\ image'[want[b]] = Copying
        \/ pc'[b] = "err" /\ image'[want[b]] \in {NoDataset, Full}
    <3>1. CASE image[want[b]].there /\ ~image[want[b]].ro
      <4>1. image'[want[b]] = [image[want[b]] EXCEPT !.file = "partial"]
        BY <1>6, <2>1, <3>1 DEF CopyIn
      <4> QED
        BY <1>6, <2>1, <3>1, <4>1, StagesFollow DEF CopyIn
    <3>2. CASE ~(image[want[b]].there /\ ~image[want[b]].ro)
      <4>1. image' = image
        BY <1>6, <3>2 DEF CopyIn
      <4> QED
        BY <1>6, <2>1, <3>2, <4>1, StagesFollow DEF CopyIn
    <3> QED
      BY <3>1, <3>2
  <2>3. want' = want
    BY <1>6 DEF CopyIn, BuilderPc
  <2> QED
    BY <2>2, <2>3 DEF PutStage, PutPc
<1>7. CASE CopiedIn(b)
  <2>1. want[b] \in Keys /\ image[want[b]] = Copying
    BY <1>1, <1>7 DEF CopiedIn, PutStage
  <2>2. pc'[b] = "snapshot" /\ image'[want[b]] = Copied
    <3>1. image'[want[b]] = [image[want[b]] EXCEPT !.file = "whole"]
      BY <1>7, <2>1 DEF CopiedIn
    <3> QED
      BY <1>2, <1>7, <2>1, <3>1, StagesFollow DEF CopiedIn
  <2>3. want' = want
    BY <1>7 DEF CopiedIn, BuilderPc
  <2> QED
    BY <2>2, <2>3 DEF PutStage, PutPc
<1>8. CASE Snapshot(b)
  <2>1. want[b] \in Keys /\ image[want[b]] \in {NoDataset, Copied}
    BY <1>1, <1>8 DEF Snapshot, PutStage
  <2>2. \/ pc'[b] = "seal" /\ image'[want[b]] = Snapped
        \/ pc'[b] = "err" /\ image'[want[b]] = NoDataset
    <3>1. CASE image[want[b]].there /\ ~Ready(want[b])
      <4>1. image'[want[b]] = [image[want[b]] EXCEPT !.snap = image[want[b]].file]
        BY <1>8, <2>1, <3>1 DEF Snapshot, Ready
      <4> QED
        BY <1>8, <2>1, <3>1, <4>1, StagesFollow DEF Snapshot, Ready
    <3>2. CASE ~(image[want[b]].there /\ ~Ready(want[b]))
      <4>1. image' = image
        BY <1>8, <3>2 DEF Snapshot, Ready
      <4> QED
        BY <1>8, <2>1, <3>2, <4>1, StagesFollow DEF Snapshot, Ready
    <3> QED
      BY <3>1, <3>2
  <2>3. want' = want
    BY <1>8 DEF Snapshot, BuilderPc
  <2> QED
    BY <2>2, <2>3 DEF PutStage, PutPc
<1>9. CASE Seal(b)
  <2>1. want[b] \in Keys /\ image[want[b]] \in {NoDataset, Snapped}
    BY <1>1, <1>9 DEF Seal, PutStage
  <2>2. \/ pc'[b] = "record" /\ image'[want[b]] = Full
        \/ pc'[b] = "err" /\ image'[want[b]] = NoDataset
    <3>1. CASE image[want[b]].there
      <4>1. image'[want[b]] = [image[want[b]] EXCEPT !.ro = TRUE]
        BY <1>9, <2>1, <3>1 DEF Seal
      <4> QED
        BY <1>9, <2>1, <3>1, <4>1, StagesFollow DEF Seal
    <3>2. CASE ~(image[want[b]].there)
      <4>1. image' = image
        BY <1>9, <3>2 DEF Seal
      <4> QED
        BY <1>9, <2>1, <3>2, <4>1, StagesFollow DEF Seal
    <3> QED
      BY <3>1, <3>2
  <2>3. want' = want
    BY <1>9 DEF Seal, BuilderPc
  <2> QED
    BY <2>2, <2>3 DEF PutStage, PutPc
<1>10. CASE Record(b) \/ Stat(b)
  BY <1>10 DEF Record, Stat, PutStage, PutPc
<1>11. CASE Install(b) \/ Installed(b) \/ Unlock(b)
  BY <1>11 DEF Install, Installed, Unlock, PutStage, PutPc
<1>12. CASE Abort(b)
  BY <1>12 DEF Abort
<1> QED
  BY <1>3, <1>4, <1>5, <1>6, <1>7, <1>8, <1>9, <1>10, <1>11, <1>12 DEF BuilderStep

LEMMA BuilderPuts ==
  ASSUME TypeOK, LockHeld, PutStages, Settled, world \cap {"crash", "io"} = {},
         NEW b \in Builders, Solve(b) \/ Lock(b) \/ BuilderStep(b) \/ Abort(b)
  PROVE  PutStages' /\ Settled'
PROOF
<1>1. /\ PutStage(b)'
      /\ \/ pc'[b] \in PutPc /\ want'[b] = want[b]
         \/ image'[want[b]] \in {NoDataset, Full}
         \/ UNCHANGED image /\ pc[b] \notin PutPc
  BY OwnStage
<1>2. ASSUME NEW a \in Builders \ {b} PROVE PutStage(a)'
  <2>1. pc'[a] = pc[a]
    BY BuildersRest
  <2>2. CASE pc[a] \in PutPc
    <3>1. pc[a] \in HoldingPc
      BY <2>2 DEF PutPc, HoldingPc, BuilderPc
    <3>2. image'[want'[a]] = image[want[a]]
      BY <3>1, OthersDataset
    <3> QED
      BY <2>1, <3>2 DEF PutStages, PutStage
  <2>3. CASE pc[a] \notin PutPc
    BY <2>1, <2>3 DEF PutStage, PutPc
  <2> QED
    BY <2>2, <2>3
<1>3. ASSUME NEW k \in Keys
      PROVE  \/ image'[k] \in {NoDataset, Full}
             \/ \E a \in Builders : pc'[a] \in PutPc /\ want'[a] = k
  <2>1. \/ image[k] \in {NoDataset, Full}
        \/ \E a \in Builders : pc[a] \in PutPc /\ want[a] = k
    BY DEF Settled
  <2>2. \A a \in Builders \ {b} : pc'[a] = pc[a] /\ want'[a] = want[a]
    BY BuildersRest
  <2>3. CASE k # want[b]
    <3>1. image'[k] = image[k]
      BY <2>3, BuildersRest
    <3> QED
      BY <2>1, <2>2, <2>3, <3>1
  <2>4. CASE k = want[b]
    BY <1>1, <2>1, <2>2, <2>4
  <2> QED
    BY <2>3, <2>4
<1> QED
  BY <1>1, <1>2, <1>3 DEF PutStages, Settled

LEMMA PutStep ==
  ASSUME TypeOK, LockHeld, PutStages, Settled, [Next]_vars
  PROVE  PutStages' /\ Settled'
PROOF
<1> SUFFICES ASSUME world' \cap {"crash", "io"} = {}
             PROVE  PutStages' /\ Settled'
  BY DEF PutStages, Settled
<1>1. CASE BuilderMoves
  <2>1. PICK b \in Builders : Solve(b) \/ Lock(b) \/ BuilderStep(b) \/ Abort(b)
    BY <1>1 DEF BuilderMoves
  <2>2. world' = world
    BY <2>1, BuildersRest
  <2> QED
    BY <2>1, <2>2, BuilderPuts
<1>2. CASE CollectorMoves
  <2>1. /\ \A b \in Builders : pc'[b] = pc[b] /\ want'[b] = want[b]
        /\ world' = world
        /\ UNCHANGED image \/ \E c \in Collectors : Destroy(c)
    BY <1>2, CollectorsRest
  <2>2. CASE UNCHANGED image
    BY <2>1, <2>2 DEF PutStages, PutStage, Settled
  <2>3. CASE \E c \in Collectors : Destroy(c)
    <3>1. PICK k \in Keys : /\ ~InUse(k)
                           /\ image' = [image EXCEPT ![k] = NoDataset]
      BY <2>3 DEF Destroy, Goto, TypeOK
    <3>2. \A j \in Keys : image'[j] = IF j = k THEN NoDataset ELSE image[j]
      BY <3>1 DEF TypeOK
    <3>3. \A b \in Builders : pc[b] = "copying" => want[b] # k
      BY <3>1 DEF InUse
    <3>4. \A b \in Builders : pc[b] \in PutPc => want[b] \in Keys
      BY DEF TypeOK, PutPc
    <3>5. PutStages'
      BY <2>1, <3>2, <3>3, <3>4 DEF PutStages, PutStage, PutPc
    <3>6. Settled'
      BY <2>1, <3>2 DEF Settled
    <3> QED
      BY <3>5, <3>6
  <2> QED
    BY <2>1, <2>2, <2>3
<1>3. CASE CopierMoves \/ (\E d \in Disks : Release(d)) \/ UNCHANGED vars
  <2>1. /\ UNCHANGED <<image, world>>
        /\ \A b \in Builders : pc'[b] = pc[b] /\ want'[b] = want[b]
    BY <1>3, CopiersRest
  <2> QED
    BY <2>1 DEF PutStages, PutStage, Settled
<1>4. CASE \E p \in Procs : Crash(p)
  BY <1>4 DEF Crash
<1> QED
  BY <1>1, <1>2, <1>3, <1>4, StepKinds

\* A build with nothing in its way goes on.
LEMMA OwnWay ==
  ASSUME TypeOK, LockHeld, Settled, Undisturbed, world = {},
         NEW b \in Builders, Solve(b) \/ Lock(b) \/ BuilderStep(b) \/ Abort(b),
         ~refresh'[b]
  PROVE  OnItsWay(b)'
PROOF
<1> DEFINE k == want[b]
<1>1. UNCHANGED job => OnItsWay(b)
  BY DEF Undisturbed, job
<1>2. pc[b] \in HoldingPc \ PutPc => image[k] \in {NoDataset, Full}
  BY HolderSettled
<1>3. pc[b] \notin {"idle", "graph", "scan"} => k \in Keys
  BY DEF TypeOK
<1>4. UNCHANGED job => want' = want
  BY DEF job
<1> HIDE DEF k
<1>5. CASE Solve(b) \/ Lock(b) \/ Unlock(b)
  <2>1. pc'[b] \in {"lock", "get", "idle"}
    BY <1>5 DEF Solve, Lock, Unlock, Goto, TypeOK
  <2> QED
    BY <2>1 DEF OnItsWay
<1>6. CASE Get(b)
  <2>1. pc[b] = "get" /\ UNCHANGED <<image, job>>
    BY <1>6 DEF Get, Goto, zfs
  <2>2. image[k] \in {NoDataset, Full}
    BY <1>2, <2>1 DEF HoldingPc, PutPc, BuilderPc
  <2>3. \/ pc'[b] = "stat" /\ image[k].file # "none"
        \/ pc'[b] = "create" /\ image[k].file = "none"
    BY <1>6, <2>1 DEF Get, Goto, TypeOK, Served, job, k
  <2> QED
    BY <1>4, <2>1, <2>2, <2>3, StagesFollow DEF OnItsWay, k
<1>7. CASE Create(b)
  <2>1. pc[b] = "create" /\ pc'[b] = "copy" /\ UNCHANGED job
        /\ image' = [image EXCEPT ![k].there = TRUE]
    BY <1>7 DEF Create, Goto, TypeOK, k
  <2>2. image[k] = NoDataset
    BY <1>1, <2>1 DEF OnItsWay, k
  <2>3. image'[k] = [image[k] EXCEPT !.there = TRUE]
    BY <1>3, <2>1 DEF TypeOK
  <2> QED
    BY <1>4, <2>1, <2>2, <2>3, StagesFollow DEF OnItsWay, k
<1>8. CASE CopyIn(b)
  <2>1. pc[b] = "copy" /\ UNCHANGED job
    BY <1>8 DEF CopyIn, Try, Goto
  <2>2. image[k] = Created
    BY <1>1, <2>1 DEF OnItsWay, k
  <2>3. pc'[b] = "copying" /\ image' = [image EXCEPT ![k].file = "partial"]
    BY <1>8, <2>2, StagesFollow DEF CopyIn, Try, Goto, TypeOK, k
  <2>4. image'[k] = [image[k] EXCEPT !.file = "partial"]
    BY <1>3, <2>1, <2>3 DEF TypeOK
  <2> QED
    BY <1>4, <2>1, <2>2, <2>3, <2>4, StagesFollow DEF OnItsWay, k
<1>9. CASE CopiedIn(b)
  <2>1. pc[b] = "copying" /\ pc'[b] = "snapshot" /\ UNCHANGED job
        /\ image' = [image EXCEPT ![k].file = "whole"]
    BY <1>9 DEF CopiedIn, Goto, TypeOK, k
  <2>2. image[k] = Copying
    BY <1>1, <2>1 DEF OnItsWay, k
  <2>3. image'[k] = [image[k] EXCEPT !.file = "whole"]
    BY <1>3, <2>1 DEF TypeOK
  <2> QED
    BY <1>4, <2>1, <2>2, <2>3, StagesFollow DEF OnItsWay, k
<1>10. CASE Snapshot(b)
  <2>1. pc[b] = "snapshot" /\ UNCHANGED job
    BY <1>10 DEF Snapshot, Try, Goto
  <2>2. image[k] = Copied
    BY <1>1, <2>1 DEF OnItsWay, k
  <2>3. pc'[b] = "seal" /\ image' = [image EXCEPT ![k].snap = image[k].file]
    BY <1>10, <2>2, StagesFollow DEF Snapshot, Try, Goto, TypeOK, Ready, k
  <2>4. image'[k] = [image[k] EXCEPT !.snap = image[k].file]
    BY <1>3, <2>1, <2>3 DEF TypeOK
  <2> QED
    BY <1>4, <2>1, <2>2, <2>3, <2>4, StagesFollow DEF OnItsWay, k
<1>11. CASE Seal(b)
  <2>1. pc[b] = "seal" /\ UNCHANGED job
    BY <1>11 DEF Seal, Try, Goto
  <2>2. image[k] = Snapped
    BY <1>1, <2>1 DEF OnItsWay, k
  <2>3. pc'[b] = "record" /\ image' = [image EXCEPT ![k].ro = TRUE]
    BY <1>11, <2>2, StagesFollow DEF Seal, Try, Goto, TypeOK, k
  <2>4. image'[k] = [image[k] EXCEPT !.ro = TRUE]
    BY <1>3, <2>1, <2>3 DEF TypeOK
  <2> QED
    BY <1>4, <2>1, <2>2, <2>3, <2>4, StagesFollow DEF OnItsWay, k
<1>12. CASE Record(b) \/ Stat(b) \/ Install(b) \/ Installed(b)
  <2>1. /\ pc[b] \in {"record", "stat", "install", "installing"}
        /\ UNCHANGED <<image, job>>
    BY <1>12 DEF Record, Stat, Install, Installed, Try, Goto, zfs
  <2>2. image[k] = Full
    BY <1>1, <2>1 DEF OnItsWay, k
  <2>3. Served(want[b])
    BY <2>2, StagesFollow DEF Served, k
  <2>4. pc'[b] \in {"stat", "install", "installing", "ok"}
    BY <1>12, <2>3 DEF Record, Stat, Install, Installed, Try, Goto, TypeOK
  <2> QED
    BY <1>4, <2>1, <2>2, <2>4 DEF OnItsWay, k
<1>13. CASE Abort(b)
  BY <1>13 DEF Abort
<1> QED
  BY <1>5, <1>6, <1>7, <1>8, <1>9, <1>10, <1>11, <1>12, <1>13 DEF BuilderStep

LEMMA UndisturbedStep ==
  ASSUME TypeOK, LockHeld, Window, Settled, Undisturbed, [Next]_vars
  PROVE  Undisturbed'
PROOF
<1> SUFFICES ASSUME world' = {}, NEW b \in Builders, ~refresh'[b]
             PROVE  OnItsWay(b)'
  BY DEF Undisturbed
<1>1. CASE BuilderMoves
  <2>1. PICK a \in Builders : Solve(a) \/ Lock(a) \/ BuilderStep(a) \/ Abort(a)
    BY <1>1 DEF BuilderMoves
  <2>2. world = {}
    BY <2>1, BuildersRest
  <2>3. CASE a = b
    BY <2>1, <2>2, <2>3, OwnWay
  <2>4. CASE a # b
    <3>1. pc'[b] = pc[b] /\ refresh'[b] = refresh[b]
      BY <2>1, <2>4, BuildersRest
    <3>2. OnItsWay(b)
      BY <2>2, <3>1 DEF Undisturbed
    <3>3. CASE pc[b] \in HoldingPc
      <4>1. image'[want'[b]] = image[want[b]]
        BY <2>1, <2>4, <3>3, OthersDataset
      <4> QED
        BY <3>1, <3>2, <4>1 DEF OnItsWay
    <3>4. CASE pc[b] \notin HoldingPc
      BY <3>1, <3>4 DEF OnItsWay, HoldingPc, BuilderPc
    <3> QED
      BY <3>3, <3>4
  <2> QED
    BY <2>3, <2>4
<1>2. CASE CollectorMoves
  <2>1. pc[b] = "idle" /\ pc'[b] = pc[b]
    BY <1>2, CollectorsRest
  <2> QED
    BY <2>1 DEF OnItsWay
<1>3. CASE CopierMoves \/ (\E d \in Disks : Release(d)) \/ UNCHANGED vars
  <2>1. /\ UNCHANGED <<image, world>>
        /\ pc'[b] = pc[b] /\ want'[b] = want[b] /\ refresh'[b] = refresh[b]
    BY <1>3, CopiersRest
  <2> QED
    BY <2>1 DEF Undisturbed, OnItsWay
<1>4. CASE \E p \in Procs : Crash(p)
  BY <1>4 DEF Crash
<1> QED
  BY <1>1, <1>2, <1>3, <1>4, StepKinds

LEMMA PutInit == Init => Window /\ PutStages /\ Settled /\ Undisturbed
  BY DEF Init, Window, PutStages, PutStage, Settled, Undisturbed, OnItsWay

LEMMA PutInvStep == PutInv /\ [Next]_vars => PutInv'
  BY ZfsInvStep, WindowStep, PutStep, UndisturbedStep DEF PutInv, ZfsInv

LEMMA PutInvCommits == PutInv => Committed /\ BuildsSucceed
PROOF
<1> SUFFICES ASSUME PutInv PROVE Committed /\ BuildsSucceed
  OBVIOUS
<1>1. ASSUME world \cap {"crash", "io"} = {}, NEW k \in Keys, Served(k), lock[k] = None
      PROVE  image[k] = Full
  <2>1. \A b \in Builders : pc[b] \in PutPc => want[b] # k
    <3>1. PutPc \subseteq HoldingPc
      BY DEF PutPc, HoldingPc, BuilderPc
    <3>2. \A b \in Builders : pc[b] \in HoldingPc => lock[want[b]] = b
      BY DEF PutInv, ZfsInv, LockHeld
    <3> QED
      BY <1>1, <3>1, <3>2, ZfsAssumption
  <2>2. image[k] \in {NoDataset, Full}
    BY <1>1, <2>1 DEF PutInv, Settled
  <2> QED
    BY <1>1, <2>2, StagesFollow DEF Served
<1>2. Committed
  BY <1>1 DEF Committed, Full
<1>3. BuildsSucceed
  BY DEF BuildsSucceed, PutInv, Undisturbed, OnItsWay
<1> QED
  BY <1>2, <1>3

-----------------------------------------------------------------------------

\* A builder destroys nothing, creates a dataset before it fills it, and records
\* only what it serves.
LEMMA BuildersKeep ==
  ASSUME TypeOK, ServedThere, NEW b \in Builders,
         Solve(b) \/ Lock(b) \/ BuilderStep(b) \/ Abort(b)
  PROVE  /\ \A k \in Keys : image[k].there => image'[k].there
         /\ \A k \in Keys : image'[k].file # "none" => image'[k].there
         /\ pc'[b] = "copying" => image'[want'[b]].there
         /\ \A k \in meta' \ meta : image[k].there
PROOF
<1>1. pc[b] \notin {"idle", "graph", "scan"} => want[b] \in Keys
  BY DEF TypeOK
<1> USE DEF TypeOK, Datasets, ServedThere, Served, Goto, Try, zfs, job
<1>2. CASE Solve(b) \/ Lock(b) \/ Get(b) \/ Unlock(b)
  BY <1>2 DEF Solve, Lock, Get, Unlock
<1>3. CASE Create(b)
  BY <1>1, <1>3 DEF Create
<1>4. CASE CopyIn(b)
  BY <1>1, <1>4 DEF CopyIn
<1>5. CASE CopiedIn(b)
  BY <1>1, <1>5 DEF CopiedIn
<1>6. CASE Snapshot(b) \/ Seal(b)
  <2>1. \A k \in Keys : image'[k].there = image[k].there /\ image'[k].file = image[k].file
    <3>1. CASE Snapshot(b)
      BY <1>1, <3>1 DEF Snapshot
    <3>2. CASE Seal(b)
      BY <1>1, <3>2 DEF Seal
    <3> QED
      BY <1>6, <3>1, <3>2
  <2>2. meta' = meta /\ pc'[b] # "copying"
    BY <1>6 DEF Snapshot, Seal
  <2> QED
    BY <2>1, <2>2
<1>7. CASE Record(b) \/ Stat(b)
  BY <1>1, <1>7 DEF Record, Stat
<1>8. CASE Install(b) \/ Installed(b) \/ Abort(b)
  BY <1>1, <1>8 DEF Install, Installed, Abort
<1> QED
  BY <1>2, <1>3, <1>4, <1>5, <1>6, <1>7, <1>8 DEF BuilderStep

LEMMA ServedThereStep ==
  ASSUME TypeOK, ServedThere, [Next]_vars
  PROVE  ServedThere'
PROOF
<1>1. CASE BuilderMoves
  <2>1. PICK b \in Builders : Solve(b) \/ Lock(b) \/ BuilderStep(b) \/ Abort(b)
    BY <1>1 DEF BuilderMoves
  <2>2. /\ \A k \in Keys : image[k].there => image'[k].there
        /\ \A k \in Keys : image'[k].file # "none" => image'[k].there
        /\ pc'[b] = "copying" => image'[want'[b]].there
    BY <2>1, BuildersKeep
  <2>3. \A a \in Builders \ {b} : pc'[a] = pc[a] /\ want'[a] = want[a]
    BY <2>1, BuildersRest
  <2>4. \A a \in Builders : pc[a] = "copying" => want[a] \in Keys
    BY DEF TypeOK
  <2> QED
    BY <2>2, <2>3, <2>4 DEF ServedThere, Served
<1>2. CASE CollectorMoves
  <2>1. /\ \A b \in Builders : pc'[b] = pc[b] /\ want'[b] = want[b]
        /\ UNCHANGED image \/ \E c \in Collectors : Destroy(c)
    BY <1>2, CollectorsRest
  <2>2. CASE UNCHANGED image
    BY <2>1, <2>2 DEF ServedThere, Served
  <2>3. CASE \E c \in Collectors : Destroy(c)
    <3>1. PICK k \in Keys : ~InUse(k) /\ image' = [image EXCEPT ![k] = NoDataset]
      BY <2>3 DEF Destroy, Goto, TypeOK
    <3>2. \A j \in Keys : image'[j] = IF j = k THEN NoDataset ELSE image[j]
      BY <3>1 DEF TypeOK
    <3>3. \A b \in Builders : pc[b] = "copying" => want[b] \in Keys \ {k}
      BY <3>1 DEF InUse, TypeOK
    <3> QED
      BY <2>1, <3>2, <3>3, StagesFollow DEF ServedThere, Served
  <2> QED
    BY <2>1, <2>2, <2>3
<1>3. CASE CopierMoves \/ (\E d \in Disks : Release(d)) \/ UNCHANGED vars
  <2>1. /\ UNCHANGED image
        /\ \A b \in Builders : pc'[b] = pc[b] /\ want'[b] = want[b]
    BY <1>3, CopiersRest
  <2> QED
    BY <2>1 DEF ServedThere, Served
<1>4. CASE \E p \in Procs : Crash(p)
  <2>1. PICK p \in Procs : Crash(p)
    BY <1>4
  <2>2. /\ UNCHANGED image /\ pc'[p] = "idle"
        /\ \A q \in Procs \ {p} : pc'[q] = pc[q] /\ want'[q] = want[q]
    BY <2>1, CrashRests
  <2> QED
    BY <2>2 DEF ServedThere, Served
<1> QED
  BY <1>1, <1>2, <1>3, <1>4, StepKinds

\* What a collector does to its own pass.
LEMMA OwnPass ==
  ASSUME TypeOK, NEW c \in Collectors, List(c) \/ CollectorStep(c)
  PROVE  /\ \A p \in Procs \ {c} : pc'[p] = pc[p] /\ want'[p] = want[p] /\ todo'[p] = todo[p]
         /\ world' = world
         /\ UNCHANGED image \/ Destroy(c)
         /\ pc'[c] = "forget" <=> Destroy(c)
         /\ pc'[c] = "destroy" <=> Claim(c)
         /\ pc'[c] = "err" <=> DestroyFails(c)
         /\ meta' \subseteq meta
         /\ todo'[c] \subseteq todo[c] \/ (List(c) /\ todo'[c] = meta)
         /\ pc[c] = "forget" => want[c] \notin meta' \cup todo'[c]
         /\ \A k \in meta \ meta' : Forget(c) /\ k = want[c]
PROOF
<1>1. ASSUME NEW k \in Keys, Done(c, k)
      PROVE  /\ todo'[c] = todo[c] \ {k} /\ pc'[c] \in {"idle", "scan"}
             /\ \A p \in Procs \ {c} : pc'[p] = pc[p] /\ todo'[p] = todo[p]
  BY <1>1 DEF Done, TypeOK
<1> USE DEF TypeOK, Goto, zfs, job, pass
<1>2. CASE List(c)
  BY <1>2 DEF List, ReadGraph, Keep, Claim, Destroy, KeptBusy, DestroyFails, Forget, GcReturns
<1>3. CASE ReadGraph(c)
  BY <1>3 DEF ReadGraph, Claim, Destroy, DestroyFails, Forget
<1>4. CASE Keep(c)
  <2>1. PICK k \in Keys : Done(c, k)
    BY <1>4 DEF Keep
  <2>2. /\ todo'[c] = todo[c] \ {k} /\ pc'[c] \in {"idle", "scan"}
        /\ \A p \in Procs \ {c} : pc'[p] = pc[p] /\ todo'[p] = todo[p]
    BY <1>1, <2>1
  <2> QED
    BY <1>4, <2>2 DEF Keep, Claim, Destroy, DestroyFails, Forget
<1>5. CASE Claim(c)
  BY <1>5 DEF Claim, Destroy, DestroyFails, Forget
<1>6. CASE Destroy(c)
  BY <1>6 DEF Claim, Destroy, DestroyFails, Forget
<1>7. CASE KeptBusy(c)
  <2>1. want[c] \in Keys
    BY <1>7 DEF KeptBusy
  <2>2. /\ todo'[c] = todo[c] \ {want[c]} /\ pc'[c] \in {"idle", "scan"}
        /\ \A p \in Procs \ {c} : pc'[p] = pc[p] /\ todo'[p] = todo[p]
    BY <1>1, <1>7, <2>1 DEF KeptBusy
  <2> QED
    BY <1>7, <2>2 DEF KeptBusy, Claim, Destroy, DestroyFails, Forget
<1>8. CASE DestroyFails(c)
  BY <1>8 DEF Claim, Destroy, DestroyFails, Forget
<1>9. CASE Forget(c)
  <2>1. want[c] \in Keys
    BY <1>9 DEF Forget
  <2>2. /\ todo'[c] = todo[c] \ {want[c]} /\ pc'[c] \in {"idle", "scan"}
        /\ \A p \in Procs \ {c} : pc'[p] = pc[p] /\ todo'[p] = todo[p]
    BY <1>1, <1>9, <2>1 DEF Forget
  <2> QED
    BY <1>9, <2>2 DEF Claim, Destroy, DestroyFails, Forget
<1>10. CASE GcReturns(c)
  BY <1>10 DEF GcReturns, EndJob, StartJob, Claim, Destroy, DestroyFails, Forget
<1> QED
  BY <1>2, <1>3, <1>4, <1>5, <1>6, <1>7, <1>8, <1>9, <1>10 DEF CollectorStep

LEMMA ForgettingStep ==
  ASSUME TypeOK, Window, Forgetting, [Next]_vars
  PROVE  Forgetting'
PROOF
<1> SUFFICES ASSUME "overlap" \notin world', NEW c \in Collectors, pc'[c] = "forget"
             PROVE  ~image'[want'[c]].there
  BY DEF Forgetting
<1>1. CASE BuilderMoves
  <2>1. PICK b \in Builders : Solve(b) \/ Lock(b) \/ BuilderStep(b) \/ Abort(b)
    BY <1>1 DEF BuilderMoves
  <2>2. /\ pc'[c] = pc[c] /\ world' = world
        /\ pc[b] = "idle" => pc[c] = "idle"
    BY <2>1, BuildersRest, ZfsAssumption
  <2> QED
    BY <2>2 DEF Window
<1>2. CASE CollectorMoves
  <2>1. PICK e \in Collectors : List(e) \/ CollectorStep(e)
    BY <1>2 DEF CollectorMoves
  <2>2. /\ \A p \in Procs \ {e} : pc'[p] = pc[p] /\ want'[p] = want[p]
        /\ world' = world
        /\ UNCHANGED image \/ Destroy(e)
        /\ pc'[e] = "forget" <=> Destroy(e)
    BY <2>1, OwnPass
  <2>3. CASE Destroy(e)
    <3>1. /\ want[e] \in Keys /\ want' = want
          /\ image' = [image EXCEPT ![want[e]] = NoDataset]
      BY <2>3 DEF Destroy, Goto, TypeOK, job
    <3>2. \A k \in Keys : image'[k] = IF k = want[e] THEN NoDataset ELSE image[k]
      BY <3>1 DEF TypeOK
    <3>3. want[c] \in Keys
      BY <2>2, <3>1 DEF TypeOK
    <3>4. CASE c = e
      BY <3>1, <3>2, <3>4, StagesFollow
    <3>5. CASE c # e
      BY <2>2, <3>1, <3>2, <3>3, <3>5, StagesFollow DEF Forgetting
    <3> QED
      BY <3>4, <3>5
  <2>4. CASE ~Destroy(e)
    BY <2>2, <2>4 DEF Forgetting
  <2> QED
    BY <2>3, <2>4
<1>3. CASE CopierMoves \/ (\E d \in Disks : Release(d)) \/ UNCHANGED vars
  BY <1>3, CopiersRest DEF Forgetting
<1>4. CASE \E p \in Procs : Crash(p)
  <2>1. PICK p \in Procs : Crash(p)
    BY <1>4
  <2>2. /\ UNCHANGED <<image, world>> /\ pc'[p] = "idle"
        /\ \A q \in Procs \ {p} : pc'[q] = pc[q] /\ want'[q] = want[q]
    BY <2>1, CrashRests
  <2> QED
    BY <2>2 DEF Forgetting
<1> QED
  BY <1>1, <1>2, <1>3, <1>4, StepKinds

LEMMA LonePassStep ==
  ASSUME TypeOK, ServedThere, LonePass, [Next]_vars
  PROVE  LonePass'
PROOF
<1> SUFFICES ASSUME "crash" \notin world', \A c, e \in Collectors : c = e,
                    NEW c \in Collectors
             PROVE  /\ \A k \in meta' \cup todo'[c] :
                         image'[k].there \/ (pc'[c] = "forget" /\ want'[c] = k)
                    /\ pc'[c] = "destroy" => want'[c] \in todo'[c]
                    /\ pc'[c] # "err"
  BY DEF LonePass
<1>1. "crash" \notin world =>
        /\ \A k \in meta \cup todo[c] :
             image[k].there \/ (pc[c] = "forget" /\ want[c] = k)
        /\ pc[c] = "destroy" => want[c] \in todo[c]
        /\ pc[c] # "err"
  BY DEF LonePass
<1>2. meta \cup todo[c] \subseteq Keys
  BY DEF TypeOK
<1>3. CASE BuilderMoves
  <2>1. PICK b \in Builders : Solve(b) \/ Lock(b) \/ BuilderStep(b) \/ Abort(b)
    BY <1>3 DEF BuilderMoves
  <2>2. /\ pc'[c] = pc[c] /\ want'[c] = want[c] /\ todo'[c] = todo[c] /\ world' = world
    BY <2>1, BuildersRest, ZfsAssumption DEF pass
  <2>3. /\ \A k \in Keys : image[k].there => image'[k].there
        /\ \A k \in meta' \ meta : image[k].there
    BY <2>1, BuildersKeep
  <2>4. meta' \subseteq Keys
    BY ZfsTypes DEF TypeOK
  <2> QED
    BY <1>1, <1>2, <2>2, <2>3, <2>4
<1>4. CASE CollectorMoves
  <2>1. List(c) \/ CollectorStep(c)
    BY <1>4 DEF CollectorMoves
  <2>2. /\ world' = world
        /\ UNCHANGED image \/ Destroy(c)
        /\ pc'[c] = "forget" <=> Destroy(c)
        /\ pc'[c] = "destroy" <=> Claim(c)
        /\ pc'[c] = "err" <=> DestroyFails(c)
        /\ meta' \subseteq meta
        /\ todo'[c] \subseteq todo[c] \/ (List(c) /\ todo'[c] = meta)
        /\ pc[c] = "forget" => want[c] \notin meta' \cup todo'[c]
    BY <2>1, OwnPass
  <2>3. ~DestroyFails(c)
    BY <1>1, <2>2 DEF DestroyFails, Goto
  <2>4. Claim(c) => want'[c] \in todo'[c]
    BY DEF Claim, TypeOK, pass
  <2>5. CASE Destroy(c)
    <3>1. /\ want[c] \in Keys /\ want' = want /\ pc[c] = "destroy"
          /\ image' = [image EXCEPT ![want[c]] = NoDataset]
      BY <2>5 DEF Destroy, Goto, TypeOK, job
    <3>2. \A k \in Keys : k # want[c] => image'[k] = image[k]
      BY <3>1 DEF TypeOK
    <3>3. UNCHANGED <<meta, todo>>
      BY <2>5 DEF Destroy, pass
    <3> QED
      BY <1>1, <1>2, <2>2, <2>3, <2>4, <3>1, <3>2, <3>3
  <2>6. CASE ~Destroy(c)
    BY <1>1, <2>2, <2>3, <2>4, <2>6
  <2> QED
    BY <2>5, <2>6
<1>5. CASE CopierMoves \/ (\E d \in Disks : Release(d)) \/ UNCHANGED vars
  BY <1>1, <1>5, CopiersRest DEF pass
<1>6. CASE \E p \in Procs : Crash(p)
  BY <1>6, CrashRests
<1> QED
  BY <1>3, <1>4, <1>5, <1>6, StepKinds

LEMMA GcInit == Init => ServedThere /\ Forgetting /\ LonePass
  BY DEF Init, ServedThere, Served, NoDataset, Forgetting, LonePass

LEMMA GcInvStep == GcInv /\ [Next]_vars => GcInv'
  BY ZfsInvStep, WindowStep, ServedThereStep, ForgettingStep, LonePassStep DEF GcInv, ZfsInv

\* Only a collector that has destroyed an image drops its metadata.
LEMMA ForgetsStep ==
  ASSUME TypeOK, ServedThere, Forgetting, [Next]_vars, NEW k \in meta \ meta'
  PROVE  "overlap" \in world \/ ~image[k].there
PROOF
<1>1. CASE BuilderMoves
  <2>1. PICK b \in Builders : Solve(b) \/ Lock(b) \/ BuilderStep(b) \/ Abort(b)
    BY <1>1 DEF BuilderMoves
  <2>2. meta \subseteq meta'
    <3>1. CASE Record(b)
      BY <3>1 DEF Record
    <3>2. CASE Solve(b) \/ Lock(b) \/ Get(b) \/ Create(b) \/ CopyIn(b) \/ CopiedIn(b)
      BY <3>2 DEF Solve, Lock, Get, Create, CopyIn, CopiedIn
    <3>3. CASE Snapshot(b) \/ Seal(b) \/ Stat(b) \/ Install(b) \/ Installed(b)
      BY <3>3 DEF Snapshot, Seal, Stat, Install, Installed
    <3>4. CASE Unlock(b) \/ Abort(b)
      BY <3>4 DEF Unlock, Abort
    <3> QED
      BY <2>1, <3>1, <3>2, <3>3, <3>4 DEF BuilderStep
  <2> QED
    BY <2>2
<1>2. CASE CollectorMoves
  <2>1. PICK c \in Collectors : List(c) \/ CollectorStep(c)
    BY <1>2 DEF CollectorMoves
  <2>2. Forget(c) /\ k = want[c]
    BY <2>1, OwnPass
  <2> QED
    BY <2>2 DEF Forget, Forgetting
<1>3. CASE CopierMoves \/ (\E d \in Disks : Release(d)) \/ UNCHANGED vars
  BY <1>3, CopiersRest
<1>4. CASE \E p \in Procs : Crash(p)
  BY <1>4, CrashRests
<1> QED
  BY <1>1, <1>2, <1>3, <1>4, StepKinds

-----------------------------------------------------------------------------

\* Unless a put was cut short, an image that get() serves is complete and
\* sealed and has its snapshot, gc at any moment notwithstanding
\* (zfs.rs 187-191).
THEOREM ZfsCommitted == Spec => []Committed
PROOF
<1>1. Init => PutInv
  BY ZfsInit, PutInit DEF PutInv
<1>2. PutInv => Committed
  BY PutInvCommits
<1> QED
  BY <1>1, <1>2, PutInvStep, PTL DEF Spec

\* With nothing in its way a build succeeds, whatever the builds and passes
\* before it left, unless it was asked to rebuild a sealed image
\* (zfs.rs 176-191).
THEOREM ZfsBuildsSucceed == Spec => []BuildsSucceed
PROOF
<1>1. Init => PutInv
  BY ZfsInit, PutInit DEF PutInv
<1>2. PutInv => BuildsSucceed
  BY PutInvCommits
<1> QED
  BY <1>1, <1>2, PutInvStep, PTL DEF Spec

\* A lone gc that is not killed never stops at an entry whose dataset is not
\* there, whatever builds do meanwhile (zfs.rs 27-28).
THEOREM ZfsPassCompletes == Spec => []PassCompletes
PROOF
<1>1. Init => GcInv
  BY ZfsInit, PutInit, GcInit DEF GcInv
<1>2. GcInv => PassCompletes
  BY DEF GcInv, LonePass, PassCompletes
<1> QED
  BY <1>1, <1>2, GcInvStep, PTL DEF Spec

\* Where no pass overlaps a build, metadata goes only when the image is gone,
\* whatever any number of builds before and passes, copies and VMs beside it do,
\* and wherever they are killed or fail (zfs.rs 344-360).
THEOREM ZfsForgetsOnlyDestroyed == Spec => ForgetsOnlyDestroyed
PROOF
<1>1. Init => GcInv
  BY ZfsInit, PutInit, GcInit DEF GcInv
<1>2. GcInv /\ [Next]_vars
        => ["overlap" \notin world => \A k \in meta \ meta' : ~image[k].there]_vars
  BY ForgetsStep DEF GcInv, ZfsInv
<1> QED
  BY <1>1, <1>2, GcInvStep, PTL DEF Spec, ForgetsOnlyDestroyed

=============================================================================
