---------------------------- MODULE FinishProofs ----------------------------
(* What is stored is finished, for any number of builders and files: when  *)
(* a tool that outlives its builder ends before a later build opens the    *)
(* staging file, and debugfs does what it is told.                         *)
EXTENDS Finish, TLAPS

Finished == [body |-> "whole", journal |-> "done", jtime |-> "epoch",
             stime |-> "epoch", synced |-> TRUE]

\* The faults under which the theorem holds.
Benign == "slow" \notin Faults /\ "debugfs" \notin Faults

\* Where a builder may be while a tool without a builder is at work.
Waiting == {"idle", "create", "unlock"}

\* Where a builder has the staging file open, or will open it by its name.
Staged == {"format", "tune2fs", "debugfs", "patch", "sync", "put"}

\* What the staging file holds when a builder, and its tool, have come so far.
Stage(label, tool, img) ==
  /\ label \in {"tune2fs", "debugfs", "patch", "sync", "put"} => img.body = "whole"
  /\ label = "tune2fs" /\ tool # None => (tool.at = "ok" => img.journal = "done")
  /\ label \in {"debugfs", "patch", "sync", "put"} => img.journal = "done"
  /\ label = "debugfs" /\ tool # None =>
       (tool.at # "failed" /\ (tool.at \in {"wrote", "ok"} => img.jtime = "epoch"))
  /\ label \in {"patch", "sync", "put"} => img.jtime = "epoch"
  /\ label \in {"sync", "put"} => img.stime = "epoch"
  /\ label = "put" => img.synced

\* Who is past Lock holds the lock; a tool with a builder has the staging file.
Owned ==
  \A b \in Builders :
    /\ pc[b] # "idle" => lock = b
    /\ pc[b] \in Staged => staging # None /\ Stage(pc[b], child[b], file[staging])
    /\ child[b] # None =>
         /\ pc[b] \in {"tune2fs", "debugfs"}
         /\ child[b].name = pc[b] /\ child[b].on = staging

\* A tool without a builder has a file that is not stored, and no builder has
\* gone on to the staging file.
Orphaned ==
  \A c \in Builders : orphan[c] # None =>
    /\ orphan[c].on # blob
    /\ \A b \in Builders : pc[b] \in Waiting

FinishInv ==
  /\ TypeOK
  /\ Owned
  /\ Orphaned
  /\ staging # None => staging # blob
  /\ StoredFinished

USE FinishAssumption

-----------------------------------------------------------------------------
LEMMA FinishInit == Init => FinishInv
<1>. SUFFICES ASSUME Init PROVE FinishInv
  OBVIOUS
<1>1. Truncated \in Images
  BY DEF Truncated, Images, Stamps
<1>2. TypeOK
  BY <1>1 DEF Init, TypeOK
<1>3. Owned /\ Orphaned /\ (staging # None => staging # blob) /\ StoredFinished
  BY DEF Init, Owned, Orphaned, StoredFinished, Staged
<1>. QED BY <1>2, <1>3 DEF FinishInv

\* A tool's step changes the file it has open, within the type, and nothing else.
LEMMA ToolStepType ==
  ASSUME TypeOK, NEW t \in Tools, NEW u \in Tools, ToolStep(t, u)
  PROVE  /\ file' \in [Files -> Images]
         /\ \A f \in Files : f # t.on => file'[f] = file[f]
<1>1. t.on \in Files
  BY DEF Tools
<1>2. ASSUME NEW img \in Images PROVE Edited(t.name, img) \in Images /\ Flushed(t.name, img) \in Images
  BY DEF Edited, Flushed, Images, Stamps
<1>3. file[t.on] \in Images
  BY <1>1 DEF TypeOK
<1>. QED BY <1>1, <1>2, <1>3 DEF ToolStep, TypeOK

-----------------------------------------------------------------------------
(* The types.                                                              *)

LEMMA FinishTypes ==
  ASSUME TypeOK, Owned, [Next]_vars
  PROVE  TypeOK'
<1>. USE DEF Goto
<1>1. CASE UNCHANGED vars
  BY <1>1 DEF vars, TypeOK
<1>. SUFFICES ASSUME NEW b \in Builders,
                \/ Lock(b) \/ Create(b) \/ Format(b) \/ Spawn(b) \/ ChildStep(b)
                \/ Journaled(b) \/ Waited(b) \/ Patch(b) \/ Sync(b) \/ Put(b)
                \/ GiveUp(b) \/ Unlock(b) \/ Kill(b) \/ OrphanStep(b)
              PROVE  TypeOK'
  BY <1>1 DEF Next
<1>2. pc[b] \in Staged => staging \in Files
  BY DEF Owned, TypeOK
<1>3. CASE Lock(b) BY <1>3 DEF Lock, TypeOK
<1>4. CASE Create(b)
  <2>1. Truncated \in Images
    BY DEF Truncated, Images, Stamps
  <2>. QED BY <1>4, <2>1 DEF Create, TypeOK
<1>5. CASE Format(b)
  <2>1. Formatted \in Images
    BY DEF Formatted, Truncated, Images, Stamps
  <2>. QED BY <1>2, <1>5, <2>1 DEF Format, Staged, TypeOK
<1>6. CASE Spawn(b)
  <2>1. Opened(pc[b], staging) \in Tools
    BY <1>2, <1>6 DEF Spawn, Staged, Opened, Tools
  <2>. QED BY <1>6, <2>1 DEF Spawn, TypeOK
<1>7. CASE ChildStep(b)
  <2>1. PICK u \in Tools : ToolStep(child[b], u) /\ child' = [child EXCEPT ![b] = u]
    BY <1>7 DEF ChildStep
  <2>2. child[b] \in Tools
    BY <1>7 DEF ChildStep, TypeOK
  <2>3. file' \in [Files -> Images]
    BY <2>1, <2>2, ToolStepType
  <2>. QED BY <1>7, <2>1, <2>3 DEF ChildStep, TypeOK
<1>8. CASE Journaled(b) BY <1>8 DEF Journaled, TypeOK
<1>9. CASE Waited(b) BY <1>9 DEF Waited, TypeOK
<1>10. CASE Patch(b)
  <2>1. ASSUME NEW img \in Images
        PROVE  [img EXCEPT !.stime = "epoch", !.synced = FALSE] \in Images
    BY DEF Images, Stamps
  <2>2. file[staging] \in Images
    BY <1>2, <1>10 DEF Patch, Staged, TypeOK
  <2>. QED BY <1>2, <1>10, <2>1, <2>2 DEF Patch, Staged, TypeOK
<1>11. CASE Sync(b)
  <2>1. ASSUME NEW img \in Images PROVE [img EXCEPT !.synced = TRUE] \in Images
    BY DEF Images
  <2>2. file[staging] \in Images
    BY <1>2, <1>11 DEF Sync, Staged, TypeOK
  <2>. QED BY <1>2, <1>11, <2>1, <2>2 DEF Sync, Staged, TypeOK
<1>12. CASE Put(b) BY <1>12 DEF Put, TypeOK
<1>13. CASE GiveUp(b) BY <1>13 DEF GiveUp, TypeOK
<1>14. CASE Unlock(b) BY <1>14 DEF Unlock, TypeOK
<1>15. CASE Kill(b) BY <1>15 DEF Kill, TypeOK
<1>16. CASE OrphanStep(b)
  <2>1. CASE \E u \in Tools : ToolStep(orphan[b], u) /\ orphan' = [orphan EXCEPT ![b] = u]
    <3>1. PICK u \in Tools : ToolStep(orphan[b], u) /\ orphan' = [orphan EXCEPT ![b] = u]
      BY <2>1
    <3>2. orphan[b] \in Tools
      BY <1>16 DEF OrphanStep, TypeOK
    <3>3. file' \in [Files -> Images]
      BY <3>1, <3>2, ToolStepType
    <3>. QED BY <1>16, <3>1, <3>3 DEF OrphanStep, TypeOK
  <2>2. CASE orphan' = [orphan EXCEPT ![b] = None] /\ UNCHANGED file
    BY <1>16, <2>2 DEF OrphanStep, TypeOK
  <2>. QED BY <1>16, <2>1, <2>2 DEF OrphanStep
<1>. QED BY <1>3, <1>4, <1>5, <1>6, <1>7, <1>8, <1>9, <1>10, <1>11, <1>12,
            <1>13, <1>14, <1>15, <1>16

-----------------------------------------------------------------------------
(* The rest of the invariant.                                              *)

\* What a tool leaves is what the stage of its builder says.
LEMMA ToolStepStage ==
  ASSUME TypeOK, Benign, NEW t \in Tools, NEW u \in Tools, ToolStep(t, u),
         t.on \in Files, Stage(t.name, t, file[t.on])
  PROVE  /\ u.name = t.name /\ u.on = t.on
         /\ Stage(t.name, u, file'[t.on])
<1>1. t.name \in {"tune2fs", "debugfs"} /\ t.at \in {"opened", "wrote", "ok", "failed"}
  BY DEF Tools
<1>2. file[t.on] \in Images
  BY DEF TypeOK
<1>3. t # None /\ u # None
  OBVIOUS
<1>4. u.name = t.name /\ u.on = t.on
  BY DEF ToolStep, Tools
<1>5. CASE t.at = "opened" /\ u.at = "wrote" /\ file'[t.on] = Edited(t.name, file[t.on])
  <2>1. CASE t.name = "tune2fs"
    BY <1>2, <1>3, <1>4, <1>5, <2>1 DEF Stage, Edited, Images
  <2>2. CASE t.name = "debugfs"
    BY <1>2, <1>3, <1>4, <1>5, <2>2 DEF Stage, Edited, Images
  <2>. QED BY <1>1, <2>1, <2>2
<1>6. CASE t.at = "wrote" /\ u.at = "ok" /\ file'[t.on] = Flushed(t.name, file[t.on])
  <2>1. CASE t.name = "tune2fs"
    BY <1>2, <1>3, <1>4, <1>6, <2>1 DEF Stage, Flushed, Images
  <2>2. CASE t.name = "debugfs"
    BY <1>2, <1>3, <1>4, <1>6, <2>2 DEF Stage, Flushed, Images
  <2>. QED BY <1>1, <2>1, <2>2
<1>7. CASE t.name = "tune2fs" /\ u.at = "failed" /\ UNCHANGED file
  BY <1>1, <1>2, <1>3, <1>4, <1>7 DEF Stage
<1>. QED BY <1>1, <1>4, <1>5, <1>6, <1>7 DEF ToolStep, TypeOK, Tools, Benign

\* The builder past Lock is the only one, and the only one with a tool.
LEMMA OneAtWork ==
  ASSUME TypeOK, Owned, NEW b \in Builders, lock = None \/ lock = b
  PROVE  \A c \in Builders \ {b} : pc[c] = "idle" /\ child[c] = None
BY DEF Owned, TypeOK

\* The invariant after a step of builder b that leaves the others idle.
LEMMA OwnedAfter ==
  ASSUME NEW b \in Builders,
         \A c \in Builders \ {b} : pc'[c] = "idle" /\ child'[c] = None,
         pc'[b] # "idle" => lock' = b,
         pc'[b] \in Staged => staging' # None /\ Stage(pc'[b], child'[b], file'[staging']),
         child'[b] # None =>
           /\ pc'[b] \in {"tune2fs", "debugfs"}
           /\ child'[b].name = pc'[b] /\ child'[b].on = staging'
  PROVE  Owned'
BY DEF Owned, Staged

Steps(b) ==
  \/ Lock(b) \/ Create(b) \/ Format(b) \/ Spawn(b) \/ ChildStep(b)
  \/ Journaled(b) \/ Waited(b) \/ Patch(b) \/ Sync(b) \/ Put(b)
  \/ GiveUp(b) \/ Unlock(b) \/ Kill(b)

\* Who takes a step of a build has the lock or gets it.
LEMMA HasLock ==
  ASSUME TypeOK, Owned, NEW b \in Builders, Steps(b)
  PROVE  lock = None \/ lock = b
<1>1. CASE Lock(b) BY <1>1 DEF Lock
<1>2. CASE pc[b] # "idle" BY <1>2 DEF Owned
<1>3. CASE ChildStep(b) BY <1>3 DEF ChildStep, Owned
<1>. QED BY <1>1, <1>2, <1>3 DEF Steps, Create, Format, Spawn, Journaled, Waited,
            Patch, Sync, Put, GiveUp, Unlock, Kill

LEMMA OwnedKept ==
  ASSUME TypeOK, TypeOK', Owned, Benign, NEW b \in Builders, Steps(b)
  PROVE  Owned'
<1>. USE DEF Goto
<1>1. \A c \in Builders \ {b} : pc[c] = "idle" /\ child[c] = None
  BY HasLock, OneAtWork
<1>2. \A c \in Builders \ {b} : pc'[c] = "idle" /\ child'[c] = None
  BY <1>1 DEF Steps, Lock, Create, Format, Spawn, ChildStep, Journaled, Waited,
     Patch, Sync, Put, GiveUp, Unlock, Kill, TypeOK
<1>3. /\ pc[b] # "idle" => lock = b
      /\ pc[b] \in Staged => staging # None /\ Stage(pc[b], child[b], file[staging])
      /\ child[b] # None =>
           /\ pc[b] \in {"tune2fs", "debugfs"}
           /\ child[b].name = pc[b] /\ child[b].on = staging
  BY DEF Owned
<1>4. /\ pc[b] \in Staged => staging \in Files
      /\ child[b] # None => child[b] \in Tools
  BY <1>3 DEF TypeOK
<1>5. CASE Lock(b)
  BY <1>2, <1>3, <1>5, OwnedAfter DEF Lock, TypeOK, Staged
<1>6. CASE Create(b)
  BY <1>2, <1>3, <1>6, OwnedAfter DEF Create, TypeOK, Staged, Stage
<1>7. CASE Format(b)
  <2>1. file'[staging].body = "whole" /\ child[b] = None
    BY <1>3, <1>4, <1>7 DEF Format, Staged, Formatted, Truncated, TypeOK
  <2>. QED BY <1>2, <1>3, <1>7, <2>1, OwnedAfter DEF Format, TypeOK, Staged, Stage
<1>8. CASE Spawn(b)
  <2>1. /\ child'[b].name = pc[b] /\ child'[b].on = staging
        /\ child'[b].at \in {"opened", "failed"}
        /\ pc[b] = "debugfs" => child'[b].at = "opened"
    BY <1>8 DEF Spawn, Opened, TypeOK
  <2>. QED BY <1>2, <1>3, <1>8, <2>1, OwnedAfter DEF Spawn, TypeOK, Staged, Stage
<1>9. CASE ChildStep(b)
  <2>1. PICK u \in Tools : ToolStep(child[b], u) /\ child' = [child EXCEPT ![b] = u]
    BY <1>9 DEF ChildStep
  <2>2. child'[b] = u /\ child[b] # None
    BY <1>9, <2>1 DEF ChildStep, TypeOK
  <2>3. pc[b] \in Staged /\ child[b].on = staging /\ child[b].name = pc[b]
    BY <1>3, <2>2 DEF Staged
  <2>4. /\ u.name = child[b].name /\ u.on = child[b].on
        /\ Stage(child[b].name, u, file'[child[b].on])
    BY <1>3, <1>4, <2>1, <2>2, <2>3, ToolStepStage
  <2>. QED BY <1>2, <1>3, <1>9, <2>2, <2>3, <2>4, OwnedAfter DEF ChildStep
<1>10. CASE Journaled(b)
  BY <1>2, <1>3, <1>10, OwnedAfter DEF Journaled, TypeOK, Staged, Stage
<1>11. CASE Waited(b)
  BY <1>2, <1>3, <1>11, OwnedAfter DEF Waited, TypeOK, Staged, Stage
<1>12. CASE Patch(b)
  <2>1. /\ file'[staging].stime = "epoch"
        /\ file'[staging].body = file[staging].body
        /\ file'[staging].journal = file[staging].journal
        /\ file'[staging].jtime = file[staging].jtime
    BY <1>4, <1>12 DEF Patch, Staged, TypeOK, Images
  <2>. QED BY <1>2, <1>3, <1>12, <2>1, OwnedAfter DEF Patch, TypeOK, Staged, Stage
<1>13. CASE Sync(b)
  <2>1. /\ file'[staging].synced
        /\ file'[staging].body = file[staging].body
        /\ file'[staging].journal = file[staging].journal
        /\ file'[staging].jtime = file[staging].jtime
        /\ file'[staging].stime = file[staging].stime
    BY <1>4, <1>13 DEF Sync, Staged, TypeOK, Images
  <2>. QED BY <1>2, <1>3, <1>13, <2>1, OwnedAfter DEF Sync, TypeOK, Staged, Stage
<1>14. CASE Put(b)
  BY <1>2, <1>3, <1>14, OwnedAfter DEF Put, TypeOK, Staged
<1>15. CASE GiveUp(b)
  BY <1>2, <1>3, <1>15, OwnedAfter DEF GiveUp, TypeOK, Staged
<1>16. CASE Unlock(b)
  BY <1>2, <1>3, <1>16, OwnedAfter DEF Unlock, TypeOK, Staged
<1>17. CASE Kill(b)
  BY <1>2, <1>3, <1>17, OwnedAfter DEF Kill, TypeOK, Staged
<1>. QED BY <1>5, <1>6, <1>7, <1>8, <1>9, <1>10, <1>11, <1>12, <1>13, <1>14,
            <1>15, <1>16, <1>17 DEF Steps

\* No builder goes on to the staging file while a tool without a builder lives.
LEMMA OrphanedKept ==
  ASSUME TypeOK, TypeOK', Owned, Orphaned, Benign, staging # None => staging # blob,
         NEW b \in Builders, Steps(b)
  PROVE  Orphaned'
<1>. USE DEF Goto
<1>1. CASE Kill(b)
  <2>1. \A c \in Builders : pc'[c] = "idle"
    <3>1. \A c \in Builders \ {b} : pc[c] = "idle"
      BY HasLock, OneAtWork
    <3>. QED BY <1>1, <3>1 DEF Kill, TypeOK
  <2>2. orphan' = orphan \/ (child[b] # None /\ orphan' = [orphan EXCEPT ![b] = child[b]])
    BY <1>1 DEF Kill
  <2>3. child[b] # None => child[b].on = staging /\ staging # None
    BY DEF Owned, Staged
  <2>4. blob' = blob
    BY <1>1 DEF Kill
  <2>5. ASSUME NEW c \in Builders, orphan'[c] # None PROVE orphan'[c].on # blob
    BY <2>2, <2>3, <2>5 DEF Orphaned, TypeOK
  <2>. QED BY <2>1, <2>4, <2>5 DEF Orphaned, Waiting
<1>2. CASE ~Kill(b)
  <2>1. UNCHANGED orphan
    BY <1>2 DEF Steps, Lock, Create, Format, Spawn, ChildStep, Journaled, Waited,
       Patch, Sync, Put, GiveUp, Unlock
  <2>2. CASE \A c \in Builders : orphan[c] = None
    BY <2>1, <2>2 DEF Orphaned
  <2>3. CASE \E c \in Builders : orphan[c] # None
    <3>1. \A c \in Builders : pc[c] \in Waiting
      BY <2>3 DEF Orphaned
    <3>2. child[b] = None
      BY <3>1 DEF Owned, Waiting
    <3>3. Lock(b) \/ GiveUp(b) \/ Unlock(b)
      BY <1>2, <2>3, <3>1, <3>2 DEF Steps, Create, Format, Spawn, ChildStep,
         Journaled, Waited, Patch, Sync, Put, Waiting, Benign
    <3>4. blob' = blob /\ \A c \in Builders : pc'[c] \in Waiting
      BY <3>1, <3>3 DEF Lock, GiveUp, Unlock, Waiting, TypeOK
    <3>. QED BY <2>1, <3>4 DEF Orphaned
  <2>. QED BY <2>2, <2>3
<1>. QED BY <1>1, <1>2

\* What is stored stays as it is.
LEMMA StoredKept ==
  ASSUME TypeOK, TypeOK', Owned, Benign, staging # None => staging # blob,
         StoredFinished, NEW b \in Builders, Steps(b)
  PROVE  StoredFinished' /\ (staging' # None => staging' # blob')
<1>. USE DEF Goto
<1>1. CASE Put(b)
  <2>1. staging \in Files /\ Stage("put", child[b], file[staging]) /\ file[staging] \in Images
    BY <1>1 DEF Put, Owned, Staged, TypeOK
  <2>2. file[staging] = Finished
    BY <2>1 DEF Stage, Images, Finished
  <2>. QED BY <1>1, <2>2 DEF Put, StoredFinished, Finished
<1>2. CASE ~Put(b)
  <2>1. blob' = blob
    BY <1>2 DEF Steps, Lock, Create, Format, Spawn, ChildStep, Journaled, Waited,
       Patch, Sync, GiveUp, Unlock, Kill
  <2>2. staging' # None => staging' # blob
    BY <1>2 DEF Steps, Lock, Create, Format, Spawn, ChildStep, Journaled, Waited,
       Patch, Sync, GiveUp, Unlock, Kill, TypeOK
  <2>3. blob # None => file'[blob] = file[blob]
    <3>1. CASE ChildStep(b)
      <4>1. PICK u \in Tools : ToolStep(child[b], u)
        BY <3>1 DEF ChildStep
      <4>2. child[b] \in Tools /\ child[b].on = staging /\ staging # None
        BY <3>1 DEF ChildStep, Owned, Staged, TypeOK
      <4>. QED BY <4>1, <4>2, ToolStepType DEF TypeOK
    <3>2. CASE Create(b)
      BY <2>2, <3>2 DEF Create, TypeOK
    <3>3. CASE Format(b) \/ Patch(b) \/ Sync(b)
      BY <3>3 DEF Format, Patch, Sync, Owned, Staged, TypeOK
    <3>4. CASE UNCHANGED file
      BY <3>4
    <3>. QED BY <1>2, <3>1, <3>2, <3>3, <3>4 DEF Steps, Lock, Spawn, Journaled,
                Waited, GiveUp, Unlock, Kill
  <2>. QED BY <2>1, <2>2, <2>3 DEF StoredFinished
<1>. QED BY <1>1, <1>2

\* A tool without a builder changes neither what is stored nor what a builder
\* has made.
LEMMA OrphanKept ==
  ASSUME FinishInv, TypeOK', NEW b \in Builders, OrphanStep(b)
  PROVE  Owned' /\ Orphaned' /\ StoredFinished' /\ (staging' # None => staging' # blob')
<1>. USE DEF FinishInv
<1>1. orphan[b] \in Tools /\ orphan[b].on # blob /\ \A c \in Builders : pc[c] \in Waiting
  BY DEF OrphanStep, Orphaned, TypeOK
<1>2. UNCHANGED <<lock, pc, child, staging, blob>>
  BY DEF OrphanStep
<1>3. Owned'
  BY <1>1, <1>2 DEF Owned, Waiting, Staged
<1>4. /\ blob # None => file'[blob] = file[blob]
      /\ \A c \in Builders : orphan'[c] # None => orphan'[c].on # blob
  <2>1. CASE \E u \in Tools : ToolStep(orphan[b], u) /\ orphan' = [orphan EXCEPT ![b] = u]
    <3>1. PICK u \in Tools : ToolStep(orphan[b], u) /\ orphan' = [orphan EXCEPT ![b] = u]
      BY <2>1
    <3>2. u.on = orphan[b].on
      BY <1>1, <3>1 DEF ToolStep, Tools
    <3>3. blob # None => file'[blob] = file[blob]
      BY <1>1, <3>1, ToolStepType DEF TypeOK
    <3>. QED BY <1>1, <3>1, <3>2, <3>3 DEF Orphaned, TypeOK
  <2>2. CASE orphan' = [orphan EXCEPT ![b] = None] /\ UNCHANGED file
    BY <2>2 DEF Orphaned, TypeOK
  <2>. QED BY <2>1, <2>2 DEF OrphanStep
<1>. QED BY <1>1, <1>2, <1>3, <1>4 DEF Orphaned, StoredFinished

-----------------------------------------------------------------------------
LEMMA FinishStep ==
  ASSUME Benign, FinishInv, [Next]_vars
  PROVE  FinishInv'
<1>1. TypeOK'
  BY FinishTypes DEF FinishInv
<1>2. CASE UNCHANGED vars
  BY <1>1, <1>2 DEF vars, FinishInv, Owned, Orphaned, StoredFinished
<1>3. ASSUME NEW b \in Builders, Steps(b) PROVE FinishInv'
  BY <1>1, <1>3, OwnedKept, OrphanedKept, StoredKept DEF FinishInv
<1>4. ASSUME NEW b \in Builders, OrphanStep(b) PROVE FinishInv'
  BY <1>1, <1>4, OrphanKept DEF FinishInv
<1>. QED BY <1>2, <1>3, <1>4 DEF Next, Steps

\* A stored image is complete, journaled, fsynced and free of the wall clock
\* (finish.rs 37-102), for any number of builders, killed at any step, and of
\* tools that fail or outlive them for less than a build's export.
THEOREM StoredIsFinished == Benign => (Spec => []StoredFinished)
<1>. SUFFICES ASSUME Benign PROVE Spec => []StoredFinished
  OBVIOUS
<1>1. Init => FinishInv
  BY FinishInit
<1>2. FinishInv /\ [Next]_vars => FinishInv'
  BY FinishStep
<1>3. FinishInv => StoredFinished
  BY DEF FinishInv
<1>. QED BY <1>1, <1>2, <1>3, PTL DEF Spec
=============================================================================
