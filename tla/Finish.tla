------------------------------- MODULE Finish -------------------------------
(***************************************************************************)
(* How a staging file becomes an image: the formatter writes a file        *)
(* system, tune2fs gives it a journal, debugfs and a direct write take the *)
(* wall clock out of it again (src/ext4/finish.rs), and put moves it into  *)
(* the store.  It opens up what actions Export, Format and PutRename of    *)
(* module Store take as three steps.                                       *)
(*                                                                         *)
(* The tools are processes of their own.  A killed vmbuild leaves its lock *)
(* at once; the tool it was waiting for may go on.                         *)
(***************************************************************************)

CONSTANTS
  Builders,    (* the vmbuild processes that build one key                 *)
  Files,       (* the inodes of staging files and blobs                    *)
  None,        (* no process, no file, no tool                             *)
  Faults       (* what may go wrong besides an error vmbuild sees          *)

VARIABLES
  lock,        (* the builder that holds the key's flock                   *)
  pc,          (* what each builder does next                              *)
  child,       (* the tool each builder waits for                          *)
  orphan,      (* a tool whose builder was killed                          *)
  staging,     (* the file named tmp/<key>.building                        *)
  blob,        (* the file named blobs/<key>.ext4                          *)
  file         (* what the files hold                                      *)

vars == <<lock, pc, child, orphan, staging, blob, file>>

-----------------------------------------------------------------------------
(* Files and tools.                                                        *)

Stamps == {"none", "clock", "epoch"}

\* body: the file system; jtime: the times of the journal's inode;
\* stime: when the superblock was written.
Images == [body : {"part", "whole"}, journal : {"none", "part", "done"},
           jtime : Stamps, stime : Stamps, synced : BOOLEAN]

\* A file as File::create leaves it, and as Formatter::close does.
Truncated == [body |-> "part", journal |-> "none", jtime |-> "none",
              stime |-> "none", synced |-> FALSE]
Formatted == [Truncated EXCEPT !.body = "whole"]

\* A tool at work: the file it has open, and how far it has come.
Tools == [name : {"tune2fs", "debugfs"}, on : Files,
          at : {"opened", "wrote", "ok", "failed"}]

\* A builder is killed, its tool survives it, is still there when a later build
\* has exported its tar, debugfs fails.
ASSUME FinishAssumption ==
  /\ None \notin Builders \cup Files \cup Tools
  /\ Faults \subseteq {"kill", "orphan", "slow", "debugfs"}

\* tune2fs refuses a file system that has a journal.
Opened(name, f) ==
  [name |-> name, on |-> f,
   at |-> IF name = "tune2fs" /\ file[f].journal # "none" THEN "failed" ELSE "opened"]

\* What a tool writes before it closes the file system.
Edited(name, img) ==
  IF name = "tune2fs"
  THEN [img EXCEPT !.journal = "part", !.jtime = "clock", !.synced = FALSE]
  ELSE [img EXCEPT !.jtime = "epoch", !.synced = FALSE]

\* What it writes as it closes it: the superblock, with the wall clock.
Flushed(name, img) ==
  IF name = "tune2fs"
  THEN [img EXCEPT !.journal = "done", !.stime = "clock", !.synced = FALSE]
  ELSE [img EXCEPT !.stime = "clock", !.synced = FALSE]

\* Tool t, before (t) and after (u) a step of its own.
ToolStep(t, u) ==
  \/ /\ t.at = "opened"
     /\ u = [t EXCEPT !.at = "wrote"]
     /\ file' = [file EXCEPT ![t.on] = Edited(t.name, @)]
  \/ /\ t.at = "wrote"
     /\ u = [t EXCEPT !.at = "ok"]
     /\ file' = [file EXCEPT ![t.on] = Flushed(t.name, @)]
  \/ /\ t.at \in {"opened", "wrote"}
     /\ t.name = "tune2fs" \/ "debugfs" \in Faults
     /\ u = [t EXCEPT !.at = "failed"]
     /\ UNCHANGED file

-----------------------------------------------------------------------------
(* A build.                                                                *)

Init ==
  /\ lock = None
  /\ pc = [b \in Builders |-> "idle"]
  /\ child = [b \in Builders |-> None]
  /\ orphan = [b \in Builders |-> None]
  /\ staging = None /\ blob = None
  /\ file = [f \in Files |-> Truncated]

Goto(b, label) == pc' = [pc EXCEPT ![b] = label]

\* The lookup under the lock: a hit, unless a refresh was asked for.
Lock(b) ==
  /\ pc[b] = "idle"
  /\ lock = None
  /\ lock' = b
  /\ \E refresh \in BOOLEAN :
       Goto(b, IF blob = None \/ refresh THEN "create" ELSE "unlock")
  /\ UNCHANGED <<child, orphan, staging, blob, file>>

\* After the export: Formatter::new truncates what an earlier build left, which
\* keeps the inode.
Create(b) ==
  /\ pc[b] = "create"
  /\ "slow" \in Faults \/ \A c \in Builders : orphan[c] = None
  /\ \E f \in Files :
       /\ IF staging # None THEN f = staging
          ELSE f # blob /\ \A c \in Builders : orphan[c] # None => orphan[c].on # f
       /\ staging' = f
       /\ file' = [file EXCEPT ![f] = Truncated]
  /\ Goto(b, "format")
  /\ UNCHANGED <<lock, child, orphan, blob>>

\* close() writes the inode tables, the descriptors and the superblock.
Format(b) ==
  /\ pc[b] = "format"
  /\ file' = [file EXCEPT ![staging] = Formatted]
  /\ Goto(b, "tune2fs")
  /\ UNCHANGED <<lock, child, orphan, staging, blob>>

Spawn(b) ==
  /\ pc[b] \in {"tune2fs", "debugfs"}
  /\ child[b] = None
  /\ child' = [child EXCEPT ![b] = Opened(pc[b], staging)]
  /\ UNCHANGED <<lock, pc, orphan, staging, blob, file>>

ChildStep(b) ==
  /\ child[b] # None
  /\ \E u \in Tools : ToolStep(child[b], u) /\ child' = [child EXCEPT ![b] = u]
  /\ UNCHANGED <<lock, pc, orphan, staging, blob>>

\* Mutant of Journaled: the exit status of tune2fs is not looked at.
JournaledAnyway(b) ==
  /\ pc[b] = "tune2fs" /\ child[b] # None /\ child[b].at \in {"ok", "failed"}
  /\ Goto(b, "debugfs")
  /\ child' = [child EXCEPT ![b] = None]
  /\ UNCHANGED <<lock, orphan, staging, blob, file>>

\* add_journal(): the build fails when tune2fs did.
Journaled(b) ==
  /\ pc[b] = "tune2fs" /\ child[b] # None /\ child[b].at \in {"ok", "failed"}
  /\ Goto(b, IF child[b].at = "ok" THEN "debugfs" ELSE "unlock")
  /\ child' = [child EXCEPT ![b] = None]
  /\ UNCHANGED <<lock, orphan, staging, blob, file>>

\* normalize_timestamps(): wait() returns, and its status is not looked at.
Waited(b) ==
  /\ pc[b] = "debugfs" /\ child[b] # None /\ child[b].at \in {"ok", "failed"}
  /\ Goto(b, "patch")
  /\ child' = [child EXCEPT ![b] = None]
  /\ UNCHANGED <<lock, orphan, staging, blob, file>>

\* The times of the superblock, written past the tools.  (No image has
\* metadata_csum: the formatter does not set it and tune2fs -j does not add it.)
Patch(b) ==
  /\ pc[b] = "patch"
  /\ file' = [file EXCEPT ![staging] = [@ EXCEPT !.stime = "epoch", !.synced = FALSE]]
  /\ Goto(b, "sync")
  /\ UNCHANGED <<lock, child, orphan, staging, blob>>

Sync(b) ==
  /\ pc[b] = "sync"
  /\ file' = [file EXCEPT ![staging] = [@ EXCEPT !.synced = TRUE]]
  /\ Goto(b, "put")
  /\ UNCHANGED <<lock, child, orphan, staging, blob>>

Put(b) ==
  /\ pc[b] = "put"
  /\ blob' = staging
  /\ staging' = None
  /\ Goto(b, "unlock")
  /\ UNCHANGED <<lock, child, orphan, file>>

\* An error of a system call, a tar or dumpe2fs: the staging file stays.
GiveUp(b) ==
  /\ pc[b] \in {"create", "format", "tune2fs", "debugfs", "patch", "sync", "put"}
  /\ child[b] = None
  /\ Goto(b, "unlock")
  /\ UNCHANGED <<lock, child, orphan, staging, blob, file>>

Unlock(b) ==
  /\ pc[b] = "unlock"
  /\ lock' = None
  /\ Goto(b, "idle")
  /\ UNCHANGED <<child, orphan, staging, blob, file>>

\* A kill closes the lock file.  The tool dies too, or lives on.
Kill(b) ==
  /\ "kill" \in Faults
  /\ pc[b] # "idle"
  /\ lock' = None
  /\ Goto(b, "idle")
  /\ child' = [child EXCEPT ![b] = None]
  /\ \/ UNCHANGED orphan
     \/ /\ "orphan" \in Faults
        /\ child[b] # None /\ orphan[b] = None
        /\ orphan' = [orphan EXCEPT ![b] = child[b]]
  /\ UNCHANGED <<staging, blob, file>>

\* A tool nobody waits for takes a step, or is gone.
OrphanStep(b) ==
  /\ orphan[b] # None
  /\ \/ \E u \in Tools : ToolStep(orphan[b], u) /\ orphan' = [orphan EXCEPT ![b] = u]
     \/ orphan' = [orphan EXCEPT ![b] = None] /\ UNCHANGED file
  /\ UNCHANGED <<lock, pc, child, staging, blob>>

Next == \E b \in Builders :
  \/ Lock(b) \/ Create(b) \/ Format(b) \/ Spawn(b) \/ ChildStep(b)
  \/ Journaled(b) \/ Waited(b) \/ Patch(b) \/ Sync(b) \/ Put(b)
  \/ GiveUp(b) \/ Unlock(b) \/ Kill(b) \/ OrphanStep(b)

Spec == Init /\ [][Next]_vars

-----------------------------------------------------------------------------
(* Properties.                                                             *)

\* Every variable has its type.
TypeOK ==
  /\ lock \in Builders \cup {None}
  /\ pc \in [Builders -> {"idle", "create", "format", "tune2fs", "debugfs",
                          "patch", "sync", "put", "unlock"}]
  /\ child \in [Builders -> Tools \cup {None}]
  /\ orphan \in [Builders -> Tools \cup {None}]
  /\ staging \in Files \cup {None}
  /\ blob \in Files \cup {None}
  /\ file \in [Files -> Images]

\* A stored image is complete, has its journal, was fsynced before it got its
\* name, and carries no wall-clock time, so that equal inputs give equal bytes
\* (README.md 122-125); whatever was killed or failed before, and whatever an
\* earlier build left in the staging file.
StoredFinished ==
  blob # None =>
    file[blob] = [body |-> "whole", journal |-> "done", jtime |-> "epoch",
                  stime |-> "epoch", synced |-> TRUE]
=============================================================================
