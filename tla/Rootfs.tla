------------------------------- MODULE Rootfs -------------------------------
(***************************************************************************)
(* What an import promises, without trees, inodes and blocks: a root       *)
(* filesystem is a map from paths to files, which changes as an archive is *)
(* extracted over it, entry by entry, and which the finished image shows.  *)
(*                                                                         *)
(* A file is what its inode says of it.  Every file carries the place of   *)
(* its entry in the archive as its time, so that two paths with the same   *)
(* file are two names of one file.                                         *)
(***************************************************************************)
EXTENDS SequencesExt, FiniteSetsExt, Naturals, TLC

CONSTANTS
  Entries,            (* the entries an archive may have                   *)
  FileFrom(_, _),     (* the file that entry e makes as the n-th           *)
  Base                (* the files of an empty image                       *)

VARIABLES
  files,              (* the file at each path                             *)
  log,                (* the entries extracted so far                      *)
  status              (* "open", "done" or "failed"                        *)

vars == <<files, log, status>>

NoFiles == <<>>

Init ==
  /\ files = Base
  /\ log = <<>>
  /\ status = "open"

\* fs without what is at path and below, or only without what is below.
Removed(fs, path) == Restrict(fs, {p \in DOMAIN fs : ~IsPrefix(path, p)})
Emptied(fs, path) == Restrict(fs, {p \in DOMAIN fs : ~IsStrictPrefix(path, p)})

\* fs with the directories above path that it lacks.  They belong to whom the
\* directory they are in belongs, and are as old as the clock says.
WithParents(fs, path) ==
  LET above == {SubSeq(path, 1, n) : n \in 0 .. Len(path) - 1}
      have  == CHOOSE p \in above \cap DOMAIN fs : \A q \in above \cap DOMAIN fs :
                 Len(q) <= Len(p)
      new   == [fs[have] EXCEPT !.mode = "0755", !.time = "clock"]
  IN fs @@ [p \in above |-> new]

\* fs with file at path.  A directory over a directory keeps what it holds.
Placed(fs, path, file) ==
  IF path \in DOMAIN fs /\ file.kind = "dir"
    THEN [fs EXCEPT ![path].mode = file.mode, ![path].owner = file.owner]
  ELSE (path :> file) @@ WithParents(Removed(fs, path), path)

\* A path leads through directories.  A directory never takes the place of
\* something else, nor does a file take the place of a directory.
MayPlace(fs, path, file) ==
  /\ \A p \in DOMAIN fs : IsStrictPrefix(p, path) => fs[p].kind = "dir"
  /\ path \in DOMAIN fs =>
       \/ file.kind = "dir" /\ fs[path].kind = "dir"
       \/ file.kind = "file" /\ fs[path].kind # "dir"
       \/ file.kind = "symlink"

-----------------------------------------------------------------------------

\* Entry e is extracted next.
Read(e) ==
  /\ status = "open"
  /\ log' = Append(log, e)
  /\ UNCHANGED status

ExtractFile(e) ==
  /\ Read(e)
  /\ e.type \in {"dir", "file", "symlink"}
  /\ LET fs   == files
         file == FileFrom(e, Len(log) + 1)
     IN /\ MayPlace(fs, e.path, file)
        /\ files' = Placed(fs, e.path, file)

ExtractWhiteout(e) ==
  /\ Read(e)
  /\ LET fs == files
     IN \/ e.type = "whiteout" /\ files' = Removed(fs, e.path)
        \/ e.type = "opaque" /\ files' = Emptied(fs, e.path)

\* Nothing to extract, or a hard link, which is put off.
ExtractNothing(e) ==
  /\ Read(e)
  /\ e.type \in {"hardlink", "special", "meta"} \/ (e.type = "dir" /\ e.path = <<>>)
  /\ UNCHANGED files

\* A link that was put off: its path becomes a further name of a file.
Name(link, target) ==
  /\ status = "open"
  /\ UNCHANGED <<log, status>>
  /\ LET fs == files
     IN /\ target \in DOMAIN fs
        /\ fs[target].kind # "dir"
        /\ files' = (link :> fs[target]) @@ Removed(fs, link)

\* The image shows the files the import made of the archive.
Finish ==
  /\ status = "open"
  /\ status' = "done"
  /\ UNCHANGED <<files, log>>

\* An import that fails leaves no image to look at.
GiveUp ==
  /\ status = "open"
  /\ status' = "failed"
  /\ files' = NoFiles
  /\ log' \in {log} \cup {Append(log, e) : e \in Entries}

Next ==
  \/ \E e \in Entries : ExtractFile(e) \/ ExtractWhiteout(e) \/ ExtractNothing(e)
  \/ \E i, j \in {k \in DOMAIN log : log[k].type = "hardlink"} :
       Name(log[i].path, log[j].target)
  \/ Finish
  \/ GiveUp

Spec == Init /\ [][Next]_vars
=============================================================================
