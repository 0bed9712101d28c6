------------------------------- MODULE Import -------------------------------
(***************************************************************************)
(* What the two ways to fill an image share: the archive entries they are  *)
(* fed, the formatter they drive and the image they close.                 *)
(*                                                                         *)
(* An archive entry has a type, a path and, where its type has one, a      *)
(* target or a size.  Its mode, owner, mtime and body are known by its     *)
(* place in the archive, so that one can tell which entry they came from.  *)
(***************************************************************************)
EXTENDS Formatter, Layout

CONSTANTS
  Entries,            (* the entries an archive may have, by source        *)
  MaxEntries,         (* how many entries an archive has at most, by source *)
  Sizes,              (* the image sizes that may be asked for             *)
  Strict              (* Ext4Options.strict_special_files                  *)

\* In a layer the root is only ever a directory.
ASSUME ImportAssumption ==
  /\ Sizes \subseteq Nat /\ Strict \in BOOLEAN
  /\ \A s \in DOMAIN Entries : \A e \in Entries[s] :
       /\ e.path \in Seq(DOMAIN NameBytes) /\ e.size \in Nat
       /\ e.type = "hardlink" => e.target \in Seq(DOMAIN NameBytes)
       /\ s # "tar" /\ e.path = <<>> =>
            e.type \notin {"file", "symlink", "hardlink", "whiteout"}

VARIABLES
  source,             (* "tar": write_ext4_from_tar, "oci": unpack_tar     *)
  size,               (* the size asked for                                *)
  phase,              (* "entries", "links", "closed", "read", "failed"    *)
  seen,               (* the entries read so far                           *)
  pending,            (* hard links put off to the end                     *)
  fmt,                (* the formatter                                     *)
  image,              (* what close() wrote                                *)
  reader              (* what a reader that opened the image found in it   *)

vars == <<source, size, phase, seen, pending, fmt, image, reader>>

NoImage == <<>>
NoReader == <<>>

Init ==
  /\ source \in DOMAIN Entries
  /\ size \in Sizes
  /\ phase = "entries"
  /\ seen = <<>>
  /\ pending = <<>>
  /\ fmt = NewFormatter(DescriptorBlocks(size) + 1)
  /\ image = NoImage
  /\ reader = NoReader

\* The entry that is read next.
Read(e) ==
  /\ phase = "entries"
  /\ Len(seen) < MaxEntries[source]
  /\ e \in Entries[source]
  /\ seen' = Append(seen, e)

\* What the formatter is told of entry e, the n-th of the archive.
Stamp(n) == ToString(n)

\* Mutant of Told: nothing says how old the entry is.
ToldNow(e, n) ==
  [kind |-> e.type, mode |-> Stamp(n), owner |-> Stamp(n), time |-> "clock",
   size |-> IF e.type = "dir" THEN 0 ELSE e.size,
   data |-> IF e.type = "symlink" THEN e.target ELSE <<Stamp(n)>>]

Told(e, n) ==
  [kind |-> e.type, mode |-> IF e.type = "symlink" THEN "0777" ELSE Stamp(n),
   owner |-> Stamp(n), time |-> Stamp(n),
   size |-> IF e.type = "dir" THEN 0 ELSE e.size,
   data |-> IF e.type = "symlink" THEN e.target ELSE <<Stamp(n)>>]

\* Go on with what a formatter operation left, or fail as it did.
Take(g, next) ==
  /\ fmt' = g
  /\ phase' = IF g.err = "" THEN next ELSE "failed"

\* A directory, a file or a symlink.
Make(e) ==
  /\ Read(e)
  /\ e.type \in {"dir", "file", "symlink"}
  /\ Take(Create(fmt, e.path, Told(e, Len(seen) + 1)), "entries")
  /\ UNCHANGED <<source, size, pending, image, reader>>

\* close(): nothing is left to do.  Only write_ext4_from_tar then refuses the
\* special files it has skipped.
Close ==
  /\ phase = "links"
  /\ pending = <<>>
  /\ LET g == CommitDirectories(fmt)
     IN /\ fmt' = g
        /\ image' = Closed(g.disk, g.inodes, Unused, g.deleted, g.cur, size)
  /\ phase' = IF /\ Strict /\ source = "tar"
                 /\ \E i \in DOMAIN seen : seen[i].type = "special" /\ seen[i].path # <<>>
              THEN "failed" ELSE "closed"
  /\ UNCHANGED <<source, size, seen, pending, reader>>
=============================================================================
