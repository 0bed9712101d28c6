------------------------------ MODULE TarImport ------------------------------
(***************************************************************************)
(* write_ext4_from_tar() (src/ext4/mod.rs): the flattened root filesystem  *)
(* BuildKit exports becomes an image.  Directories, files and symlinks are *)
(* created in the order of the archive; hard links are put off until its   *)
(* end and then made in that order.                                        *)
(***************************************************************************)
EXTENDS Import

\* Metadata records, and whatever has the name of the root, as the archive's
\* own "./": nothing is created.
SkipEntry(e) ==
  /\ source = "tar"
  /\ Read(e)
  /\ \/ e.type = "meta"
     \/ e.type # "escape" /\ e.path = <<>>
  /\ UNCHANGED <<source, size, phase, pending, fmt, image, reader>>

\* A path with a parent component is refused.
RefuseEntry(e) ==
  /\ source = "tar"
  /\ Read(e)
  /\ e.type = "escape"
  /\ phase' = "failed"
  /\ UNCHANGED <<source, size, pending, fmt, image, reader>>

\* A device, a FIFO or a socket is only counted.
SkipSpecial(e) ==
  /\ source = "tar"
  /\ Read(e)
  /\ e.type = "special" /\ e.path # <<>>
  /\ UNCHANGED <<source, size, phase, pending, fmt, image, reader>>

MakeEntry(e) ==
  /\ source = "tar"
  /\ e.path # <<>>
  /\ Make(e)

DeferLink(e) ==
  /\ source = "tar"
  /\ Read(e)
  /\ e.type = "hardlink" /\ e.path # <<>>
  /\ pending' = IF e.target = <<>> THEN pending
                ELSE Append(pending, [link |-> e.path, target |-> e.target])
  /\ UNCHANGED <<source, size, phase, fmt, image, reader>>

EndOfArchive ==
  /\ source = "tar"
  /\ phase = "entries"
  /\ phase' = "links"
  /\ UNCHANGED <<source, size, seen, pending, fmt, image, reader>>

MakeLink ==
  /\ source = "tar"
  /\ phase = "links"
  /\ pending # <<>>
  /\ Take(Link(fmt, Head(pending).link, Head(pending).target), "links")
  /\ pending' = Tail(pending)
  /\ UNCHANGED <<source, size, seen, image, reader>>

ImportTar ==
  \/ \E e \in Entries[source] : \/ SkipEntry(e) \/ RefuseEntry(e) \/ SkipSpecial(e)
                                \/ MakeEntry(e) \/ DeferLink(e)
  \/ EndOfArchive
  \/ MakeLink
=============================================================================
