------------------------------- MODULE Archive -------------------------------
(***************************************************************************)
(* Archives as the tools that write them do, and the root filesystem such  *)
(* an archive stands for, read off its entries without an order.           *)
(***************************************************************************)
EXTENDS Import

MakesFile(e) == e.type \in {"dir", "file", "symlink"} /\ e.path # <<>>
Named(a) == {i \in DOMAIN a : MakesFile(a[i]) \/ a[i].type = "hardlink"}
Made(a) == {i \in DOMAIN a : MakesFile(a[i])}

\* No path has two entries.
NamedOnce(a) == \A i, j \in Named(a) : a[i].path = a[j].path => i = j

\* Whatever is above a path is a directory, listed before it.
ParentsFirst(a) ==
  \A i \in Named(a) : \A n \in 1 .. Len(a[i].path) - 1 :
    \E j \in 1 .. i - 1 : a[j].type = "dir" /\ a[j].path = SubSeq(a[i].path, 1, n)

\* A hard link names a file or a symlink that came before it.
LinksBackwards(a) ==
  \A i \in DOMAIN a : a[i].type = "hardlink" =>
    \E j \in 1 .. i - 1 : a[j].type \in {"file", "symlink"} /\ a[j].path = a[i].target

\* The links of the directory at path: /lost+found and every directory count.
DirLinks(a, path) ==
  Cardinality({i \in Made(a) : a[i].type = "dir" /\ Front(a[i].path) = path})
    + (IF path = <<>> THEN 3 ELSE 2)

\* Nothing is larger than the image format, or this program, has room for.
WithinLimits(a) ==
  /\ \A i \in DOMAIN a : a[i].type = "file" => a[i].size <= MaxFileSize
  /\ \A i \in Named(a) : DirLinks(a, Front(a[i].path)) < MaxLinks

Tidy(a) ==
  /\ NamedOnce(a) /\ ParentsFirst(a) /\ LinksBackwards(a) /\ WithinLimits(a)
  /\ \A i \in DOMAIN a :
       a[i].type \notin {"escape", "whiteout", "opaque"}
         \cup (IF Strict /\ source = "tar" THEN {"special"} ELSE {})

\* The entry that made the file at a path of a tidy archive.
MakerOf(a, path) ==
  CHOOSE j \in Made(a) :
    \/ a[j].path = path
    \/ \E i \in DOMAIN a : a[i].type = "hardlink" /\ a[i].path = path
                             /\ a[i].target = a[j].path
=============================================================================
