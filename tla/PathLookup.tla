----------------------------- MODULE PathLookup -----------------------------
(***************************************************************************)
(* resolve_path() (src/arcbox_ext4/reader_io.rs): the inode a path leads   *)
(* to in an image, symlinks followed.  And what POSIX says of it, on the   *)
(* files of the image by path.                                             *)
(***************************************************************************)
EXTENDS Ext4Image

NoInode == 0
Absolute(target) == target # <<>> /\ Head(target) = "/"
Components(target) == IF Absolute(target) THEN Tail(target) ELSE target

\* The inode of a name in a directory, as its entries have it.
Child(img, n, name) ==
  LET entries == DirEntries(img, n)
      at      == {k \in DOMAIN entries : entries[k].name = name}
  IN IF at = {} THEN NoInode ELSE entries[Min(at)].inode

\* Mutant of Above: the parent of every directory is the root.
AboveRoot(at, up) == [at |-> RootInode, up |-> <<>>]

\* Where ".." leads from inode `at` with `up` above it.
Above(at, up) ==
  IF at = RootInode THEN [at |-> at, up |-> up] ELSE [at |-> Last(up), up |-> Front(up)]

\* The lookup stands at inode `at` with `up` above it; `todo` is left of the
\* path.  A symlink that was followed before counts as a loop.
RECURSIVE Follows(_, _, _, _, _)
Follows(img, at, up, todo, visited) ==
  IF todo = <<>> THEN at
  ELSE LET name  == Head(todo)
           rest  == Tail(todo)
           child == Child(img, at, name)
           inode == ReadInode(img, child)
           next  == TargetOf(img.disk, inode)
       IN IF name = "." THEN Follows(img, at, up, rest, visited)
          ELSE IF name = ".." THEN
            Follows(img, Above(at, up).at, Above(at, up).up, rest, visited)
          ELSE IF ~IsDir(ReadInode(img, at)) \/ child = NoInode THEN NoInode
          ELSE IF inode.kind # "symlink" THEN
            Follows(img, child, Append(up, at), rest, visited)
          ELSE IF child \in visited \/ next = <<>> THEN NoInode
          ELSE IF Absolute(next) THEN
            Follows(img, RootInode, <<>>, Components(next) \o rest, visited \cup {child})
          ELSE Follows(img, at, up, next \o rest, visited \cup {child})

ResolvePath(img, path) == Follows(img, RootInode, <<>>, path, {})

-----------------------------------------------------------------------------

\* POSIX: the path without symlinks that `todo` leads to from directory `at`,
\* and the symlinks on the way; at most `hops` of them are followed.
Nowhere == [found |-> FALSE, path |-> <<>>, links |-> <<>>]

RECURSIVE Posix(_, _, _, _)
Posix(files, at, todo, links) ==
  IF todo = <<>> THEN [found |-> TRUE, path |-> at, links |-> links]
  ELSE LET name == Head(todo)
           rest == Tail(todo)
           to   == Append(at, name)
       IN IF files[at].kind # "dir" \/ Len(links) > 4 THEN Nowhere
          ELSE IF name = "." THEN Posix(files, at, rest, links)
          ELSE IF name = ".." THEN
            Posix(files, IF at = <<>> THEN at ELSE Front(at), rest, links)
          ELSE IF to \notin DOMAIN files THEN Nowhere
          ELSE IF files[to].kind # "symlink" THEN Posix(files, to, rest, links)
          ELSE LET next == files[to].target
               IN Posix(files, IF Absolute(next) THEN <<>> ELSE at,
                        Components(next) \o rest, Append(links, to))

-----------------------------------------------------------------------------

\* The paths that are looked up.
Lookups == {<<>>} \cup UNION {[1 .. n -> {"a", "b", ".."}] : n \in 1 .. 3}

\* A path that leads somewhere in POSIX leads there in the image, unless it
\* takes a symlink twice; and where both lead somewhere it is the same place.
LookupsAgree ==
  phase = "read" =>
    LET inode == [path \in DOMAIN ReadBack(image, reader) |->
                    ReadInode(image, InodeOf(reader, path))]
        tree  == [path \in DOMAIN inode |->
                    [kind   |-> inode[path].kind,
                     target |-> IF inode[path].kind = "symlink"
                                THEN TargetOf(image.disk, inode[path]) ELSE <<>>]]
    IN \A path \in Lookups :
         LET said == Posix(tree, <<>>, path, <<>>)
             got  == ResolvePath(image, path)
         IN said.found =>
              \/ got = InodeOf(reader, said.path)
              \/ got = NoInode /\ ~IsInjective(said.links)
=============================================================================
