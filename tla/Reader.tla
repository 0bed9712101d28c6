------------------------------- MODULE Reader -------------------------------
(***************************************************************************)
(* The ext4 reader (src/arcbox_ext4/reader.rs): it opens an image, walks   *)
(* its directories from the root and builds a tree of its own, in which    *)
(* the first name of an inode is a node and every further one is listed as *)
(* a hard link.                                                            *)
(***************************************************************************)
EXTENDS Import

CONSTANT NameRank     (* the alphabetical order of the names               *)

\* get_inode(): by way of the inode's group and the group's inode table.  What
\* was never written reads as zeros.
ReadInode(img, n) ==
  LET per  == img.super.inodesPerGroup
      slot == (n - 1) % per
      b    == img.groups[(n - 1) \div per].table + slot \div InodesPerBlock
  IN IF b \in DOMAIN img.disk THEN img.disk[b][(slot % InodesPerBlock) + 1] ELSE Unused

\* get_dir_entries(): the entries of a directory, by name.
DirEntries(img, n) ==
  LET blocks  == BlocksOf(ParseExtents(ReadInode(img, n).root, img.disk))
      entries == ParseBlocks([i \in DOMAIN blocks |-> img.disk[blocks[i]]])
  IN SortSeq(entries, LAMBDA a, b : NameRank[a.name] < NameRank[b.name])

\* One entry of the directory at node p: a node of its own, a further link to
\* an inode that was seen before, or nothing.
ScanEntry(img, r, p, e) ==
  LET node == Node(e.inode, e.name, {}, 0)
  IN IF e.name \in {".", ".."} THEN r
     ELSE IF e.inode \in r.cached
       THEN [r EXCEPT !.hardlinks = (Append(NodePath(r.tree, p), e.name) :> e.inode) @@ @]
     ELSE [r EXCEPT !.tree = AddChild(@, p, node),
                    !.cached = @ \cup {e.inode},
                    !.queue = IF IsDir(ReadInode(img, e.inode))
                              THEN Append(@, Len(r.tree.nodes) + 1) ELSE @]

\* The directory that was queued last is read next.
ScanDirectory(img, r) ==
  IF r.queue = <<>> THEN r
  ELSE LET p == Last(r.queue)
       IN FoldLeft(LAMBDA s, e : ScanEntry(img, s, p, e),
                   [r EXCEPT !.queue = Front(@)],
                   DirEntries(img, r.tree.nodes[p].inode))

\* Reader::new(): no more directories are read than there are inodes.
Open(img) ==
  FoldLeft(LAMBDA r, n : ScanDirectory(img, r),
           [tree |-> NewTree(RootInode), cached |-> {RootInode}, hardlinks |-> <<>>,
            queue |-> <<Root>>],
           [n \in 1 .. img.super.inodes |-> n])

\* The image is opened.
OpenImage ==
  /\ phase = "closed"
  /\ phase' = "read"
  /\ reader' = Open(image)
  /\ UNCHANGED <<source, size, seen, pending, fmt, image>>

\* The inode a path has in the reader's tree or among its hard links.
InodeOf(r, path) ==
  LET i == Lookup(r.tree, path)
  IN IF i # 0 THEN r.tree.nodes[i].inode
     ELSE IF path \in DOMAIN r.hardlinks THEN r.hardlinks[path] ELSE 0

\* The data of a file or a long symlink read in full, and the target of a
\* symlink: short ones are in the inode (read_symlink_target()).
Body(disk, inode) ==
  LET blocks == BlocksOf(ParseExtents(inode.root, disk))
  IN [k \in DOMAIN blocks |-> disk[blocks[k]]]

TargetOf(disk, inode) ==
  IF inode.size < InlineBytes THEN inode.target ELSE Body(disk, inode)[1][1]
=============================================================================
