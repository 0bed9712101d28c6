------------------------------ MODULE Formatter ------------------------------
(***************************************************************************)
(* The operations of the ext4 formatter (src/arcbox_ext4/formatter.rs) on  *)
(* the image it is building: create, link, unlink and the directories it   *)
(* commits at the end.                                                     *)
(*                                                                         *)
(* The state of a formatter is a record:                                   *)
(*   tree      the directory tree                                          *)
(*   inodes    the inodes in memory; the first ten are reserved            *)
(*   disk      what the blocks written so far hold                         *)
(*   cur       the block the file is positioned at                         *)
(*   deleted   the blocks to mark free (deleted_blocks)                    *)
(*   deferred  the blocks of each inode whose own node is gone while hard  *)
(*             links to it remain (deferred_blocks)                        *)
(*   err       why an operation failed; nothing is done to it after that   *)
(*                                                                         *)
(* Block k of the data of an entry is <<data, k>>: data is the target of a *)
(* symlink, and names the entry that brought a file.  mode, owner and time *)
(* name the entry they were taken from, or are "0755", "clock" and so on.  *)
(***************************************************************************)
EXTENDS FileTree, Extents, DirBlocks

CONSTANTS
  MaxLinks,           (* MAX_LINKS                                         *)
  MaxFileSize         (* MAX_FILE_SIZE                                     *)

LostFound == "lost+found"

\* The names a formatter gives itself have a length too.
ASSUME FormatterAssumption == {".", "..", LostFound} \subseteq DOMAIN NameBytes

RootInode == 2
FirstInode == 11
InlineBytes == 60     \* a shorter symlink is kept in the inode

Unused == [kind |-> "none", mode |-> "0", owner |-> "0", time |-> "0", links |-> 0,
           root |-> NoExtents, size |-> 0, target |-> <<>>, dtime |-> "0"]

\* root_inode(), restamped with the epoch the caller gave.
RootDir == [Unused EXCEPT !.kind = "dir", !.mode = "0755", !.owner = "root",
                          !.time = "epoch", !.links = 2]

IsDir(inode) == inode.kind = "dir"
InodeAt(f, i) == f.inodes[f.tree.nodes[i].inode]
Exists(f, path) == Lookup(f.tree, path) # 0

Fails(f, why) == [f EXCEPT !.err = why]

\* Blocks written one after another from the current position.
Write(f, blocks) ==
  [f EXCEPT !.disk = Over([b \in f.cur .. f.cur + Len(blocks) - 1 |->
                             blocks[b - f.cur + 1]], @),
            !.cur = @ + Len(blocks)]

\* The blocks of a range.
Span(start, count) == start .. start + count - 1

-----------------------------------------------------------------------------
(* unlink().                                                               *)

\* The nodes below i and then i, in the order the recursion detaches them.
PostOrder(t, i) ==
  LET Below[j \in DOMAIN t.nodes] ==
        Append(FlattenSeq([k \in DOMAIN Children(t, j) |-> Below[Children(t, j)[k]]]), j)
  IN Below[i]

\* The node leaves its parent, whose link count follows if the node is a
\* directory.  A hard link's node carries the root's inode, a directory.
LeaveParent(f, i) ==
  LET node == f.tree.nodes[i]
      up   == f.tree.nodes[node.parent].inode
  IN [f EXCEPT !.inodes[up].links =
                 IF IsDir(InodeAt(f, i)) /\ @ > 2 THEN @ - 1 ELSE @,
               !.tree = RemoveChild(@, node.parent, node.name)]

DeferredOf(f, ino) == IF ino \in DOMAIN f.deferred THEN f.deferred[ino] ELSE {}
\* Mutant of DropReference: blocks are freed with their own node.
DropReferenceFrees(f, i) ==
  LET node == f.tree.nodes[i]
      ino  == IF node.link # 0 THEN node.link ELSE node.inode
      left == IF f.inodes[ino].links > 0 THEN f.inodes[ino].links - 1 ELSE 0
  IN IF ino < FirstInode THEN f
     ELSE [f EXCEPT !.inodes[ino] = IF left = 0 THEN [Unused EXCEPT !.dtime = "clock"]
                                    ELSE [@ EXCEPT !.links = left],
                    !.deleted = @ \cup node.blocks]

\* One reference less to the node's inode, or to the target of a hard link.
\* Its blocks are freed with the last one.
DropReference(f, i) ==
  LET node == f.tree.nodes[i]
      ino  == IF node.link # 0 THEN node.link ELSE node.inode
      left == IF f.inodes[ino].links > 0 THEN f.inodes[ino].links - 1 ELSE 0
      held == DeferredOf(f, ino) \cup node.blocks
      rest == Restrict(f.deferred, DOMAIN f.deferred \ {ino})
  IN IF ino < FirstInode THEN f
     ELSE IF left = 0 THEN
       [f EXCEPT !.inodes[ino] = [Unused EXCEPT !.dtime = "clock"],
                 !.deleted = @ \cup held,
                 !.deferred = rest]
     ELSE [f EXCEPT !.inodes[ino].links = left,
                    !.deferred = IF held = {} THEN rest
                                 ELSE [n \in DOMAIN rest \cup {ino} |->
                                         IF n = ino THEN held ELSE rest[n]]]

Detach(f, i) == DropReference(LeaveParent(f, i), i)

\* unlink(path, whiteout): everything below goes, and path itself unless only
\* its children are to go.
Unlink(f, path, whiteout) ==
  LET i     == Lookup(f.tree, path)
      order == PostOrder(f.tree, i)
  IN IF i = 0 THEN f
     ELSE IF whiteout /\ ~IsDir(InodeAt(f, i)) THEN Fails(f, "NotDirectory")
     ELSE FoldLeft(Detach, f, IF whiteout THEN Front(order) ELSE order)

-----------------------------------------------------------------------------
(* create().                                                               *)

\* Mutant of Register: the last link a directory may have is refused it.
RegisterShort(f, p, name, inode, blocks) ==
  LET up == f.tree.nodes[p].inode
  IN IF f.inodes[up].links + 1 >= MaxLinks THEN Fails(f, "MaximumLinksExceeded")
     ELSE [f EXCEPT
       !.inodes = Append(
         IF IsDir(inode) THEN [@ EXCEPT ![up].links = @ + 1] ELSE @, inode),
       !.tree = AddChild(@, p, Node(Len(f.inodes) + 1, name, blocks, 0))]

\* A new inode and its node below parent p.  owner None is the parent's.
Register(f, p, name, inode, blocks) ==
  LET up == f.tree.nodes[p].inode
  IN IF f.inodes[up].links >= MaxLinks THEN Fails(f, "MaximumLinksExceeded")
     ELSE [f EXCEPT
       !.inodes = Append(
         IF IsDir(inode) THEN [f.inodes EXCEPT ![up].links = f.inodes[up].links + 1]
         ELSE f.inodes,
         IF inode.owner = "inherit" THEN [inode EXCEPT !.owner = f.inodes[up].owner]
         ELSE inode),
       !.tree = AddChild(@, p, Node(Len(f.inodes) + 1, name, blocks, 0))]

\* The data of a file or a long symlink and the extents over it.
WithData(f, data, count) ==
  LET tree == Extents(f.cur, count, f.cur + count)
  IN [f    |-> Write(f, [k \in 1 .. count |-> <<data, k>>] \o tree.blocks),
      root |-> tree.root]

Fresh(e) == [Unused EXCEPT !.kind = e.kind, !.mode = e.mode, !.owner = e.owner,
                           !.time = e.time, !.links = 1]

\* An entry that does not exist yet, below parent p.  A body that is too large
\* is noticed while it is written, when the parent has been seen to have room.
Add(f, p, name, e) ==
  IF e.kind = "dir" THEN Register(f, p, name, [Fresh(e) EXCEPT !.links = 2], {})
  ELSE IF e.kind = "file" /\ e.size > MaxFileSize
    THEN Fails(f, IF InodeAt(f, p).links < MaxLinks THEN "FileTooBig"
                  ELSE "MaximumLinksExceeded")
  ELSE LET count == IF e.kind = "symlink" /\ e.size < InlineBytes THEN 0
                    ELSE CeilDiv(e.size, BlockSize)
           with  == WithData(f, e.data, count)
           inode == [Fresh(e) EXCEPT !.root = with.root, !.size = e.size,
                       !.target = IF e.kind = "symlink" /\ count = 0 THEN e.data ELSE <<>>]
       IN Register(with.f, p, name, inode, Span(f.cur, count))

\* What create() makes for a parent that no entry named: a directory with the
\* time of the clock and the owner of its own parent.
Implied == [kind |-> "dir", mode |-> "0755", owner |-> "inherit", time |-> "clock",
            size |-> 0, data |-> <<>>]

\* The missing parents of path, from the deepest one that exists.
MakeParents(f, path) ==
  LET have == Max({n \in 0 .. Len(path) - 1 : Exists(f, SubSeq(path, 1, n))})
      MakeOne(g, n) == IF g.err # "" THEN g
                       ELSE Add(g, Lookup(g.tree, SubSeq(path, 1, n - 1)), path[n], Implied)
  IN IF ~IsDir(InodeAt(f, Lookup(f.tree, SubSeq(path, 1, have))))
       THEN Fails(f, "NotDirectory")
     ELSE FoldLeft(MakeOne, f, [n \in 1 .. Len(path) - 1 - have |-> have + n])

\* A directory over a directory only takes the mode and the owner it is given.
Restate(f, i, e) ==
  LET ino == f.tree.nodes[i].inode
  IN IF e.owner = "inherit" THEN f
     ELSE [f EXCEPT !.inodes[ino].mode = e.mode, !.inodes[ino].owner = e.owner]
\* Mutant of Create: a directory may be replaced by a file.
CreateOverDirectory(f, path, e) ==
  LET g == MakeParents(Unlink(f, path, FALSE), path)
  IN IF g.err # "" THEN g ELSE Add(g, Lookup(g.tree, Front(path)), Last(path), e)

Create(f, path, e) ==
  LET i    == Lookup(f.tree, path)
      over == i # 0 /\ IsDir(InodeAt(f, i))
      clear == Unlink(f, path, FALSE)
      g    == MakeParents(clear, path)
  IN IF e.kind = "dir" /\ over THEN Restate(f, i, e)
     ELSE IF e.kind = "dir" /\ i # 0 THEN Fails(f, "NotDirectory")
     ELSE IF over /\ e.kind # "symlink" /\ f.tree.nodes[i].link = 0
       THEN Fails(f, "NotFile")
     ELSE IF g.err # "" THEN g
     ELSE Add(g, Lookup(g.tree, Front(path)), Last(path), e)

\* Mutant of Link: the name is not counted.
LinkUncounted(f, path, target) ==
  LET i == Lookup(f.tree, target)
      g == Unlink(f, path, FALSE)
      p == Lookup(g.tree, Front(path))
  IN IF i = 0 \/ p = 0 THEN Fails(f, "NotFound")
     ELSE IF IsDir(InodeAt(f, i)) THEN Fails(f, "CannotHardlinkDirectory")
     ELSE [g EXCEPT !.tree = AddChild(@, p, Node(RootInode, Last(path), {},
                                                 f.tree.nodes[i].inode))]

\* link(): a further name for the inode of target.  Its parents must exist.
Link(f, path, target) ==
  LET i   == Lookup(f.tree, target)
      ino == f.tree.nodes[i].inode
      g   == Unlink([f EXCEPT !.inodes[ino].links = @ + 1], path, FALSE)
      p   == Lookup(g.tree, Front(path))
  IN IF i = 0 THEN Fails(f, "NotFound")
     ELSE IF IsDir(InodeAt(f, i)) THEN Fails(f, "CannotHardlinkDirectory")
     ELSE IF p = 0 THEN Fails(g, "NotFound")
     ELSE IF InodeAt(g, p).links >= MaxLinks THEN Fails(g, "MaximumLinksExceeded")
     ELSE [g EXCEPT !.tree = AddChild(@, p, Node(RootInode, Last(path), {}, ino))]

-----------------------------------------------------------------------------
(* with_options() and commit_directories().                                *)

\* A new image: the reserved inodes, the root and /lost+found.
NewFormatter(firstBlock) ==
  Create([tree |-> NewTree(RootInode),
          inodes |-> [n \in 1 .. FirstInode - 1 |->
                        IF n = RootInode THEN RootDir ELSE Unused],
          disk |-> <<>>, cur |-> firstBlock, deleted |-> {}, deferred |-> <<>>,
          err |-> ""],
         <<LostFound>>, [Implied EXCEPT !.mode = "0700", !.time = "epoch"])

\* The inode a directory entry for node i names.
Refers(f, i) == IF f.tree.nodes[i].link # 0 THEN f.tree.nodes[i].link
                ELSE f.tree.nodes[i].inode

\* The nodes in the order of the walk, a level at a time; nothing is looked
\* for below a hard link.
Walk(t) ==
  LET Below(i) == IF t.nodes[i].link # 0 THEN <<>> ELSE Children(t, i)
      Deeper(w, d) ==
        LET next == FlattenSeq([k \in DOMAIN w.level |-> Below(w.level[k])])
        IN [order |-> w.order \o next, level |-> next]
  IN FoldLeft(Deeper, [order |-> <<Root>>, level |-> <<Root>>], t.nodes).order

\* The entries of directory node i: itself, its parent and its children by
\* inode, those whose inode is gone left out.
EntriesOf(f, i) ==
  LET node == f.tree.nodes[i]
      up   == IF i = Root THEN node.inode ELSE f.tree.nodes[node.parent].inode
      kept == {k \in DOMAIN node.children : f.inodes[Refers(f, node.children[k])].links > 0}
      At(k) == f.tree.nodes[node.children[k]].inode
      Before(k) == {j \in kept : At(j) < At(k) \/ (At(j) = At(k) /\ j < k)}
      byInode == [r \in 1 .. Cardinality(kept) |->
                    node.children[CHOOSE k \in kept : Cardinality(Before(k)) = r - 1]]
  IN <<[name |-> ".", inode |-> node.inode], [name |-> "..", inode |-> up]>>
       \o [r \in DOMAIN byInode |->
             [name |-> NameOf(f.tree, byInode[r]), inode |-> Refers(f, byInode[r])]]

CommitDirectory(f, i) ==
  LET ino    == f.tree.nodes[i].inode
      blocks == Pack(EntriesOf(f, i))
      tree   == Extents(f.cur, Len(blocks), f.cur + Len(blocks))
  IN IF f.inodes[ino].links = 0 \/ f.tree.nodes[i].link # 0 \/ ~IsDir(f.inodes[ino])
       THEN f
     ELSE [Write(f, blocks \o tree.blocks) EXCEPT
             !.inodes[ino].root = tree.root, !.inodes[ino].size = Len(blocks) * BlockSize,
             !.tree.nodes[i].blocks = Span(f.cur, Len(blocks))]

CommitDirectories(f) == FoldLeft(CommitDirectory, f, Walk(f.tree))
=============================================================================
