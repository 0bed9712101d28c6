------------------------------ MODULE Ext4Image ------------------------------
(***************************************************************************)
(* The making of a root filesystem image, from the first archive entry to  *)
(* the closed image and to what the reader finds in it.                    *)
(***************************************************************************)
EXTENDS TarImport, OciUnpack, Reader, Archive

Next == ImportTar \/ UnpackLayers \/ Close \/ OpenImage

Spec == Init /\ [][Next]_vars

-----------------------------------------------------------------------------
(* What is in the image: while it is made and as the reader finds it.      *)

\* A file as its inode describes it.
FileOf(inode) ==
  [kind |-> inode.kind, mode |-> inode.mode, owner |-> inode.owner, time |-> inode.time,
   size |-> IF IsDir(inode) THEN 0 ELSE inode.size]

\* The nodes that get a directory entry: those below directories, all the way.
Visible(f) ==
  LET t == f.tree
      Shows[i \in DOMAIN t.nodes] ==
        LET p == t.nodes[i].parent
        IN i = Root \/ (/\ i \in ToSet(Children(t, p))
                        /\ t.nodes[p].link = 0 /\ IsDir(InodeAt(f, p))
                        /\ Shows[p])
  IN {i \in DOMAIN t.nodes : Shows[i]}

Shown(f) ==
  [path \in {NodePath(f.tree, i) : i \in Visible(f)} |->
     LET i == CHOOSE i \in DOMAIN f.tree.nodes :
                i \in Visible(f) /\ NodePath(f.tree, i) = path
     IN FileOf(f.inodes[Refers(f, i)])]

\* What the reader finds in an image.
ReadBack(img, r) ==
  [path \in {NodePath(r.tree, i) : i \in DOMAIN r.tree.nodes} \cup DOMAIN r.hardlinks |->
     FileOf(ReadInode(img, InodeOf(r, path)))]

\* The file that the n-th entry of an archive makes.
FileFrom(e, n) == FileOf(Told(e, n))

EmptyImage == Shown(NewFormatter(1))

-----------------------------------------------------------------------------
(* The files of the image.                                                 *)

Promise == INSTANCE Rootfs WITH
  Entries <- UNION {Entries[s] : s \in DOMAIN Entries},
  Base    <- EmptyImage,
  files   <- CASE phase = "failed" -> <<>>
               [] phase = "read" -> ReadBack(image, reader)
               [] OTHER -> Shown(fmt),
  log     <- seen,
  status  <- CASE phase = "failed" -> "failed"
               [] phase = "read" -> "done"
               [] OTHER -> "open"

\* A directory of a later layer at the path of a hard link.  The node of the link
\* carries the inode of the root, a directory, so create() neither replaces the
\* link nor refuses: the root takes the mode and the owner of the entry
\* (formatter.rs 388-411).
DirectoryAtLink ==
  \E e \in Entries[source] :
    LET i == Lookup(fmt.tree, e.path)
        n == Stamp(Len(seen) + 1)
    IN /\ Read(e)
       /\ e.type = "dir"
       /\ i # 0 /\ fmt.tree.nodes[i].link # 0
       /\ phase' = "entries"
       /\ Shown(fmt)' = [Shown(fmt) EXCEPT ![<<>>].mode = n, ![<<>>].owner = n]

\* Every entry changes the files of the image as extracting it over a root
\* filesystem does, closing the image changes none of them, and the reader
\* finds just these.  The one exception is DirectoryAtLink, where the comment
\* "a regular file (or other non-dir) blocks directory creation" (formatter.rs
\* 413) says otherwise.
ImplementsRootfs ==
  Promise!Init /\ [][Promise!Next \/ DirectoryAtLink]_(Promise!vars)

\* An archive in good order is never refused, whatever its links, implied
\* groups and sizes, and the image holds its files and nothing else.
TidyArchives ==
  Tidy(seen) =>
    /\ phase # "failed"
    /\ phase = "read" =>
         LET files == ReadBack(image, reader)
         IN /\ DOMAIN files = DOMAIN EmptyImage \cup {seen[i].path : i \in Named(seen)}
            /\ \A path \in DOMAIN files \ DOMAIN EmptyImage :
                 LET n == MakerOf(seen, path) IN files[path] = FileFrom(seen[n], n)

\* What an entry said of a file is what the reader reads, block for block, and
\* the names of one file are the names of one inode.
FilesReadBack ==
  phase = "read" =>
    \A path \in DOMAIN ReadBack(image, reader) : \A n \in DOMAIN seen :
      LET inode == ReadInode(image, InodeOf(reader, path))
      IN inode.time = Stamp(n) =>
           /\ inode.kind = "symlink" => TargetOf(image.disk, inode) = seen[n].target
           /\ inode.kind = "file" =>
                Body(image.disk, inode) =
                  [k \in 1 .. CeilDiv(inode.size, BlockSize) |-> <<<<Stamp(n)>>, k>>]
           /\ \A other \in DOMAIN ReadBack(image, reader) :
                ReadInode(image, InodeOf(reader, other)).time = Stamp(n) =>
                  InodeOf(reader, other) = InodeOf(reader, path)

\* A read of part of a file is put together from the bytes it asked for.
RangesReadBack ==
  phase = "read" =>
    \A n \in FirstInode .. Len(fmt.inodes) :
      LET inode   == ReadInode(image, n)
          extents == ParseExtents(inode.root, image.disk)
          blocks  == BlocksOf(extents)
      IN inode.kind = "file" =>
           \A start \in {0, BlockSize - 1, 3 * BlockSize} : \A count \in {1, BlockSize + 1} :
             start + count <= inode.size =>
               BytesOf(Chunks(extents, start, count)) =
                 [b \in 1 .. count |->
                    LET at == start + b - 1
                    IN blocks[at \div BlockSize + 1] * BlockSize + (at % BlockSize)]

\* The image depends on the archive alone when every directory is listed
\* before what it holds and nothing is replaced: no inode has the time of the
\* clock.
Reproducible ==
  phase = "read" /\ ParentsFirst(seen) /\ NamedOnce(seen) /\ source = "tar" =>
    \A n \in DOMAIN fmt.inodes :
      ReadInode(image, n).time # "clock" /\ ReadInode(image, n).dtime # "clock"

-----------------------------------------------------------------------------
(* The tree and its inodes.                                                *)

\* The index of the tree finds what the scan it replaced would.
TreeIndexed == IndexExact(fmt.tree)

\* No hard link hangs below something that is not a directory, and none is
\* replaced by a later entry.
LinksBelowDirectories ==
  \A i \in DOMAIN fmt.tree.nodes :
    LET p == fmt.tree.nodes[i].parent
    IN fmt.tree.nodes[i].link # 0 => fmt.tree.nodes[p].link = 0 /\ IsDir(InodeAt(fmt, p))

LinksStay ==
  \A i \in DOMAIN seen : \A j \in i + 1 .. Len(seen) :
    seen[i].type = "hardlink" /\ seen[j].type # "dir" =>
      ~IsPrefix(seen[j].path, seen[i].path)

\* The link count of a file is the number of its names, and that of a
\* directory counts itself, its name and the directories in it.
LinkCountsExact ==
  phase # "failed" /\ LinksBelowDirectories =>
    \A i \in Visible(fmt) :
      LET n     == Refers(fmt, i)
          names == {j \in Visible(fmt) : Refers(fmt, j) = n}
          dirs  == {j \in Visible(fmt) \ {Root} :
                      fmt.tree.nodes[j].parent = i /\ IsDir(fmt.inodes[Refers(fmt, j)])}
      IN IF IsDir(fmt.inodes[n])
           THEN LinksStay => fmt.inodes[n].links = 2 + Cardinality(dirs)
         ELSE fmt.inodes[n].links = Cardinality(names)

-----------------------------------------------------------------------------
(* The blocks of the image.                                                *)

Finished == phase \in {"closed", "read"}

\* The inodes with a name, and the blocks each of them has.
NamedInodes == {Refers(fmt, i) : i \in Visible(fmt)}
DataOf(n) ==
  LET root == fmt.inodes[n].root
  IN TreeBlocks(root) \cup ToSet(BlocksOf(ParseExtents(root, image.disk)))

\* What the layout itself takes.
HeadBlocks == 0 .. image.plan.descriptors
TableBlocks(g) == Span(image.groups[g].table, image.plan.table)
BitmapBlocks(g) == Span(image.groups[g].bitmap, 2)

\* Every block of the image has one use at most, and is within the image.
BlocksOwnedOnce ==
  Finished =>
    LET groups == DOMAIN image.groups
        Users  == {<<"head", 0>>} \cup {<<"data", n>> : n \in NamedInodes}
                  \cup {<<"table", g>> : g \in groups} \cup {<<"bitmap", g>> : g \in groups}
        Used(u) == CASE u[1] = "head" -> HeadBlocks
                     [] u[1] = "data" -> DataOf(u[2])
                     [] u[1] = "table" -> TableBlocks(u[2])
                     [] u[1] = "bitmap" -> BitmapBlocks(u[2])
    IN \A u \in Users :
         /\ \A b \in Used(u) : b < image.super.blocks
         /\ \A v \in Users \ {u} : Used(u) \cap Used(v) = {}

\* No block in use is marked free, nor is an inode with a name: freeing what
\* was replaced frees nothing that a link, a table or a bitmap still needs.
UsedAreMarked ==
  Finished =>
    LET marked == UNION {image.groups[g].bits : g \in DOMAIN image.groups}
        inodes == UNION {image.groups[g].inodes : g \in DOMAIN image.groups}
    IN /\ HeadBlocks \subseteq marked
       /\ \A g \in DOMAIN image.groups : TableBlocks(g) \cup BitmapBlocks(g) \subseteq marked
       /\ \A n \in NamedInodes : DataOf(n) \subseteq marked /\ n \in inodes

\* The free counts are those of the bitmaps, group by group and in all.
CountsAgree ==
  Finished =>
    LET groups == image.groups
        Clear(g) == {b \in InGroup(g) : b < image.super.blocks} \ groups[g].bits
    IN /\ \A g \in DOMAIN groups :
            /\ groups[g].free = Cardinality(Clear(g))
            /\ groups[g].freeInodes = image.plan.inodes - Cardinality(groups[g].inodes)
       /\ image.super.free = SumFunction([g \in DOMAIN groups |-> groups[g].free])
       /\ image.super.freeInodes =
            SumFunction([g \in DOMAIN groups |-> groups[g].freeInodes])

\* Every block of a directory is filled with records to its end.
DirsWellFilled ==
  Finished =>
    \A n \in NamedInodes : IsDir(fmt.inodes[n]) =>
      LET blocks == BlocksOf(ParseExtents(fmt.inodes[n].root, image.disk))
      IN WellFilled([k \in DOMAIN blocks |-> image.disk[blocks[k]]])

\* Every block of the image is in a group that has a descriptor.
GroupsCoverImage ==
  Finished => image.super.blocks <= image.plan.groups * BlocksPerGroup
=============================================================================
