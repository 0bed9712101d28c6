------------------------------- MODULE Extents -------------------------------
(***************************************************************************)
(* How the data blocks of a file are recorded in its inode                 *)
(* (src/arcbox_ext4/extent.rs): up to four extents inline, or else up to   *)
(* four index entries that point to blocks of extents.                     *)
(*                                                                         *)
(* A disk is a function from the blocks written so far to what they hold.  *)
(***************************************************************************)
EXTENDS SequencesExt, Integers, Blocks

CONSTANT MaxLen       (* MAX_BLOCKS_PER_EXTENT                             *)

ASSUME MaxLenAssumption == MaxLen \in Nat \ {0}

Inline == 4                                     \* entries of an inode's block field
PerLeafBlock == (BlockSize - 12 - 4) \div 12    \* header, tail, entries of 12 bytes

\* No extent tree: an empty file, or a symlink kept in the inode.
NoExtents == [depth |-> 0, entries |-> <<>>]
\* fill_extent_leaves(): the extents of count blocks from start.
Leaves(start, count) ==
  [i \in 1 .. CeilDiv(count, MaxLen) |->
     [block |-> (i - 1) * MaxLen,
      start |-> start + (i - 1) * MaxLen,
      len   |-> Least(MaxLen, count - (i - 1) * MaxLen)]]

\* Mutant of LeafBlocks: a leaf block takes all that is left.
LeafBlocksOverfull(leaves) ==
  [i \in 1 .. CeilDiv(Len(leaves), PerLeafBlock) |->
     SubSeq(leaves, (i - 1) * PerLeafBlock + 1, Len(leaves))]

\* The leaf blocks that many extents fill.
LeafBlocks(leaves) ==
  [i \in 1 .. CeilDiv(Len(leaves), PerLeafBlock) |->
     SubSeq(leaves, (i - 1) * PerLeafBlock + 1, Least(i * PerLeafBlock, Len(leaves)))]

\* write_extents(): the inode's extent tree, and the blocks it writes at cur.
\* The code indexes past the inode's field when there are more than Inline.
Extents(start, count, cur) ==
  LET leaves == Leaves(start, count)
      blocks == LeafBlocks(leaves)
  IN IF count = 0 THEN [root |-> NoExtents, blocks |-> <<>>]
     ELSE IF Len(leaves) <= Inline
       THEN [root |-> [depth |-> 0, entries |-> leaves], blocks |-> <<>>]
     ELSE [root |-> [depth |-> 1, entries |->
                       [i \in DOMAIN blocks |->
                          [block |-> blocks[i][1].block, leaf |-> cur + i - 1]]],
           blocks |-> blocks]

\* parse_extents(): the extents of an inode, read back from disk.
ParseExtents(root, disk) ==
  IF root.depth = 0 THEN root.entries
  ELSE FlattenSeq([i \in DOMAIN root.entries |-> disk[root.entries[i].leaf]])

\* The physical blocks of the extents, in logical order.
BlocksOf(extents) ==
  FlattenSeq([i \in DOMAIN extents |->
                [j \in 1 .. extents[i].len |-> extents[i].start + j - 1]])

\* The blocks an extent tree itself occupies.
TreeBlocks(root) ==
  IF root.depth = 0 THEN {} ELSE {root.entries[i].leaf : i \in DOMAIN root.entries}

\* Mutant of Chunks: the offset into the file is taken for one into the extent.
ChunksAbsolute(extents, start, count) ==
  LET From(i) == BlockSize * SumFunction([k \in 1 .. i - 1 |-> extents[k].len])
      Low(i)  == IF start >= From(i) THEN start ELSE From(i)
      High(i) == Least(start + count, From(i) + BlockSize * extents[i].len)
  IN [i \in DOMAIN extents |->
        [at  |-> extents[i].start * BlockSize + Low(i),
         len |-> IF Low(i) < High(i) THEN High(i) - Low(i) ELSE 0]]

\* read_from_extents(): the pieces of the disk a read of count bytes from
\* offset start is put together from, one for each extent it overlaps.  The
\* code adds up the lengths of the extents and does not look at their block.
Chunks(extents, start, count) ==
  LET From(i) == BlockSize * SumFunction([k \in 1 .. i - 1 |-> extents[k].len])
      To(i)   == From(i) + BlockSize * extents[i].len
      Low(i)  == IF start >= From(i) THEN start ELSE From(i)
      High(i) == Least(start + count, To(i))
  IN [i \in DOMAIN extents |->
        [at  |-> extents[i].start * BlockSize + Low(i) - From(i),
         len |-> IF Low(i) < High(i) THEN High(i) - Low(i) ELSE 0]]

\* The bytes of a sequence of chunks, in order, as positions on the disk.
BytesOf(chunks) ==
  FlattenSeq([i \in DOMAIN chunks |-> [j \in 1 .. chunks[i].len |-> chunks[i].at + j - 1]])
=============================================================================
