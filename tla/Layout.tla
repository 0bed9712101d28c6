------------------------------- MODULE Layout -------------------------------
(***************************************************************************)
(* How close() lays an image out (src/arcbox_ext4/formatter.rs): after the *)
(* data come one inode table for all groups that hold data, then two       *)
(* bitmaps for each of them; the groups beyond are empty and hold their    *)
(* own table and bitmaps.  The last group may be partial.                  *)
(***************************************************************************)
EXTENDS SequencesExt, Integers, Blocks

CONSTANTS
  BlocksPerGroup,     (* block_size * 8                                    *)
  InodesPerBlock,     (* block_size / INODE_SIZE                           *)
  InodesPerGroup,     (* the numbers of inodes a group may have            *)
  Reserve             (* descriptor blocks reserved for each one needed    *)

ASSUME LayoutAssumption ==
  /\ BlocksPerGroup \in Nat \ {0}
  /\ InodesPerBlock \in Nat \ {0}
  /\ InodesPerGroup \subseteq Nat \ {0} /\ InodesPerGroup # {}
  /\ \A n \in InodesPerGroup :
       n % InodesPerBlock = 0 /\ n \div InodesPerBlock + 2 < BlocksPerGroup
  /\ Reserve \in Nat \ {0}

PerDescriptorBlock == BlockSize \div 32

\* block_count(), group_count(), group_descriptor_blocks() of an image size.
BlockCount(size) == CeilDiv(size, BlockSize)
GroupCount(size) == CeilDiv(BlockCount(size), BlocksPerGroup)
DescriptorBlocks(size) == CeilDiv(GroupCount(size), PerDescriptorBlock) * Reserve

\* optimize_block_group_layout(): the fewest groups that hold all blocks and
\* inodes, with the fewest inodes that do.
Optimize(blocks, inodes) ==
  LET PerGroup(n) == BlocksPerGroup - n \div InodesPerBlock - 2
      Groups(n) ==
        CeilDiv(Greatest(blocks, ((inodes - 1) \div n) * PerGroup(n) + 1), PerGroup(n))
      best == CHOOSE n \in InodesPerGroup : \A m \in InodesPerGroup :
                Groups(n) < Groups(m) \/ (Groups(n) = Groups(m) /\ n <= m)
  IN [groups |-> Groups(best), inodes |-> best]
\* Mutant of FinalBlocks: a tail that cannot hold its own metadata stays.
FinalBlocksShort(blocks, tail) == blocks

\* A partial last group is grown until it can hold its own metadata.
FinalBlocks(blocks, tail) ==
  LET rest == blocks % BlocksPerGroup
  IN IF rest # 0 /\ rest < tail THEN blocks - rest + tail ELSE blocks

(***************************************************************************)
(* The layout of an image of the requested size with `written` blocks of   *)
(* data and directories and `inodes` inodes: close() up to the bitmaps.    *)
(* The groups are counted before the size is made a whole number of blocks *)
(* and the tail is grown.                                                  *)
(***************************************************************************)
Plan(written, inodes, size) ==
  LET best     == Optimize(written, inodes)
      table    == best.inodes \div InodesPerBlock
      bitmaps  == written + best.groups * table
      used     == bitmaps + 2 * best.groups
      least    == IF best.groups = 1 THEN BlocksPerGroup
                  ELSE (best.groups - 1) * BlocksPerGroup + 1
      grown    == Greatest(size, Greatest(least, used) * BlockSize)
      blocks   == FinalBlocks(CeilDiv(grown, BlockSize), table + 2)
      groups   == CeilDiv(grown \div BlockSize, BlocksPerGroup)
  IN [dataGroups |-> best.groups,          \* groups that hold data
      inodes     |-> best.inodes,          \* inodes of a group
      table      |-> table,                \* blocks of a group's inode table
      firstTable |-> written,
      bitmaps    |-> bitmaps,              \* the first bitmap
      used       |-> used,                 \* blocks written without a hole
      blocks     |-> blocks,               \* blocks of the image
      groups     |-> groups,
      descriptors |-> CeilDiv(groups, PerDescriptorBlock),
      reserved   |-> DescriptorBlocks(blocks * BlockSize)]

\* The blocks of group g, those past the end of the image included.
GroupStart(g) == g * BlocksPerGroup
InGroup(g) == GroupStart(g) .. GroupStart(g) + BlocksPerGroup - 1

\* The blocks of group g that exist.
RealBlocks(p, g) ==
  IF g # p.groups - 1 THEN BlocksPerGroup
  ELSE Least(BlocksPerGroup, Greatest(p.blocks, GroupStart(g)) - GroupStart(g))
\* What the bitmap of a data group clears again: reserved descriptor blocks
\* that are not needed, and the blocks of deleted files.
Freed(p, deleted, g) ==
  ((IF g = 0 THEN p.descriptors + 1 .. p.reserved ELSE {}) \cup deleted) \cap InGroup(g)
\* Mutant of DataGroup: the blocks past the end count as used.
DataGroupPadded(p, inodes, deleted, g) ==
  LET set    == {b \in InGroup(g) : b < p.used}
      padded == set \cup {b \in InGroup(g) : b >= GroupStart(g) + RealBlocks(p, g)}
      bits   == padded \ Freed(p, deleted, g)
      mine   == {n \in g * p.inodes + 1 .. (g + 1) * p.inodes : n <= Len(inodes)}
      live   == {n \in mine : n <= 10 \/ inodes[n].links > 0}
      used   == Cardinality(bits)
  IN [bitmap |-> p.bitmaps + 2 * g, table |-> p.firstTable + g * p.table,
      bits |-> bits, inodes |-> live, used |-> used,
      free |-> Greatest(RealBlocks(p, g), used) - used,
      freeInodes |-> p.inodes - Cardinality(live),
      dirs |-> Cardinality({n \in live : inodes[n].kind = "dir"})]

\* The descriptor and the bitmaps of a group that holds data.
DataGroup(p, inodes, deleted, g) ==
  LET set    == {b \in InGroup(g) : b < p.used}
      padded == set \cup {b \in InGroup(g) : b >= GroupStart(g) + RealBlocks(p, g)}
      mine   == {n \in g * p.inodes + 1 .. (g + 1) * p.inodes : n <= Len(inodes)}
      live   == {n \in mine : n <= 10 \/ inodes[n].links > 0}
      used   == Cardinality(set) - Cardinality(padded \cap Freed(p, deleted, g))
  IN [bitmap |-> p.bitmaps + 2 * g, table |-> p.firstTable + g * p.table,
      bits |-> padded \ Freed(p, deleted, g), inodes |-> live, used |-> used,
      free |-> Greatest(RealBlocks(p, g), used) - used,
      freeInodes |-> p.inodes - Cardinality(live),
      dirs |-> Cardinality({n \in live : inodes[n].kind = "dir"})]

\* The descriptor and the bitmaps of a group beyond the data.
EmptyGroup(p, g) ==
  LET rest == p.blocks % BlocksPerGroup
      have == IF g = p.groups - 1 /\ rest # 0 THEN rest ELSE BlocksPerGroup
      own  == p.table + 2
  IN [bitmap |-> GroupStart(g) + p.table, table |-> GroupStart(g),
      bits |-> {b \in InGroup(g) : b < GroupStart(g) + own \/ b >= GroupStart(g) + have},
      inodes |-> {}, used |-> own,
      free |-> Greatest(have, own) - own,
      freeInodes |-> p.inodes, dirs |-> 0]

Descriptors(p, inodes, deleted) ==
  [g \in 0 .. p.groups - 1 |-> IF g < p.dataGroups THEN DataGroup(p, inodes, deleted, g)
                               ELSE EmptyGroup(p, g)]

\* The counts in the superblock.
SuperBlock(p, groups) ==
  LET used   == SumFunction([g \in DOMAIN groups |-> groups[g].used])
      live   == SumFunction([g \in DOMAIN groups |-> Cardinality(groups[g].inodes)])
      blocks == Greatest(p.blocks, used)
  IN [blocks |-> blocks, free |-> blocks - used,
      inodes |-> p.groups * p.inodes, freeInodes |-> p.groups * p.inodes - live,
      inodesPerGroup |-> p.inodes]

\* The inodes of block k of the inode table, unused ones after the last.
TableBlock(inodes, unused, k) ==
  [j \in 1 .. InodesPerBlock |->
     LET n == k * InodesPerBlock + j IN IF n <= Len(inodes) THEN inodes[n] ELSE unused]

(***************************************************************************)
(* close() after the directories: everything it writes, in the order it    *)
(* does, over what the disk holds already.                                 *)
(***************************************************************************)
Closed(disk, inodes, unused, deleted, written, size) ==
  LET p      == Plan(written, Len(inodes), size)
      groups == Descriptors(p, inodes, deleted)
      tables == [b \in p.firstTable .. p.bitmaps - 1 |->
                   TableBlock(inodes, unused, b - p.firstTable)]
      maps   == [b \in UNION {{groups[g].bitmap, groups[g].bitmap + 1} :
                                g \in DOMAIN groups} |-> "bitmap"]
      head   == [b \in 0 .. p.descriptors |-> IF b = 0 THEN "super" ELSE "groups"]
  IN [plan |-> p, groups |-> groups, super |-> SuperBlock(p, groups),
      disk |-> Over(head, Over(maps, Over(tables, disk)))]
=============================================================================
